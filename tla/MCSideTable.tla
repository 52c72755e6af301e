---------------------------- MODULE MCSideTable ----------------------------
EXTENDS SideTable

I32 == "i32"
Ref == "ref"          \* non-null, without a default
RefNull == "refnull"
MCSubType == {<<t, t>> : t \in {I32, Ref, RefNull, "exn"}} \cup {<<Ref, RefNull>>}
MCResults == <<I32>>
MCLocalType == <<Ref>>
MCTagType == [t |-> <<I32>>, u |-> <<I32>>]

Bt(in, out) == [in |-> in, out |-> out]
Op(o) == [op |-> o]
Const(t) == [op |-> "const", type |-> t]
Block(o, in, out) == [op |-> o, bt |-> Bt(in, out)]
Branch(o, l) == [op |-> o, label |-> l]
Table(ls) == [op |-> "br_table", labels |-> ls]
Try(in, out, c) == [op |-> "try_table", bt |-> Bt(in, out), catches |-> c]
Clause(k, l) == [kind |-> k, tag |-> "t", label |-> l]

\* Every instruction in one body: branches forward and back, conditionals with
\* and without else, parameters and results, exceptions, a local without a default.
MixedInstr ==
  {Const(I32), Const(Ref), Op("drop"), Op("else"), Op("end"), Op("unreachable"), Op("return"),
   [op |-> "throw", tag |-> "t"],
   [op |-> "local_set", local |-> 1], [op |-> "local_get", local |-> 1],
   Block("block", <<>>, <<I32>>), Block("block", <<>>, <<>>), Block("block", <<>>, <<"exn">>),
   Block("loop", <<I32>>, <<I32>>),
   Block("if", <<>>, <<I32>>), Block("if", <<>>, <<>>), Block("if", <<I32>>, <<I32>>),
   Try(<<I32>>, <<I32>>, <<Clause("catch", 0)>>),
   Try(<<>>, <<>>, <<[Clause("catch", 1) EXCEPT !.tag = "u"], Clause("catch_all", 0)>>),
   Try(<<>>, <<"exn">>, <<Clause("catch_all_ref", 0)>>),
   Branch("br", 0), Branch("br", 1), Branch("br_if", 0), Branch("br_if", 1),
   Table(<<0, 1>>)}

\* An if whose parameter and result differ in type but not in number.
NoElseInstr ==
  {Const(I32), Const(Ref), Op("drop"), Op("else"), Op("end"), Block("if", <<Ref>>, <<I32>>)}
=============================================================================
