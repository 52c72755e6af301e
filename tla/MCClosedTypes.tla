---------------------------- MODULE MCClosedTypes ----------------------------
(***************************************************************************)
(* Instances of ClosedTypes for TLC: sections put together from a few      *)
(* groups.  Types refer to each other by number, so that what a group      *)
(* means depends on its place; those with no meaning there are refused.    *)
(***************************************************************************)
EXTENDS ClosedTypes, SequencesExt

CONSTANT MaxGroups, MaxTypes

I32 == Number("i32")
Const(vt) == Field(vt, FALSE)
Var(vt) == Field(vt, TRUE)

Groups == {
  <<Struct(FALSE, 0, <<Const(I32)>>)>>,
  <<Struct(FALSE, 1, <<Const(I32), Const(RefNull(ANY))>>)>>,
  <<Struct(FALSE, 1, << >>)>>,
  <<Struct(FALSE, 0, <<Var(RefNull(1))>>)>>,
  <<Array(FALSE, 1, Const(RefNull(1)))>>,
  <<Array(FALSE, 0, Const(RefNull(ANY)))>>,
  <<Func(TRUE, 0, <<I32>>, << >>)>>,
  <<Struct(FALSE, 0, <<Const(RefNonNull(2))>>), Struct(FALSE, 0, <<Const(RefNonNull(1))>>)>>,
  <<Struct(FALSE, 0, <<Const(RefNonNull(3))>>), Struct(FALSE, 0, <<Const(RefNonNull(2))>>)>>,
  <<Func(FALSE, 0, << >>, <<RefNull(2)>>), Struct(TRUE, 0, <<Const(RefNull(1))>>)>>,
  <<Func(FALSE, 0, <<I32>>, << >>)>>,
  <<Func(FALSE, 1, <<I32>>, << >>)>>
}

\* A sequence of groups as one sequence of types.
Section(groups) ==
  FlattenSeq([k \in DOMAIN groups |->
    [m \in DOMAIN groups[k] |-> [groups[k][m] EXCEPT !.start = Len(FlattenSeq(SubSeq(groups, 1, k - 1)))]]])
MCSections == {sec \in {Section(gs) : gs \in UNION {[1 .. n -> Groups] : n \in 1 .. MaxGroups}} : Len(sec) <= MaxTypes}
MCHostTypes == {[params |-> <<I32>>, results |-> << >>]}
=============================================================================
