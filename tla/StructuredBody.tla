--------------------------- MODULE StructuredBody ---------------------------
(***************************************************************************)
(* What running a body means: WebAssembly's structured control, with a     *)
(* stack of labels and nothing else.  A branch names a label by its depth, *)
(* cuts the operand stack back to the label's height and carries the       *)
(* label's operands; a throw cuts the labels back to the innermost         *)
(* try_table with a matching clause and branches from outside it.  Module  *)
(* SideTable, which has no labels, implements this one.                    *)
(*                                                                         *)
(* Data is abstract: a condition or an index is any value, so a condition  *)
(* is a choice.                                                            *)
(***************************************************************************)
EXTENDS BodyCode

VARIABLES
  code,     \* the body; empty before one is loaded
  pc,       \* the next instruction
  stack,    \* operands
  labels,   \* the constructs around pc, outermost first: [at, height]
  locals,
  outcome   \* [kind, vals]: "none" while running

avars == <<code, pc, stack, labels, locals, outcome>>

Outcome(k, vs) == [kind |-> k, vals |-> vs]

Init ==
  /\ code = <<>>
  /\ pc = 1
  /\ stack = <<>>
  /\ labels = <<>>
  /\ locals = FirstLocals
  /\ outcome = Outcome("none", <<>>)

Load ==
  /\ code = <<>>
  /\ code' # <<>>
  /\ labels' = <<[at |-> 0, height |-> 0]>>
  /\ UNCHANGED <<pc, stack, locals, outcome>>

At(op) ==
  /\ outcome.kind = "none"
  /\ pc <= Len(code)
  /\ code[pc].op = op

Step == pc' = pc + 1 /\ UNCHANGED <<code, outcome>>
Pushed(v) == Append(stack, v)
Below(n) == FirstN(stack, Len(stack) - n)

Const ==
  /\ At("const")
  /\ stack' = Pushed(Value(code[pc].type, pc))
  /\ Step /\ UNCHANGED <<labels, locals>>
Drop ==
  /\ At("drop")
  /\ stack' = Below(1)
  /\ Step /\ UNCHANGED <<labels, locals>>
LocalGet ==
  /\ At("local_get")
  /\ stack' = Pushed(locals[code[pc].local])
  /\ Step /\ UNCHANGED <<labels, locals>>
LocalSet ==
  /\ At("local_set")
  /\ locals' = [locals EXCEPT ![code[pc].local] = stack[Len(stack)]]
  /\ stack' = Below(1)
  /\ Step /\ UNCHANGED labels

\* The label of the construct at pc over operands s, its parameters on top.
Entered(s) == Append(labels, [at |-> pc, height |-> Len(s) - Len(code[pc].bt.in)])

EnterBlock ==
  /\ At("block") \/ At("loop") \/ At("try_table")
  /\ labels' = Entered(stack)
  /\ Step /\ UNCHANGED <<stack, locals>>
If ==
  /\ At("if")
  /\ stack' = Below(1)
  /\ \/ labels' = Entered(stack') /\ pc' = pc + 1
     \/ \E e \in ElsesOf(code, pc) : labels' = Entered(stack') /\ pc' = e + 1
     \/ /\ ElsesOf(code, pc) = {}
        /\ pc' = EndOf(code, pc) + 1
        /\ UNCHANGED labels
  /\ UNCHANGED <<code, locals, outcome>>

\* The end of a then-arm that has an else, and the end of any construct.
LeaveThen ==
  /\ At("else")
  /\ pc' = EndOf(code, labels[Len(labels)].at) + 1
  /\ labels' = FirstN(labels, Len(labels) - 1)
  /\ UNCHANGED <<code, stack, locals, outcome>>
End ==
  /\ At("end")
  /\ labels' = FirstN(labels, Len(labels) - 1)
  /\ Step /\ UNCHANGED <<stack, locals>>

\* Branch to label number l of ls with operands s.
BranchIn(ls, l, s) ==
  LET L == ls[Len(ls) - l] IN
  /\ pc' = TargetOf(code, L.at)
  /\ stack' = FirstN(s, L.height) \o LastN(s, ArityOf(code, L.at))
  /\ labels' = FirstN(ls, IF IsLoop(code, L.at) THEN Len(ls) - l ELSE Len(ls) - l - 1)
  /\ UNCHANGED <<code, locals, outcome>>

Br == At("br") /\ BranchIn(labels, code[pc].label, stack)
BrIf ==
  /\ At("br_if")
  /\ \/ BranchIn(labels, code[pc].label, Below(1))
     \/ stack' = Below(1) /\ Step /\ UNCHANGED <<labels, locals>>
BrTable ==
  /\ At("br_table")
  /\ \E k \in DOMAIN code[pc].labels : BranchIn(labels, code[pc].labels[k], Below(1))
Return == At("return") /\ BranchIn(labels, Len(labels) - 1, stack)

Trap ==
  /\ At("unreachable")
  /\ outcome' = Outcome("trap", <<>>)
  /\ stack' = <<>> /\ labels' = <<>>
  /\ UNCHANGED <<code, pc, locals>>

\* A clause catches its tag, or everything; what it carries to its label.
Catches(c, tag) == c.kind \in {"catch_all", "catch_all_ref"} \/ c.tag = tag
Carried(c, fields, exn) ==
  (IF c.kind \in {"catch", "catch_ref"} THEN fields ELSE <<>>)
    \o (IF c.kind \in {"catch_ref", "catch_all_ref"} THEN <<exn>> ELSE <<>>)

\* Positions in `labels` of try_tables with a clause for the tag.
Catchers(tag) ==
  {j \in DOMAIN labels :
     /\ labels[j].at # 0
     /\ code[labels[j].at].op = "try_table"
     /\ \E c \in DOMAIN code[labels[j].at].catches : Catches(code[labels[j].at].catches[c], tag)}

\* The innermost try_table decides, by its first matching clause, and the branch
\* is taken from outside it.
Throw ==
  /\ At("throw")
  /\ LET tag == code[pc].tag
         fields == LastN(stack, Len(TagType[tag]))
         exn == Value(ExnRef, pc)
     IN \/ \E j \in Catchers(tag) :
             /\ \A i \in Catchers(tag) : i <= j
             /\ LET cs == code[labels[j].at].catches
                    c == CHOOSE c \in DOMAIN cs :
                           Catches(cs[c], tag) /\ \A d \in 1 .. (c - 1) : ~Catches(cs[d], tag)
                IN BranchIn(FirstN(labels, j - 1), cs[c].label,
                            FirstN(stack, labels[j].height) \o Carried(cs[c], fields, exn))
        \/ /\ Catchers(tag) = {}
           /\ outcome' = Outcome("exception", <<exn>>)
           /\ pc' = Len(code) + 1
           /\ stack' = <<>> /\ labels' = <<>>
           /\ UNCHANGED <<code, locals>>

\* Behind the last `end` the operands are the results.
Finish ==
  /\ outcome.kind = "none"
  /\ code # <<>> /\ pc > Len(code)
  /\ outcome' = Outcome("return", stack)
  /\ stack' = <<>>
  /\ UNCHANGED <<code, pc, labels, locals>>

Next ==
  \/ Load \/ Const \/ Drop \/ LocalGet \/ LocalSet
  \/ EnterBlock \/ If \/ LeaveThen \/ End
  \/ Br \/ BrIf \/ BrTable \/ Return \/ Trap \/ Throw \/ Finish

Spec == Init /\ [][Next]_avars
=============================================================================
