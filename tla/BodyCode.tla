------------------------------ MODULE BodyCode ------------------------------
(***************************************************************************)
(* Function bodies as sequences of instructions, and their block           *)
(* structure.  An instruction is a record with its opcode in `op` and its  *)
(* immediates in other fields; a place in the code is an index, standing   *)
(* for the byte offset at which the instruction begins.  A block type is   *)
(* a record [in, out] of type sequences.                                   *)
(***************************************************************************)
EXTENDS Integers, Sequences, FiniteSets

CONSTANTS
  Results,      \* the result types of the function
  LocalType,    \* types of the locals, parameters first
  NParams,      \* how many of them are parameters
  Defaultable,  \* the types that have a default value (vt_defaultable)
  TagType,      \* the field types of each exception tag
  ExnRef        \* the type of a caught exception object

FirstN(s, n) == SubSeq(s, 1, n)
LastN(s, n) == SubSeq(s, Len(s) - n + 1, Len(s))

\* A value on the operand stack or in a local: its type, and the place of the
\* instruction that produced it (0: passed in or default).
Value(t, at) == [type |-> t, from |-> at]

\* A local that was never written and has no default.
NeverSet(t) == [type |-> t, from |-> -1]
FirstLocals == [x \in DOMAIN LocalType |->
                  IF x <= NParams \/ LocalType[x] \in Defaultable
                    THEN Value(LocalType[x], 0) ELSE NeverSet(LocalType[x])]

Opens(i) == i.op \in {"block", "loop", "if", "try_table"}

\* Constructs opened minus constructs closed by the instructions from i to e.
OpenAt(code, i, e) ==
  Cardinality({k \in i .. e : Opens(code[k])}) -
  Cardinality({k \in i .. e : code[k].op = "end"})

\* The `end` of the construct at i; the function itself is construct 0.
EndOf(code, i) ==
  IF i = 0 THEN Len(code)
  ELSE CHOOSE e \in i .. Len(code) :
         /\ OpenAt(code, i, e) = 0
         /\ \A d \in i .. (e - 1) : OpenAt(code, i, d) > 0

\* The `else` of the `if` at i, if it has one.
ElsesOf(code, i) == {e \in i .. EndOf(code, i) : code[e].op = "else" /\ OpenAt(code, i, e) = 1}

\* What a branch to construct i carries, and where it goes.
IsLoop(code, i) == i # 0 /\ code[i].op = "loop"
ArityOf(code, i) ==
  IF i = 0 THEN Len(Results)
  ELSE IF IsLoop(code, i) THEN Len(code[i].bt.in) ELSE Len(code[i].bt.out)
TargetOf(code, i) == IF IsLoop(code, i) THEN i + 1 ELSE EndOf(code, i) + 1
=============================================================================
