--------------------------- MODULE MCTaggedSlots ---------------------------
(***************************************************************************)
(* Instances of TaggedSlots for TLC.                                       *)
(***************************************************************************)
EXTENDS TaggedSlots, TLC

CONSTANTS i1, i2

MCLocalTypes == <<RefNull("P")>>
MCGlobalType == [g \in Global |-> RefNull("P")]
OwnGlobal == [g \in Global |-> {i1}]
SharedGlobal == [g \in Global |-> {i1, i2}]

\* A struct with a reference and a vector behind it, an array of references and one of
\* functions, an exception that carries a struct.
MCFields == [s \in {"P"} |-> <<AnyRef, Numeric("v128")>>]
MCElem == [a \in {"A", "B"} |-> IF a = "A" THEN AnyRef ELSE RefNull("func")]
MCParams == [t \in {"E"} |-> <<RefNonNull("P")>>]

Objects == Permutations(Obj)
=============================================================================
