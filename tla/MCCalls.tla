------------------------------ MODULE MCCalls ------------------------------
(***************************************************************************)
(* Small programs for Calls.  The places of the instructions are in the    *)
(* margin; a construct's end is the place after its end opcode.            *)
(***************************************************************************)
EXTENDS Calls

I(op) == [op |-> op]
Block(end) == [op |-> "block", end |-> end]
Loop(end)  == [op |-> "loop", end |-> end]
Try(end, tags, label) == [op |-> "try", end |-> end, catch |-> tags, label |-> label]

\* Nested try_tables whose catch labels are blocks around them, the inner one
\* entered with an operand left beneath it.
NestedTries == <<
  I("push"),           \* 1
  Block(15),           \* 2
  Try(14, {"a"}, 2),   \* 3
  I("push"),           \* 4
  Block(11),           \* 5
  Try(9, {"b"}, 5),    \* 6
  I("any"),            \* 7
  I("end"),            \* 8
  I("any"),            \* 9
  I("end"),            \* 10
  I("drop"),           \* 11
  I("any"),            \* 12
  I("end"),            \* 13
  I("end"),            \* 14
  I("any") >>          \* 15

\* A loop with an operand left beneath it.
Leaf == <<
  I("push"),           \* 1
  I("push"),           \* 2
  Loop(6),             \* 3
  I("any"),            \* 4
  I("end"),            \* 5
  I("drop") >>         \* 6

\* A loop around a try_table, whose body may branch back to the loop.
TryInLoop == <<
  I("push"),           \* 1
  Block(10),           \* 2
  Loop(9),             \* 3
  I("any"),            \* 4
  Try(8, {"a"}, 2),    \* 5
  I("any"),            \* 6
  I("end"),            \* 7
  I("end"),            \* 8
  I("end") >>          \* 9

Quiet == << I("push"), I("drop") >>
Busy  == << I("push"), I("any"), I("drop") >>

WasmFunc(arity, locals, inst, body) ==
  [host |-> FALSE, arity |-> arity, locals |-> locals, inst |-> inst, body |-> body]
HostFunc(arity) ==
  [host |-> TRUE, arity |-> arity, locals |-> arity, inst |-> "none", body |-> << >>]

\* Two instances, a host function, and a start function that does nothing.
Mixed == [f |-> WasmFunc(1, 2, "A", NestedTries), g |-> WasmFunc(1, 1, "B", Leaf),
          s |-> WasmFunc(0, 0, "B", Quiet), h |-> HostFunc(1)]

\* A loop that leaves its try_table by a backward branch.
Looping == [f |-> WasmFunc(1, 1, "A", TryInLoop)]

\* A start function that may throw.
Starting == [s |-> WasmFunc(0, 0, "A", Busy)]

\* A host function that calls back.
Reentrant == [f |-> WasmFunc(1, 2, "A", Busy), h |-> HostFunc(1)]
=============================================================================
