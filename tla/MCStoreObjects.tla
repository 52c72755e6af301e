--------------------------- MODULE MCStoreObjects ---------------------------
(***************************************************************************)
(* Instances of StoreObjects for TLC: words of 3 and 4 bits, pages of two  *)
(* bytes, memories of at most two pages and tables of at most three slots. *)
(***************************************************************************)
EXTENDS StoreObjects

CONSTANT obj

Segment(len, cells) == [len |-> len, cells |-> cells]
MCDataSegs == <<Segment(2, [k \in 0 .. 1 |-> k])>>
MCElemSegs == <<Segment(2, [k \in 0 .. 1 |-> IF k = 0 THEN obj ELSE Null])>>

Object(kind, min, max, is64) ==
  [kind |-> kind, min |-> min, has_max |-> max # 0, max |-> max, is64 |-> is64, fill |-> Null]
Memory(min, max, is64) == Object("memory", min, max, is64)
Table(min, max, is64) == Object("table", min, max, is64)

\* One memory of each address type, two that copy between each other; the same for
\* tables.  A limit of 0 is no limit; 3 pages and 5 slots are past the engine's limits.
MCStores == {
  <<Memory(1, 0, TRUE)>>,
  <<Memory(0, 3, FALSE), Memory(3, 0, FALSE)>>,
  <<Memory(1, 1, FALSE), Memory(0, 1, TRUE)>>,
  <<Table(1, 0, TRUE)>>,
  <<Table(0, 5, FALSE), Table(5, 5, FALSE)>>,
  <<Table(1, 2, FALSE), Table(0, 2, TRUE)>>}
=============================================================================
