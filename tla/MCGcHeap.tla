------------------------------ MODULE MCGcHeap ------------------------------
(***************************************************************************)
(* Instances of GcHeap for TLC.                                            *)
(***************************************************************************)
EXTENDS GcHeap, TLC

HeapSymmetry == Permutations(Blocks) \cup Permutations(Id) \cup Permutations(Root)
=============================================================================
