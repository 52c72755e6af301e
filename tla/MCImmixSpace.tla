---------------------------- MODULE MCImmixSpace ----------------------------
(***************************************************************************)
(* Instances of ImmixSpace for TLC.  Blocks are interchangeable.           *)
(***************************************************************************)
EXTENDS ImmixSpace, TLC

BlockSymmetry == Permutations(Blocks)
=============================================================================
