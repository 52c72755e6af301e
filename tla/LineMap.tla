------------------------------ MODULE LineMap ------------------------------
(***************************************************************************)
(* The geometry of an Immix block and its line bitmap                      *)
(* (wasm/src/immix/immix_line_map.c, immix_block.c).                       *)
(*                                                                         *)
(* Lines and words are numbered from the start of the block's data area:   *)
(* line 0 is IMX_DATA_START_LINE.  The metadata lines below it are never   *)
(* marked, so they appear here only as "the line before line 0 is free".   *)
(* A word is IMX_OBJECT_ALIGN bytes; every object size of the runtime is a *)
(* multiple of it (a 24-byte header, 8- or 16-byte cells), so align_up     *)
(* never moves a cursor and is not represented.                            *)
(***************************************************************************)
EXTENDS Integers, FiniteSets

CONSTANTS
  DataLines,   \* IMX_DATA_LINES: data lines of a block
  LineWords    \* IMX_LINE_SIZE / IMX_OBJECT_ALIGN: words of a line

ASSUME GeometryAssumption ==
  /\ DataLines \in Nat \ {0}
  /\ LineWords \in Nat \ {0}

Line      == 0 .. DataLines - 1
DataWords == DataLines * LineWords

\* imx_line_of
LineOf(w) == w \div LineWords

\* Mutant of Usable: the conservative spill rule is forgotten.
UsableUnlessMarked(M, s) == s \notin M

\* A run of free lines may start at s: s is free and so is the line before
\* it.  The line after a marked run is skipped, because a small object that
\* starts in the last marked line may spill into it.
Usable(M, s) == s \notin M /\ s - 1 \notin M

\* imx_lb_next_hole(M, from, DataLines) returns 1 with the hole [s, e).
IsNextHole(M, from, s, e) ==
  /\ s \in from .. DataLines - 1
  /\ Usable(M, s)
  /\ \A i \in from .. s - 1 : ~ Usable(M, i)
  /\ e \in s + 1 .. DataLines
  /\ \A i \in s .. e - 1 : i \notin M
  /\ e = DataLines \/ e \in M

\* imx_lb_next_hole(M, from, DataLines) returns 0.
NoNextHole(M, from) == \A s \in from .. DataLines - 1 : ~ Usable(M, s)

\* imx_lb_count_holes over the data lines; a virtual marked line precedes
\* the range, so a leading run of free lines counts.
CountHoles(M) ==
  Cardinality({i \in Line : i \notin M /\ (i = 0 \/ i - 1 \in M)})

\* The lines imx_block_mark_object sets for an object of len words at word
\* at: an object no longer than a line marks only the line it starts in.
ObjectLines(at, len) ==
  IF len > LineWords THEN LineOf(at) .. LineOf(at + len - 1) ELSE {LineOf(at)}
=============================================================================
