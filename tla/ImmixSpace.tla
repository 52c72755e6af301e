----------------------------- MODULE ImmixSpace -----------------------------
(***************************************************************************)
(* The Immix space (wasm/src/immix/immix_space.c, immix_block.c,           *)
(* immix_block_allocator.c): small objects bump through the holes of       *)
(* partly used blocks, medium objects through whole free blocks, and a     *)
(* collection marks objects in place or copies them out of fragmented      *)
(* blocks, then rebuilds the block lists from the line marks.              *)
(*                                                                         *)
(* The client is the collector shell of jav_gc.c, left open here: between  *)
(* BeginCollection and EndCollection it marks any set of objects, in any   *)
(* order.  GcHeap says which objects it really marks.                      *)
(*                                                                         *)
(* The block vectors are used as stacks and scanned in acquisition order;  *)
(* here they are sets, and any member may be the one popped.               *)
(***************************************************************************)
EXTENDS LineMap, FiniteSetsExt

CONSTANTS
  Blocks,        \* every block the OS can give out (aligned_alloc fails after)
  Sizes,         \* object sizes requested, in words
  HeadroomDiv,   \* gc_heap_t.evac_headroom_div
  None           \* a NULL block

ASSUME SpaceAssumption ==
  /\ IsFiniteSet(Blocks)
  /\ None \notin Blocks
  /\ Sizes \subseteq 1 .. DataWords
  /\ HeadroomDiv \in Nat \ {0}

VARIABLES
  all,           \* all_blocks: blocks acquired so far
  lineMarks,     \* line_marks of each block
  defragMarked,  \* marked lines at the last sweep
  defragHoles,   \* holes at the last sweep
  candidates,    \* blocks whose defrag_candidate flag is set
  free, recyclable, unavailable, reserve,   \* the block lists
  small,         \* small_block, small_cursor, small_limit, small_next_line
  medium,        \* medium_block, medium_cursor, medium_limit
  evac,          \* evacuation_active, the current target and its cursor
  targets,       \* evacuation_targets
  untouched,     \* the targets evac_target_idx has not reached yet
  objs,          \* object_starts: the extents of the objects not yet reclaimed
  live,          \* the extents marked by the collection in progress
  phase          \* "mutate", or "mark" between clear_marks and reclaim

lists     == <<free, recyclable, unavailable, reserve>>
stats     == <<defragMarked, defragHoles>>
evacState == <<evac, targets, untouched, candidates>>
vars == <<all, lineMarks, stats, lists, small, medium, evacState, objs, live, phase>>

\* Where n words may start.
Places(n) == [blk : Blocks, at : 0 .. DataWords - 1, len : {n}]

NoSmall  == [blk |-> None, cur |-> 0, lim |-> 0, next |-> 0]
NoMedium == [blk |-> None, cur |-> 0, lim |-> 0]
NoEvac   == [active |-> FALSE, blk |-> None, cur |-> 0]

\* evac_headroom (jav_gc.c): a fortieth of the blocks, at least one.
Headroom(A) == IF Cardinality(A) \div HeadroomDiv < 1
               THEN 1 ELSE Cardinality(A) \div HeadroomDiv

\* k blocks of S, or all of S when it has fewer.
Pops(S, k) == {R \in SUBSET S : Cardinality(R) = IF k < Cardinality(S)
                                                 THEN k ELSE Cardinality(S)}

Init ==
  /\ all = {} /\ lineMarks = [b \in Blocks |-> {}]
  /\ defragMarked = [b \in Blocks |-> 0] /\ defragHoles = [b \in Blocks |-> 0]
  /\ free = {} /\ recyclable = {} /\ unavailable = {} /\ reserve = {}
  /\ small = NoSmall /\ medium = NoMedium
  /\ evac = NoEvac /\ targets = {} /\ untouched = {} /\ candidates = {}
  /\ objs = {} /\ live = {} /\ phase = "mutate"
-----------------------------------------------------------------------------
(***************************************************************************)
(* Allocation.  p is the extent returned to the caller.                    *)
(***************************************************************************)

\* Mutant of TakeFreeBlock: the block taken stays on the free list.
TakeFreeBlockPeeks(b) ==
  IF free # {}
  THEN b \in free /\ UNCHANGED <<free, all>>
  ELSE b \in Blocks \ all /\ all' = all \cup {b} /\ free' = free

\* take_free_block: the free list first, then a block from the OS.
TakeFreeBlock(b) ==
  IF free # {}
  THEN b \in free /\ free' = free \ {b} /\ all' = all
  ELSE b \in Blocks \ all /\ all' = all \cup {b} /\ free' = free

NoFreeBlock == free = {} /\ all = Blocks

\* Mutants of SmallFits and MediumFits: only the first word is tested.
SmallStarts(n)  == small.cur < small.lim
MediumStarts(n) == medium.cur < medium.lim

SmallFits(n)  == small.cur + n <= small.lim
MediumFits(n) == medium.cur + n <= medium.lim

\* The current block has no further hole, so refill_small must take another.
SmallBlockDone ==
  small.blk # None => NoNextHole(lineMarks[small.blk], small.next)

HandOut(p, n) ==
  /\ p.len = n
  /\ objs' = objs \cup {p}
  /\ UNCHANGED <<lineMarks, stats, evacState, live, phase>>

\* The small allocator continues in the hole [s, e) of block p.blk, with p
\* at its start.
BumpInHole(p, n, s, e) ==
  /\ p.at = s * LineWords
  /\ small' = [blk |-> p.blk, cur |-> p.at + n, lim |-> e * LineWords, next |-> e]

\* alloc_small, fast path: bump in the current hole.
AllocSmallBump(n, p) ==
  /\ phase = "mutate" /\ n <= LineWords /\ SmallFits(n)
  /\ p.blk = small.blk /\ p.at = small.cur
  /\ small' = [small EXCEPT !.cur = @ + n]
  /\ HandOut(p, n)
  /\ UNCHANGED <<all, lists, medium>>

\* refill_small: the next hole of the current block.
AllocSmallNextHole(n, p) ==
  /\ phase = "mutate" /\ n <= LineWords /\ ~ SmallFits(n)
  /\ small.blk # None /\ p.blk = small.blk
  /\ \E s, e \in 0 .. DataLines :
       /\ IsNextHole(lineMarks[small.blk], small.next, s, e)
       /\ BumpInHole(p, n, s, e)
  /\ HandOut(p, n)
  /\ UNCHANGED <<all, lists, medium>>

\* refill_small's loop: the recyclable blocks in Skipped were popped and had
\* no usable hole; the block of p is the first popped with one.
AllocSmallNextBlock(n, p) ==
  /\ phase = "mutate" /\ n <= LineWords /\ ~ SmallFits(n) /\ SmallBlockDone
  /\ \E Skipped \in SUBSET recyclable :
       /\ \A b \in Skipped : NoNextHole(lineMarks[b], 0)
       /\ \/ /\ p.blk \in recyclable \ Skipped
             /\ recyclable' = (recyclable \ Skipped) \ {p.blk}
             /\ UNCHANGED <<all, free>>
          \/ /\ Skipped = recyclable
             /\ TakeFreeBlock(p.blk)
             /\ recyclable' = {}
  /\ \E s, e \in 0 .. DataLines :
       /\ IsNextHole(lineMarks[p.blk], 0, s, e)
       /\ BumpInHole(p, n, s, e)
  /\ HandOut(p, n)
  /\ UNCHANGED <<unavailable, reserve, medium>>

\* alloc_medium: bump in the current block, or take a whole free block.
AllocMedium(n, p) ==
  /\ phase = "mutate" /\ n > LineWords
  /\ \/ /\ MediumFits(n)
        /\ p.blk = medium.blk /\ p.at = medium.cur
        /\ medium' = [medium EXCEPT !.cur = @ + n]
        /\ UNCHANGED <<all, free>>
     \/ /\ ~ MediumFits(n)
        /\ TakeFreeBlock(p.blk) /\ p.at = 0
        /\ medium' = [blk |-> p.blk, cur |-> n, lim |-> DataWords]
  /\ HandOut(p, n)
  /\ UNCHANGED <<recyclable, unavailable, reserve, small>>

\* imx_space_allocate returns p.
Allocate(n, p) ==
  \/ AllocSmallBump(n, p)
  \/ AllocSmallNextHole(n, p)
  \/ AllocSmallNextBlock(n, p)
  \/ AllocMedium(n, p)

\* imx_space_allocate returns NULL.  A small request has by then popped every
\* recyclable block, and the last one popped stays current with no hole.
AllocateFails(n) ==
  /\ phase = "mutate" /\ NoFreeBlock
  /\ \/ /\ n > LineWords /\ ~ MediumFits(n)
        /\ UNCHANGED <<recyclable, small>>
     \/ /\ n <= LineWords /\ ~ SmallFits(n) /\ SmallBlockDone
        /\ \A b \in recyclable : NoNextHole(lineMarks[b], 0)
        /\ recyclable' = {}
        /\ IF recyclable = {} THEN small' = small
           ELSE \E b \in recyclable : small' = [NoSmall EXCEPT !.blk = b]
  /\ UNCHANGED <<all, lineMarks, stats, free, unavailable, reserve, medium,
                 evacState, objs, live, phase>>
-----------------------------------------------------------------------------
(***************************************************************************)
(* Collection.                                                             *)
(***************************************************************************)

\* Mutant of Fragmented: an empty block, being one big hole, is considered.
FragmentedOrEmpty == {b \in all : defragMarked[b] < DataLines /\ defragHoles[b] # 0}

\* The blocks select_candidates considers: neither free nor full at the last
\* sweep, and with a hole.
Fragmented == {b \in all : /\ defragMarked[b] \in 1 .. DataLines - 1
                           /\ defragHoles[b] # 0}

\* Greater hole count first, then fewer marked lines: order(b) is a rank
\* that is consistent with it.  Ties are scanned in acquisition order.
RankBy(order) ==
  \A a, b \in Fragmented :
    (\/ defragHoles[a] > defragHoles[b]
     \/ defragHoles[a] = defragHoles[b] /\ defragMarked[a] < defragMarked[b])
    => order[a] < order[b]

\* select_candidates: in rank order, a block is chosen when its marked lines
\* still fit in the lines of the ntargets target blocks.  Costlier blocks of
\* the bin that stopped fitting do not fit either, so the early break of the
\* inner loop chooses nothing else.
Selected(C, ntargets) ==
  \E order \in Bijection(Fragmented, 1 .. Cardinality(Fragmented)) :
    /\ RankBy(order)
    /\ \A b \in Fragmented :
         b \in C <=> MapThenSumSet(LAMBDA a : defragMarked[a],
                                   {a \in C : order[a] < order[b]})
                     + defragMarked[b] <= ntargets * DataLines

\* imx_space_clear_marks, then imx_space_begin_evacuation(evac_headroom): the
\* reserve and whatever is left on the free list become targets.
BeginCollection ==
  /\ phase = "mutate"
  /\ phase' = "mark"
  /\ lineMarks' = [b \in Blocks |-> {}]
  /\ \E R \in Pops(reserve, Headroom(all)) :
       /\ targets' = R \cup free
       /\ reserve' = reserve \ R
  /\ free' = {}
  /\ IF targets' = {} THEN UNCHANGED candidates
     ELSE /\ candidates' \in SUBSET Fragmented
          /\ Selected(candidates', Cardinality(targets'))
  /\ IF targets' # {} /\ candidates' # {}
     THEN \E t \in targets' :
            /\ evac' = [active |-> TRUE, blk |-> t, cur |-> 0]
            /\ untouched' = targets' \ {t}
     ELSE evac' = NoEvac /\ untouched' = targets'
  /\ UNCHANGED <<all, stats, recyclable, unavailable, small, medium, objs, live>>

IsCandidate(b) == evac.active /\ b \in candidates

\* Mutant of MarkLines: a medium object marks only the line it starts in.
MarkFirstLine(p) ==
  lineMarks' = [lineMarks EXCEPT ![p.blk] = @ \cup {LineOf(p.at)}]

\* imx_block_mark_object's line marks.
MarkLines(p) ==
  lineMarks' = [lineMarks EXCEPT ![p.blk] = @ \cup ObjectLines(p.at, p.len)]

\* imx_space_allocate_evacuation(n) would return NULL.
NoEvacuationSpace(n) == evac.cur + n > DataWords /\ untouched = {}

\* gc_mark1 on an object that is not moved: its block is no candidate, or
\* the targets have run out.
MarkInPlace(o) ==
  /\ phase = "mark" /\ o \in objs \ live
  /\ IsCandidate(o.blk) => NoEvacuationSpace(o.len)
  /\ MarkLines(o)
  /\ live' = live \cup {o}
  /\ UNCHANGED <<all, stats, lists, small, medium, evacState, objs, phase>>

\* gc_mark1 on an object of a candidate block: it is copied to p in a target
\* block, its old start is cleared and p is marked.
Evacuate(o, p) ==
  /\ phase = "mark" /\ o \in objs \ live
  /\ IsCandidate(o.blk)
  /\ p.len = o.len
  /\ \/ /\ evac.cur + o.len <= DataWords
        /\ p.blk = evac.blk /\ p.at = evac.cur
        /\ untouched' = untouched
     \/ /\ evac.cur + o.len > DataWords
        /\ p.blk \in untouched /\ p.at = 0
        /\ untouched' = untouched \ {p.blk}
  /\ evac' = [evac EXCEPT !.blk = p.blk, !.cur = p.at + p.len]
  /\ MarkLines(p)
  /\ objs' = (objs \ {o}) \cup {p}
  /\ live' = live \cup {p}
  /\ UNCHANGED <<all, stats, lists, small, medium, targets, candidates, phase>>

\* imx_space_end_evacuation, then imx_space_reclaim: every block is classified
\* from its marks, the lists are rebuilt, the headroom is set aside and the
\* cursors are dropped.  The targets end_evacuation hands back are overwritten
\* by the rebuild.
EndCollection ==
  /\ phase = "mark"
  /\ phase' = "mutate"
  /\ defragMarked' = [b \in Blocks |-> IF b \in all THEN Cardinality(lineMarks[b])
                                       ELSE defragMarked[b]]
  /\ defragHoles' = [b \in Blocks |-> IF b \in all THEN CountHoles(lineMarks[b])
                                      ELSE defragHoles[b]]
  /\ recyclable' = {b \in all : lineMarks[b] # {} /\ lineMarks[b] # Line}
  /\ unavailable' = {b \in all : lineMarks[b] = Line}
  /\ LET empty == {b \in all : lineMarks[b] = {}} IN
       \E R \in Pops(empty, Headroom(all)) : reserve' = R /\ free' = empty \ R
  /\ small' = NoSmall /\ medium' = NoMedium
  /\ evac' = NoEvac /\ targets' = {} /\ untouched' = {}
  /\ objs' = live /\ live' = {}
  /\ UNCHANGED <<all, lineMarks, candidates>>
-----------------------------------------------------------------------------
Next ==
  \/ \E n \in Sizes : (\E p \in Places(n) : Allocate(n, p)) \/ AllocateFails(n)
  \/ BeginCollection
  \/ \E o \in objs : MarkInPlace(o) \/ \E p \in Places(o.len) : Evacuate(o, p)
  \/ EndCollection

Spec == Init /\ [][Next]_vars
-----------------------------------------------------------------------------
Words(p) == p.at .. p.at + p.len - 1

Extent == {p \in [blk : Blocks, at : 0 .. DataWords - 1, len : 1 .. DataWords] :
             p.at + p.len <= DataWords}

\* Every variable has its type; in particular every object lies inside its
\* block's data area and no cursor leaves it.
TypeOK ==
  /\ all \subseteq Blocks
  /\ lineMarks \in [Blocks -> SUBSET Line]
  /\ defragMarked \in [Blocks -> 0 .. DataLines]
  /\ defragHoles \in [Blocks -> 0 .. DataLines]
  /\ candidates \subseteq all
  /\ free \subseteq all /\ recyclable \subseteq all
  /\ unavailable \subseteq all /\ reserve \subseteq all
  /\ small \in [blk : Blocks \cup {None}, cur : 0 .. DataWords,
                lim : 0 .. DataWords, next : 0 .. DataLines]
  /\ medium \in [blk : Blocks \cup {None}, cur : 0 .. DataWords, lim : 0 .. DataWords]
  /\ evac \in [active : BOOLEAN, blk : Blocks \cup {None}, cur : 0 .. DataWords]
  /\ targets \subseteq all /\ untouched \subseteq targets
  /\ objs \subseteq Extent /\ live \subseteq objs
  /\ phase \in {"mutate", "mark"}

\* No word belongs to two objects: the allocator never hands out storage of
\* an object that may still be reached, although a small object that runs
\* over a line boundary leaves its second line unmarked
\* (imx_block_mark_object, imx_lb_next_hole's spill rule).
NoOverlap == \A p, q \in objs :
               p # q /\ p.blk = q.blk => Words(p) \cap Words(q) = {}

\* A block the space calls empty (not acquired yet, on the free list, in the
\* headroom, a target the collector has not reached) really holds no object.
EmptyBlocksHoldNothing ==
  \A o \in objs : o.blk \in all \ (free \cup reserve \cup untouched)

\* The collector never evacuates out of a block it evacuates into, although
\* candidates are chosen from the statistics of the previous sweep and the
\* mutator has allocated since (imx_space_is_evacuation_candidate's comment).
TargetsAreNotCandidates == evac.active => targets \cap candidates = {}
-----------------------------------------------------------------------------
(***************************************************************************)
(* Why storage is never handed out twice: the inductive invariant.         *)
(***************************************************************************)

\* The lines of o, as imx_block_mark_object marks them, are marked.
HasMarkedLines(o) == ObjectLines(o.at, o.len) \subseteq lineMarks[o.blk]

\* No block is on two lists, and neither the allocators' blocks nor the
\* targets are on one.
BlocksApart ==
  /\ free \cap recyclable = {} /\ free \cap reserve = {} /\ recyclable \cap reserve = {}
  /\ {small.blk, medium.blk} \subseteq
       {None} \cup (all \ (free \cup recyclable \cup reserve))
  /\ targets \cap (free \cup reserve) = {}
  /\ small.blk # None => small.blk # medium.blk

\* While the program runs, what the allocators have ahead of them is unused:
\* the rest of the current hole, the lines from the next one on unless
\* marked, the rest of the medium block, the unmarked lines of the
\* recyclable blocks.
AllocatorsClear ==
  phase = "mutate" =>
    /\ small.lim <= small.next * LineWords
    /\ medium.blk = None => medium.lim = 0
    /\ small.blk = None => small.lim = 0
    /\ \A o \in objs :
         /\ o.blk = small.blk =>
              /\ o.at + o.len <= small.cur \/ o.at >= small.lim
              /\ HasMarkedLines(o) \/ o.at + o.len <= small.next * LineWords
         /\ o.blk = medium.blk => o.at + o.len <= medium.cur
         /\ o.blk \in recyclable => HasMarkedLines(o)

\* While a collection runs, marked objects have marked lines, and what the
\* evacuation cursor has ahead of it is unused.
CollectorClear ==
  /\ \A o \in live : HasMarkedLines(o)
  /\ evac.active => /\ evac.blk \in targets \ untouched
                    /\ \A o \in objs : o.blk = evac.blk => o.at + o.len <= evac.cur
  /\ phase = "mutate" => evac = NoEvac /\ targets = {} /\ untouched = {} /\ live = {}

\* A block that was empty at the last sweep, or is new, recorded no marks,
\* and candidates recorded some.
StatisticsAgree ==
  /\ \A b \in free \cup reserve \cup targets \cup (Blocks \ all) : defragMarked[b] = 0
  /\ evac.active => \A b \in candidates : defragMarked[b] # 0

\* The inductive invariant behind NoOverlap, EmptyBlocksHoldNothing and
\* TargetsAreNotCandidates: gc_verify's line-map rule extended to everything
\* an allocator may still use.
SpaceInv ==
  /\ TypeOK
  /\ NoOverlap
  /\ EmptyBlocksHoldNothing
  /\ BlocksApart
  /\ AllocatorsClear
  /\ CollectorClear
  /\ StatisticsAgree
=============================================================================
