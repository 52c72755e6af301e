-------------------------- MODULE ImmixSpace_proofs --------------------------
(***************************************************************************)
(* The Immix space never hands out storage twice, for every geometry, every*)
(* number of blocks and every way a client may mark objects.               *)
(*                                                                         *)
(* SpaceInv is inductive: one lemma per operation of the space, and under  *)
(* it one step per conjunct of the invariant the operation disturbs.       *)
(***************************************************************************)
EXTENDS ImmixSpace, FiniteSetTheorems, TLAPS

(***************************************************************************)
(* What the allocator needs to know of the line bitmap, for every geometry.*)
(***************************************************************************)

\* Multiplication by the line size is monotonic.
LEMMA LineOrder ==
  ASSUME NEW i \in Int, NEW j \in Int, i <= j
  PROVE  i * LineWords <= j * LineWords
<1>1. PICK k \in Nat : j = i + k
  BY j - i \in Nat
<1>2. k * LineWords \in Nat
  BY GeometryAssumption
<1>3. j * LineWords = i * LineWords + k * LineWords
  BY <1>1, GeometryAssumption
<1> QED
  BY <1>2, <1>3, GeometryAssumption

\* Line i ends where line i + 1 starts.
LEMMA NextLine ==
  ASSUME NEW i \in Int
  PROVE  (i + 1) * LineWords = i * LineWords + LineWords
BY GeometryAssumption

\* A block holds at least a word.
LEMMA DataWordsType == DataWords \in Nat \ {0}
BY GeometryAssumption DEF DataWords

\* A word lies in its line.
LEMMA LineOfBounds ==
  ASSUME NEW w \in Nat
  PROVE  /\ LineOf(w) \in Nat
         /\ LineOf(w) * LineWords <= w
         /\ w < LineOf(w) * LineWords + LineWords
<1> DEFINE q == w \div LineWords
<1>1. q \in Nat
  BY GeometryAssumption
<1>2. q * LineWords <= w /\ w < q * LineWords + LineWords
  BY GeometryAssumption
<1> QED
  BY <1>1, <1>2 DEF LineOf

\* A word below the start of line i is in an earlier line, and words in order
\* are in lines in order.
LEMMA LineOfOrder ==
  ASSUME NEW w \in Nat
  PROVE  /\ \A i \in Nat : w < i * LineWords => LineOf(w) < i
         /\ \A v \in Nat : w <= v => LineOf(w) <= LineOf(v)
<1>1. ASSUME NEW i \in Nat, w < i * LineWords
      PROVE  LineOf(w) < i
  <2>1. LineOf(w) \in Nat /\ LineOf(w) * LineWords <= w
    BY LineOfBounds
  <2>2. CASE i <= LineOf(w)
    <3>1. i * LineWords <= LineOf(w) * LineWords
      BY <2>1, <2>2, LineOrder
    <3>2. i * LineWords \in Nat /\ LineOf(w) * LineWords \in Nat
      BY <2>1, GeometryAssumption
    <3> QED
      BY <1>1, <2>1, <3>1, <3>2
  <2> QED
    BY <2>1, <2>2
<1>2. ASSUME NEW v \in Nat, w <= v
      PROVE  LineOf(w) <= LineOf(v)
  <2>1. LineOf(v) \in Nat /\ v < LineOf(v) * LineWords + LineWords
    BY LineOfBounds
  <2>2. (LineOf(v) + 1) * LineWords = LineOf(v) * LineWords + LineWords
    BY <2>1, NextLine
  <2>3. w < (LineOf(v) + 1) * LineWords
    BY <1>2, <2>1, <2>2, GeometryAssumption
  <2>4. LineOf(w) < LineOf(v) + 1
    BY <1>1, <2>1, <2>3
  <2> QED
    BY <2>1, <2>4, LineOfBounds
<1> QED
  BY <1>1, <1>2

\* The lines of an object inside the data area are lines of the block, and
\* there is at least one.
LEMMA ObjectLinesInBlock ==
  ASSUME NEW at \in Nat, NEW len \in Nat \ {0}, at + len <= DataWords
  PROVE  /\ ObjectLines(at, len) \subseteq Line
         /\ LineOf(at) \in ObjectLines(at, len)
<1>1. ASSUME NEW w \in Nat, w < DataWords
      PROVE  LineOf(w) \in Line
  <2>1. LineOf(w) < DataLines
    BY <1>1, LineOfOrder, GeometryAssumption DEF DataWords
  <2> QED
    BY <2>1, LineOfBounds, GeometryAssumption DEF Line
<1>2. LineOf(at) \in Line /\ LineOf(at + len - 1) \in Line
  BY <1>1, DataWordsType
<1>3. LineOf(at) <= LineOf(at + len - 1)
  BY LineOfOrder
<1> QED
  BY <1>2, <1>3, GeometryAssumption DEF ObjectLines, Line

\* The hole the allocator is given contains no word of an object whose lines
\* are marked, the unmarked line a small object spills into included.
LEMMA HoleAvoidsMarkedObject ==
  ASSUME NEW M, NEW from \in Nat, NEW s, NEW e,
         IsNextHole(M, from, s, e),
         NEW at \in Nat, NEW len \in Nat \ {0},
         ObjectLines(at, len) \subseteq M
  PROVE  at + len <= s * LineWords \/ at >= e * LineWords
<1> DEFINE k == LineOf(at)
           j == LineOf(at + len - 1)
<1>1. /\ k \in Nat /\ k * LineWords <= at /\ at < k * LineWords + LineWords
      /\ j \in Nat /\ at + len - 1 < j * LineWords + LineWords
  BY LineOfBounds
<1>2. /\ s \in Nat /\ e \in Nat /\ s < e
      /\ \A i \in s .. e - 1 : i \notin M
      /\ s \notin M /\ s - 1 \notin M
  BY GeometryAssumption DEF IsNextHole, Usable
<1>3. k \in M
  <2>1. CASE len > LineWords
    <3>1. k <= j
      BY LineOfOrder
    <3> QED
      BY <1>1, <2>1, <3>1 DEF ObjectLines
  <2>2. CASE ~ len > LineWords
    BY <2>2 DEF ObjectLines
  <2> QED
    BY <2>1, <2>2
<1>4. CASE e <= k
  BY <1>1, <1>2, <1>4, LineOrder, GeometryAssumption
<1>5. CASE k < s
  <2>1. k + 2 <= s
    BY <1>1, <1>2, <1>3, <1>5
  <2>2. CASE len > LineWords
    <3>1. j + 1 <= s
      BY <1>1, <1>2, <1>5, <2>2 DEF ObjectLines
    <3>2. (j + 1) * LineWords <= s * LineWords
      BY <1>1, <1>2, <3>1, LineOrder
    <3> QED
      BY <1>1, <1>2, <3>2, NextLine, GeometryAssumption
  <2>3. CASE ~ len > LineWords
    <3>1. (k + 2) * LineWords <= s * LineWords
      BY <1>1, <1>2, <2>1, LineOrder
    <3>2. (k + 2) * LineWords = k * LineWords + LineWords + LineWords
      BY <1>1, GeometryAssumption
    <3> QED
      BY <1>1, <1>2, <2>3, <3>1, <3>2, GeometryAssumption
  <2> QED
    BY <2>2, <2>3
<1> QED
  BY <1>1, <1>2, <1>3, <1>4, <1>5

\* A hole lies inside the data area and starts no earlier than it was asked.
LEMMA HoleBounds ==
  ASSUME NEW M, NEW from \in Nat, NEW s, NEW e, IsNextHole(M, from, s, e)
  PROVE  /\ s \in Nat /\ e \in Nat /\ from <= s /\ s < e /\ e <= DataLines
         /\ from * LineWords <= s * LineWords
         /\ s * LineWords + LineWords <= e * LineWords
         /\ s * LineWords \in Nat /\ e * LineWords \in Nat
         /\ e * LineWords <= DataWords
<1>1. s \in Nat /\ e \in Nat /\ from <= s /\ s + 1 <= e /\ e <= DataLines
  BY GeometryAssumption DEF IsNextHole
<1>2. (s + 1) * LineWords <= e * LineWords /\ e * LineWords <= DataLines * LineWords
  BY <1>1, LineOrder, GeometryAssumption
<1>3. from * LineWords <= s * LineWords
  BY <1>1, LineOrder
<1>4. s * LineWords \in Nat /\ e * LineWords \in Nat
  BY <1>1, GeometryAssumption
<1> QED
  BY <1>1, <1>2, <1>3, <1>4, NextLine DEF DataWords

\* The counts a sweep records never exceed the number of data lines.
LEMMA CountBounds ==
  ASSUME NEW M \in SUBSET Line
  PROVE  /\ IsFiniteSet(M) /\ Cardinality(M) \in 0 .. DataLines
         /\ CountHoles(M) \in 0 .. DataLines
<1>1. IsFiniteSet(Line) /\ Cardinality(Line) = DataLines
  BY FS_Interval, GeometryAssumption DEF Line
<1>2. ASSUME NEW T \in SUBSET Line
      PROVE  IsFiniteSet(T) /\ Cardinality(T) \in 0 .. DataLines
  BY <1>1, FS_Subset, FS_CardinalityType, GeometryAssumption
<1> QED
  BY <1>2 DEF CountHoles

(***************************************************************************)
(* The space.                                                              *)
(***************************************************************************)
USE DEF Extent, Words

\* A place for an object of n words is an extent of that length.
LEMMA PlacesType ==
  ASSUME NEW n \in Sizes, NEW p \in Places(n)
  PROVE  /\ p.blk \in Blocks /\ p.at \in Nat /\ p.at <= DataWords - 1 /\ p.len = n
         /\ n \in Nat \ {0} /\ n <= DataWords
         /\ p = [blk |-> p.blk, at |-> p.at, len |-> p.len]
BY SpaceAssumption, DataWordsType DEF Places

\* An extent lies in the data area of its block.
LEMMA ExtentType ==
  ASSUME NEW p \in Extent
  PROVE  /\ p.blk \in Blocks /\ p.at \in Nat /\ p.at <= DataWords - 1
         /\ p.len \in Nat \ {0} /\ p.at + p.len <= DataWords
BY DataWordsType

\* Two objects of which one ends where the other starts, or before, share no
\* word.
LEMMA Apart ==
  ASSUME NEW p \in Extent, NEW q \in Extent,
         p.at + p.len <= q.at \/ q.at + q.len <= p.at
  PROVE  Words(p) \cap Words(q) = {}
BY ExtentType

LEMMA SpaceInit == Init => SpaceInv
<1> SUFFICES ASSUME Init PROVE SpaceInv
  OBVIOUS
<1> USE DEF Init, NoSmall, NoMedium, NoEvac
<1>1. TypeOK
  BY DataWordsType, GeometryAssumption DEF TypeOK
<1>2. BlocksApart
  BY SpaceAssumption DEF BlocksApart
<1>3. AllocatorsClear
  BY GeometryAssumption DEF AllocatorsClear
<1>4. NoOverlap /\ EmptyBlocksHoldNothing /\ CollectorClear /\ StatisticsAgree
  BY DEF NoOverlap, EmptyBlocksHoldNothing, CollectorClear, StatisticsAgree
<1> QED
  BY <1>1, <1>2, <1>3, <1>4 DEF SpaceInv

\* A new object that shares no word with the others keeps NoOverlap.
LEMMA NewObjectApart ==
  ASSUME NoOverlap, objs \subseteq Extent, NEW p \in Extent, objs' \subseteq objs \cup {p},
         \A o \in objs : o.blk = p.blk => o.at + o.len <= p.at \/ p.at + p.len <= o.at
  PROVE  NoOverlap'
<1>1. \A o \in objs : o.blk = p.blk => Words(o) \cap Words(p) = {} /\ Words(p) \cap Words(o) = {}
  BY Apart
<1> QED
  BY <1>1 DEF NoOverlap

LEMMA BumpKeepsInv ==
  ASSUME SpaceInv, NEW n \in Sizes, NEW p \in Places(n), AllocSmallBump(n, p)
  PROVE  SpaceInv' /\ p \notin objs
<1> USE DEF AllocSmallBump, HandOut, SmallFits, lists, stats, evacState
<1>0. /\ p.blk \in Blocks /\ p.at \in Nat /\ p.len = n /\ n \in Nat \ {0}
      /\ p.blk = small.blk /\ p.at = small.cur /\ p.at + n <= small.lim
      /\ small.cur \in Nat /\ small.lim \in 0 .. DataWords /\ small.next \in 0 .. DataLines
      /\ small' = [small EXCEPT !.cur = p.at + n] /\ DataWords \in Nat \ {0}
      /\ small \in [blk : Blocks \cup {None}, cur : 0 .. DataWords,
                    lim : 0 .. DataWords, next : 0 .. DataLines]
      /\ small.lim <= small.next * LineWords /\ small.next * LineWords \in Nat
  BY PlacesType, DataWordsType, GeometryAssumption DEF SpaceInv, TypeOK, AllocatorsClear
<1>1. p \in Extent
  BY <1>0, PlacesType DEF Places
<1>2. TypeOK'
  BY <1>0, <1>1 DEF SpaceInv, TypeOK
<1>3. \A o \in objs : o.blk = p.blk => o.at + o.len <= p.at \/ p.at + p.len <= o.at
  BY <1>0, ExtentType DEF SpaceInv, TypeOK, AllocatorsClear
<1>4. NoOverlap'
  BY <1>1, <1>3, NewObjectApart DEF SpaceInv, TypeOK
<1>5. BlocksApart'
  BY <1>0 DEF SpaceInv, BlocksApart
<1>6. p.blk \in all \ (free \cup reserve \cup untouched)
  BY <1>0, SpaceAssumption DEF SpaceInv, BlocksApart, CollectorClear
<1>7. EmptyBlocksHoldNothing'
  BY <1>6 DEF SpaceInv, EmptyBlocksHoldNothing
<1>8. AllocatorsClear'
  BY <1>0, <1>1, ExtentType DEF SpaceInv, TypeOK, AllocatorsClear, BlocksApart, HasMarkedLines
<1>9. CollectorClear' /\ StatisticsAgree'
  BY DEF SpaceInv, CollectorClear, StatisticsAgree, HasMarkedLines
<1>10. p \notin objs
  BY <1>1, <1>3, ExtentType
<1> QED
  BY <1>2, <1>4, <1>5, <1>7, <1>8, <1>9, <1>10 DEF SpaceInv

\* A small allocation at the start of a hole of its block.  The three ways
\* to come by the block (it is the current one, a recyclable one, an empty
\* one) differ in why its objects stay clear of the hole; all give this.
LEMMA HoleKeepsInv ==
  ASSUME SpaceInv, NEW n \in Sizes, n <= LineWords, NEW p \in Places(n), phase = "mutate",
         NEW from \in 0 .. DataLines, NEW s, NEW e, NEW M, IsNextHole(M, from, s, e),
         BumpInHole(p, n, s, e), HandOut(p, n),
         all' \subseteq Blocks, all \subseteq all', free' \subseteq free,
         recyclable' \subseteq recyclable,
         UNCHANGED <<unavailable, reserve, medium>>,
         p.blk \in all' \ (free' \cup recyclable' \cup reserve), p.blk # medium.blk,
         \A b \in Blocks \ all' : b \notin all,
         \A o \in objs : o.blk = p.blk =>
            /\ o.at + o.len <= p.at \/ e * LineWords <= o.at
            /\ HasMarkedLines(o) \/ o.at + o.len <= e * LineWords
  PROVE  SpaceInv' /\ p \notin objs
<1> USE DEF HandOut, BumpInHole, stats, evacState
<1>0. /\ p.blk \in Blocks /\ p.at \in Nat /\ p.len = n /\ n \in Nat \ {0}
      /\ p.at = s * LineWords /\ p.at + n <= e * LineWords
      /\ e * LineWords \in Nat /\ e * LineWords <= DataWords
      /\ s \in Nat /\ e \in 0 .. DataLines
      /\ small' = [blk |-> p.blk, cur |-> p.at + n, lim |-> e * LineWords, next |-> e]
      /\ DataWords \in Nat \ {0}
  BY PlacesType, HoleBounds, DataWordsType, GeometryAssumption
<1>1. p \in Extent
  BY <1>0 DEF Places
<1>2. TypeOK'
  BY <1>0, <1>1 DEF SpaceInv, TypeOK
<1>3. \A o \in objs : o.blk = p.blk => o.at + o.len <= p.at \/ p.at + p.len <= o.at
  BY <1>0, ExtentType DEF SpaceInv, TypeOK
<1>4. NoOverlap'
  BY <1>1, <1>3, NewObjectApart DEF SpaceInv, TypeOK
<1>5. BlocksApart'
  BY <1>0, SpaceAssumption DEF SpaceInv, BlocksApart
<1>6. EmptyBlocksHoldNothing'
  BY <1>0 DEF SpaceInv, EmptyBlocksHoldNothing, CollectorClear
<1>7. AllocatorsClear'
  BY <1>0, <1>1, ExtentType, SpaceAssumption DEF SpaceInv, TypeOK, AllocatorsClear, HasMarkedLines
<1>8. CollectorClear'
  BY DEF SpaceInv, CollectorClear, HasMarkedLines
<1>9. StatisticsAgree'
  BY DEF SpaceInv, StatisticsAgree
<1>10. p \notin objs
  BY <1>1, <1>3, ExtentType
<1> QED
  BY <1>2, <1>4, <1>5, <1>6, <1>7, <1>8, <1>9, <1>10 DEF SpaceInv

LEMMA NextHoleKeepsInv ==
  ASSUME SpaceInv, NEW n \in Sizes, NEW p \in Places(n), AllocSmallNextHole(n, p)
  PROVE  SpaceInv' /\ p \notin objs
<1> USE DEF AllocSmallNextHole, lists
<1>1. PICK s, e \in 0 .. DataLines :
        IsNextHole(lineMarks[small.blk], small.next, s, e) /\ BumpInHole(p, n, s, e)
  OBVIOUS
<1>2. small.next \in 0 .. DataLines /\ small.next * LineWords <= s * LineWords
      /\ s * LineWords + LineWords <= e * LineWords /\ p.at = s * LineWords
      /\ s * LineWords \in Nat /\ e * LineWords \in Nat /\ small.next * LineWords \in Nat
  BY <1>1, HoleBounds, GeometryAssumption DEF SpaceInv, TypeOK, BumpInHole
<1>3. ASSUME NEW o \in objs, o.blk = p.blk
      PROVE  /\ o.at + o.len <= p.at \/ e * LineWords <= o.at
             /\ HasMarkedLines(o) \/ o.at + o.len <= e * LineWords
  <2>0. /\ o.at \in Nat /\ o.len \in Nat \ {0}
        /\ HasMarkedLines(o) \/ o.at + o.len <= small.next * LineWords
    BY <1>3, ExtentType DEF SpaceInv, TypeOK, AllocatorsClear
  <2>1. CASE HasMarkedLines(o)
    <3>1. o.at + o.len <= s * LineWords \/ o.at >= e * LineWords
      BY <1>1, <1>2, <1>3, <2>0, <2>1, HoleAvoidsMarkedObject DEF HasMarkedLines
    <3> QED
      BY <1>2, <2>0, <2>1, <3>1
  <2>2. CASE o.at + o.len <= small.next * LineWords
    BY <1>2, <2>0, <2>2, GeometryAssumption
  <2> QED
    BY <2>0, <2>1, <2>2
<1>4. p.blk \in all \ (free \cup recyclable \cup reserve) /\ p.blk # medium.blk
  BY DEF SpaceInv, BlocksApart
<1> QED
  BY <1>1, <1>2, <1>3, <1>4, HoleKeepsInv DEF SpaceInv, TypeOK

\* take_free_block gives a block no object is in.
LEMMA FreeBlockIsEmpty ==
  ASSUME SpaceInv, NEW b \in Blocks, TakeFreeBlock(b)
  PROVE  /\ \A o \in objs : o.blk # b
         /\ b \in all' \ (free' \cup recyclable \cup reserve)
         /\ b # small.blk /\ b # medium.blk
         /\ all' \subseteq Blocks /\ all \subseteq all' /\ free' \subseteq free
BY SpaceAssumption DEF TakeFreeBlock, SpaceInv, TypeOK, EmptyBlocksHoldNothing, BlocksApart

LEMMA NextBlockKeepsInv ==
  ASSUME SpaceInv, NEW n \in Sizes, NEW p \in Places(n), AllocSmallNextBlock(n, p)
  PROVE  SpaceInv' /\ p \notin objs
<1> USE DEF AllocSmallNextBlock
<1>1. PICK s, e \in 0 .. DataLines :
        IsNextHole(lineMarks[p.blk], 0, s, e) /\ BumpInHole(p, n, s, e)
  OBVIOUS
<1>2. p.at = s * LineWords /\ p.blk \in Blocks
  BY <1>1, PlacesType DEF BumpInHole
<1>3. CASE /\ p.blk \in recyclable
           /\ recyclable' \subseteq recyclable \ {p.blk}
           /\ UNCHANGED <<all, free>>
  <2>1. ASSUME NEW o \in objs, o.blk = p.blk
        PROVE  HasMarkedLines(o) /\ (o.at + o.len <= p.at \/ e * LineWords <= o.at)
    <3>1. o.at \in Nat /\ o.len \in Nat \ {0} /\ HasMarkedLines(o)
      BY <1>3, <2>1, ExtentType DEF SpaceInv, TypeOK, AllocatorsClear
    <3>2. o.at + o.len <= s * LineWords \/ o.at >= e * LineWords
      BY <1>1, <2>1, <3>1, HoleAvoidsMarkedObject DEF HasMarkedLines
    <3> QED
      BY <1>1, <1>2, <3>1, <3>2, HoleBounds
  <2>2. p.blk \in all \ (free \cup reserve) /\ p.blk # medium.blk
    BY <1>3, SpaceAssumption DEF SpaceInv, TypeOK, BlocksApart
  <2> QED
    BY <1>1, <1>3, <2>1, <2>2, HoleKeepsInv, GeometryAssumption DEF SpaceInv, TypeOK
<1>4. CASE TakeFreeBlock(p.blk) /\ recyclable' = {}
  BY <1>1, <1>2, <1>4, FreeBlockIsEmpty, HoleKeepsInv, GeometryAssumption
<1> QED
  BY <1>3, <1>4

LEMMA MediumKeepsInv ==
  ASSUME SpaceInv, NEW n \in Sizes, NEW p \in Places(n), AllocMedium(n, p)
  PROVE  SpaceInv' /\ p \notin objs
<1> USE DEF AllocMedium, HandOut, MediumFits, stats, evacState
<1>0. /\ p.blk \in Blocks /\ p.at \in Nat /\ p.len = n /\ n \in Nat \ {0}
      /\ n <= DataWords /\ DataWords \in Nat \ {0}
      /\ medium.cur \in Nat /\ medium.lim \in 0 .. DataWords
      /\ medium \in [blk : Blocks \cup {None}, cur : 0 .. DataWords, lim : 0 .. DataWords]
  BY PlacesType, DataWordsType DEF SpaceInv, TypeOK
<1>1. /\ p.at + n <= DataWords /\ medium'.cur = p.at + n /\ medium'.blk = p.blk
      /\ medium'.lim \in 0 .. DataWords
      /\ medium' \in [blk : Blocks \cup {None}, cur : 0 .. DataWords, lim : 0 .. DataWords]
  BY <1>0
<1>2. /\ \A o \in objs : o.blk = p.blk => o.at + o.len <= p.at
      /\ p.blk \in all' \ (free' \cup recyclable \cup reserve)
      /\ p.blk # small.blk
      /\ all' \subseteq Blocks /\ all \subseteq all' /\ free' \subseteq free
  <2>1. CASE MediumFits(n) /\ p.blk = medium.blk /\ p.at = medium.cur
             /\ UNCHANGED <<all, free>>
    BY <1>0, <2>1, SpaceAssumption DEF SpaceInv, TypeOK, AllocatorsClear, BlocksApart
  <2>2. CASE TakeFreeBlock(p.blk) /\ p.at = 0
    BY <2>2, <1>0, FreeBlockIsEmpty
  <2> QED
    BY <2>1, <2>2
<1>3. p \in Extent
  BY <1>0, <1>1 DEF Places
<1>4. TypeOK'
  BY <1>0, <1>1, <1>2, <1>3 DEF SpaceInv, TypeOK
<1>5. NoOverlap'
  BY <1>2, <1>3, NewObjectApart DEF SpaceInv, TypeOK
<1>6. BlocksApart'
  BY <1>0, <1>1, <1>2, SpaceAssumption DEF SpaceInv, BlocksApart
<1>7. EmptyBlocksHoldNothing'
  BY <1>0, <1>2 DEF SpaceInv, EmptyBlocksHoldNothing, CollectorClear
<1>8. AllocatorsClear'
  BY <1>0, <1>1, <1>2, ExtentType, SpaceAssumption
  DEF SpaceInv, TypeOK, AllocatorsClear, HasMarkedLines
<1>9. CollectorClear' /\ StatisticsAgree'
  BY <1>2 DEF SpaceInv, CollectorClear, StatisticsAgree, HasMarkedLines
<1>10. p \notin objs
  BY <1>0, <1>2
<1> QED
  BY <1>4, <1>5, <1>6, <1>7, <1>8, <1>9, <1>10 DEF SpaceInv

\* imx_space_allocate never returns the address of an object still there.
LEMMA NewObjectIsNew ==
  ASSUME SpaceInv, NEW n \in Sizes, NEW p \in Places(n), Allocate(n, p)
  PROVE  p \notin objs
BY BumpKeepsInv, NextHoleKeepsInv, NextBlockKeepsInv, MediumKeepsInv DEF Allocate

LEMMA FailureKeepsInv ==
  ASSUME SpaceInv, NEW n \in Sizes, AllocateFails(n)
  PROVE  SpaceInv'
<1> USE DEF AllocateFails, stats, evacState, NoSmall
<1>1. CASE UNCHANGED <<recyclable, small>>
  BY <1>1 DEF SpaceInv, TypeOK, NoOverlap, EmptyBlocksHoldNothing, BlocksApart,
    AllocatorsClear, CollectorClear, StatisticsAgree, HasMarkedLines
<1>2. CASE recyclable' = {} /\ recyclable = {} /\ small' = small
  BY <1>1, <1>2
<1>3. ASSUME NEW b \in recyclable, recyclable' = {}, small' = [NoSmall EXCEPT !.blk = b]
      PROVE  SpaceInv'
  <2>1. small' = [blk |-> b, cur |-> 0, lim |-> 0, next |-> 0] /\ b \in Blocks
    BY <1>3 DEF SpaceInv, TypeOK
  <2>2. TypeOK'
    BY <1>3, <2>1, DataWordsType, GeometryAssumption DEF SpaceInv, TypeOK
  <2>3. BlocksApart'
    BY <1>3, <2>1 DEF SpaceInv, TypeOK, BlocksApart
  <2>4. AllocatorsClear'
    BY <1>3, <2>1, ExtentType, GeometryAssumption, SpaceAssumption
    DEF SpaceInv, TypeOK, AllocatorsClear, HasMarkedLines
  <2>5. NoOverlap' /\ EmptyBlocksHoldNothing' /\ CollectorClear' /\ StatisticsAgree'
    BY DEF SpaceInv, NoOverlap, EmptyBlocksHoldNothing, CollectorClear, StatisticsAgree,
      HasMarkedLines
  <2> QED
    BY <2>2, <2>3, <2>4, <2>5 DEF SpaceInv
<1> QED
  BY <1>1, <1>2, <1>3

LEMMA BeginKeepsInv ==
  ASSUME SpaceInv, BeginCollection
  PROVE  SpaceInv'
<1> USE DEF BeginCollection, lists, stats
<1>1. PICK R \in Pops(reserve, Headroom(all)) : targets' = R \cup free /\ reserve' = reserve \ R
  OBVIOUS
<1>2. R \subseteq reserve /\ targets' \subseteq free \cup reserve /\ targets' \subseteq all
  BY <1>1 DEF Pops, SpaceInv, TypeOK
<1>3. /\ untouched' \subseteq targets' /\ candidates' \subseteq all
      /\ evac' \in [active : BOOLEAN, blk : Blocks \cup {None}, cur : 0 .. DataWords]
      /\ evac'.active => /\ evac'.blk \in targets' \ untouched'
                         /\ candidates' \subseteq Fragmented
  <2>1. candidates' \subseteq all /\ (targets' # {} => candidates' \subseteq Fragmented)
    BY DEF SpaceInv, TypeOK, Fragmented
  <2>2. CASE targets' # {} /\ candidates' # {}
    <3>1. PICK t \in targets' : /\ evac' = [active |-> TRUE, blk |-> t, cur |-> 0]
                                /\ untouched' = targets' \ {t}
      BY <2>2
    <3>2. t \in Blocks
      BY <1>2 DEF SpaceInv, TypeOK
    <3> QED
      BY <2>1, <2>2, <3>1, <3>2, DataWordsType
  <2>3. CASE ~ (targets' # {} /\ candidates' # {})
    <3>1. evac' = NoEvac /\ untouched' = targets'
      BY <2>3
    <3> QED
      BY <2>1, <3>1, DataWordsType DEF NoEvac
  <2> QED
    BY <2>2, <2>3
<1>4. TypeOK'
  BY <1>1, <1>2, <1>3 DEF SpaceInv, TypeOK, CollectorClear
<1>5. NoOverlap' /\ EmptyBlocksHoldNothing'
  BY <1>1, <1>2, <1>3 DEF SpaceInv, NoOverlap, EmptyBlocksHoldNothing
<1>6. BlocksApart'
  BY <1>1, <1>2 DEF SpaceInv, BlocksApart
<1>7. AllocatorsClear'
  BY DEF AllocatorsClear
<1>8. CollectorClear'
  BY <1>2, <1>3 DEF SpaceInv, CollectorClear, EmptyBlocksHoldNothing
<1>9. StatisticsAgree'
  <2>1. \A b \in Fragmented : defragMarked[b] # 0
    BY DEF Fragmented
  <2> QED
    BY <1>1, <1>2, <1>3, <2>1 DEF SpaceInv, StatisticsAgree
<1> QED
  BY <1>4, <1>5, <1>6, <1>7, <1>8, <1>9 DEF SpaceInv

\* Marking one more object keeps the marked lines of the others, and its own
\* are marked.
LEMMA MarkedLinesGrow ==
  ASSUME SpaceInv, NEW p \in Extent, MarkLines(p)
  PROVE  /\ lineMarks' \in [Blocks -> SUBSET Line]
         /\ HasMarkedLines(p)'
         /\ \A o \in objs : HasMarkedLines(o) => HasMarkedLines(o)'
<1>1. ObjectLines(p.at, p.len) \subseteq Line
  BY ExtentType, ObjectLinesInBlock
<1> QED
  BY <1>1, ExtentType DEF MarkLines, HasMarkedLines, SpaceInv, TypeOK

LEMMA MarkKeepsInv ==
  ASSUME SpaceInv, NEW o \in objs, MarkInPlace(o)
  PROVE  SpaceInv'
<1> USE DEF MarkInPlace, lists, stats, evacState
<1>1. o \in Extent
  BY DEF SpaceInv, TypeOK
<1>2. TypeOK'
  BY <1>1, MarkedLinesGrow DEF SpaceInv, TypeOK
<1>3. NoOverlap' /\ EmptyBlocksHoldNothing' /\ BlocksApart' /\ AllocatorsClear' /\ StatisticsAgree'
  BY DEF SpaceInv, NoOverlap, EmptyBlocksHoldNothing, BlocksApart, AllocatorsClear, StatisticsAgree
<1>4. CollectorClear'
  BY <1>1, MarkedLinesGrow DEF SpaceInv, TypeOK, CollectorClear
<1> QED
  BY <1>2, <1>3, <1>4 DEF SpaceInv

LEMMA EvacuateKeepsInv ==
  ASSUME SpaceInv, NEW o \in objs, NEW p \in Places(o.len), Evacuate(o, p)
  PROVE  SpaceInv'
<1> USE DEF Evacuate, lists, stats, IsCandidate
<1>0. /\ o.len \in Nat \ {0} /\ o.len <= DataWords /\ DataWords \in Nat \ {0}
      /\ p.blk \in Blocks /\ p.at \in Nat /\ p.at <= DataWords - 1 /\ p.len = o.len
      /\ evac \in [active : BOOLEAN, blk : Blocks \cup {None}, cur : 0 .. DataWords]
      /\ evac.active
  BY ExtentType, DataWordsType DEF SpaceInv, TypeOK, Places
<1>1. /\ p.at + p.len <= DataWords
      /\ evac' = [evac EXCEPT !.blk = p.blk, !.cur = p.at + p.len]
      /\ untouched' \subseteq untouched /\ p.blk \in targets \ untouched'
      /\ p.blk \in all \ (free \cup reserve)
      /\ \A q \in objs : q.blk = p.blk => q.at + q.len <= p.at
  <2>0. p.blk \in targets /\ p.blk \notin untouched' /\ untouched' \subseteq untouched
        /\ p.at + p.len <= DataWords
        /\ \A q \in objs : q.blk = p.blk => q.at + q.len <= p.at
    <3>1. CASE evac.cur + o.len <= DataWords /\ p.blk = evac.blk /\ p.at = evac.cur
               /\ untouched' = untouched
      BY <1>0, <3>1 DEF SpaceInv, CollectorClear
    <3>2. CASE p.blk \in untouched /\ p.at = 0 /\ untouched' = untouched \ {p.blk}
      BY <1>0, <3>2 DEF SpaceInv, TypeOK, EmptyBlocksHoldNothing
    <3> QED
      BY <3>1, <3>2
  <2> QED
    BY <1>0, <2>0 DEF SpaceInv, TypeOK, BlocksApart
<1>2. p \in Extent
  BY <1>0, <1>1 DEF Places
<1>3. TypeOK'
  <2>1. evac' \in [active : BOOLEAN, blk : Blocks \cup {None}, cur : 0 .. DataWords]
    <3>1. evac' = [active |-> evac.active, blk |-> p.blk, cur |-> p.at + p.len]
      BY <1>0, <1>1
    <3>2. p.at + p.len \in 0 .. DataWords
      BY <1>0, <1>1
    <3> QED
      BY <1>0, <3>1, <3>2
  <2>2. lineMarks' \in [Blocks -> SUBSET Line]
    BY <1>2, MarkedLinesGrow
  <2>3. untouched' \subseteq targets /\ objs' \subseteq Extent /\ live' \subseteq objs'
    BY <1>1, <1>2 DEF SpaceInv, TypeOK
  <2> QED
    BY <2>1, <2>2, <2>3 DEF SpaceInv, TypeOK
<1>4. NoOverlap'
  BY <1>1, <1>2, NewObjectApart DEF SpaceInv, TypeOK
<1>5. EmptyBlocksHoldNothing' /\ BlocksApart'
  BY <1>1 DEF SpaceInv, EmptyBlocksHoldNothing, BlocksApart
<1>6. AllocatorsClear' /\ StatisticsAgree'
  BY <1>0 DEF SpaceInv, AllocatorsClear, StatisticsAgree
<1>7. CollectorClear'
  BY <1>0, <1>1, <1>2, MarkedLinesGrow, ExtentType DEF SpaceInv, TypeOK, CollectorClear
<1> QED
  BY <1>3, <1>4, <1>5, <1>6, <1>7 DEF SpaceInv

LEMMA EndKeepsInv ==
  ASSUME SpaceInv, EndCollection
  PROVE  SpaceInv'
<1> USE DEF EndCollection, NoSmall, NoMedium, NoEvac
<1> DEFINE empty == {b \in all : lineMarks[b] = {}}
<1>1. reserve' \subseteq empty /\ free' = empty \ reserve'
  BY DEF Pops
<1>2. ASSUME NEW b \in Blocks
      PROVE  /\ Cardinality(lineMarks[b]) \in 0 .. DataLines
             /\ CountHoles(lineMarks[b]) \in 0 .. DataLines
  BY CountBounds DEF SpaceInv, TypeOK
<1>3. TypeOK'
  <2>1. /\ defragMarked' \in [Blocks -> 0 .. DataLines]
        /\ defragHoles' \in [Blocks -> 0 .. DataLines]
    BY <1>2 DEF SpaceInv, TypeOK
  <2> QED
    BY <1>1, <2>1, DataWordsType, GeometryAssumption DEF SpaceInv, TypeOK
<1>4. NoOverlap'
  BY DEF SpaceInv, TypeOK, NoOverlap
<1>5. ASSUME NEW o \in live
      PROVE  o.blk \in all /\ lineMarks[o.blk] # {}
  BY ExtentType, ObjectLinesInBlock
  DEF SpaceInv, TypeOK, EmptyBlocksHoldNothing, CollectorClear, HasMarkedLines
<1>6. EmptyBlocksHoldNothing'
  BY <1>1, <1>5 DEF EmptyBlocksHoldNothing
<1>7. BlocksApart'
  BY <1>1 DEF BlocksApart
<1>8. AllocatorsClear'
  BY <1>5, SpaceAssumption, GeometryAssumption, ExtentType
  DEF SpaceInv, TypeOK, AllocatorsClear, CollectorClear, HasMarkedLines
<1>9. CollectorClear'
  BY DEF CollectorClear
<1>10. StatisticsAgree'
  BY <1>1, FS_EmptySet DEF SpaceInv, TypeOK, StatisticsAgree
<1> QED
  BY <1>3, <1>4, <1>6, <1>7, <1>8, <1>9, <1>10 DEF SpaceInv

LEMMA StutterKeepsInv ==
  ASSUME SpaceInv, UNCHANGED vars
  PROVE  SpaceInv'
BY DEF vars, lists, stats, evacState, SpaceInv, TypeOK, NoOverlap, EmptyBlocksHoldNothing,
  BlocksApart, AllocatorsClear, CollectorClear, StatisticsAgree, HasMarkedLines

LEMMA NextKeepsInv == SpaceInv /\ [Next]_vars => SpaceInv'
<1> SUFFICES ASSUME SpaceInv, [Next]_vars PROVE SpaceInv'
  OBVIOUS
<1>1. ASSUME NEW n \in Sizes, NEW p \in Places(n), Allocate(n, p)
      PROVE  SpaceInv'
  BY <1>1, BumpKeepsInv, NextHoleKeepsInv, NextBlockKeepsInv, MediumKeepsInv DEF Allocate
<1>2. ASSUME NEW n \in Sizes, AllocateFails(n)
      PROVE  SpaceInv'
  BY <1>2, FailureKeepsInv
<1>3. CASE BeginCollection
  BY <1>3, BeginKeepsInv
<1>4. ASSUME NEW o \in objs, MarkInPlace(o)
      PROVE  SpaceInv'
  BY <1>4, MarkKeepsInv
<1>5. ASSUME NEW o \in objs, NEW p \in Places(o.len), Evacuate(o, p)
      PROVE  SpaceInv'
  BY <1>5, EvacuateKeepsInv
<1>6. CASE EndCollection
  BY <1>6, EndKeepsInv
<1>7. CASE UNCHANGED vars
  BY <1>7, StutterKeepsInv
<1> QED
  BY <1>1, <1>2, <1>3, <1>4, <1>5, <1>6, <1>7 DEF Next

\* The inductive invariant holds in every reachable state, for every
\* geometry and every set of blocks.
THEOREM SpaceCorrect == Spec => []SpaceInv
<1> QED
  BY SpaceInit, NextKeepsInv, PTL DEF Spec

\* Every object stays inside its block and every cursor inside the data area
\* (imx_space_allocate, imx_space_allocate_evacuation).
THEOREM SpaceTypeCorrect == Spec => []TypeOK
<1>1. SpaceInv => TypeOK
  BY DEF SpaceInv
<1> QED
  BY <1>1, SpaceCorrect, PTL

\* No word of the heap ever belongs to two objects (imx_lb_next_hole's spill
\* rule makes imx_block_mark_object's conservative marking safe).
THEOREM StorageNeverShared == Spec => []NoOverlap
<1>1. SpaceInv => NoOverlap
  BY DEF SpaceInv
<1> QED
  BY <1>1, SpaceCorrect, PTL

\* The blocks the space calls empty hold no object (imx_space_reclaim).
THEOREM EmptyBlocksAreEmpty == Spec => []EmptyBlocksHoldNothing
<1>1. SpaceInv => EmptyBlocksHoldNothing
  BY DEF SpaceInv
<1> QED
  BY <1>1, SpaceCorrect, PTL

\* A block that receives evacuated objects is not evacuated itself
\* (imx_space_is_evacuation_candidate).
THEOREM TargetsNeverEvacuated == Spec => []TargetsAreNotCandidates
<1>1. SpaceInv => TargetsAreNotCandidates
  BY DEF SpaceInv, StatisticsAgree, TargetsAreNotCandidates
<1> QED
  BY <1>1, SpaceCorrect, PTL
=============================================================================
