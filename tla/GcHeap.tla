------------------------------- MODULE GcHeap -------------------------------
(***************************************************************************)
(* The garbage-collected heap (wasm/src/immix/jav_gc.c) over the Immix     *)
(* space: the running program allocates, reads and writes objects; a       *)
(* collection marks from the roots, moves objects out of candidate blocks  *)
(* leaving forwarding pointers, rewrites every slot it visits, and sweeps  *)
(* the blocks and the large-object space.                                  *)
(*                                                                         *)
(* A reference is the extent of the object it points at (its length is     *)
(* read from the header in the code, gc_obj_size); a large object's        *)
(* "block" is its malloc'd slot.  The budget test that triggers a          *)
(* collection is left out: one may begin at any safepoint, as under        *)
(* GC_STRESS.                                                              *)
(***************************************************************************)
EXTENDS ImmixSpace

CONSTANTS
  Root, Field, Id, Scalars, Null,
  LargeSlots,    \* malloc'd slots of the large-object space
  LargeLen,      \* the size of a large object, above DataWords
  EpochMod,      \* 2^32: the epoch is a uint32_t
  MaxEpoch       \* bound: no collection begins beyond this epoch

\* What a reference may be: the extent of an object that fits a block, or a
\* large object's.
LargeExtent == [blk : LargeSlots, at : {0}, len : {LargeLen}]
Address     == Extent \cup LargeExtent

ASSUME HeapAssumption ==
  /\ LargeLen \in Nat /\ LargeLen > DataWords
  /\ LargeSlots \cap Blocks = {}
  /\ EpochMod \in Nat \ {0, 1} /\ MaxEpoch \in Nat
  /\ Null \notin Scalars /\ ({Null} \cup Scalars) \cap (Address \cup Id) = {}

VARIABLES
  roots,     \* [Root -> reference, scalar or Null]
  mem,       \* headers and fields: reference -> object
  large,     \* large_objs
  epoch,     \* gc_heap_t.epoch
  liveBytes, \* live_bytes: survivors summed by the tracer, in words
  slots,     \* slots enumerated and not visited yet
  worklist   \* marked objects whose fields are not visited yet

heapVars == <<roots, mem, large, epoch, liveBytes, slots, worklist>>
allVars == <<vars, heapVars>>

\* Mutant of NewObject: without the memset, a field keeps a value left behind.
NewObjectDirty(i) == [id |-> i, fields |-> [f \in Field |-> roots[CHOOSE x \in Root : TRUE]],
                      epoch |-> 0, forward |-> Null]

\* imx_space_allocate and gc_alloc's memset: epoch 0, no forwarding, null fields.
NewObject(i) == [id |-> i, fields |-> [f \in Field |-> Null],
                 epoch |-> 0, forward |-> Null]

IsPointer(r) == r # Null /\ r \notin Scalars

HeapInit ==
  /\ Init
  /\ roots = [x \in Root |-> Null] /\ mem = << >> /\ large = {}
  /\ epoch = 1 /\ liveBytes = 0 /\ slots = {} /\ worklist = {}
-----------------------------------------------------------------------------
(***************************************************************************)
(* The running program.                                                    *)
(***************************************************************************)

FreshId(i) == i \in Id \ {mem[r].id : r \in DOMAIN mem}

Install(x, p) ==
  \E i \in Id :
    /\ FreshId(i)
    /\ roots' = [roots EXCEPT ![x] = p]
    /\ mem' = [r \in DOMAIN mem \cup {p} |-> IF r = p THEN NewObject(i) ELSE mem[r]]
    /\ UNCHANGED <<epoch, liveBytes, slots, worklist>>

\* gc_alloc of an object that fits a block.
New(x, n) ==
  \E p \in Places(n) : Allocate(n, p) /\ Install(x, p) /\ UNCHANGED large

\* gc_alloc of an object larger than a block.
NewLarge(x) ==
  /\ phase = "mutate"
  /\ \E s \in LargeSlots \ {p.blk : p \in large} :
       LET p == [blk |-> s, at |-> 0, len |-> LargeLen] IN
         large' = large \cup {p} /\ Install(x, p)
  /\ UNCHANGED vars

\* gc_alloc whose space allocation fails; the collection that follows is a
\* BeginCollection like any other.
NewFails(n) == AllocateFails(n) /\ UNCHANGED heapVars

Store(x, f, y) ==
  /\ phase = "mutate" /\ IsPointer(roots[x])
  /\ mem' = [mem EXCEPT ![roots[x]].fields[f] = roots[y]]
  /\ UNCHANGED <<vars, roots, large, epoch, liveBytes, slots, worklist>>

Load(x, y, f) ==
  /\ phase = "mutate" /\ IsPointer(roots[y])
  /\ roots' = [roots EXCEPT ![x] = mem[roots[y]].fields[f]]
  /\ UNCHANGED <<vars, mem, large, epoch, liveBytes, slots, worklist>>

Assign(x, v) ==
  /\ phase = "mutate"
  /\ roots' = [roots EXCEPT ![x] = v]
  /\ UNCHANGED <<vars, mem, large, epoch, liveBytes, slots, worklist>>
-----------------------------------------------------------------------------
(***************************************************************************)
(* gc_collect.                                                             *)
(***************************************************************************)

RootSlot(x)     == [kind |-> "root", root |-> x]
FieldSlot(o, f) == [kind |-> "field", obj |-> o, field |-> f]

Contents(s) == IF s.kind = "root" THEN roots[s.root] ELSE mem[s.obj].fields[s.field]

\* gc_collect up to gc_mark1 of the first root.
StartCollection ==
  /\ epoch <= MaxEpoch
  /\ BeginCollection
  /\ liveBytes' = 0 /\ worklist' = {}
  /\ slots' = {RootSlot(x) : x \in Root}
  /\ UNCHANGED <<roots, mem, large, epoch>>

\* Mutant of WriteBack: the slot keeps the old address.
WriteBackLost(s, t, m) ==
  slots' = slots \ {s} /\ mem' = m /\ UNCHANGED roots

\* gc_mark1 writes t back to the slot it was given; m is the heap after it.
WriteBack(s, t, m) ==
  /\ slots' = slots \ {s}
  /\ IF s.kind = "root"
     THEN roots' = [roots EXCEPT ![s.root] = t] /\ mem' = m
     ELSE mem' = [m EXCEPT ![s.obj].fields[s.field] = t] /\ UNCHANGED roots

\* gc_mark1: the object a reference stands for once it may have moved.
Resolve(r) == IF mem[r].forward # Null THEN mem[r].forward ELSE r

Marked(o) == mem[o].epoch = epoch

\* Mutant of VisitDone: live_bytes counts an object at every visit.
VisitDoneCounting(s) ==
  LET r == Contents(s) IN
    /\ s \in slots
    /\ IsPointer(r) => Marked(Resolve(r))
    /\ WriteBack(s, IF IsPointer(r) THEN Resolve(r) ELSE r, mem)
    /\ liveBytes' = liveBytes + IF IsPointer(r) THEN r.len ELSE 0
    /\ UNCHANGED <<vars, large, epoch, worklist>>

\* gc_mark1 on null, on a value that is no address, on an object that is
\* already marked: nothing to do but follow the forwarding pointer.
VisitDone(s) ==
  LET r == Contents(s) IN
    /\ s \in slots
    /\ IsPointer(r) => Marked(Resolve(r))
    /\ WriteBack(s, IF IsPointer(r) THEN Resolve(r) ELSE r, mem)
    /\ UNCHANGED <<vars, large, epoch, liveBytes, worklist>>

\* gc_mark1 on an unmarked object: it is counted, marked where it is or
\* moved, and queued to be traced.
VisitUnmarked(s) ==
  LET o == Resolve(Contents(s)) IN
    /\ s \in slots /\ IsPointer(Contents(s)) /\ ~ Marked(o)
    /\ liveBytes' = liveBytes + o.len
    /\ \/ /\ IF o.len > DataWords THEN UNCHANGED vars ELSE MarkInPlace(o)
          /\ WriteBack(s, o, [mem EXCEPT ![o].epoch = epoch])
          /\ worklist' = worklist \cup {o}
       \/ /\ o.len <= DataWords
          /\ \E p \in Places(o.len) :
               /\ Evacuate(o, p)
               /\ WriteBack(s, p, [r \in DOMAIN mem \cup {p} |->
                    CASE r = p -> [mem[o] EXCEPT !.epoch = epoch]
                      [] r = o -> [mem[o] EXCEPT !.forward = p]
                      [] OTHER -> mem[r]])
               /\ worklist' = worklist \cup {p}
    /\ UNCHANGED <<large, epoch>>

\* Mutants of Trace: the object's fields are not visited; it is not popped.
TraceShallow(o) ==
  /\ phase = "mark" /\ slots = {} /\ o \in worklist
  /\ worklist' = worklist \ {o}
  /\ UNCHANGED <<vars, roots, mem, large, epoch, liveBytes, slots>>

TraceAgain(o) ==
  /\ phase = "mark" /\ slots = {} /\ o \in worklist
  /\ slots' = {FieldSlot(o, f) : f \in Field}
  /\ UNCHANGED <<vars, roots, mem, large, epoch, liveBytes, worklist>>

\* The transitive closure pops an object and visits its fields.
Trace(o) ==
  /\ phase = "mark" /\ slots = {} /\ o \in worklist
  /\ worklist' = worklist \ {o}
  /\ slots' = {FieldSlot(o, f) : f \in Field}
  /\ UNCHANGED <<vars, roots, mem, large, epoch, liveBytes>>

\* Mutant of SurvivingLarge: swept after the epoch has moved on.
SurvivingLargeLate == {o \in large : mem[o].epoch = (epoch + 1) % EpochMod}

\* los_sweep
SurvivingLarge == {o \in large : Marked(o)}

\* end of gc_collect: the sweeps of the blocks and of the large-object
\* space, and the next epoch.  A swept object's header is not read again.
FinishCollection ==
  /\ slots = {} /\ worklist = {}
  /\ EndCollection
  /\ large' = SurvivingLarge
  /\ mem' = [o \in objs' \cup large' |-> mem[o]]
  /\ epoch' = (epoch + 1) % EpochMod
  /\ UNCHANGED <<roots, liveBytes, slots, worklist>>
-----------------------------------------------------------------------------
Program ==
  \E x \in Root :
    \/ \E n \in Sizes : New(x, n) \/ NewFails(n)
    \/ NewLarge(x)
    \/ \E y \in Root, f \in Field : Store(x, f, y) \/ Load(x, y, f)
    \/ \E v \in {Null} \cup Scalars \cup {roots[y] : y \in Root} : Assign(x, v)

Collector ==
  \/ \E s \in slots : VisitDone(s) \/ VisitUnmarked(s)
  \/ \E o \in worklist : Trace(o)
  \/ FinishCollection

HeapNext == Program \/ StartCollection \/ Collector

HeapSpec == HeapInit /\ [][HeapNext]_allVars

\* gc_collect is a loop that runs to its end once entered.
FairHeapSpec == HeapSpec /\ WF_allVars(Collector)
-----------------------------------------------------------------------------
\* The objects the references in V are addresses of.
Pointees(V) == {r \in V : IsPointer(r) /\ r \in DOMAIN mem}

RootPointees     == Pointees({roots[x] : x \in Root})
FieldPointees(o) == Pointees({mem[o].fields[f] : f \in Field})

\* The objects reachable from the roots through the pointers as they are: the
\* smallest set that holds the roots' objects and, with an object, those its
\* fields point at.
Reachable ==
  LET Closed == {C \in SUBSET DOMAIN mem :
                   RootPointees \subseteq C /\ \A o \in C : FieldPointees(o) \subseteq C}
  IN {o \in DOMAIN mem : \A C \in Closed : o \in C}

\* The values a running program can get hold of.
Held == {roots[x] : x \in Root}
        \cup UNION {{mem[o].fields[f] : f \in Field} : o \in Reachable}

Value  == Address \cup Scalars \cup {Null}
Object == [id : Id, fields : [Field -> Value], epoch : 0 .. EpochMod - 1,
           forward : Address \cup {Null}]

HeapTypeOK ==
  /\ TypeOK
  /\ roots \in [Root -> Value]
  /\ large \subseteq LargeExtent
  /\ DOMAIN mem \subseteq Address /\ mem \in [DOMAIN mem -> Object]
  /\ objs \cup large \subseteq DOMAIN mem
  /\ phase = "mutate" => DOMAIN mem = objs \cup large /\ slots = {} /\ worklist = {}
  /\ epoch \in 0 .. EpochMod - 1 /\ liveBytes \in Nat
  /\ slots \subseteq {RootSlot(x) : x \in Root}
                 \cup {FieldSlot(o, f) : o \in objs \cup large, f \in Field}
  /\ worklist \subseteq objs \cup large

\* Whenever the program runs, every reference it can reach is the address of
\* an object that is still there and has not been moved away (gc_verify's
\* forwarding and residency checks: a missed slot update, an object freed
\* while reachable).
NoDanglingReference ==
  phase = "mutate" =>
    \A r \in Held : IsPointer(r) => r \in DOMAIN mem /\ mem[r].forward = Null

\* An object whose storage is about to be swept has its lines marked
\* (gc_verify's line-map check), and a reachable one is never about to be.
SweepSparesReachable ==
  phase = "mark" /\ slots = {} /\ worklist = {} =>
    \A o \in Reachable :
      \/ o \in large /\ Marked(o)
      \/ o \in live /\ ObjectLines(o.at, o.len) \subseteq lineMarks[o.blk]

\* What the sweeps leave are the objects still reachable, and no garbage.
SweepLeavesReachable == DOMAIN mem' = Reachable'

\* A collection leaves exactly the reachable objects, and live_bytes is their
\* total size: nothing counted twice though it was moved or is shared, no
\* garbage kept.
SweepIsExact ==
  [][phase = "mark" /\ phase' = "mutate" =>
       /\ SweepLeavesReachable
       /\ liveBytes' = MapThenSumSet(LAMBDA o : o.len, Reachable')]_allVars

\* Every collection comes to its end (gc_collect returns).
CollectionEnds == phase = "mark" ~> phase = "mutate"

-----------------------------------------------------------------------------
(***************************************************************************)
(* Why no reference dangles: the inductive invariant, as long as the epoch *)
(* does not wrap.                                                          *)
(***************************************************************************)

\* Every collection runs under an epoch of its own.
EpochDoesNotWrap == MaxEpoch + 1 < EpochMod

\* The objects this collection has marked so far, moved ones at their copy.
Survivors == live \cup SurvivingLarge

\* A pointer that needs no visit any more.
Settled(v) == IsPointer(v) => v \in Survivors

\* Every pointer of a root or of an object still there is the address of a
\* header: of an object, or of the forwarding pointer left in its place.
PointersHaveHeaders ==
  /\ \A x \in Root : IsPointer(roots[x]) => roots[x] \in DOMAIN mem
  /\ \A o \in objs \cup large, f \in Field :
       IsPointer(mem[o].fields[f]) => mem[o].fields[f] \in DOMAIN mem

\* An object still there is not forwarded, what is not leads to a marked
\* copy in one step; and the epoch in a header says whether the object is
\* marked: between collections no object carries the epoch of the next.
HeadersAgree ==
  /\ \A o \in objs \cup large : mem[o].forward = Null
  /\ \A o \in DOMAIN mem \ (objs \cup large) : mem[o].forward \in live
  /\ phase = "mutate" => \A o \in objs \cup large : mem[o].epoch < epoch
  /\ phase = "mark" => \A o \in objs : Marked(o) <=> o \in live
  /\ epoch # 0 /\ (phase = "mark" => epoch <= MaxEpoch)

\* The tracing invariant: what is not settled is about to be visited.
NothingForgotten ==
  phase = "mark" =>
    /\ worklist \subseteq Survivors
    /\ slots \subseteq {RootSlot(x) : x \in Root}
                  \cup {FieldSlot(o, f) : o \in Survivors, f \in Field}
    /\ \A x \in Root : RootSlot(x) \in slots \/ Settled(roots[x])
    /\ \A o \in Survivors \ worklist, f \in Field :
         FieldSlot(o, f) \in slots \/ Settled(mem[o].fields[f])

\* The references held by the roots and by the objects of D that lead to
\* marked objects lead into D.
ClosedAmongSurvivors(D) ==
  /\ RootPointees \cap Survivors \subseteq D
  /\ \A o \in D : FieldPointees(o) \cap Survivors \subseteq D

\* Nothing is marked but along pointers that start in a root.
NothingMarkedInVain ==
  phase = "mark" =>
    \A D \in SUBSET Survivors : ClosedAmongSurvivors(D) => D = Survivors

HeapInv ==
  /\ SpaceInv
  /\ HeapTypeOK
  /\ PointersHaveHeaders
  /\ HeadersAgree
  /\ NothingForgotten
  /\ NothingMarkedInVain
-----------------------------------------------------------------------------
\* The identity a reference stands for.
IdOf(r) == IF ~ IsPointer(r) THEN r
           ELSE IF r \in DOMAIN mem THEN mem[r].id ELSE "dangling"

\* The graph the program sees.  An object being moved exists twice for a
\* while, with equal identities behind its fields.
Graph ==
  LET R == Reachable
      Copy(i) == CHOOSE o \in R : mem[o].id = i
  IN [i \in {mem[o].id : o \in R} |-> [f \in Field |-> IdOf(mem[Copy(i)].fields[f])]]

Abstract == INSTANCE ObjectGraph WITH
              root <- [x \in Root |-> IdOf(roots[x])], graph <- Graph

\* Identities tell the objects still there apart, and an object that was
\* moved agrees with its copy in its identity and in those its fields lead
\* to; what it left behind lies in a block that is being evacuated.
CopiesAgree ==
  /\ \A o, q \in objs \cup large : mem[o].id = mem[q].id => o = q
  /\ \A o \in DOMAIN mem \ (objs \cup large) : evac.active /\ o.blk \in candidates
  /\ \A o \in DOMAIN mem :
       /\ mem[o].id = mem[Resolve(o)].id
       /\ \A f \in Field :
            /\ IsPointer(mem[o].fields[f]) => mem[o].fields[f] \in DOMAIN mem
            /\ IdOf(mem[o].fields[f]) = IdOf(mem[Resolve(o)].fields[f])

\* The invariant behind the refinement.
GraphInv == HeapInv /\ CopiesAgree

\* The heap implements the object graph: no collection changes what the
\* program can see.
ImplementsObjectGraph == Abstract!Spec
=============================================================================
