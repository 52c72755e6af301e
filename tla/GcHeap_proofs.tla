---------------------------- MODULE GcHeap_proofs ----------------------------
(***************************************************************************)
(* Proofs about GcHeap.  The collector is a client of the Immix space, so  *)
(* what is proved about the space holds of its blocks.  Then the tracing   *)
(* invariant: what a collection has not settled is about to be visited,    *)
(* and nothing is marked in vain.  It gives that no reference the program  *)
(* can reach dangles, and that a sweep spares exactly the reachable        *)
(* objects, as long as the 32-bit epoch does not wrap.                     *)
(***************************************************************************)
EXTENDS GcHeap, ImmixSpace_proofs

\* What each step of the heap is to the space below it: one of its steps, or
\* none.  MarkInPlace and Evacuate test themselves that the space holds the
\* object.
LEMMA HeapStepsAreSpaceSteps == [HeapNext]_allVars => [Next]_vars
<1> SUFFICES ASSUME [HeapNext]_allVars PROVE [Next]_vars
  OBVIOUS
<1>1. ASSUME NEW x \in Root, NEW n \in Sizes, New(x, n)
      PROVE  Next
  BY <1>1 DEF New, Next
<1>2. ASSUME NEW n \in Sizes, NewFails(n)
      PROVE  Next
  BY <1>2 DEF NewFails, Next
<1>3. ASSUME NEW x \in Root, NewLarge(x)
      PROVE  UNCHANGED vars
  BY <1>3 DEF NewLarge
<1>4. ASSUME NEW x \in Root, NEW y \in Root, NEW f \in Field, Store(x, f, y) \/ Load(x, y, f)
      PROVE  UNCHANGED vars
  BY <1>4 DEF Store, Load
<1>5. ASSUME NEW x \in Root, NEW v, Assign(x, v)
      PROVE  UNCHANGED vars
  BY <1>5 DEF Assign
<1>6. CASE StartCollection
  BY <1>6 DEF StartCollection, Next
<1>7. ASSUME NEW s \in slots, VisitDone(s)
      PROVE  UNCHANGED vars
  BY <1>7 DEF VisitDone
<1>8. ASSUME NEW s \in slots, VisitUnmarked(s)
      PROVE  [Next]_vars
  <2> DEFINE o == Resolve(Contents(s))
  <2>1. \/ UNCHANGED vars
        \/ MarkInPlace(o)
        \/ \E p \in Places(o.len) : Evacuate(o, p)
    BY <1>8 DEF VisitUnmarked
  <2>2. MarkInPlace(o) \/ (\E p \in Places(o.len) : Evacuate(o, p)) => o \in objs
    BY DEF MarkInPlace, Evacuate
  <2> QED
    BY <2>1, <2>2 DEF Next
<1>9. ASSUME NEW o \in worklist, Trace(o)
      PROVE  UNCHANGED vars
  BY <1>9 DEF Trace
<1>10. CASE FinishCollection
  BY <1>10 DEF FinishCollection, Next
<1>11. CASE UNCHANGED allVars
  BY <1>11 DEF allVars
<1> QED
  BY <1>1, <1>2, <1>3, <1>4, <1>5, <1>6, <1>7, <1>8, <1>9, <1>10, <1>11
  DEF HeapNext, Program, Collector

\* The collector uses the space as the space's own specification allows:
\* every behaviour of the heap is one of the space.
THEOREM HeapUsesSpace == HeapSpec => Spec
<1>1. HeapInit => Init
  BY DEF HeapInit
<1> QED
  BY <1>1, HeapStepsAreSpaceSteps, PTL DEF HeapSpec, Spec

\* No word belongs to two small or medium objects of the heap
\* (gc_alloc, gc_mark1's copy).
THEOREM HeapStorageNeverShared == HeapSpec => []NoOverlap
<1> QED
  BY HeapUsesSpace, StorageNeverShared, PTL
-----------------------------------------------------------------------------
(***************************************************************************)
(* The inductive invariant, one lemma per action.                          *)
(***************************************************************************)

LEMMA HeapStarts == HeapInit => HeapInv
<1> SUFFICES ASSUME HeapInit PROVE HeapInv
  OBVIOUS
<1> USE DEF HeapInit
<1>1. SpaceInv /\ phase = "mutate" /\ objs = {} /\ live = {}
  BY SpaceInit DEF Init
<1>2. HeapTypeOK
  <2>1. TypeOK
    BY <1>1 DEF SpaceInv
  <2>2. epoch \in 0 .. EpochMod - 1
    BY HeapAssumption
  <2>3. mem \in [DOMAIN mem -> Object] /\ DOMAIN mem = {}
    OBVIOUS
  <2> QED
    BY <1>1, <2>1, <2>2, <2>3 DEF HeapTypeOK, Value
<1>3. PointersHaveHeaders
  BY <1>1 DEF PointersHaveHeaders, IsPointer
<1>4. HeadersAgree
  BY <1>1 DEF HeadersAgree
<1>5. NothingForgotten /\ NothingMarkedInVain
  BY <1>1 DEF NothingForgotten, NothingMarkedInVain
<1> QED
  BY <1>1, <1>2, <1>3, <1>4, <1>5 DEF HeapInv

\* What a collection has under way exists only while it runs.
LEMMA OnlyWhileMarking ==
  ASSUME HeapTypeOK
  PROVE  /\ phase \in {"mutate", "mark"}
         /\ slots # {} \/ worklist # {} => phase = "mark"
BY DEF HeapTypeOK, TypeOK

\* While the program runs, the space's step changes no more than objs.
LEMMA HeapFrame ==
  ASSUME HeapInv, SpaceInv', UNCHANGED <<objs, live, phase, heapVars>>
  PROVE  HeapInv'
<1> USE DEF heapVars
<1>1. HeapTypeOK'
  BY DEF HeapInv, HeapTypeOK, SpaceInv
<1>2. PointersHaveHeaders' /\ HeadersAgree'
  BY DEF HeapInv, PointersHaveHeaders, HeadersAgree, Marked
<1>3. Survivors' = Survivors
  BY DEF Survivors, SurvivingLarge, Marked
<1>4. NothingForgotten'
  BY <1>3 DEF HeapInv, NothingForgotten, Settled
<1>5. NothingMarkedInVain'
  BY <1>3 DEF HeapInv, NothingMarkedInVain, ClosedAmongSurvivors, RootPointees, FieldPointees, Pointees
<1> QED
  BY <1>1, <1>2, <1>4, <1>5 DEF HeapInv

LEMMA AllocateEffect ==
  ASSUME NEW n, NEW p, Allocate(n, p)
  PROVE  objs' = objs \cup {p} /\ phase = "mutate" /\ phase' = phase /\ live' = live
BY DEF Allocate, AllocSmallBump, AllocSmallNextHole, AllocSmallNextBlock, AllocMedium, HandOut

\* A new object, small or large: null fields, not forwarded, unmarked.
LEMMA InstallKeepsInv ==
  ASSUME HeapInv, SpaceInv', NEW x \in Root, NEW p \in Address, Install(x, p),
         phase = "mutate", phase' = phase, live' = live,
         objs' \cup large' = objs \cup large \cup {p}, large' \subseteq LargeExtent
  PROVE  HeapInv'
<1> USE DEF HeapInv
<1>1. PICK i \in Id :
        /\ roots' = [roots EXCEPT ![x] = p]
        /\ mem' = [r \in DOMAIN mem \cup {p} |-> IF r = p THEN NewObject(i) ELSE mem[r]]
        /\ UNCHANGED <<epoch, liveBytes, slots, worklist>>
  BY DEF Install
<1>2. /\ NewObject(i) \in Object
      /\ NewObject(i).forward = Null /\ NewObject(i).epoch = 0
      /\ \A f \in Field : NewObject(i).fields[f] = Null
  BY HeapAssumption DEF NewObject, Object, Value
<1>3. /\ DOMAIN mem = objs \cup large /\ DOMAIN mem' = objs' \cup large'
      /\ mem'[p] = NewObject(i)
      /\ \A r \in DOMAIN mem : r # p => mem'[r] = mem[r]
  BY <1>1 DEF HeapTypeOK
<1>4. HeapTypeOK'
  <2>1. DOMAIN mem' \subseteq Address /\ mem' \in [DOMAIN mem' -> Object]
    BY <1>1, <1>2, <1>3 DEF HeapTypeOK
  <2>2. roots' \in [Root -> Value]
    BY <1>1 DEF HeapTypeOK, Value
  <2> QED
    BY <1>1, <1>3, <2>1, <2>2 DEF HeapTypeOK, SpaceInv
<1>5. PointersHaveHeaders'
  BY <1>1, <1>2, <1>3 DEF PointersHaveHeaders, IsPointer, HeapTypeOK
<1>6. HeadersAgree'
  <2>1. epoch \in Nat /\ epoch # 0
    BY DEF HeapTypeOK, HeadersAgree
  <2> QED
    BY <1>1, <1>2, <1>3, <2>1 DEF HeadersAgree
<1>7. NothingForgotten' /\ NothingMarkedInVain'
  BY DEF NothingForgotten, NothingMarkedInVain
<1> QED
  BY <1>4, <1>5, <1>6, <1>7

LEMMA NewKeepsInv ==
  ASSUME HeapInv, SpaceInv', NEW x \in Root, NEW n \in Sizes, New(x, n)
  PROVE  HeapInv'
<1>1. PICK p \in Places(n) : Allocate(n, p) /\ Install(x, p) /\ UNCHANGED large
  BY DEF New
<1>2. objs' = objs \cup {p} /\ phase = "mutate" /\ phase' = phase /\ live' = live
  BY <1>1, AllocateEffect
<1>3. p \in Address
  BY <1>2 DEF SpaceInv, TypeOK, Address
<1>4. objs' \cup large' = objs \cup large \cup {p} /\ large' \subseteq LargeExtent
  BY <1>1, <1>2 DEF HeapInv, HeapTypeOK
<1> QED
  BY <1>1, <1>2, <1>3, <1>4, InstallKeepsInv

LEMMA NewLargeKeepsInv ==
  ASSUME HeapInv, SpaceInv', NEW x \in Root, NewLarge(x)
  PROVE  HeapInv'
<1>1. PICK s \in LargeSlots :
        LET p == [blk |-> s, at |-> 0, len |-> LargeLen]
        IN large' = large \cup {p} /\ Install(x, p)
  BY DEF NewLarge
<1> DEFINE p == [blk |-> s, at |-> 0, len |-> LargeLen]
<1>2. p \in LargeExtent /\ p \in Address
  BY DEF LargeExtent, Address
<1>3. /\ phase = "mutate" /\ phase' = phase /\ live' = live /\ objs' = objs
      /\ large \subseteq LargeExtent
  BY DEF NewLarge, vars, HeapInv, HeapTypeOK
<1> HIDE DEF p
<1> QED
  BY <1>1, <1>2, <1>3, InstallKeepsInv DEF p

\* struct.set: the reference stored was held by a root.
LEMMA StoreKeepsInv ==
  ASSUME HeapInv, SpaceInv', NEW x \in Root, NEW y \in Root, NEW f \in Field, Store(x, f, y)
  PROVE  HeapInv'
<1> USE DEF HeapInv
<1> DEFINE o == roots[x]
<1>1. /\ phase = "mutate" /\ IsPointer(o)
      /\ mem' = [mem EXCEPT ![o] = [mem[o] EXCEPT !.fields = [mem[o].fields EXCEPT ![f] = roots[y]]]]
      /\ UNCHANGED <<phase, objs, live, roots, large, epoch, liveBytes, slots, worklist>>
  BY DEF Store, vars
<1>2. /\ o \in DOMAIN mem /\ DOMAIN mem = objs \cup large /\ mem[o] \in Object
      /\ roots[y] \in Value
      /\ mem[o].fields \in [Field -> Value]
  BY <1>1 DEF PointersHaveHeaders, HeapTypeOK, Object
<1>3. /\ DOMAIN mem' = DOMAIN mem
      /\ \A r \in DOMAIN mem : r # o => mem'[r] = mem[r]
      /\ mem'[o] = [mem[o] EXCEPT !.fields = [mem[o].fields EXCEPT ![f] = roots[y]]]
  BY <1>1, <1>2
<1> DEFINE fs == [mem[o].fields EXCEPT ![f] = roots[y]]
<1>4. fs \in [Field -> Value] /\ \A g \in Field : fs[g] = mem[o].fields[g] \/ fs[g] = roots[y]
  BY <1>2
<1>5. /\ mem'[o] \in Object /\ mem'[o].fields = fs
      /\ mem'[o].forward = mem[o].forward /\ mem'[o].epoch = mem[o].epoch
  <2> HIDE DEF fs
  <2>1. mem'[o] = [mem[o] EXCEPT !.fields = fs]
    BY <1>3 DEF fs
  <2> HIDE DEF o
  <2> QED
    BY <1>2, <1>4, <2>1 DEF Object
<1> HIDE DEF o, fs
<1>6. HeapTypeOK'
  <2>1. DOMAIN mem' \subseteq Address /\ mem' \in [DOMAIN mem' -> Object]
    BY <1>1, <1>2, <1>3, <1>5 DEF HeapTypeOK
  <2> QED
    BY <1>1, <1>2, <1>3, <2>1 DEF HeapTypeOK, SpaceInv
<1>7. PointersHaveHeaders'
  <2>1. \A r \in DOMAIN mem, g \in Field :
          mem'[r].fields[g] = mem[r].fields[g] \/ mem'[r].fields[g] = roots[y]
    BY <1>3, <1>4, <1>5
  <2>2. IsPointer(roots[y]) => roots[y] \in DOMAIN mem
    BY DEF PointersHaveHeaders
  <2> QED
    BY <1>1, <1>2, <1>3, <2>1, <2>2 DEF PointersHaveHeaders
<1>8. HeadersAgree'
  BY <1>1, <1>2, <1>3, <1>5 DEF HeadersAgree
<1>9. NothingForgotten' /\ NothingMarkedInVain'
  BY <1>1 DEF NothingForgotten, NothingMarkedInVain
<1> QED
  BY <1>6, <1>7, <1>8, <1>9

\* struct.get, and any other write to a root: what it holds then was held by
\* a root or by a field of an object.
LEMMA RootKeepsInv ==
  ASSUME HeapInv, SpaceInv', NEW x \in Root, NEW v \in Value,
         IsPointer(v) => v \in DOMAIN mem,
         phase = "mutate", roots' = [roots EXCEPT ![x] = v],
         UNCHANGED <<vars, mem, large, epoch, liveBytes, slots, worklist>>
  PROVE  HeapInv'
<1> USE DEF HeapInv
<1>1. UNCHANGED <<phase, objs, live>>
  BY DEF vars
<1>2. HeapTypeOK'
  BY <1>1 DEF HeapTypeOK, SpaceInv
<1>3. PointersHaveHeaders' /\ HeadersAgree'
  BY <1>1 DEF PointersHaveHeaders, HeadersAgree, HeapTypeOK
<1>4. NothingForgotten' /\ NothingMarkedInVain'
  BY <1>1 DEF NothingForgotten, NothingMarkedInVain
<1> QED
  BY <1>2, <1>3, <1>4

LEMMA LoadKeepsInv ==
  ASSUME HeapInv, SpaceInv', NEW x \in Root, NEW y \in Root, NEW f \in Field, Load(x, y, f)
  PROVE  HeapInv'
<1> DEFINE v == mem[roots[y]].fields[f]
<1>1. roots[y] \in objs \cup large /\ mem[roots[y]] \in Object
  BY DEF Load, HeapInv, PointersHaveHeaders, HeapTypeOK
<1>2. v \in Value /\ (IsPointer(v) => v \in DOMAIN mem)
  BY <1>1 DEF HeapInv, PointersHaveHeaders, Object
<1> QED
  BY <1>2, RootKeepsInv DEF Load

LEMMA AssignKeepsInv ==
  ASSUME HeapInv, SpaceInv', NEW x \in Root,
         NEW v \in {Null} \cup Scalars \cup {roots[y] : y \in Root}, Assign(x, v)
  PROVE  HeapInv'
<1>1. v \in Value /\ (IsPointer(v) => v \in DOMAIN mem)
  BY DEF HeapInv, PointersHaveHeaders, HeapTypeOK, Value, IsPointer
<1> QED
  BY <1>1, RootKeepsInv DEF Assign

\* gc_collect begins: nothing is marked yet, and every root is to be visited.
LEMMA StartKeepsInv ==
  ASSUME HeapInv, SpaceInv', StartCollection
  PROVE  HeapInv'
<1> USE DEF HeapInv
<1>1. /\ phase = "mutate" /\ phase' = "mark" /\ objs' = objs /\ live' = live
      /\ liveBytes' = 0 /\ worklist' = {} /\ slots' = {RootSlot(x) : x \in Root}
      /\ UNCHANGED <<roots, mem, large, epoch>> /\ epoch <= MaxEpoch
  BY DEF StartCollection, BeginCollection
<1>2. live = {} /\ epoch \in Nat /\ DOMAIN mem = objs \cup large
  BY <1>1 DEF SpaceInv, CollectorClear, HeapTypeOK
<1>3. \A o \in objs \cup large : mem[o].epoch \in Nat /\ mem[o].epoch < epoch
  BY <1>1 DEF HeadersAgree, HeapTypeOK, Object
<1>4. \A o \in objs \cup large : ~ Marked(o)'
  BY <1>1, <1>2, <1>3 DEF Marked
<1>5. Survivors' = {}
  BY <1>1, <1>2, <1>4 DEF Survivors, SurvivingLarge
<1>6. HeapTypeOK'
  BY <1>1 DEF HeapTypeOK, SpaceInv
<1>7. PointersHaveHeaders' /\ HeadersAgree'
  BY <1>1, <1>2, <1>4 DEF PointersHaveHeaders, HeadersAgree
<1>8. NothingForgotten' /\ NothingMarkedInVain'
  BY <1>1, <1>5 DEF NothingForgotten, NothingMarkedInVain
<1> QED
  BY <1>6, <1>7, <1>8

\* What writing t back to slot s over the heap m leaves, slot by slot.
LEMMA WriteBackEffect ==
  ASSUME HeapTypeOK, NEW s \in slots, NEW t \in Value, NEW m,
         m \in [DOMAIN m -> Object], DOMAIN mem \subseteq DOMAIN m,
         WriteBack(s, t, m)
  PROVE  /\ slots' = slots \ {s}
         /\ roots' \in [Root -> Value]
         /\ DOMAIN mem' = DOMAIN m /\ mem' \in [DOMAIN m -> Object]
         /\ \A q \in DOMAIN m : /\ mem'[q].forward = m[q].forward
                               /\ mem'[q].epoch = m[q].epoch /\ mem'[q].id = m[q].id
         /\ \A x \in Root : roots'[x] = IF s = RootSlot(x) THEN t ELSE roots[x]
         /\ \A q \in DOMAIN m, f \in Field :
              mem'[q].fields[f] = IF s = FieldSlot(q, f) THEN t ELSE m[q].fields[f]
<1>1. roots \in [Root -> Value]
  BY DEF HeapTypeOK
<1>2. CASE \E x \in Root : s = RootSlot(x)
  <2>1. PICK x \in Root : s = RootSlot(x)
    BY <1>2
  <2>2. slots' = slots \ {s} /\ roots' = [roots EXCEPT ![x] = t] /\ mem' = m
    BY <2>1 DEF WriteBack, RootSlot
  <2>3. /\ \A y \in Root : s = RootSlot(y) <=> y = x
        /\ \A q \in DOMAIN m, f \in Field : s # FieldSlot(q, f)
    BY <2>1 DEF RootSlot, FieldSlot
  <2> QED
    BY <1>1, <2>2, <2>3
<1>3. CASE \E o \in objs \cup large, f \in Field : s = FieldSlot(o, f)
  <2>1. PICK o \in objs \cup large, f \in Field : s = FieldSlot(o, f)
    BY <1>3
  <2> DEFINE fs == [m[o].fields EXCEPT ![f] = t]
  <2>2. /\ slots' = slots \ {s} /\ roots' = roots
        /\ mem' = [m EXCEPT ![o] = [m[o] EXCEPT !.fields = fs]]
    BY <2>1 DEF WriteBack, FieldSlot
  <2>3. /\ \A y \in Root : s # RootSlot(y)
        /\ \A q \in DOMAIN m, g \in Field : s = FieldSlot(q, g) <=> q = o /\ g = f
    BY <2>1 DEF RootSlot, FieldSlot
  <2>4. o \in DOMAIN m /\ m[o] \in Object /\ m[o].fields \in [Field -> Value]
    BY DEF Object, HeapTypeOK
  <2>5. fs \in [Field -> Value] /\ \A g \in Field : fs[g] = IF g = f THEN t ELSE m[o].fields[g]
    BY <2>4
  <2> HIDE DEF fs
  <2>6. /\ DOMAIN mem' = DOMAIN m
        /\ mem'[o] = [m[o] EXCEPT !.fields = fs]
        /\ \A q \in DOMAIN m : q # o => mem'[q] = m[q]
    BY <2>2, <2>4
  <2>7. /\ mem'[o] \in Object /\ mem'[o].fields = fs
        /\ mem'[o].forward = m[o].forward
        /\ mem'[o].epoch = m[o].epoch /\ mem'[o].id = m[o].id
    BY <2>4, <2>5, <2>6 DEF Object
  <2>8. mem' \in [DOMAIN m -> Object]
    BY <2>2, <2>6, <2>7
  <2>9. \A q \in DOMAIN m, g \in Field :
          mem'[q].fields[g] = IF s = FieldSlot(q, g) THEN t ELSE m[q].fields[g]
    BY <2>3, <2>5, <2>6, <2>7
  <2> QED
    BY <1>1, <2>2, <2>3, <2>6, <2>7, <2>8, <2>9
<1> QED
  BY <1>2, <1>3 DEF HeapTypeOK

\* Contents of a slot, and where the object they lead to is now.
LEMMA SlotLeadsToObject ==
  ASSUME HeapInv, NEW s \in slots
  PROVE  /\ Contents(s) \in Value
         /\ IsPointer(Contents(s)) =>
              /\ Contents(s) \in DOMAIN mem
              /\ Resolve(Contents(s)) \in objs \cup large
              /\ Contents(s) \in objs \cup large => Resolve(Contents(s)) = Contents(s)
<1> USE DEF HeapInv
<1>1. Contents(s) \in Value /\ (IsPointer(Contents(s)) => Contents(s) \in DOMAIN mem)
  <2>1. ASSUME NEW x \in Root, s = RootSlot(x)
        PROVE  Contents(s) \in Value /\ (IsPointer(Contents(s)) => Contents(s) \in DOMAIN mem)
    BY <2>1 DEF Contents, RootSlot, HeapTypeOK, PointersHaveHeaders
  <2>2. ASSUME NEW o \in objs \cup large, NEW f \in Field, s = FieldSlot(o, f)
        PROVE  Contents(s) \in Value /\ (IsPointer(Contents(s)) => Contents(s) \in DOMAIN mem)
    <3>1. mem[o] \in Object /\ Contents(s) = mem[o].fields[f]
      BY <2>2 DEF Contents, FieldSlot, HeapTypeOK
    <3> QED
      BY <3>1 DEF Object, PointersHaveHeaders
  <2> QED
    BY <2>1, <2>2 DEF HeapTypeOK
<1>2. \A r \in DOMAIN mem :
        /\ Resolve(r) \in objs \cup large
        /\ r \in objs \cup large => Resolve(r) = r
  <2>1. live \subseteq objs /\ Null \notin Address /\ objs \subseteq Address
    BY HeapAssumption DEF HeapTypeOK, TypeOK, Address
  <2> QED
    BY <2>1 DEF HeadersAgree, Resolve
<1> QED
  BY <1>1, <1>2

\* gc_mark1, whatever it does to the object: slot s is left holding t over the
\* heap m, whose objects agree with the space, and the objects of N (at most
\* t) are the ones it marked.
HeapAgrees(m) ==
  /\ m \in [DOMAIN m -> Object] /\ DOMAIN m \subseteq Address /\ DOMAIN mem \subseteq DOMAIN m
  /\ objs' \cup large \subseteq DOMAIN m
  /\ \A q \in objs' \cup large : m[q].forward = Null
  /\ \A q \in DOMAIN m \ (objs' \cup large) : m[q].forward \in live'
  /\ \A q \in objs' : m[q].epoch = epoch <=> q \in live'
  /\ \A q \in objs' \cup large, f \in Field :
       IsPointer(m[q].fields[f]) => m[q].fields[f] \in DOMAIN m
  /\ \A q \in Survivors, f \in Field : m[q].fields[f] = mem[q].fields[f]

Marks(s, t, m, N) ==
  /\ N = {} \/ (N = {t} /\ IsPointer(t))
  /\ live' \cup {q \in large : m[q].epoch = epoch} = Survivors \cup N
  /\ worklist' = worklist \cup N
  /\ IsPointer(t) => t \in Survivors \cup N
  /\ IsPointer(Contents(s)) /\ Contents(s) \in Survivors => t = Contents(s)

LEMMA VisitKeepsInv ==
  ASSUME HeapInv, SpaceInv', phase = "mark", phase' = phase, UNCHANGED <<large, epoch>>,
         liveBytes' \in Nat, NEW s \in slots, NEW t \in Value, NEW m, NEW N,
         WriteBack(s, t, m), HeapAgrees(m), Marks(s, t, m, N)
  PROVE  HeapInv'
<1> USE DEF HeapInv, HeapAgrees, Marks
<1>1. /\ slots' = slots \ {s}
      /\ roots' \in [Root -> Value]
      /\ DOMAIN mem' = DOMAIN m /\ mem' \in [DOMAIN m -> Object]
      /\ \A q \in DOMAIN m : mem'[q].forward = m[q].forward /\ mem'[q].epoch = m[q].epoch
      /\ \A x \in Root : roots'[x] = IF s = RootSlot(x) THEN t ELSE roots[x]
      /\ \A q \in DOMAIN m, f \in Field :
           mem'[q].fields[f] = IF s = FieldSlot(q, f) THEN t ELSE m[q].fields[f]
  BY WriteBackEffect
<1>2. Survivors' = Survivors \cup N
  BY <1>1 DEF Survivors, SurvivingLarge, Marked
<1>3. Survivors \subseteq objs \cup large /\ Survivors' \subseteq objs' \cup large
  BY DEF Survivors, SurvivingLarge, SpaceInv, TypeOK
<1>4. IsPointer(t) => t \in DOMAIN m
  BY <1>2, <1>3
<1>5. \A x \in Root : s = RootSlot(x) => Contents(s) = roots[x]
  BY DEF Contents, RootSlot
<1>6. \A o, f : s = FieldSlot(o, f) => Contents(s) = mem[o].fields[f]
  BY DEF Contents, FieldSlot
<1>7. /\ worklist \subseteq Survivors
      /\ slots \subseteq {RootSlot(x) : x \in Root}
                    \cup {FieldSlot(o, f) : o \in Survivors, f \in Field}
  BY DEF NothingForgotten
<1>8. HeapTypeOK'
  <2>1. slots' \subseteq {RootSlot(x) : x \in Root}
                    \cup {FieldSlot(o, f) : o \in objs' \cup large', f \in Field}
    BY <1>1, <1>2, <1>3, <1>7
  <2>2. worklist' \subseteq objs' \cup large'
    BY <1>2, <1>3, <1>7
  <2> QED
    BY <1>1, <2>1, <2>2 DEF HeapTypeOK, SpaceInv
<1>9. PointersHaveHeaders'
  <2>1. \A x \in Root : IsPointer(roots'[x]) => roots'[x] \in DOMAIN m
    BY <1>1, <1>4 DEF PointersHaveHeaders
  <2>2. \A o \in objs' \cup large, f \in Field :
          IsPointer(mem'[o].fields[f]) => mem'[o].fields[f] \in DOMAIN m
    BY <1>1, <1>4
  <2> QED
    BY <1>1, <2>1, <2>2 DEF PointersHaveHeaders
<1>10. HeadersAgree'
  BY <1>1 DEF HeadersAgree, Marked
<1>11. NothingForgotten'
  <2>1. worklist' \subseteq Survivors'
    BY <1>2, <1>7
  <2>2. slots' \subseteq {RootSlot(x) : x \in Root}
                    \cup {FieldSlot(o, f) : o \in Survivors', f \in Field}
    BY <1>1, <1>2, <1>7
  <2>3. \A x \in Root : RootSlot(x) \in slots' \/ Settled(roots[x])'
    BY <1>1, <1>2 DEF NothingForgotten, Settled
  <2>4. \A o \in Survivors' \ worklist', f \in Field :
          FieldSlot(o, f) \in slots' \/ Settled(mem[o].fields[f])'
    <3> SUFFICES ASSUME NEW o \in Survivors \ worklist, NEW f \in Field
                 PROVE  FieldSlot(o, f) \in slots' \/ Settled(mem[o].fields[f])'
      BY <1>2
    <3>1. o \in DOMAIN m /\ m[o].fields[f] = mem[o].fields[f]
      BY <1>2, <1>3
    <3>2. FieldSlot(o, f) \in slots \/ Settled(mem[o].fields[f])
      BY DEF NothingForgotten
    <3> QED
      BY <1>1, <1>2, <3>1, <3>2 DEF Settled
  <2> QED
    BY <2>1, <2>2, <2>3, <2>4 DEF NothingForgotten
<1>12. NothingMarkedInVain'
  <2> SUFFICES ASSUME NEW D \in SUBSET Survivors', ClosedAmongSurvivors(D)'
               PROVE  D = Survivors'
    BY DEF NothingMarkedInVain
  <2>1. /\ \A x \in Root : IsPointer(roots'[x]) /\ roots'[x] \in Survivors' => roots'[x] \in D
        /\ \A o \in D, f \in Field :
             IsPointer(mem'[o].fields[f]) /\ mem'[o].fields[f] \in Survivors'
             => mem'[o].fields[f] \in D
    BY <1>1, <1>2, <1>3 DEF ClosedAmongSurvivors, RootPointees, FieldPointees, Pointees, IsPointer
  <2>2. RootPointees \cap Survivors \subseteq D
    <3> SUFFICES ASSUME NEW x \in Root, IsPointer(roots[x]), roots[x] \in Survivors
                 PROVE  roots[x] \in D
      BY DEF RootPointees, Pointees
    <3> QED
      BY <1>1, <1>2, <1>5, <2>1
  <2>3. \A o \in D \cap Survivors : FieldPointees(o) \cap Survivors \subseteq D
    <3> SUFFICES ASSUME NEW o \in D \cap Survivors, NEW f \in Field,
                        IsPointer(mem[o].fields[f]), mem[o].fields[f] \in Survivors
                 PROVE  mem[o].fields[f] \in D
      BY DEF FieldPointees, Pointees
    <3>1. o \in DOMAIN m /\ m[o].fields[f] = mem[o].fields[f]
      BY <1>2, <1>3
    <3> QED
      BY <1>1, <1>2, <1>6, <2>1, <3>1
  <2>4. D \cap Survivors = Survivors
    BY <2>2, <2>3 DEF NothingMarkedInVain, ClosedAmongSurvivors
  <2>5. CASE N = {}
    BY <1>2, <2>4, <2>5
  <2>6. CASE N = {t} /\ IsPointer(t)
    <3>1. ASSUME NEW x \in Root, s = RootSlot(x)
          PROVE  t \in D
      BY <1>1, <1>2, <2>1, <2>6, <3>1
    <3>2. ASSUME NEW o \in Survivors, NEW f \in Field, s = FieldSlot(o, f)
          PROVE  t \in D
      <4>1. o \in DOMAIN m /\ o \in D
        BY <1>2, <1>3, <2>4
      <4>2. mem'[o].fields[f] = t
        BY <1>1, <3>2, <4>1
      <4> QED
        BY <1>2, <2>1, <2>6, <4>1, <4>2
    <3>3. t \in D
      BY <1>7, <3>1, <3>2
    <3> QED
      BY <1>2, <2>4, <2>6, <3>3
  <2> QED
    BY <2>5, <2>6
<1> QED
  BY <1>8, <1>9, <1>10, <1>11, <1>12

\* Small and large objects, told apart by their size; none is null or a
\* scalar.
LEMMA AddressType ==
  ASSUME HeapInv
  PROVE  /\ \A o \in objs : o \in Address /\ o.len \in Nat /\ o.len <= DataWords
         /\ \A o \in large : o \in Address /\ o.len \in Nat /\ ~ o.len <= DataWords
         /\ \A o \in Address : IsPointer(o)
<1>1. \A o \in objs : o \in Address /\ o.len \in Nat /\ o.len <= DataWords
  BY ExtentType, DataWordsType DEF HeapInv, SpaceInv, TypeOK, Address
<1>2. \A o \in large : o \in Address /\ o.len \in Nat /\ ~ o.len <= DataWords
  BY HeapAssumption, DataWordsType DEF HeapInv, HeapTypeOK, Address, LargeExtent
<1>3. \A o \in Address : IsPointer(o)
  BY HeapAssumption DEF IsPointer
<1> QED
  BY <1>1, <1>2, <1>3

\* gc_mark1 finds nothing to mark.
LEMMA VisitDoneKeepsInv ==
  ASSUME HeapInv, SpaceInv', NEW s \in slots, VisitDone(s)
  PROVE  HeapInv'
<1> USE DEF HeapInv
<1> DEFINE r == Contents(s)
           t == IF IsPointer(r) THEN Resolve(r) ELSE r
<1>1. /\ IsPointer(r) => Marked(Resolve(r))
      /\ WriteBack(s, t, mem)
      /\ UNCHANGED <<objs, live, phase, large, epoch, liveBytes, worklist>>
  BY DEF VisitDone, vars
<1>2. phase = "mark"
  BY OnlyWhileMarking
<1>3. /\ r \in Value
      /\ IsPointer(r) => /\ r \in DOMAIN mem
                         /\ Resolve(r) \in objs \cup large
                         /\ r \in objs \cup large => Resolve(r) = r
  BY SlotLeadsToObject
<1> HIDE DEF r
<1>4. t \in Value
  BY <1>3 DEF HeapTypeOK, Value
<1>5. IsPointer(t) => t \in Survivors
  BY <1>1, <1>2, <1>3 DEF HeadersAgree, Survivors, SurvivingLarge
<1>6. IsPointer(r) /\ r \in Survivors => t = r
  BY <1>3 DEF Survivors, SurvivingLarge, SpaceInv, TypeOK
<1>7. live' \cup {q \in large : mem[q].epoch = epoch} = Survivors
  BY <1>1 DEF Survivors, SurvivingLarge, Marked
<1>8. HeapAgrees(mem)
  <2>1. /\ mem \in [DOMAIN mem -> Object] /\ DOMAIN mem \subseteq Address
        /\ objs' \cup large \subseteq DOMAIN mem
    BY <1>1 DEF HeapTypeOK
  <2>2. /\ \A q \in objs' \cup large : mem[q].forward = Null
        /\ \A q \in DOMAIN mem \ (objs' \cup large) : mem[q].forward \in live'
        /\ \A q \in objs' : mem[q].epoch = epoch <=> q \in live'
    BY <1>1, <1>2 DEF HeadersAgree, Marked
  <2>3. \A q \in objs' \cup large, f \in Field :
          IsPointer(mem[q].fields[f]) => mem[q].fields[f] \in DOMAIN mem
    BY <1>1 DEF PointersHaveHeaders
  <2> QED
    BY <2>1, <2>2, <2>3 DEF HeapAgrees
<1>9. Marks(s, t, mem, {})
  BY <1>1, <1>5, <1>6, <1>7 DEF Marks, r
<1> HIDE DEF t
<1> QED
  BY <1>1, <1>2, <1>4, <1>8, <1>9, VisitKeepsInv DEF HeapTypeOK

\* gc_mark1 marks the object where it is.
LEMMA VisitInPlaceKeepsInv ==
  ASSUME HeapInv, SpaceInv', NEW s \in slots, NEW o, o = Resolve(Contents(s)),
         IsPointer(Contents(s)), ~ Marked(o), liveBytes' = liveBytes + o.len,
         IF o.len > DataWords THEN UNCHANGED vars ELSE MarkInPlace(o),
         WriteBack(s, o, [mem EXCEPT ![o].epoch = epoch]),
         worklist' = worklist \cup {o}, UNCHANGED <<large, epoch>>
  PROVE  HeapInv'
<1> USE DEF HeapInv
<1> DEFINE m == [mem EXCEPT ![o].epoch = epoch]
<1>1. phase = "mark"
  BY OnlyWhileMarking
<1>2. /\ o \in objs \cup large
      /\ Contents(s) \in objs \cup large => Contents(s) = o
  BY SlotLeadsToObject
<1>3. o \in Address /\ o.len \in Nat /\ IsPointer(o)
  BY <1>2, AddressType
<1>4. /\ phase' = phase /\ objs' = objs
      /\ live' = IF o \in objs THEN live \cup {o} ELSE live
  BY <1>2, <1>3, AddressType, DataWordsType DEF MarkInPlace, vars
<1>5. /\ m = [mem EXCEPT ![o] = [mem[o] EXCEPT !.epoch = epoch]]
      /\ o \in DOMAIN mem /\ mem[o] \in Object /\ epoch \in 0 .. EpochMod - 1
  BY <1>2 DEF HeapTypeOK
<1>6. /\ DOMAIN m = DOMAIN mem
      /\ m[o] = [mem[o] EXCEPT !.epoch = epoch]
      /\ \A q \in DOMAIN mem : q # o => m[q] = mem[q]
  BY <1>5
<1> HIDE DEF m
<1>7. /\ m[o] \in Object /\ m[o].epoch = epoch
      /\ m[o].forward = mem[o].forward /\ m[o].fields = mem[o].fields
  BY <1>5, <1>6 DEF Object
<1>8. m \in [DOMAIN m -> Object]
  <2>1. m = [q \in DOMAIN m |-> m[q]]
    BY DEF m
  <2>2. \A q \in DOMAIN m : m[q] \in Object
    BY <1>6, <1>7 DEF HeapTypeOK
  <2> QED
    BY <2>1, <2>2
<1>9. /\ objs \cup large \subseteq DOMAIN m /\ DOMAIN m \subseteq Address
      /\ Survivors \subseteq DOMAIN m
  BY <1>6 DEF HeapTypeOK, Survivors, SurvivingLarge, TypeOK
<1>10. HeapAgrees(m)
  <2>1. \A q \in DOMAIN m : m[q].forward = mem[q].forward /\ m[q].fields = mem[q].fields
    BY <1>6, <1>7
  <2>2. /\ \A q \in objs' \cup large : m[q].forward = Null
        /\ \A q \in DOMAIN m \ (objs' \cup large) : m[q].forward \in live'
    BY <1>4, <1>6, <1>9, <2>1 DEF HeadersAgree
  <2>3. \A q \in objs' : m[q].epoch = epoch <=> q \in live'
    BY <1>1, <1>4, <1>6, <1>7, <1>9 DEF HeadersAgree, Marked
  <2>4. /\ \A q \in objs' \cup large, f \in Field :
             IsPointer(m[q].fields[f]) => m[q].fields[f] \in DOMAIN m
        /\ \A q \in Survivors, f \in Field : m[q].fields[f] = mem[q].fields[f]
    BY <1>4, <1>6, <1>9, <2>1 DEF PointersHaveHeaders
  <2> QED
    BY <1>4, <1>6, <1>8, <1>9, <2>2, <2>3, <2>4 DEF HeapAgrees
<1>11. Marks(s, o, m, {o})
  <2>1. \A q \in large : m[q].epoch = epoch <=> (Marked(q) \/ q = o)
    BY <1>6, <1>7, <1>9 DEF Marked
  <2>2. live' \cup {q \in large : m[q].epoch = epoch} = Survivors \cup {o}
    BY <1>2, <1>4, <2>1 DEF Survivors, SurvivingLarge
  <2>3. ~ Contents(s) \in Survivors
    BY <1>1, <1>2 DEF Survivors, SurvivingLarge, HeadersAgree, SpaceInv, TypeOK
  <2> QED
    BY <1>3, <2>2, <2>3 DEF Marks
<1>12. WriteBack(s, o, m) /\ o \in Value /\ liveBytes' \in Nat
  BY <1>3 DEF m, Value, HeapTypeOK
<1> QED
  BY <1>1, <1>4, <1>10, <1>11, <1>12, VisitKeepsInv

\* The evacuation cursor hands out storage no object occupies.
LEMMA EvacuateEffect ==
  ASSUME SpaceInv, SpaceInv', NEW o \in objs, NEW p \in Places(o.len), Evacuate(o, p)
  PROVE  /\ p \in Extent /\ p \notin objs
         /\ phase' = phase /\ objs' = (objs \ {o}) \cup {p} /\ live' = live \cup {p}
         /\ o \notin live
<1>1. phase' = phase /\ objs' = (objs \ {o}) \cup {p} /\ live' = live \cup {p} /\ o \notin live
  BY DEF Evacuate
<1>2. p \in Extent
  BY <1>1 DEF SpaceInv, TypeOK
<1>3. p \notin objs
  <2>1. evac.active
    BY DEF Evacuate, IsCandidate
  <2>2. CASE p.blk = evac.blk /\ p.at = evac.cur
    BY <1>2, <2>1, <2>2, ExtentType DEF SpaceInv, CollectorClear, TypeOK
  <2>3. CASE p.blk \in untouched
    BY <2>3 DEF SpaceInv, EmptyBlocksHoldNothing
  <2> QED
    BY <2>2, <2>3 DEF Evacuate
<1> QED
  BY <1>1, <1>2, <1>3

\* gc_mark1 moves the object to p and leaves a forwarding pointer.
LEMMA VisitMovedKeepsInv ==
  ASSUME HeapInv, SpaceInv', NEW s \in slots, NEW o, o = Resolve(Contents(s)),
         IsPointer(Contents(s)), ~ Marked(o), liveBytes' = liveBytes + o.len,
         o.len <= DataWords, NEW p \in Places(o.len), Evacuate(o, p),
         WriteBack(s, p, [r \in DOMAIN mem \cup {p} |->
                    CASE r = p -> [mem[o] EXCEPT !.epoch = epoch]
                      [] r = o -> [mem[o] EXCEPT !.forward = p]
                      [] OTHER -> mem[r]]),
         worklist' = worklist \cup {p}, UNCHANGED <<large, epoch>>
  PROVE  HeapInv'
<1> USE DEF HeapInv
<1> DEFINE m == [r \in DOMAIN mem \cup {p} |->
                    CASE r = p -> [mem[o] EXCEPT !.epoch = epoch]
                      [] r = o -> [mem[o] EXCEPT !.forward = p]
                      [] OTHER -> mem[r]]
<1>1. phase = "mark"
  BY OnlyWhileMarking
<1>2. /\ o \in objs \cup large
      /\ Contents(s) \in objs \cup large => Contents(s) = o
  BY SlotLeadsToObject
<1>3. o \in objs /\ o \notin large /\ o.len \in Nat
  BY <1>2, AddressType
<1>4. /\ p \in Extent /\ p \notin objs
      /\ phase' = phase /\ objs' = (objs \ {o}) \cup {p} /\ live' = live \cup {p}
      /\ o \notin live
  BY <1>3, EvacuateEffect
<1>5. /\ p \in Address /\ IsPointer(p) /\ p \notin large
      /\ p # o /\ p \notin Survivors /\ o \notin Survivors
      /\ Survivors \subseteq objs \cup large
  <2>1. p \in Address /\ IsPointer(p)
    BY <1>4, AddressType DEF Address
  <2>2. p \notin large
    BY <1>4, AddressType, ExtentType, DataWordsType
  <2> QED
    BY <1>3, <1>4, <2>1, <2>2 DEF Survivors, SurvivingLarge, SpaceInv, TypeOK
<1>6. o \in DOMAIN mem /\ mem[o] \in Object /\ epoch \in 0 .. EpochMod - 1
  BY <1>2 DEF HeapTypeOK
<1>7. /\ DOMAIN m = DOMAIN mem \cup {p}
      /\ m[p] = [mem[o] EXCEPT !.epoch = epoch]
      /\ m[o] = [mem[o] EXCEPT !.forward = p]
      /\ \A q \in DOMAIN mem : q # o /\ q # p => m[q] = mem[q]
  BY <1>5, <1>6
<1>8. m = [q \in DOMAIN m |-> m[q]]
  OBVIOUS
<1>9. WriteBack(s, p, m)
  OBVIOUS
<1> HIDE DEF m
<1>10. /\ m[p] \in Object /\ m[p].epoch = epoch
       /\ m[p].forward = mem[o].forward /\ m[p].fields = mem[o].fields
  BY <1>6, <1>7 DEF Object
<1>11. m[o] \in Object /\ m[o].forward = p
  BY <1>5, <1>6, <1>7 DEF Object
<1>12. m \in [DOMAIN m -> Object]
  <2>1. \A q \in DOMAIN m : m[q] \in Object
    BY <1>7, <1>10, <1>11 DEF HeapTypeOK
  <2> QED
    BY <1>8, <2>1
<1>13. \A q \in objs' \cup large : q = p \/ (q \in objs \cup large /\ m[q] = mem[q])
  BY <1>3, <1>4, <1>7 DEF HeapTypeOK
<1>14. HeapAgrees(m)
  <2>1. DOMAIN m \subseteq Address /\ DOMAIN mem \subseteq DOMAIN m /\ objs' \cup large \subseteq DOMAIN m
    BY <1>4, <1>5, <1>7 DEF HeapTypeOK
  <2>2. \A q \in objs' \cup large : m[q].forward = Null
    BY <1>2, <1>10, <1>13 DEF HeadersAgree
  <2>3. \A q \in DOMAIN m \ (objs' \cup large) : m[q].forward \in live'
    <3> SUFFICES ASSUME NEW q \in DOMAIN m \ (objs' \cup large)
                 PROVE  m[q].forward \in live'
      OBVIOUS
    <3>1. CASE q = o
      BY <1>4, <1>11, <3>1
    <3>2. CASE q # o
      <4>1. q \in DOMAIN mem \ (objs \cup large) /\ m[q] = mem[q]
        BY <1>4, <1>7, <3>2
      <4> QED
        BY <1>4, <4>1 DEF HeadersAgree
    <3> QED
      BY <3>1, <3>2
  <2>4. \A q \in objs' : m[q].epoch = epoch <=> q \in live'
    <3>1. \A q \in objs' : q = p \/ (q \in objs /\ m[q] = mem[q])
      BY <1>4, <1>7 DEF HeapTypeOK
    <3> QED
      BY <1>1, <1>4, <1>10, <3>1 DEF HeadersAgree, Marked
  <2>5. \A q \in objs' \cup large, f \in Field :
          IsPointer(m[q].fields[f]) => m[q].fields[f] \in DOMAIN m
    BY <1>2, <1>7, <1>10, <1>13 DEF PointersHaveHeaders
  <2>6. \A q \in Survivors, f \in Field : m[q].fields[f] = mem[q].fields[f]
    BY <1>5, <1>7 DEF HeapTypeOK
  <2> QED
    BY <1>12, <2>1, <2>2, <2>3, <2>4, <2>5, <2>6 DEF HeapAgrees
<1>15. Marks(s, p, m, {p})
  <2>1. \A q \in large : m[q].epoch = epoch <=> Marked(q)
    BY <1>3, <1>5, <1>7 DEF Marked, HeapTypeOK
  <2>2. live' \cup {q \in large : m[q].epoch = epoch} = Survivors \cup {p}
    BY <1>4, <2>1 DEF Survivors, SurvivingLarge
  <2>3. ~ Contents(s) \in Survivors
    BY <1>2, <1>5
  <2> QED
    BY <1>5, <2>2, <2>3 DEF Marks
<1>16. p \in Value /\ liveBytes' \in Nat
  BY <1>3, <1>5 DEF Value, HeapTypeOK
<1> QED
  BY <1>1, <1>4, <1>9, <1>14, <1>15, <1>16, VisitKeepsInv

LEMMA VisitUnmarkedKeepsInv ==
  ASSUME HeapInv, SpaceInv', NEW s \in slots, VisitUnmarked(s)
  PROVE  HeapInv'
<1> DEFINE o == Resolve(Contents(s))
<1>1. /\ IsPointer(Contents(s)) /\ ~ Marked(o) /\ liveBytes' = liveBytes + o.len
      /\ UNCHANGED <<large, epoch>>
  BY DEF VisitUnmarked
<1>2. \/ /\ IF o.len > DataWords THEN UNCHANGED vars ELSE MarkInPlace(o)
         /\ WriteBack(s, o, [mem EXCEPT ![o].epoch = epoch])
         /\ worklist' = worklist \cup {o}
      \/ /\ o.len <= DataWords
         /\ \E p \in Places(o.len) :
              /\ Evacuate(o, p)
              /\ WriteBack(s, p, [r \in DOMAIN mem \cup {p} |->
                    CASE r = p -> [mem[o] EXCEPT !.epoch = epoch]
                      [] r = o -> [mem[o] EXCEPT !.forward = p]
                      [] OTHER -> mem[r]])
              /\ worklist' = worklist \cup {p}
  BY DEF VisitUnmarked
<1> QED
  BY <1>1, <1>2, VisitInPlaceKeepsInv, VisitMovedKeepsInv

\* The transitive closure pops an object: its fields are now to be visited.
LEMMA TraceKeepsInv ==
  ASSUME HeapInv, SpaceInv', NEW o \in worklist, Trace(o)
  PROVE  HeapInv'
<1> USE DEF HeapInv
<1>1. /\ phase = "mark" /\ slots = {} /\ worklist' = worklist \ {o}
      /\ slots' = {FieldSlot(o, f) : f \in Field}
      /\ UNCHANGED <<phase, objs, live, roots, mem, large, epoch, liveBytes>>
  BY DEF Trace, vars
<1>2. Survivors' = Survivors /\ o \in Survivors /\ worklist \subseteq Survivors
  BY <1>1 DEF Survivors, SurvivingLarge, Marked, NothingForgotten
<1>3. HeapTypeOK'
  BY <1>1 DEF HeapTypeOK, SpaceInv
<1>4. PointersHaveHeaders' /\ HeadersAgree'
  BY <1>1 DEF PointersHaveHeaders, HeadersAgree, Marked
<1>5. NothingForgotten'
  <2>1. \A x \in Root : Settled(roots[x])'
    BY <1>1, <1>2 DEF NothingForgotten, Settled
  <2>2. \A q \in Survivors \ worklist, f \in Field : Settled(mem[q].fields[f])'
    BY <1>1, <1>2 DEF NothingForgotten, Settled
  <2>3. \A q \in Survivors' \ worklist', f \in Field :
          FieldSlot(q, f) \in slots' \/ Settled(mem[q].fields[f])'
    BY <1>1, <1>2, <2>2
  <2> QED
    BY <1>1, <1>2, <2>1, <2>3 DEF NothingForgotten
<1>6. NothingMarkedInVain'
  BY <1>1, <1>2
  DEF NothingMarkedInVain, ClosedAmongSurvivors, RootPointees, FieldPointees, Pointees
<1> QED
  BY <1>3, <1>4, <1>5, <1>6

\* What the sweeps leave: the survivors, as they were.
LEMMA FinishEffect ==
  ASSUME HeapInv, FinishCollection
  PROVE  /\ phase = "mark" /\ phase' = "mutate" /\ slots = {} /\ worklist = {}
         /\ objs' = live /\ live' = {} /\ large' = SurvivingLarge
         /\ DOMAIN mem' = Survivors /\ Survivors \subseteq DOMAIN mem
         /\ \A o \in Survivors : mem'[o] = mem[o]
         /\ mem' = [o \in Survivors |-> mem[o]]
         /\ epoch' = (epoch + 1) % EpochMod
         /\ UNCHANGED <<roots, liveBytes, slots, worklist>>
<1>1. /\ phase = "mark" /\ phase' = "mutate" /\ slots = {} /\ worklist = {}
      /\ objs' = live /\ live' = {} /\ large' = SurvivingLarge
      /\ mem' = [o \in objs' \cup large' |-> mem[o]]
      /\ epoch' = (epoch + 1) % EpochMod
      /\ UNCHANGED <<roots, liveBytes, slots, worklist>>
  BY DEF FinishCollection, EndCollection
<1>2. Survivors \subseteq DOMAIN mem
  BY DEF HeapInv, HeapTypeOK, TypeOK, Survivors, SurvivingLarge
<1>3. mem' = [o \in Survivors |-> mem[o]]
  BY <1>1 DEF Survivors
<1> QED
  BY <1>1, <1>2, <1>3

LEMMA FinishKeepsInv ==
  ASSUME EpochDoesNotWrap, HeapInv, SpaceInv', FinishCollection
  PROVE  HeapInv'
<1> USE DEF HeapInv
<1>1. /\ phase = "mark" /\ phase' = "mutate" /\ slots = {} /\ worklist = {}
      /\ objs' = live /\ live' = {} /\ large' = SurvivingLarge
      /\ DOMAIN mem' = Survivors /\ Survivors \subseteq DOMAIN mem
      /\ \A o \in Survivors : mem'[o] = mem[o]
      /\ mem' = [o \in Survivors |-> mem[o]]
      /\ epoch' = (epoch + 1) % EpochMod
      /\ UNCHANGED <<roots, liveBytes, slots, worklist>>
  BY FinishEffect
<1>2. epoch \in Nat /\ epoch' = epoch + 1 /\ epoch' \in 0 .. EpochMod - 1
  <2>1. epoch \in Nat /\ epoch <= MaxEpoch
    BY <1>1 DEF HeapTypeOK, HeadersAgree
  <2> QED
    BY <1>1, <2>1, HeapAssumption DEF EpochDoesNotWrap
<1>3. objs' \cup large' = Survivors /\ Survivors \subseteq objs \cup large
  BY <1>1 DEF Survivors, SurvivingLarge, SpaceInv, TypeOK
<1>4. HeapTypeOK'
  <2>1. large' \subseteq LargeExtent
    BY <1>1 DEF SurvivingLarge, HeapTypeOK
  <2>2. DOMAIN mem' \subseteq Address /\ mem' \in [DOMAIN mem' -> Object]
    BY <1>1 DEF HeapTypeOK
  <2> QED
    BY <1>1, <1>2, <1>3, <2>1, <2>2 DEF HeapTypeOK, SpaceInv
<1>5. PointersHaveHeaders'
  <2>1. \A x \in Root : IsPointer(roots[x]) => roots[x] \in Survivors
    BY <1>1 DEF NothingForgotten, Settled
  <2>2. \A o \in Survivors, f \in Field :
          IsPointer(mem[o].fields[f]) => mem[o].fields[f] \in Survivors
    BY <1>1 DEF NothingForgotten, Settled
  <2> QED
    BY <1>1, <1>3, <2>1, <2>2 DEF PointersHaveHeaders
<1>6. HeadersAgree'
  <2>1. \A o \in Survivors : mem[o].epoch = epoch /\ mem[o].forward = Null
    BY <1>1, <1>3 DEF HeadersAgree, Survivors, SurvivingLarge, Marked, SpaceInv, TypeOK
  <2> QED
    BY <1>1, <1>2, <1>3, <2>1 DEF HeadersAgree
<1>7. NothingForgotten' /\ NothingMarkedInVain'
  BY <1>1 DEF NothingForgotten, NothingMarkedInVain
<1> QED
  BY <1>4, <1>5, <1>6, <1>7

LEMMA HeapNextKeepsInv ==
  ASSUME EpochDoesNotWrap, HeapInv, [HeapNext]_allVars
  PROVE  HeapInv'
<1>1. SpaceInv'
  BY HeapStepsAreSpaceSteps, NextKeepsInv DEF HeapInv
<1>2. ASSUME NEW x \in Root, NEW n \in Sizes, New(x, n)
      PROVE  HeapInv'
  BY <1>1, <1>2, NewKeepsInv
<1>3. ASSUME NEW n \in Sizes, NewFails(n)
      PROVE  HeapInv'
  BY <1>1, <1>3, HeapFrame DEF NewFails, AllocateFails
<1>4. ASSUME NEW x \in Root, NewLarge(x)
      PROVE  HeapInv'
  BY <1>1, <1>4, NewLargeKeepsInv
<1>5. ASSUME NEW x \in Root, NEW y \in Root, NEW f \in Field, Store(x, f, y) \/ Load(x, y, f)
      PROVE  HeapInv'
  BY <1>1, <1>5, StoreKeepsInv, LoadKeepsInv
<1>6. ASSUME NEW x \in Root, NEW v \in {Null} \cup Scalars \cup {roots[y] : y \in Root},
             Assign(x, v)
      PROVE  HeapInv'
  BY <1>1, <1>6, AssignKeepsInv
<1>7. CASE StartCollection
  BY <1>1, <1>7, StartKeepsInv
<1>8. ASSUME NEW s \in slots, VisitDone(s) \/ VisitUnmarked(s)
      PROVE  HeapInv'
  BY <1>1, <1>8, VisitDoneKeepsInv, VisitUnmarkedKeepsInv
<1>9. ASSUME NEW o \in worklist, Trace(o)
      PROVE  HeapInv'
  BY <1>1, <1>9, TraceKeepsInv
<1>10. CASE FinishCollection
  BY <1>1, <1>10, FinishKeepsInv
<1>11. CASE UNCHANGED allVars
  BY <1>1, <1>11, HeapFrame DEF allVars, vars
<1> QED
  BY <1>2, <1>3, <1>4, <1>5, <1>6, <1>7, <1>8, <1>9, <1>10, <1>11
  DEF HeapNext, Program, Collector
-----------------------------------------------------------------------------
(***************************************************************************)
(* What the invariant gives.                                               *)
(***************************************************************************)

\* The tracing invariant holds in every reachable state, for every geometry,
\* every number of objects, roots and fields.
THEOREM HeapCorrect ==
  ASSUME EpochDoesNotWrap
  PROVE  HeapSpec => []HeapInv
<1>1. HeapInv /\ [HeapNext]_allVars => HeapInv'
  BY HeapNextKeepsInv
<1> QED
  BY <1>1, HeapStarts, PTL DEF HeapSpec

\* Every reference is null, a scalar or the extent of an object, and what the
\* collector has under way exists only while it runs (jav_gc.c).
THEOREM HeapTypeCorrect ==
  ASSUME EpochDoesNotWrap
  PROVE  HeapSpec => []HeapTypeOK
<1>1. HeapInv => HeapTypeOK
  BY DEF HeapInv
<1> QED
  BY <1>1, HeapCorrect, PTL

\* No reference the program can reach is the address of an object that was
\* freed or moved away (gc_verify).
THEOREM NothingDangles ==
  ASSUME EpochDoesNotWrap
  PROVE  HeapSpec => []NoDanglingReference
<1>1. ASSUME HeapInv
      PROVE  NoDanglingReference
  <2> USE <1>1 DEF HeapInv
  <2> SUFFICES ASSUME phase = "mutate", NEW r \in Held, IsPointer(r)
               PROVE  r \in DOMAIN mem /\ mem[r].forward = Null
    BY DEF NoDanglingReference
  <2>1. DOMAIN mem = objs \cup large /\ Reachable \subseteq DOMAIN mem
    BY DEF HeapTypeOK, Reachable
  <2>2. r \in DOMAIN mem
    BY <2>1 DEF Held, PointersHaveHeaders
  <2> QED
    BY <2>1, <2>2 DEF HeadersAgree
<1> QED
  BY <1>1, HeapCorrect, PTL

LEMMA ReachableIsMarked ==
  ASSUME HeapInv, phase = "mark", slots = {}, worklist = {}
  PROVE  Reachable \subseteq Survivors
<1>1. Survivors \subseteq DOMAIN mem
  BY DEF HeapInv, HeapTypeOK, TypeOK, Survivors, SurvivingLarge
<1>2. RootPointees \subseteq Survivors /\ \A q \in Survivors : FieldPointees(q) \subseteq Survivors
  BY DEF HeapInv, NothingForgotten, Settled, RootPointees, FieldPointees, Pointees
<1> QED
  BY <1>1, <1>2 DEF Reachable

\* Once the trace is done, every reachable object is marked where the sweeps
\* look (los_sweep reads the epoch, the reclaim of the blocks the lines).
THEOREM ReachableIsSpared ==
  ASSUME EpochDoesNotWrap
  PROVE  HeapSpec => []SweepSparesReachable
<1>1. ASSUME HeapInv
      PROVE  SweepSparesReachable
  BY <1>1, ReachableIsMarked
  DEF HeapInv, SweepSparesReachable, Survivors, SurvivingLarge, SpaceInv, CollectorClear,
      HasMarkedLines
<1> QED
  BY <1>1, HeapCorrect, PTL

LEMMA FinishLeavesReachable ==
  ASSUME HeapInv, FinishCollection
  PROVE  SweepLeavesReachable
<1> USE DEF HeapInv
<1>1. /\ phase = "mark" /\ roots' = roots /\ DOMAIN mem' = Survivors
      /\ Survivors \subseteq DOMAIN mem /\ \A o \in Survivors : mem'[o] = mem[o]
  BY FinishEffect
<1>2. ASSUME NEW C \in SUBSET Survivors, RootPointees' \subseteq C,
             \A o \in C : FieldPointees(o)' \subseteq C
      PROVE  C = Survivors
  <2>1. RootPointees \cap Survivors \subseteq C
    BY <1>1, <1>2 DEF RootPointees, Pointees, IsPointer
  <2>2. \A o \in C : FieldPointees(o) \cap Survivors \subseteq C
    BY <1>1, <1>2 DEF FieldPointees, Pointees, IsPointer
  <2> QED
    BY <1>1, <2>1, <2>2 DEF NothingMarkedInVain, ClosedAmongSurvivors
<1> QED
  BY <1>1, <1>2 DEF SweepLeavesReachable, Reachable

\* Of the heap's steps only the sweep leads from "mark" to "mutate".
LEMMA OnlyFinishEnds ==
  ASSUME [HeapNext]_allVars, phase = "mark", phase' = "mutate"
  PROVE  FinishCollection
BY AllocateEffect
DEF HeapNext, Program, Collector, New, NewFails, AllocateFails, NewLarge, Store, Load, Assign,
    StartCollection, BeginCollection, VisitDone, VisitUnmarked, MarkInPlace, Evacuate, Trace,
    vars, allVars

\* A sweep leaves the reachable objects and no others: no garbage outlives
\* the collection that finds it unreachable (gc_collect).
THEOREM SweepLeavesExactlyReachable ==
  ASSUME EpochDoesNotWrap
  PROVE  HeapSpec => [][phase = "mark" /\ phase' = "mutate" => SweepLeavesReachable]_allVars
<1>1. HeapInv /\ [HeapNext]_allVars =>
        [phase = "mark" /\ phase' = "mutate" => SweepLeavesReachable]_allVars
  BY OnlyFinishEnds, FinishLeavesReachable
<1> QED
  BY <1>1, HeapCorrect, PTL DEF HeapSpec

-----------------------------------------------------------------------------
(* The heap implements the object graph.  The heap is seen through the     *)
(* identities of its objects: a moved object and its copy have the same,   *)
(* so a collection changes nothing there, and reachability over addresses  *)
(* and over identities is the same thing.                                  *)

\* The identities in use, what the fields of each lead to, and what the
\* roots lead to.
AllIds   == {mem[o].id : o \in DOMAIN mem}
Holder(i) == CHOOSE o \in DOMAIN mem : mem[o].id = i
AllGraph == [i \in AllIds |-> [f \in Field |-> IdOf(mem[Holder(i)].fields[f])]]
RootIds  == [x \in Root |-> IdOf(roots[x])]

\* What is reachable in a graph depends only on a part of it that holds the
\* roots and is closed under the fields.
LEMMA ReachableInPart ==
  ASSUME NEW r, NEW h, NEW S \in SUBSET DOMAIN h, NEW g,
         DOMAIN g = S, \A i \in S : g[i] = h[i],
         \A x \in Root : r[x] \in DOMAIN h => r[x] \in S,
         \A i \in S, f \in Field : h[i][f] \in DOMAIN h => h[i][f] \in S
  PROVE  Abstract!ReachableIds(r, g) = Abstract!ReachableIds(r, h)
<1>1. ASSUME NEW i \in Abstract!ReachableIds(r, h)
      PROVE  i \in Abstract!ReachableIds(r, g)
  <2>1. i \in S
    BY <1>1 DEF Abstract!ReachableIds
  <2>2. ASSUME NEW C \in SUBSET S,
               {r[x] : x \in Root} \cap S \subseteq C,
               \A j \in C : {g[j][f] : f \in Field} \cap S \subseteq C
        PROVE  i \in C
    <3>1. {r[x] : x \in Root} \cap DOMAIN h \subseteq C
      BY <2>2
    <3>2. \A j \in C : {h[j][f] : f \in Field} \cap DOMAIN h \subseteq C
      BY <2>2
    <3> QED
      BY <1>1, <3>1, <3>2 DEF Abstract!ReachableIds
  <2> QED
    BY <2>1, <2>2 DEF Abstract!ReachableIds
<1>2. ASSUME NEW i \in Abstract!ReachableIds(r, g)
      PROVE  i \in Abstract!ReachableIds(r, h)
  <2>1. i \in S
    BY <1>2 DEF Abstract!ReachableIds
  <2>2. ASSUME NEW C \in SUBSET DOMAIN h,
               {r[x] : x \in Root} \cap DOMAIN h \subseteq C,
               \A j \in C : {h[j][f] : f \in Field} \cap DOMAIN h \subseteq C
        PROVE  i \in C
    <3>1. {r[x] : x \in Root} \cap S \subseteq C \cap S
      BY <2>2
    <3>2. \A j \in C \cap S : {g[j][f] : f \in Field} \cap S \subseteq C \cap S
      BY <2>2
    <3>3. i \in C \cap S
      BY <1>2, <3>1, <3>2 DEF Abstract!ReachableIds
    <3> QED
      BY <3>3
  <2> QED
    BY <2>1, <2>2 DEF Abstract!ReachableIds
<1> QED
  BY <1>1, <1>2

\* Objects with one identity, an object and what a move left of it, lead to
\* the same.
LEMMA CopiesAreAlike ==
  ASSUME GraphInv, NEW o \in DOMAIN mem, NEW q \in DOMAIN mem, mem[o].id = mem[q].id
  PROVE  \A f \in Field : IdOf(mem[o].fields[f]) = IdOf(mem[q].fields[f])
<1>1. \A p \in DOMAIN mem : Resolve(p) \in objs \cup large
  BY HeapAssumption
  DEF GraphInv, HeapInv, HeadersAgree, Resolve, HeapTypeOK, TypeOK, Address
<1>2. Resolve(o) = Resolve(q)
  BY <1>1 DEF GraphInv, CopiesAgree
<1> QED
  BY <1>2 DEF GraphInv, CopiesAgree

LEMMA AllGraphOf ==
  ASSUME GraphInv
  PROVE  /\ DOMAIN AllGraph = AllIds /\ AllIds \subseteq Id
         /\ \A o \in DOMAIN mem : /\ mem[o].id \in AllIds
                                 /\ AllGraph[mem[o].id] = [f \in Field |-> IdOf(mem[o].fields[f])]
         /\ \A o \in DOMAIN mem, f \in Field :
              AllGraph[mem[o].id][f] = IdOf(mem[o].fields[f])
<1>1. AllIds \subseteq Id
  BY DEF AllIds, GraphInv, HeapInv, HeapTypeOK, Object
<1>2. ASSUME NEW o \in DOMAIN mem
      PROVE  AllGraph[mem[o].id] = [f \in Field |-> IdOf(mem[o].fields[f])]
  <2> DEFINE h == Holder(mem[o].id)
  <2>1. h \in DOMAIN mem /\ mem[h].id = mem[o].id
    BY DEF Holder
  <2>2. AllGraph[mem[o].id] = [f \in Field |-> IdOf(mem[h].fields[f])]
    BY DEF AllGraph, AllIds
  <2> HIDE DEF h
  <2>3. \A f \in Field : IdOf(mem[h].fields[f]) = IdOf(mem[o].fields[f])
    BY <2>1, CopiesAreAlike
  <2> QED
    BY <2>2, <2>3
<1>3. DOMAIN AllGraph = AllIds /\ \A o \in DOMAIN mem : mem[o].id \in AllIds
  BY DEF AllGraph, AllIds
<1> QED
  BY <1>1, <1>2, <1>3

\* A reference leads to an identity exactly when it is a pointer.
LEMMA IdOfType ==
  ASSUME GraphInv, NEW r \in Value, IsPointer(r) => r \in DOMAIN mem
  PROVE  /\ IsPointer(r) => IdOf(r) = mem[r].id /\ IdOf(r) \in AllIds
         /\ ~ IsPointer(r) => IdOf(r) = r /\ r \in Scalars \cup {Null} /\ IdOf(r) \notin Id
BY HeapAssumption DEF IdOf, AllIds, Value, IsPointer

\* The references of the roots and the fields, so classified.
LEMMA HeapIds ==
  ASSUME GraphInv
  PROVE  /\ \A x \in Root : roots[x] \in Value /\ (IsPointer(roots[x]) => roots[x] \in DOMAIN mem)
         /\ \A o \in DOMAIN mem, f \in Field :
              /\ mem[o].fields[f] \in Value
              /\ IsPointer(mem[o].fields[f]) => mem[o].fields[f] \in DOMAIN mem
<1>1. \A o \in DOMAIN mem : mem[o].fields \in [Field -> Value]
  BY DEF GraphInv, HeapInv, HeapTypeOK, Object
<1>2. \A x \in Root : roots[x] \in Value /\ (IsPointer(roots[x]) => roots[x] \in DOMAIN mem)
  BY DEF GraphInv, HeapInv, HeapTypeOK, PointersHaveHeaders
<1>3. \A o \in DOMAIN mem, f \in Field :
        IsPointer(mem[o].fields[f]) => mem[o].fields[f] \in DOMAIN mem
  BY DEF GraphInv, CopiesAgree
<1> QED
  BY <1>1, <1>2, <1>3

LEMMA ReachableIdsClosed ==
  ASSUME NEW r, NEW h
  PROVE  LET R == Abstract!ReachableIds(r, h)
         IN  /\ R \subseteq DOMAIN h
             /\ \A x \in Root : r[x] \in DOMAIN h => r[x] \in R
             /\ \A i \in R, f \in Field : h[i][f] \in DOMAIN h => h[i][f] \in R
<1> DEFINE R == Abstract!ReachableIds(r, h)
<1>1. R \subseteq DOMAIN h
  BY DEF Abstract!ReachableIds
<1>2. ASSUME NEW x \in Root, r[x] \in DOMAIN h
      PROVE  r[x] \in R
  BY <1>2 DEF Abstract!ReachableIds
<1>3. ASSUME NEW i \in R, NEW f \in Field, h[i][f] \in DOMAIN h
      PROVE  h[i][f] \in R
  <2> SUFFICES ASSUME NEW C \in SUBSET DOMAIN h,
                      {r[x] : x \in Root} \cap DOMAIN h \subseteq C,
                      \A j \in C : {h[j][g] : g \in Field} \cap DOMAIN h \subseteq C
               PROVE  h[i][f] \in C
    BY <1>3 DEF Abstract!ReachableIds
  <2>1. i \in C
    BY DEF Abstract!ReachableIds
  <2> QED
    BY <1>3, <2>1
<1> QED
  BY <1>1, <1>2, <1>3

LEMMA ReachableClosed ==
  /\ Reachable \subseteq DOMAIN mem
  /\ RootPointees \subseteq Reachable
  /\ \A o \in Reachable : FieldPointees(o) \subseteq Reachable
<1>1. Reachable \subseteq DOMAIN mem
  BY DEF Reachable
<1>2. RootPointees \subseteq Reachable
  BY DEF Reachable, RootPointees, Pointees
<1>3. ASSUME NEW o \in Reachable, NEW q \in FieldPointees(o)
      PROVE  q \in Reachable
  <2>1. q \in DOMAIN mem
    BY DEF FieldPointees, Pointees
  <2>2. ASSUME NEW C \in SUBSET DOMAIN mem, RootPointees \subseteq C,
               \A p \in C : FieldPointees(p) \subseteq C
        PROVE  q \in C
    <3>1. o \in C
      BY <2>2 DEF Reachable
    <3> QED
      BY <2>2, <3>1
  <2> QED
    BY <2>1, <2>2 DEF Reachable
<1> QED
  BY <1>1, <1>2, <1>3

\* Reachability over addresses is reachability over identities.
LEMMA ReachableThroughIds ==
  ASSUME GraphInv
  PROVE  Abstract!ReachableIds(RootIds, AllGraph) = {mem[o].id : o \in Reachable}
<1> DEFINE R == {mem[o].id : o \in Reachable}
<1>1. ASSUME NEW i \in Abstract!ReachableIds(RootIds, AllGraph)
      PROVE  i \in R
  <2>1. R \subseteq DOMAIN AllGraph
    BY AllGraphOf, ReachableClosed
  <2>2. {RootIds[x] : x \in Root} \cap DOMAIN AllGraph \subseteq R
    <3> SUFFICES ASSUME NEW x \in Root, IdOf(roots[x]) \in AllIds
                 PROVE  IdOf(roots[x]) \in R
      BY AllGraphOf DEF RootIds
    <3>1. IsPointer(roots[x]) /\ IdOf(roots[x]) = mem[roots[x]].id /\ roots[x] \in DOMAIN mem
      BY HeapIds, IdOfType, AllGraphOf
    <3>2. roots[x] \in Reachable
      BY <3>1, ReachableClosed DEF RootPointees, Pointees
    <3> QED
      BY <3>1, <3>2
  <2>3. \A j \in R : {AllGraph[j][f] : f \in Field} \cap DOMAIN AllGraph \subseteq R
    <3> SUFFICES ASSUME NEW o \in Reachable, NEW f \in Field, IdOf(mem[o].fields[f]) \in AllIds
                 PROVE  IdOf(mem[o].fields[f]) \in R
      BY AllGraphOf, ReachableClosed
    <3> DEFINE v == mem[o].fields[f]
    <3>1. IsPointer(v) /\ IdOf(v) = mem[v].id /\ v \in DOMAIN mem
      BY HeapIds, IdOfType, AllGraphOf, ReachableClosed
    <3>2. v \in Reachable
      BY <3>1, ReachableClosed DEF FieldPointees, Pointees
    <3> QED
      BY <3>1, <3>2
  <2> HIDE DEF R
  <2> QED
    BY <1>1, <2>1, <2>2, <2>3 DEF Abstract!ReachableIds
<1>2. ASSUME NEW o \in Reachable
      PROVE  mem[o].id \in Abstract!ReachableIds(RootIds, AllGraph)
  <2>1. o \in DOMAIN mem /\ mem[o].id \in DOMAIN AllGraph
    BY AllGraphOf, ReachableClosed
  <2>2. ASSUME NEW C \in SUBSET DOMAIN AllGraph,
               {RootIds[x] : x \in Root} \cap DOMAIN AllGraph \subseteq C,
               \A j \in C : {AllGraph[j][f] : f \in Field} \cap DOMAIN AllGraph \subseteq C
        PROVE  mem[o].id \in C
    <3> DEFINE D == {q \in DOMAIN mem : mem[q].id \in C}
    <3>1. RootPointees \subseteq D
      <4> SUFFICES ASSUME NEW x \in Root, IsPointer(roots[x]), roots[x] \in DOMAIN mem
                   PROVE  mem[roots[x]].id \in C
        BY DEF RootPointees, Pointees
      <4>1. RootIds[x] = mem[roots[x]].id
        BY DEF RootIds, IdOf
      <4> QED
        BY <2>2, <4>1, AllGraphOf
    <3>2. ASSUME NEW q \in D
          PROVE  FieldPointees(q) \subseteq D
      <4> SUFFICES ASSUME NEW f \in Field, IsPointer(mem[q].fields[f]), mem[q].fields[f] \in DOMAIN mem
                   PROVE  mem[mem[q].fields[f]].id \in C
        BY DEF FieldPointees, Pointees
      <4>1. AllGraph[mem[q].id][f] = mem[mem[q].fields[f]].id
        BY AllGraphOf DEF IdOf
      <4> QED
        BY <2>2, <4>1, AllGraphOf
    <3>3. o \in D
      BY <3>1, <3>2 DEF Reachable
    <3> QED
      BY <3>3
  <2> QED
    BY <2>1, <2>2 DEF Abstract!ReachableIds
<1> QED
  BY <1>1, <1>2

\* The graph the program sees is the reachable part of the whole.
LEMMA GraphIsReachablePart ==
  ASSUME GraphInv
  PROVE  Graph = [i \in Abstract!ReachableIds(RootIds, AllGraph) |-> AllGraph[i]]
<1> DEFINE R == Reachable
           Copy(i) == CHOOSE o \in R : mem[o].id = i
<1>1. ASSUME NEW i \in {mem[o].id : o \in R}
      PROVE  [f \in Field |-> IdOf(mem[Copy(i)].fields[f])] = AllGraph[i]
  <2> DEFINE c == Copy(i)
  <2>1. c \in R /\ mem[c].id = i
    OBVIOUS
  <2> HIDE DEF c
  <2>2. [f \in Field |-> IdOf(mem[c].fields[f])] = AllGraph[i]
    BY <2>1, AllGraphOf, ReachableClosed
  <2> QED
    BY <2>2 DEF c
<1>2. Graph = [i \in {mem[o].id : o \in R} |-> [f \in Field |-> IdOf(mem[Copy(i)].fields[f])]]
  BY DEF Graph
<1> HIDE DEF R, Copy
<1>3. Graph = [i \in {mem[o].id : o \in R} |-> AllGraph[i]]
  BY <1>1, <1>2
<1> QED
  BY <1>3, ReachableThroughIds DEF R
-----------------------------------------------------------------------------
(***************************************************************************)
(* What a collection keeps.                                                *)
(***************************************************************************)

\* A step that keeps the identities: every reference held leads to the
\* identity it led to, and a new header is a copy of c's.
IdsKept(c) ==
  /\ DOMAIN mem \subseteq DOMAIN mem'
  /\ \A x \in Root : IdOf(roots[x])' = IdOf(roots[x])
  /\ \A q \in DOMAIN mem :
       /\ mem'[q].id = mem[q].id
       /\ \A f \in Field : IdOf(mem[q].fields[f])' = IdOf(mem[q].fields[f])
  /\ \A q \in DOMAIN mem' \ DOMAIN mem :
       /\ c \in DOMAIN mem /\ mem'[q].id = mem[c].id
       /\ \A f \in Field : IdOf(mem[q].fields[f])' = IdOf(mem[c].fields[f])
  /\ \A q \in DOMAIN mem', f \in Field :
       IsPointer(mem'[q].fields[f]) => mem'[q].fields[f] \in DOMAIN mem'

\* gc_mark1 writes back the address of an object with the identity the slot
\* led to.
LEMMA WriteKeepsIds ==
  ASSUME GraphInv, NEW s \in slots, NEW t \in Value, NEW m, NEW c, WriteBack(s, t, m),
         m \in [DOMAIN m -> Object], DOMAIN mem \subseteq DOMAIN m,
         \A q \in DOMAIN mem : m[q].id = mem[q].id /\ m[q].fields = mem[q].fields,
         \A q \in DOMAIN m \ DOMAIN mem :
           c \in DOMAIN mem /\ m[q].id = mem[c].id /\ m[q].fields = mem[c].fields,
         IF IsPointer(Contents(s))
         THEN IsPointer(t) /\ t \in DOMAIN m /\ m[t].id = mem[Contents(s)].id
         ELSE t = Contents(s)
  PROVE  IdsKept(c)
<1> USE DEF GraphInv, HeapInv
<1> DEFINE r == Contents(s)
<1>1. /\ DOMAIN mem' = DOMAIN m
      /\ \A q \in DOMAIN m : mem'[q].id = m[q].id
      /\ \A x \in Root : roots'[x] = IF s = RootSlot(x) THEN t ELSE roots[x]
      /\ \A q \in DOMAIN m, f \in Field :
           mem'[q].fields[f] = IF s = FieldSlot(q, f) THEN t ELSE m[q].fields[f]
  BY WriteBackEffect
<1>2. IsPointer(r) => r \in DOMAIN mem
  BY SlotLeadsToObject
<1>3. \A v : (IsPointer(v) => v \in DOMAIN mem) => IdOf(v)' = IdOf(v)
  BY <1>1 DEF IdOf, IsPointer
<1>4. IdOf(t)' = IdOf(r)
  BY <1>1, <1>2 DEF IdOf, IsPointer
<1>5. IsPointer(t) => t \in DOMAIN m
  BY <1>2
<1>6. \A x \in Root : s = RootSlot(x) => r = roots[x]
  BY DEF Contents, RootSlot
<1>7. \A q, f : s = FieldSlot(q, f) => r = mem[q].fields[f]
  BY DEF Contents, FieldSlot
<1>8. \A q \in DOMAIN m \ DOMAIN mem, f \in Field : s # FieldSlot(q, f)
  BY DEF HeapTypeOK, RootSlot, FieldSlot
<1> HIDE DEF r
<1>9. ASSUME NEW x \in Root
      PROVE  IdOf(roots[x])' = IdOf(roots[x])
  <2>1. CASE s = RootSlot(x)
    BY <1>1, <1>4, <1>6, <2>1 DEF IdOf
  <2>2. CASE s # RootSlot(x)
    <3>1. roots'[x] = roots[x]
      BY <1>1, <2>2
    <3> QED
      BY <1>3, <3>1, HeapIds DEF IdOf, IsPointer
  <2> QED
    BY <2>1, <2>2
<1>10. ASSUME NEW q \in DOMAIN mem, NEW f \in Field
       PROVE  IdOf(mem[q].fields[f])' = IdOf(mem[q].fields[f])
  <2>1. CASE s = FieldSlot(q, f)
    BY <1>1, <1>4, <1>7, <2>1 DEF IdOf
  <2>2. CASE s # FieldSlot(q, f)
    <3>1. mem'[q].fields[f] = mem[q].fields[f]
      BY <1>1, <2>2
    <3> QED
      BY <1>3, <3>1, HeapIds DEF IdOf, IsPointer
  <2> QED
    BY <2>1, <2>2
<1>11. ASSUME NEW q \in DOMAIN m \ DOMAIN mem, NEW f \in Field
       PROVE  IdOf(mem[q].fields[f])' = IdOf(mem[c].fields[f])
  <2>1. mem'[q].fields[f] = mem[c].fields[f] /\ c \in DOMAIN mem
    BY <1>1, <1>8
  <2> QED
    BY <1>3, <2>1, HeapIds DEF IdOf, IsPointer
<1>12. ASSUME NEW q \in DOMAIN m, NEW f \in Field, IsPointer(mem'[q].fields[f])
       PROVE  mem'[q].fields[f] \in DOMAIN m
  <2>1. mem'[q].fields[f] = t \/ mem'[q].fields[f] = m[q].fields[f]
    BY <1>1
  <2>2. \/ q \in DOMAIN mem /\ m[q].fields[f] = mem[q].fields[f]
        \/ c \in DOMAIN mem /\ m[q].fields[f] = mem[c].fields[f]
    OBVIOUS
  <2> QED
    BY <1>5, <1>12, <2>1, <2>2, HeapIds
<1> QED
  BY <1>1, <1>9, <1>10, <1>11, <1>12 DEF IdsKept

\* Forwarding pointers change only from none to c's new copy.
LEMMA CopiesStayAlike ==
  ASSUME GraphInv, HeapInv', NEW c, IdsKept(c),
         \A o, q \in objs' \cup large' : mem'[o].id = mem'[q].id => o = q,
         \A o \in DOMAIN mem' \ (objs' \cup large') : evac'.active /\ o.blk \in candidates',
         \A o \in DOMAIN mem : \/ Resolve(o)' = Resolve(o)
                               \/ Resolve(o) = c /\ Resolve(o)' \in DOMAIN mem' \ DOMAIN mem,
         \A q \in DOMAIN mem' \ DOMAIN mem : Resolve(q)' = q
  PROVE  GraphInv'
<1>1. \A o \in DOMAIN mem : Resolve(o) \in DOMAIN mem
  BY HeapAssumption
  DEF GraphInv, HeapInv, HeadersAgree, Resolve, HeapTypeOK, TypeOK, Address
<1>2. ASSUME NEW o \in DOMAIN mem
      PROVE  /\ mem'[o].id = mem'[Resolve(o)'].id
             /\ \A f \in Field : IdOf(mem[o].fields[f])' = IdOf(mem[Resolve(o)].fields[f])'
  <2>1. /\ mem[o].id = mem[Resolve(o)].id
        /\ \A f \in Field : IdOf(mem[o].fields[f]) = IdOf(mem[Resolve(o)].fields[f])
    BY DEF GraphInv, CopiesAgree
  <2>2. CASE Resolve(o)' = Resolve(o)
    <3>1. \A f \in Field :
            IdOf(mem[Resolve(o)].fields[f])' = IdOf(mem[Resolve(o)].fields[f])
      <4> DEFINE p == Resolve(o)
      <4>1. p' = p /\ p \in DOMAIN mem
        BY <1>1, <2>2
      <4> QED
        BY <4>1 DEF IdsKept, IdOf, IsPointer
    <3> QED
      BY <1>1, <2>1, <2>2, <3>1 DEF IdsKept
  <2>3. CASE Resolve(o) = c /\ Resolve(o)' \in DOMAIN mem' \ DOMAIN mem
    BY <1>1, <2>1, <2>3 DEF IdsKept, IdOf, IsPointer
  <2> QED
    BY <2>2, <2>3
<1>3. CopiesAgree'
  BY <1>2 DEF CopiesAgree, IdsKept
<1> QED
  BY <1>3 DEF GraphInv

LEMMA VisitDoneKeepsIds ==
  ASSUME GraphInv, HeapInv', NEW s \in slots, VisitDone(s)
  PROVE  (\E c : IdsKept(c)) /\ GraphInv'
<1> USE DEF GraphInv, HeapInv
<1> DEFINE r == Contents(s)
           t == IF IsPointer(r) THEN Resolve(r) ELSE r
<1>1. WriteBack(s, t, mem) /\ UNCHANGED <<objs, large, evac, candidates>>
  BY DEF VisitDone, vars, evacState
<1>2. mem \in [DOMAIN mem -> Object] /\ objs \cup large \subseteq DOMAIN mem
  BY DEF HeapTypeOK
<1>3. /\ r \in Value
      /\ IsPointer(r) => /\ r \in DOMAIN mem
                         /\ Resolve(r) \in objs \cup large
                         /\ mem[Resolve(r)].id = mem[r].id
                         /\ IsPointer(Resolve(r))
  BY SlotLeadsToObject, AddressType DEF CopiesAgree
<1>4. t \in Value
  BY <1>3 DEF HeapTypeOK, Value
<1>5. IF IsPointer(r) THEN IsPointer(t) /\ t \in DOMAIN mem /\ mem[t].id = mem[r].id ELSE t = r
  BY <1>2, <1>3
<1> HIDE DEF t
<1>6. IdsKept(Null)
  BY <1>1, <1>2, <1>4, <1>5, WriteKeepsIds
<1>7. /\ DOMAIN mem' = DOMAIN mem
      /\ \A q \in DOMAIN mem : mem'[q].forward = mem[q].forward
  BY <1>1, <1>2, <1>4, WriteBackEffect
<1>8. \A o \in DOMAIN mem : Resolve(o)' = Resolve(o)
  BY <1>7 DEF Resolve
<1>9. GraphInv'
  BY <1>1, <1>2, <1>6, <1>7, <1>8, CopiesStayAlike DEF CopiesAgree, IdsKept
<1> QED
  BY <1>6, <1>9

\* Marking writes the epoch and nothing else of the header.
LEMMA VisitInPlaceKeepsIds ==
  ASSUME GraphInv, HeapInv', NEW s \in slots, NEW o, o = Resolve(Contents(s)),
         IsPointer(Contents(s)),
         IF o.len > DataWords THEN UNCHANGED vars ELSE MarkInPlace(o),
         WriteBack(s, o, [mem EXCEPT ![o].epoch = epoch]), UNCHANGED large
  PROVE  (\E c : IdsKept(c)) /\ GraphInv'
<1> USE DEF GraphInv, HeapInv
<1> DEFINE m == [mem EXCEPT ![o].epoch = epoch]
<1>1. /\ o \in objs \cup large /\ o \in DOMAIN mem /\ mem[o] \in Object
      /\ IsPointer(o) /\ o \in Value /\ mem[o].id = mem[Contents(s)].id
      /\ epoch \in 0 .. EpochMod - 1
  BY SlotLeadsToObject, AddressType DEF HeapTypeOK, Value, CopiesAgree
<1>2. UNCHANGED <<objs, evac, candidates>>
  BY DEF MarkInPlace, vars, evacState
<1>3. /\ DOMAIN m = DOMAIN mem
      /\ m[o] = [mem[o] EXCEPT !.epoch = epoch]
      /\ \A q \in DOMAIN mem : q # o => m[q] = mem[q]
      /\ m = [q \in DOMAIN m |-> m[q]]
  BY <1>1
<1> HIDE DEF m
<1>4. /\ m[o] \in Object /\ m[o].id = mem[o].id
      /\ m[o].forward = mem[o].forward /\ m[o].fields = mem[o].fields
  BY <1>1, <1>3 DEF Object
<1>5. m \in [DOMAIN m -> Object]
  <2>1. \A q \in DOMAIN m : m[q] \in Object
    BY <1>3, <1>4 DEF HeapTypeOK
  <2> QED
    BY <1>3, <2>1
<1>6. \A q \in DOMAIN mem : /\ m[q].id = mem[q].id /\ m[q].fields = mem[q].fields
                            /\ m[q].forward = mem[q].forward
  BY <1>3, <1>4
<1>7. WriteBack(s, o, m)
  BY DEF m
<1>8. IdsKept(Null)
  BY <1>1, <1>3, <1>5, <1>6, <1>7, WriteKeepsIds
<1>9. /\ DOMAIN mem' = DOMAIN mem
      /\ \A q \in DOMAIN mem : mem'[q].forward = mem[q].forward
  BY <1>1, <1>3, <1>5, <1>6, <1>7, WriteBackEffect
<1>10. \A q \in DOMAIN mem : Resolve(q)' = Resolve(q)
  BY <1>9 DEF Resolve
<1>11. GraphInv'
  BY <1>2, <1>8, <1>9, <1>10, CopiesStayAlike DEF CopiesAgree, IdsKept, HeapTypeOK
<1> QED
  BY <1>8, <1>11

\* A copy has its original's identity and fields.
LEMMA VisitMovedKeepsIds ==
  ASSUME GraphInv, HeapInv', NEW s \in slots, NEW o, o = Resolve(Contents(s)),
         IsPointer(Contents(s)), ~ Marked(o), o.len <= DataWords,
         NEW p \in Places(o.len), Evacuate(o, p),
         WriteBack(s, p, [r \in DOMAIN mem \cup {p} |->
                    CASE r = p -> [mem[o] EXCEPT !.epoch = epoch]
                      [] r = o -> [mem[o] EXCEPT !.forward = p]
                      [] OTHER -> mem[r]]),
         UNCHANGED large
  PROVE  (\E c : IdsKept(c)) /\ GraphInv'
<1> USE DEF GraphInv, HeapInv
<1> DEFINE m == [r \in DOMAIN mem \cup {p} |->
                    CASE r = p -> [mem[o] EXCEPT !.epoch = epoch]
                      [] r = o -> [mem[o] EXCEPT !.forward = p]
                      [] OTHER -> mem[r]]
<1>1. /\ o \in objs \cup large /\ o \in DOMAIN mem /\ mem[o] \in Object
      /\ mem[o].id = mem[Contents(s)].id /\ mem[o].forward = Null
  BY SlotLeadsToObject DEF HeapTypeOK, CopiesAgree, HeadersAgree
<1>2. /\ o \in objs /\ o.len \in Nat
      /\ UNCHANGED candidates /\ evac'.active = evac.active /\ evac.active
  BY <1>1, AddressType DEF Evacuate, SpaceInv, TypeOK, IsCandidate
<1>3. /\ p \in Extent /\ p \notin objs
      /\ objs' = (objs \ {o}) \cup {p} /\ live' = live \cup {p}
      /\ o \notin live
  BY <1>2, EvacuateEffect
<1>4. /\ p \in Address /\ IsPointer(p) /\ p \in Value /\ p \notin large
      /\ o.blk \in candidates
  BY <1>3, AddressType, ExtentType, DataWordsType DEF Address, Value, Evacuate, IsCandidate
<1>5. p \notin DOMAIN mem
  <2>1. p.blk \in targets
    BY DEF Evacuate, SpaceInv, CollectorClear, TypeOK, IsCandidate
  <2>2. p.blk \notin candidates
    BY <1>2, <2>1 DEF SpaceInv, StatisticsAgree
  <2> QED
    BY <1>3, <1>4, <2>2 DEF CopiesAgree
<1>6. /\ DOMAIN m = DOMAIN mem \cup {p}
      /\ m[p] = [mem[o] EXCEPT !.epoch = epoch]
      /\ m[o] = [mem[o] EXCEPT !.forward = p]
      /\ \A q \in DOMAIN mem : q # o => m[q] = mem[q]
      /\ m = [q \in DOMAIN m |-> m[q]]
  BY <1>1, <1>5
<1>7. WriteBack(s, p, m)
  OBVIOUS
<1> HIDE DEF m
<1>8. /\ m[p] \in Object /\ m[p].id = mem[o].id
      /\ m[p].forward = Null /\ m[p].fields = mem[o].fields
      /\ m[o] \in Object /\ m[o].id = mem[o].id
      /\ m[o].forward = p /\ m[o].fields = mem[o].fields
  BY <1>1, <1>4, <1>6 DEF Object, HeapTypeOK
<1>9. m \in [DOMAIN m -> Object]
  <2>1. \A q \in DOMAIN m : m[q] \in Object
    BY <1>6, <1>8 DEF HeapTypeOK
  <2> QED
    BY <1>6, <2>1
<1>10. /\ \A q \in DOMAIN mem : m[q].id = mem[q].id /\ m[q].fields = mem[q].fields
       /\ \A q \in DOMAIN m \ DOMAIN mem : q = p
  BY <1>6, <1>8
<1>11. IdsKept(o)
  <2>1. p \in DOMAIN m /\ m[p].id = mem[Contents(s)].id /\ DOMAIN mem \subseteq DOMAIN m
    BY <1>1, <1>6, <1>8
  <2>2. \A q \in DOMAIN m \ DOMAIN mem :
          o \in DOMAIN mem /\ m[q].id = mem[o].id /\ m[q].fields = mem[o].fields
    BY <1>1, <1>8, <1>10
  <2> QED
    BY <1>4, <1>7, <1>9, <1>10, <2>1, <2>2, WriteKeepsIds
<1>12. /\ DOMAIN mem' = DOMAIN mem \cup {p}
       /\ \A q \in DOMAIN m : mem'[q].forward = m[q].forward /\ mem'[q].id = m[q].id
  BY <1>4, <1>6, <1>7, <1>9, WriteBackEffect
<1>13. Resolve(p)' = p
  BY <1>6, <1>8, <1>12 DEF Resolve
<1>14. ASSUME NEW q \in DOMAIN mem
       PROVE  \/ Resolve(q)' = Resolve(q)
              \/ Resolve(q) = o /\ Resolve(q)' \in DOMAIN mem' \ DOMAIN mem
  <2>1. CASE q = o
    <3>1. Resolve(q) = o
      BY <1>1, <2>1 DEF Resolve
    <3>2. mem'[q].forward = p /\ p # Null
      BY <1>4, <1>6, <1>8, <1>12, <2>1 DEF IsPointer
    <3> QED
      BY <1>5, <1>12, <3>1, <3>2 DEF Resolve
  <2>2. CASE q # o
    BY <1>6, <1>12, <2>2 DEF Resolve
  <2> QED
    BY <2>1, <2>2
<1>15. \A a, b \in objs' \cup large' : mem'[a].id = mem'[b].id => a = b
  <2>1. \A a \in objs' \cup large' :
          \/ a = p /\ mem'[a].id = mem[o].id
          \/ a \in objs \cup large /\ a # o /\ mem'[a].id = mem[a].id
    <3>1. objs \cup large \subseteq DOMAIN mem /\ o \notin large
      BY <1>2, AddressType DEF HeapTypeOK
    <3>2. mem'[p].id = mem[o].id /\ \A q \in DOMAIN mem : mem'[q].id = mem[q].id
      BY <1>6, <1>8, <1>10, <1>12
    <3> QED
      BY <1>3, <3>1, <3>2
  <2> QED
    BY <1>1, <2>1 DEF CopiesAgree
<1>16. \A q \in DOMAIN mem' \ (objs' \cup large') : evac'.active /\ q.blk \in candidates'
  BY <1>2, <1>3, <1>4, <1>12 DEF CopiesAgree
<1>17. GraphInv'
  <2>1. \A q \in DOMAIN mem' \ DOMAIN mem : Resolve(q)' = q
    BY <1>12, <1>13
  <2> QED
    BY <1>11, <1>14, <1>15, <1>16, <2>1, CopiesStayAlike
<1> QED
  BY <1>11, <1>17

LEMMA VisitUnmarkedKeepsIds ==
  ASSUME GraphInv, HeapInv', NEW s \in slots, VisitUnmarked(s)
  PROVE  (\E c : IdsKept(c)) /\ GraphInv'
<1> DEFINE o == Resolve(Contents(s))
<1>1. IsPointer(Contents(s)) /\ ~ Marked(o) /\ UNCHANGED large
  BY DEF VisitUnmarked
<1>2. \/ /\ IF o.len > DataWords THEN UNCHANGED vars ELSE MarkInPlace(o)
         /\ WriteBack(s, o, [mem EXCEPT ![o].epoch = epoch])
      \/ /\ o.len <= DataWords
         /\ \E p \in Places(o.len) :
              /\ Evacuate(o, p)
              /\ WriteBack(s, p, [r \in DOMAIN mem \cup {p} |->
                    CASE r = p -> [mem[o] EXCEPT !.epoch = epoch]
                      [] r = o -> [mem[o] EXCEPT !.forward = p]
                      [] OTHER -> mem[r]])
  BY DEF VisitUnmarked
<1> QED
  BY <1>1, <1>2, VisitInPlaceKeepsIds, VisitMovedKeepsIds

\* What the invariant says of the graphs, in the state before and after a
\* step.
GraphShape ==
  /\ DOMAIN AllGraph = AllIds /\ AllIds \subseteq Id
  /\ \A o \in DOMAIN mem : /\ mem[o].id \in AllIds
                           /\ AllGraph[mem[o].id] = [f \in Field |-> IdOf(mem[o].fields[f])]
  /\ Abstract!ReachableIds(RootIds, AllGraph) = {mem[o].id : o \in Reachable}
  /\ Graph = [i \in Abstract!ReachableIds(RootIds, AllGraph) |-> AllGraph[i]]

LEMMA GraphShapeHolds == GraphInv => GraphShape
BY AllGraphOf, ReachableThroughIds, GraphIsReachablePart DEF GraphShape

LEMMA GraphShapeStays == (GraphInv => GraphShape)'
BY GraphShapeHolds, PTL

\* A step that keeps the identities is no step of the graph.
LEMMA KeptIdsKeepGraph ==
  ASSUME GraphInv, GraphInv', NEW c, IdsKept(c)
  PROVE  RootIds' = RootIds /\ Graph' = Graph
<1> USE GraphShapeHolds, GraphShapeStays DEF GraphShape
<1>1. RootIds' = RootIds
  BY DEF RootIds, IdsKept
<1>2. AllIds' = AllIds
  BY DEF AllIds, IdsKept
<1>3. ASSUME NEW i \in AllIds
      PROVE  AllGraph'[i] = AllGraph[i]
  <2>1. PICK o \in DOMAIN mem : mem[o].id = i
    BY DEF AllIds
  <2>2. o \in DOMAIN mem' /\ mem'[o].id = i
    BY <2>1 DEF IdsKept
  <2>3. AllGraph[i] = [f \in Field |-> IdOf(mem[o].fields[f])]
    BY <2>1
  <2>4. AllGraph'[i] = [f \in Field |-> IdOf(mem[o].fields[f])']
    BY <2>2
  <2> QED
    BY <2>1, <2>3, <2>4 DEF IdsKept
<1>4. AllGraph' = AllGraph
  <2>1. AllGraph = [i \in AllIds |-> AllGraph[i]] /\ AllGraph' = [i \in AllIds' |-> AllGraph'[i]]
    BY DEF AllGraph
  <2> QED
    BY <1>2, <1>3, <2>1
<1> QED
  BY <1>1, <1>4

\* A step that writes no reference and moves no object.
LEMMA IdleKeepsGraph ==
  ASSUME GraphInv, HeapInv', UNCHANGED <<roots, mem, objs, large>>,
         phase = "mutate" \/ UNCHANGED <<evac, candidates>>
  PROVE  GraphInv' /\ RootIds' = RootIds /\ Graph' = Graph
<1>1. IdsKept(Null)
  BY HeapIds DEF IdsKept, IdOf, IsPointer
<1>2. \A o \in DOMAIN mem : Resolve(o)' = Resolve(o)
  BY DEF Resolve
<1>3. \A o \in DOMAIN mem' \ (objs' \cup large') : evac'.active /\ o.blk \in candidates'
  BY DEF GraphInv, HeapInv, HeapTypeOK, CopiesAgree
<1>4. GraphInv'
  BY <1>1, <1>2, <1>3, CopiesStayAlike DEF GraphInv, CopiesAgree
<1> QED
  BY <1>1, <1>4, KeptIdsKeepGraph

\* The sweeps take unreachable objects only, and what moved objects left.
LEMMA FinishKeepsGraph ==
  ASSUME GraphInv, HeapInv', FinishCollection
  PROVE  GraphInv' /\ RootIds' = RootIds /\ Graph' = Graph
<1> USE DEF GraphInv, HeapInv
<1>1. /\ phase = "mark" /\ phase' = "mutate" /\ slots = {} /\ worklist = {}
      /\ DOMAIN mem' = Survivors /\ Survivors \subseteq DOMAIN mem
      /\ \A o \in Survivors : mem'[o] = mem[o]
      /\ roots' = roots /\ objs' \cup large' = Survivors
      /\ Survivors \subseteq objs \cup large
  BY FinishEffect DEF Survivors, SurvivingLarge, TypeOK, SpaceInv
<1>2. Reachable' = Survivors
  BY <1>1, FinishLeavesReachable DEF SweepLeavesReachable
<1>3. Reachable = Survivors
  <2> DEFINE D == Reachable \cap Survivors
  <2>1. Reachable \subseteq Survivors
    BY <1>1, ReachableIsMarked
  <2>2. ClosedAmongSurvivors(D)
    BY ReachableClosed DEF ClosedAmongSurvivors
  <2>3. D = Survivors
    BY <1>1, <2>2 DEF NothingMarkedInVain
  <2> QED
    BY <2>1, <2>3
<1>4. /\ \A x \in Root : IsPointer(roots[x]) => roots[x] \in Survivors
      /\ \A o \in Survivors, f \in Field :
           IsPointer(mem[o].fields[f]) => mem[o].fields[f] \in Survivors
  BY <1>1 DEF NothingForgotten, Settled
<1>5. \A x \in Root : IdOf(roots[x])' = IdOf(roots[x])
  BY <1>1, <1>4 DEF IdOf, IsPointer
<1>6. \A o \in Survivors, f \in Field : IdOf(mem[o].fields[f])' = IdOf(mem[o].fields[f])
  BY <1>1, <1>4 DEF IdOf, IsPointer
<1>7. CopiesAgree'
  <2>1. \A o \in DOMAIN mem' : Resolve(o)' = o
    BY <1>1 DEF HeadersAgree, Resolve
  <2>2. \A o \in DOMAIN mem', f \in Field :
          IsPointer(mem'[o].fields[f]) => mem'[o].fields[f] \in DOMAIN mem'
    BY <1>1, <1>4
  <2>3. \A o, q \in objs' \cup large' : mem'[o].id = mem'[q].id => o = q
    BY <1>1 DEF CopiesAgree
  <2> QED
    BY <1>1, <2>1, <2>2, <2>3 DEF CopiesAgree, IdOf, IsPointer
<1>8. GraphInv'
  BY <1>7
<1>9. RootIds' = RootIds
  BY <1>5 DEF RootIds
<1>10. {mem[o].id : o \in Reachable}' = {mem[o].id : o \in Reachable}
  BY <1>1, <1>2, <1>3
<1>11. ASSUME NEW o \in Survivors
       PROVE  AllGraph'[mem[o].id] = AllGraph[mem[o].id]
  <2>1. AllGraph[mem[o].id] = [f \in Field |-> IdOf(mem[o].fields[f])]
    BY <1>1, GraphShapeHolds DEF GraphShape
  <2>2. AllGraph'[mem'[o].id] = [f \in Field |-> IdOf(mem[o].fields[f])']
    BY <1>1, <1>8, GraphShapeStays DEF GraphShape
  <2> QED
    BY <1>1, <1>6, <2>1, <2>2
<1>12. /\ Graph = [i \in {mem[o].id : o \in Reachable} |-> AllGraph[i]]
       /\ Graph' = [i \in {mem[o].id : o \in Reachable}' |-> AllGraph'[i]]
  BY <1>8, GraphShapeHolds, GraphShapeStays DEF GraphShape
<1>13. Graph' = Graph
  BY <1>3, <1>10, <1>11, <1>12
<1> QED
  BY <1>8, <1>9, <1>13
-----------------------------------------------------------------------------
(***************************************************************************)
(* What the program's instructions do.                                     *)
(***************************************************************************)

\* Between collections nothing is forwarded: identities need only differ.
LEMMA RunningCopiesAgree ==
  HeapInv /\ phase = "mutate" /\ (\A o, q \in DOMAIN mem : mem[o].id = mem[q].id => o = q)
    => GraphInv
<1> SUFFICES ASSUME HeapInv, phase = "mutate",
                    \A o, q \in DOMAIN mem : mem[o].id = mem[q].id => o = q
             PROVE  GraphInv
  OBVIOUS
<1>1. DOMAIN mem = objs \cup large
  BY DEF HeapInv, HeapTypeOK
<1>2. \A o \in DOMAIN mem : Resolve(o) = o
  BY <1>1 DEF HeapInv, HeadersAgree, Resolve
<1> QED
  BY <1>1, <1>2 DEF GraphInv, CopiesAgree, HeapInv, PointersHaveHeaders

LEMMA RunningCopiesStayAlike ==
  ASSUME HeapInv', phase' = "mutate",
         \A o, q \in DOMAIN mem' : mem'[o].id = mem'[q].id => o = q
  PROVE  GraphInv'
<1>1. (HeapInv /\ phase = "mutate" /\ (\A o, q \in DOMAIN mem : mem[o].id = mem[q].id => o = q)
         => GraphInv)'
  BY RunningCopiesAgree, PTL
<1> QED
  BY <1>1

\* The graph is a part of the whole that holds the roots and is closed.
LEMMA GraphIsClosed ==
  ASSUME GraphInv
  PROVE  /\ DOMAIN Graph \subseteq AllIds
         /\ \A i \in DOMAIN Graph : Graph[i] = AllGraph[i]
         /\ \A x \in Root : RootIds[x] \in AllIds => RootIds[x] \in DOMAIN Graph
         /\ \A i \in DOMAIN Graph, f \in Field :
              AllGraph[i][f] \in AllIds => AllGraph[i][f] \in DOMAIN Graph
BY GraphShapeHolds, ReachableIdsClosed DEF GraphShape

\* The program has turned the graph into g, whose nodes are those of the new
\* heap, and what of g is unreachable no longer counts.
LEMMA BecomesPart ==
  ASSUME GraphInv', NEW g, NEW r, r = RootIds',
         g = [i \in DOMAIN g |-> g[i]], DOMAIN g \subseteq AllIds',
         \A i \in DOMAIN g : g[i] = AllGraph'[i],
         \A x \in Root : r[x] \in AllIds' => r[x] \in DOMAIN g,
         \A i \in DOMAIN g, f \in Field :
           AllGraph'[i][f] \in AllIds' => AllGraph'[i][f] \in DOMAIN g
  PROVE  Abstract!Becomes(r, g)
<1>1. /\ DOMAIN AllGraph' = AllIds'
      /\ Graph' = [i \in Abstract!ReachableIds(r, AllGraph') |-> AllGraph'[i]]
  BY GraphShapeStays DEF GraphShape
<1>2. Abstract!ReachableIds(r, g) = Abstract!ReachableIds(r, AllGraph')
  BY <1>1, ReachableInPart
<1>3. Abstract!ReachableIds(r, g) \subseteq DOMAIN g
  BY ReachableIdsClosed
<1>4. Graph' = [i \in Abstract!ReachableIds(r, g) |-> g[i]]
  BY <1>1, <1>2, <1>3
<1> QED
  BY <1>4 DEF Abstract!Becomes, RootIds

\* gc_alloc: a fresh identity with null fields, held by x.
LEMMA InstallIsNew ==
  ASSUME GraphInv, HeapInv', phase = "mutate", phase' = "mutate",
         NEW x \in Root, NEW p \in Address, p \notin DOMAIN mem, Install(x, p)
  PROVE  GraphInv' /\ Abstract!New(x)
<1> USE DEF GraphInv, HeapInv
<1>1. PICK i \in Id :
        /\ i \notin AllIds
        /\ roots' = [roots EXCEPT ![x] = p]
        /\ mem' = [r \in DOMAIN mem \cup {p} |-> IF r = p THEN NewObject(i) ELSE mem[r]]
  BY DEF Install, FreshId, AllIds
<1>2. /\ DOMAIN mem' = DOMAIN mem \cup {p} /\ mem'[p] = NewObject(i)
      /\ \A q \in DOMAIN mem : mem'[q] = mem[q]
      /\ NewObject(i).id = i /\ NewObject(i).fields = [f \in Field |-> Null]
  BY <1>1 DEF NewObject
<1>3. IsPointer(p) /\ Null \notin Id
  BY HeapAssumption DEF IsPointer
<1>4. GraphInv'
  <2>1. \A o, q \in DOMAIN mem : mem[o].id = mem[q].id => o = q
    BY DEF CopiesAgree, HeapTypeOK
  <2>2. \A o \in DOMAIN mem : mem[o].id \in AllIds
    BY DEF AllIds
  <2> QED
    BY <1>1, <1>2, <2>1, <2>2, RunningCopiesStayAlike
<1>5. \A v : (IsPointer(v) => v \in DOMAIN mem) => IdOf(v)' = IdOf(v)
  BY <1>2 DEF IdOf, IsPointer
<1>6. AllIds' = AllIds \cup {i}
  BY <1>2 DEF AllIds
<1>7. RootIds' = [RootIds EXCEPT ![x] = i]
  <2>1. \A y \in Root : IdOf(roots[y])' = IF y = x THEN i ELSE IdOf(roots[y])
    <3> TAKE y \in Root
    <3>1. CASE y = x
      BY <1>1, <1>2, <1>3, <3>1 DEF IdOf, IsPointer, HeapTypeOK
    <3>2. CASE y # x
      <4>1. roots'[y] = roots[y]
        BY <1>1, <3>2 DEF HeapTypeOK
      <4> QED
        BY <1>5, <3>2, <4>1, HeapIds DEF IdOf, IsPointer
    <3> QED
      BY <3>1, <3>2
  <2> QED
    BY <2>1 DEF RootIds
<1>8. AllGraph'[i] = [f \in Field |-> Null]
  <2>1. AllGraph'[mem'[p].id] = [f \in Field |-> IdOf(mem[p].fields[f])']
    BY <1>2, <1>4, GraphShapeStays DEF GraphShape
  <2>2. \A f \in Field : IdOf(mem[p].fields[f])' = Null
    BY <1>2 DEF IdOf, IsPointer
  <2> QED
    BY <1>2, <2>1, <2>2
<1>9. ASSUME NEW j \in AllIds
      PROVE  AllGraph'[j] = AllGraph[j]
  <2>1. PICK o \in DOMAIN mem : mem[o].id = j
    BY DEF AllIds
  <2>2. AllGraph'[mem'[o].id] = [f \in Field |-> IdOf(mem[o].fields[f])']
    BY <1>2, <1>4, GraphShapeStays DEF GraphShape
  <2>3. AllGraph[mem[o].id] = [f \in Field |-> IdOf(mem[o].fields[f])]
    BY GraphShapeHolds DEF GraphShape
  <2>4. \A f \in Field : IdOf(mem[o].fields[f])' = IdOf(mem[o].fields[f])
    <3> TAKE f \in Field
    <3>1. mem'[o].fields[f] = mem[o].fields[f]
      BY <1>2
    <3> QED
      BY <1>5, <3>1, HeapIds DEF IdOf, IsPointer
  <2> QED
    BY <1>2, <2>1, <2>2, <2>3, <2>4
<1> DEFINE g == [j \in DOMAIN Graph \cup {i} |->
                   IF j = i THEN [f \in Field |-> Null] ELSE Graph[j]]
<1>10. Abstract!Becomes([RootIds EXCEPT ![x] = i], g)
  <2>1. DOMAIN g = DOMAIN Graph \cup {i} /\ DOMAIN g \subseteq AllIds'
    BY <1>6, GraphIsClosed
  <2>2. \A j \in DOMAIN g : g[j] = AllGraph'[j]
    BY <1>1, <1>8, <1>9, <2>1, GraphIsClosed
  <2>3. \A y \in Root : RootIds'[y] \in AllIds' => RootIds'[y] \in DOMAIN g
    BY <1>6, <1>7, <2>1, GraphIsClosed DEF RootIds
  <2>4. ASSUME NEW j \in DOMAIN g, NEW f \in Field, AllGraph'[j][f] \in AllIds'
        PROVE  AllGraph'[j][f] \in DOMAIN g
    <3>1. CASE j = i
      <4>1. AllGraph'[j][f] = Null
        BY <1>8, <3>1
      <4>2. Null \notin AllIds'
        BY <1>3, <1>4, GraphShapeStays DEF GraphShape
      <4> QED
        BY <2>4, <4>1, <4>2
    <3>2. CASE j # i
      <4>1. j \in DOMAIN Graph /\ j \in AllIds
        BY <2>1, <3>2, GraphIsClosed
      <4> QED
        BY <1>6, <1>9, <2>1, <2>4, <4>1, GraphIsClosed
    <3> QED
      BY <3>1, <3>2
  <2>5. g = [j \in DOMAIN g |-> g[j]]
    BY <2>1
  <2> HIDE DEF g
  <2> QED
    BY <1>4, <1>7, <2>1, <2>2, <2>3, <2>4, <2>5, BecomesPart
<1> QED
  <2>1. i \in Id \ DOMAIN Graph
    BY <1>1, GraphIsClosed
  <2> QED
    BY <1>4, <1>10, <2>1 DEF Abstract!New, RootIds

LEMMA NewIsNew ==
  ASSUME GraphInv, HeapInv', NEW x \in Root, NEW n \in Sizes, New(x, n)
  PROVE  GraphInv' /\ Abstract!New(x)
<1> USE DEF GraphInv, HeapInv
<1>1. PICK p \in Places(n) : Allocate(n, p) /\ Install(x, p) /\ UNCHANGED large
  BY DEF New
<1>2. /\ objs' = objs \cup {p} /\ phase = "mutate" /\ phase' = "mutate"
      /\ p \notin objs
  BY <1>1, AllocateEffect, NewObjectIsNew
<1>3. p \in Extent
  BY <1>2 DEF SpaceInv, TypeOK
<1>4. p \in Address /\ p \notin large
  BY <1>3, AddressType, ExtentType, DataWordsType DEF Address
<1>5. p \notin DOMAIN mem
  BY <1>2, <1>4 DEF HeapTypeOK
<1> QED
  BY <1>1, <1>2, <1>4, <1>5, InstallIsNew

LEMMA NewLargeIsNew ==
  ASSUME GraphInv, HeapInv', NEW x \in Root, NewLarge(x)
  PROVE  GraphInv' /\ Abstract!New(x)
<1> USE DEF GraphInv, HeapInv
<1>1. PICK s \in LargeSlots \ {p.blk : p \in large} :
        LET p == [blk |-> s, at |-> 0, len |-> LargeLen]
        IN large' = large \cup {p} /\ Install(x, p)
  BY DEF NewLarge
<1> DEFINE p == [blk |-> s, at |-> 0, len |-> LargeLen]
<1>2. p \in LargeExtent /\ p \in Address /\ p \notin large
  BY <1>1 DEF LargeExtent, Address
<1>3. p \notin objs
  BY AddressType, HeapAssumption, DataWordsType
<1>4. p \notin DOMAIN mem /\ phase = "mutate" /\ phase' = "mutate"
  BY <1>2, <1>3 DEF HeapTypeOK, NewLarge, vars
<1> HIDE DEF p
<1> QED
  BY <1>1, <1>2, <1>4, InstallIsNew DEF p

\* A step of the program that allocates nothing: each reference leads where
\* it led.
LEMMA SameHeadersSameIds ==
  ASSUME GraphInv, DOMAIN mem' = DOMAIN mem, \A o \in DOMAIN mem : mem'[o].id = mem[o].id
  PROVE  AllIds' = AllIds /\ \A v : IdOf(v)' = IdOf(v)
BY DEF AllIds, IdOf, IsPointer

\* struct.set
LEMMA StoreIsStore ==
  ASSUME GraphInv, HeapInv', NEW x \in Root, NEW y \in Root, NEW f \in Field, Store(x, f, y)
  PROVE  GraphInv' /\ Abstract!Store(x, f, y)
<1> USE DEF GraphInv, HeapInv
<1> DEFINE o == roots[x]
           g == [Graph EXCEPT ![RootIds[x]][f] = RootIds[y]]
<1>1. /\ phase = "mutate" /\ phase' = "mutate" /\ IsPointer(o) /\ roots' = roots
      /\ mem' = [mem EXCEPT ![o] = [mem[o] EXCEPT !.fields = [mem[o].fields EXCEPT ![f] = roots[y]]]]
  BY DEF Store, vars
<1>2. o \in DOMAIN mem /\ mem[o] \in Object /\ mem[o].fields \in [Field -> Value]
  BY <1>1, HeapIds DEF HeapTypeOK, Object
<1>3. /\ DOMAIN mem' = DOMAIN mem
      /\ \A q \in DOMAIN mem : mem'[q].id = mem[q].id
      /\ \A q \in DOMAIN mem : q # o => mem'[q].fields = mem[q].fields
      /\ mem'[o].fields = [mem[o].fields EXCEPT ![f] = roots[y]]
  BY <1>1, <1>2 DEF Object
<1> HIDE DEF o
<1>4. \A q, p \in DOMAIN mem : mem[q].id = mem[p].id => q = p
  BY <1>1 DEF CopiesAgree, HeapTypeOK
<1>5. GraphInv'
  BY <1>1, <1>3, <1>4, RunningCopiesStayAlike
<1>6. AllIds' = AllIds /\ (\A v : IdOf(v)' = IdOf(v)) /\ RootIds' = RootIds
  <2>1. AllIds' = AllIds /\ \A v : IdOf(v)' = IdOf(v)
    BY <1>3, SameHeadersSameIds
  <2>2. \A z \in Root : IdOf(roots[z])' = IdOf(roots[z])
    BY <1>1, <2>1 DEF IdOf, IsPointer
  <2> QED
    BY <2>1, <2>2 DEF RootIds
<1>7. RootIds[x] = mem[o].id /\ RootIds[x] \in AllIds /\ RootIds[x] \in DOMAIN Graph
  BY <1>1, <1>2, GraphIsClosed DEF o, RootIds, IdOf, AllIds
<1>8. ASSUME NEW q \in DOMAIN mem
      PROVE  AllGraph'[mem[q].id] =
               IF q = o THEN [AllGraph[mem[q].id] EXCEPT ![f] = RootIds[y]] ELSE AllGraph[mem[q].id]
  <2>1. AllGraph'[mem'[q].id] = [h \in Field |-> IdOf(mem[q].fields[h])']
    BY <1>3, <1>5, GraphShapeStays DEF GraphShape
  <2>2. AllGraph[mem[q].id] = [h \in Field |-> IdOf(mem[q].fields[h])]
    BY GraphShapeHolds DEF GraphShape
  <2>3. CASE q = o
    <3>1. \A h \in Field : IdOf(mem[q].fields[h])'
                             = IF h = f THEN RootIds[y] ELSE IdOf(mem[q].fields[h])
      BY <1>2, <1>3, <1>6, <2>3 DEF IdOf, IsPointer, RootIds
    <3> QED
      BY <1>3, <2>1, <2>2, <2>3, <3>1
  <2>4. CASE q # o
    <3>1. \A h \in Field : IdOf(mem[q].fields[h])' = IdOf(mem[q].fields[h])
      BY <1>3, <1>6, <2>4 DEF IdOf, IsPointer
    <3> QED
      BY <1>3, <2>1, <2>2, <2>4, <3>1
  <2> QED
    BY <2>3, <2>4
<1>9. ASSUME NEW i \in AllIds
      PROVE  AllGraph'[i] =
               IF i = RootIds[x] THEN [AllGraph[i] EXCEPT ![f] = RootIds[y]] ELSE AllGraph[i]
  <2>1. PICK q \in DOMAIN mem : mem[q].id = i
    BY DEF AllIds
  <2>2. i = RootIds[x] <=> q = o
    BY <1>2, <1>4, <1>7, <2>1
  <2> QED
    BY <1>8, <2>1, <2>2
<1>10. Abstract!Becomes(RootIds, g)
  <2>1. DOMAIN g = DOMAIN Graph /\ DOMAIN g \subseteq AllIds'
    BY <1>6, GraphIsClosed
  <2>2. \A i \in DOMAIN g : g[i] = AllGraph'[i]
    BY <1>7, <1>9, <2>1, GraphIsClosed
  <2>3. \A z \in Root : RootIds[z] \in AllIds' => RootIds[z] \in DOMAIN g
    BY <1>6, <2>1, GraphIsClosed
  <2>4. ASSUME NEW i \in DOMAIN g, NEW h \in Field, AllGraph'[i][h] \in AllIds'
        PROVE  AllGraph'[i][h] \in DOMAIN g
    <3>1. i \in DOMAIN Graph /\ i \in AllIds
      BY <2>1, GraphIsClosed
    <3>2. DOMAIN AllGraph[i] = Field
      BY <3>1 DEF AllGraph
    <3>3. AllGraph'[i][h] = RootIds[y] \/ AllGraph'[i][h] = AllGraph[i][h]
      BY <1>9, <3>1, <3>2
    <3> QED
      BY <1>6, <2>1, <2>4, <3>1, <3>3, GraphIsClosed
  <2>5. g = [i \in DOMAIN g |-> g[i]]
    BY <2>1
  <2> HIDE DEF g
  <2> QED
    BY <1>5, <1>6, <2>1, <2>2, <2>3, <2>4, <2>5, BecomesPart
<1>11. RootIds[x] \in Id
  BY <1>7, AllGraphOf
<1> QED
  BY <1>5, <1>10, <1>11 DEF Abstract!Store, RootIds

\* A root takes a value that is at hand: null, a scalar, another root's, or
\* that of a field the program can read.
LEMMA RootBecomes ==
  ASSUME GraphInv, HeapInv', phase = "mutate", phase' = "mutate", UNCHANGED mem,
         NEW x \in Root, NEW v, roots' = [roots EXCEPT ![x] = v],
         IdOf(v) \in AllIds => IdOf(v) \in DOMAIN Graph
  PROVE  GraphInv' /\ Abstract!Becomes([RootIds EXCEPT ![x] = IdOf(v)], Graph)
<1> USE DEF GraphInv, HeapInv
<1>1. GraphInv'
  <2>1. \A q, p \in DOMAIN mem : mem[q].id = mem[p].id => q = p
    BY DEF CopiesAgree, HeapTypeOK
  <2> QED
    BY <2>1, RunningCopiesStayAlike
<1>2. AllIds' = AllIds /\ \A w : IdOf(w)' = IdOf(w)
  BY SameHeadersSameIds
<1>3. RootIds' = [RootIds EXCEPT ![x] = IdOf(v)]
  <2>1. \A z \in Root : IdOf(roots[z])' = IF z = x THEN IdOf(v) ELSE IdOf(roots[z])
    BY <1>2 DEF IdOf, IsPointer, HeapTypeOK
  <2> QED
    BY <2>1 DEF RootIds
<1>4. AllGraph' = AllGraph
  BY DEF AllGraph, AllIds, Holder, IdOf, IsPointer
<1>5. Graph = [i \in DOMAIN Graph |-> Graph[i]]
  BY GraphShapeHolds DEF GraphShape
<1>6. \A z \in Root : RootIds'[z] \in AllIds' => RootIds'[z] \in DOMAIN Graph
  BY <1>2, <1>3, GraphIsClosed DEF RootIds
<1> QED
  BY <1>1, <1>2, <1>3, <1>4, <1>5, <1>6, GraphIsClosed, BecomesPart

\* struct.get
LEMMA LoadIsLoad ==
  ASSUME GraphInv, HeapInv', NEW x \in Root, NEW y \in Root, NEW f \in Field, Load(x, y, f)
  PROVE  GraphInv' /\ Abstract!Load(x, y, f)
<1> DEFINE v == mem[roots[y]].fields[f]
<1>1. /\ phase = "mutate" /\ phase' = "mutate" /\ UNCHANGED mem
      /\ IsPointer(roots[y]) /\ roots' = [roots EXCEPT ![x] = v]
  BY DEF Load, vars
<1>2. roots[y] \in DOMAIN mem /\ RootIds[y] = mem[roots[y]].id
  BY <1>1, HeapIds DEF RootIds, IdOf
<1>3. RootIds[y] \in AllIds /\ RootIds[y] \in DOMAIN Graph /\ RootIds[y] \in Id
  BY <1>2, GraphIsClosed, AllGraphOf
<1>4. Graph[RootIds[y]][f] = IdOf(v) /\ AllGraph[RootIds[y]][f] = IdOf(v)
  BY <1>2, <1>3, GraphIsClosed, AllGraphOf
<1>5. IdOf(v) \in AllIds => IdOf(v) \in DOMAIN Graph
  BY <1>3, <1>4, GraphIsClosed
<1> HIDE DEF v
<1>6. GraphInv' /\ Abstract!Becomes([RootIds EXCEPT ![x] = IdOf(v)], Graph)
  BY <1>1, <1>5, RootBecomes
<1> QED
  BY <1>3, <1>4, <1>6 DEF Abstract!Load, RootIds

LEMMA AssignIsAssign ==
  ASSUME GraphInv, HeapInv', NEW x \in Root,
         NEW v \in {Null} \cup Scalars \cup {roots[y] : y \in Root}, Assign(x, v)
  PROVE  GraphInv' /\ \E w \in Abstract!Value : Abstract!Assign(x, w)
<1>1. /\ phase = "mutate" /\ phase' = "mutate" /\ UNCHANGED mem
      /\ roots' = [roots EXCEPT ![x] = v]
  BY DEF Assign, vars
<1>2. v \in Value /\ (IsPointer(v) => v \in DOMAIN mem)
  BY HeapIds DEF Value, IsPointer
<1>3. IdOf(v) \in {Null} \cup Scalars \cup {RootIds[y] : y \in Root}
  BY DEF RootIds, IdOf, IsPointer
<1>4. IdOf(v) \in AllIds => IdOf(v) \in DOMAIN Graph
  <2>1. Null \notin Id /\ \A s \in Scalars : s \notin Id
    BY HeapAssumption
  <2> QED
    BY <1>3, <2>1, GraphIsClosed, AllGraphOf
<1>5. GraphInv' /\ Abstract!Becomes([RootIds EXCEPT ![x] = IdOf(v)], Graph)
  BY <1>1, <1>4, RootBecomes
<1>6. IdOf(v) \in Abstract!Value
  BY <1>2, IdOfType, AllGraphOf DEF Abstract!Value
<1>7. Abstract!Assign(x, IdOf(v))
  BY <1>3, <1>5 DEF Abstract!Assign, RootIds
<1> QED
  BY <1>5, <1>6, <1>7
-----------------------------------------------------------------------------
(***************************************************************************)
(* The refinement.                                                         *)
(***************************************************************************)

LEMMA GraphStarts ==
  ASSUME HeapInit
  PROVE  GraphInv /\ RootIds = [x \in Root |-> Null] /\ Graph = << >>
<1>1. HeapInv /\ phase = "mutate"
  BY HeapStarts DEF HeapInit, Init
<1>2. DOMAIN mem = {}
  BY DEF HeapInit
<1>3. GraphInv
  BY <1>1, <1>2, RunningCopiesAgree
<1>4. Reachable = {}
  BY <1>2, ReachableClosed
<1>5. DOMAIN Graph = {} /\ Graph = [i \in {} |-> AllGraph[i]]
  BY <1>3, <1>4, GraphShapeHolds DEF GraphShape
<1>6. Graph = << >>
  BY <1>5
<1>7. RootIds = [x \in Root |-> Null]
  BY DEF HeapInit, RootIds, IdOf, IsPointer
<1> QED
  BY <1>3, <1>6, <1>7

LEMMA VisitKeepsGraph ==
  ASSUME GraphInv, HeapInv', NEW s \in slots, VisitDone(s) \/ VisitUnmarked(s)
  PROVE  GraphInv' /\ RootIds' = RootIds /\ Graph' = Graph
<1>1. (\E c : IdsKept(c)) /\ GraphInv'
  BY VisitDoneKeepsIds, VisitUnmarkedKeepsIds
<1> QED
  BY <1>1, KeptIdsKeepGraph

\* A step that no instruction of the program's takes.
LEMMA CollectorKeepsGraph ==
  ASSUME GraphInv, HeapInv',
         \/ \E n \in Sizes : NewFails(n)
         \/ StartCollection
         \/ Collector
         \/ UNCHANGED allVars
  PROVE  GraphInv' /\ RootIds' = RootIds /\ Graph' = Graph
<1>1. CASE \E n \in Sizes : NewFails(n)
  BY <1>1, IdleKeepsGraph DEF NewFails, AllocateFails, heapVars
<1>2. CASE StartCollection
  BY <1>2, IdleKeepsGraph DEF StartCollection, BeginCollection
<1>3. ASSUME NEW s \in slots, VisitDone(s) \/ VisitUnmarked(s)
      PROVE  GraphInv' /\ RootIds' = RootIds /\ Graph' = Graph
  BY <1>3, VisitKeepsGraph
<1>4. ASSUME NEW o \in worklist, Trace(o)
      PROVE  GraphInv' /\ RootIds' = RootIds /\ Graph' = Graph
  BY <1>4, IdleKeepsGraph DEF Trace, vars, evacState
<1>5. CASE FinishCollection
  BY <1>5, FinishKeepsGraph
<1>6. CASE UNCHANGED allVars
  BY <1>6, IdleKeepsGraph DEF allVars, heapVars, vars, evacState
<1> QED
  BY <1>1, <1>2, <1>3, <1>4, <1>5, <1>6 DEF Collector

LEMMA HeapStepsAreGraphSteps ==
  ASSUME EpochDoesNotWrap, GraphInv, [HeapNext]_allVars
  PROVE  GraphInv' /\ [Abstract!Next]_<<RootIds, Graph>>
<1>1. HeapInv'
  BY HeapNextKeepsInv DEF GraphInv
<1>2. ASSUME NEW x \in Root, NEW n \in Sizes, New(x, n)
      PROVE  GraphInv' /\ Abstract!Next
  BY <1>1, <1>2, NewIsNew DEF Abstract!Next
<1>3. ASSUME NEW x \in Root, NewLarge(x)
      PROVE  GraphInv' /\ Abstract!Next
  BY <1>1, <1>3, NewLargeIsNew DEF Abstract!Next
<1>4. ASSUME NEW x \in Root, NEW y \in Root, NEW f \in Field, Store(x, f, y) \/ Load(x, y, f)
      PROVE  GraphInv' /\ Abstract!Next
  BY <1>1, <1>4, StoreIsStore, LoadIsLoad DEF Abstract!Next
<1>5. ASSUME NEW x \in Root, NEW v \in {Null} \cup Scalars \cup {roots[y] : y \in Root},
             Assign(x, v)
      PROVE  GraphInv' /\ Abstract!Next
  BY <1>1, <1>5, AssignIsAssign DEF Abstract!Next
<1>6. \/ Program
      \/ StartCollection \/ Collector \/ UNCHANGED allVars
  BY DEF HeapNext
<1> QED
  BY <1>1, <1>2, <1>3, <1>4, <1>5, <1>6, CollectorKeepsGraph DEF Program

\* Whatever the collector moves, marks and sweeps, and whenever it runs, the
\* program sees a graph of objects that only its own instructions change, for
\* every geometry, every number of objects, roots and fields (jav_gc.c).
THEOREM HeapImplementsGraph ==
  ASSUME EpochDoesNotWrap
  PROVE  HeapSpec => ImplementsObjectGraph
<1>1. HeapInit => GraphInv /\ Abstract!Init
  BY GraphStarts DEF Abstract!Init, RootIds
<1>2. GraphInv /\ [HeapNext]_allVars =>
        GraphInv' /\ [Abstract!Next]_<<[x \in Root |-> IdOf(roots[x])], Graph>>
  BY HeapStepsAreGraphSteps DEF RootIds
<1> QED
  BY <1>1, <1>2, PTL DEF HeapSpec, ImplementsObjectGraph, Abstract!Spec
=============================================================================
