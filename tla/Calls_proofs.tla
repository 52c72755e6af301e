---------------------------- MODULE Calls_proofs ----------------------------
(***************************************************************************)
(* Proofs about Calls, for every program of validated bodies, every depth  *)
(* of calls and every size of the two pools.                               *)
(***************************************************************************)
EXTENDS Calls, FiniteSetTheorems, SequenceTheorems, WellFoundedInduction, TLAPS

(***************************************************************************)
(* Numbers, sequences and heights.                                         *)
(***************************************************************************)

\* A set of natural numbers has a least element.
LEMMA LeastNumber ==
  ASSUME NEW S \in SUBSET Nat, S # {}
  PROVE  \E m \in S : \A k \in S : m <= k
<1>1. IsWellFoundedOn(OpToRel(<, Nat), Nat)
  BY NatLessThanWellFounded
<1>2. PICK m \in S : \A k \in S : <<k, m>> \notin OpToRel(<, Nat)
  BY <1>1, WFMin
<1>3. \A k \in S : ~ (k < m)
  BY <1>2 DEF OpToRel
<1> QED
  BY <1>3

\* A bounded set of natural numbers has a greatest, which Max chooses.
LEMMA GreatestNumber ==
  ASSUME NEW n \in Nat, NEW S \in SUBSET (0 .. n), S # {}
  PROVE  Max(S) \in S /\ \A k \in S : k <= Max(S)
<1> DEFINE U == {u \in 0 .. n : n - u \in S}
<1>1. U \in SUBSET Nat /\ U # {}
  <2>1. PICK k \in S : TRUE
    OBVIOUS
  <2>2. n - k \in 0 .. n /\ n - (n - k) = k /\ k \in S
    BY <2>1
  <2>3. n - k \in U
    BY <2>2, Zenon
  <2>4. U \subseteq 0 .. n
    OBVIOUS
  <2>5. U \in SUBSET Nat
    BY <2>4
  <2> QED
    BY <2>3, <2>5
<1>2. PICK u \in U : \A k \in U : u <= k
  BY <1>1, LeastNumber
<1>3. ASSUME NEW k \in S
      PROVE  n - u >= k
  <2>1. n - k \in U
    OBVIOUS
  <2> QED
    BY <2>1, <1>2
<1>4. \E m \in S : \A k \in S : m >= k
  BY <1>2, <1>3
<1> QED
  BY <1>4 DEF Max

\* Keeping the first elements of a sequence.
LEMMA KeepEffect ==
  ASSUME NEW S, NEW s \in Seq(S), NEW n \in 0 .. Len(s)
  PROVE  /\ Keep(s, n) \in Seq(S) /\ Len(Keep(s, n)) = n /\ DOMAIN Keep(s, n) = 1 .. n
         /\ \A i \in 1 .. n : Keep(s, n)[i] = s[i]
<1>1. \A i \in 1 .. n : s[i] \in S
  BY ElementOfSeq
<1>2. Keep(s, n) \in Seq(S) /\ Len(Keep(s, n)) = n /\ \A i \in 1 .. n : Keep(s, n)[i] = s[i]
  BY <1>1, SubSeqProperties DEF Keep
<1> QED
  BY <1>2, LenProperties

\* Keeping a sequence up to the last of some of its places.
LEMMA KeepLast ==
  ASSUME NEW S, NEW s \in Seq(S), NEW A \in SUBSET DOMAIN s, NEW g, g = Keep(s, Max({0} \cup A))
  PROVE  /\ g \in Seq(S) /\ Len(g) \in 0 .. Len(s) /\ DOMAIN g = 1 .. Len(g)
         /\ \A i \in DOMAIN g : i \in DOMAIN s /\ g[i] = s[i]
         /\ \A i \in A : i <= Len(g)
         /\ Len(g) = 0 \/ Len(g) \in A
<1>1. Len(s) \in Nat /\ DOMAIN s = 1 .. Len(s)
  BY LenProperties
<1>2. {0} \cup A \in SUBSET (0 .. Len(s)) /\ {0} \cup A # {}
  BY <1>1
<1> DEFINE m == Max({0} \cup A)
<1>3. m \in {0} \cup A /\ \A k \in {0} \cup A : k <= m
  BY <1>1, <1>2, GreatestNumber
<1>4. m \in 0 .. Len(s)
  BY <1>2, <1>3
<1> HIDE DEF m
<1>5. /\ Keep(s, m) \in Seq(S) /\ Len(Keep(s, m)) = m /\ DOMAIN Keep(s, m) = 1 .. m
      /\ \A i \in 1 .. m : Keep(s, m)[i] = s[i]
  BY <1>4, KeepEffect
<1>6. g = Keep(s, m)
  BY DEF m
<1>7. Len(g) = m /\ DOMAIN g = 1 .. m /\ g \in Seq(S) /\ \A i \in 1 .. m : g[i] = s[i]
  BY <1>5, <1>6
<1>8. \A i \in 1 .. m : i \in DOMAIN s
  BY <1>1, <1>4
<1>9. m = 0 \/ m \in A
  BY <1>3
<1> QED
  BY <1>3, <1>4, <1>7, <1>8, <1>9

Sorted(hs) == \A j, k \in DOMAIN hs : j < k => hs[j].depth <= hs[k].depth

\* g is what is left of hs when handlers were popped.
Popped(g, hs) ==
  /\ g \in Seq(Handler) /\ Len(g) \in 0 .. Len(hs) /\ DOMAIN g = 1 .. Len(g)
  /\ \A k \in DOMAIN g : k \in DOMAIN hs /\ g[k] = hs[k]

\* Popping a popped stack of handlers is popping.
LEMMA PoppedTwice ==
  ASSUME NEW f, NEW g, NEW h \in Seq(Handler), Popped(f, g), Popped(g, h)
  PROVE  Popped(f, h)
BY LenProperties DEF Popped

\* What jav_call_fn drops: the handlers from depth d on, and no other.
LEMMA BelowEffect ==
  ASSUME NEW hs \in Seq(Handler), Sorted(hs), NEW d \in Nat, NEW g, g = BelowDepth(hs, d)
  PROVE  /\ Popped(g, hs)
         /\ \A k \in DOMAIN g : g[k].depth < d
         /\ \A k \in DOMAIN hs : hs[k].depth < d => k \in DOMAIN g
<1> DEFINE A == {k \in DOMAIN hs : hs[k].depth < d}
<1>1. A \in SUBSET DOMAIN hs /\ DOMAIN hs = 1 .. Len(hs) /\ Len(hs) \in Nat
  BY LenProperties
<1>2. g = Keep(hs, Max({0} \cup A))
  BY DEF BelowDepth
<1> HIDE DEF A
<1>3. /\ g \in Seq(Handler) /\ Len(g) \in 0 .. Len(hs) /\ DOMAIN g = 1 .. Len(g)
      /\ \A i \in DOMAIN g : i \in DOMAIN hs /\ g[i] = hs[i]
      /\ \A i \in A : i <= Len(g)
      /\ Len(g) = 0 \/ Len(g) \in A
  BY <1>1, <1>2, KeepLast
<1>4. \A k \in DOMAIN hs : hs[k] \in Handler
  BY <1>1, ElementOfSeq
<1>5. ASSUME NEW k \in DOMAIN g
      PROVE  g[k].depth < d
  <2>1. Len(g) \in A /\ k <= Len(g) /\ k \in DOMAIN hs /\ Len(g) \in DOMAIN hs /\ g[k] = hs[k]
    BY <1>1, <1>3
  <2>2. hs[Len(g)].depth < d
    BY <2>1 DEF A
  <2>3. hs[k].depth \in Nat /\ hs[Len(g)].depth \in Nat
    BY <2>1, <1>4 DEF Handler
  <2>4. k < Len(g) => hs[k].depth <= hs[Len(g)].depth
    BY <2>1 DEF Sorted
  <2>5. k < Len(g) \/ k = Len(g)
    BY <2>1, <1>1
  <2> QED
    BY <2>1, <2>2, <2>3, <2>4, <2>5
<1>6. ASSUME NEW k \in DOMAIN hs, hs[k].depth < d
      PROVE  k \in DOMAIN g
  BY <1>1, <1>3, <1>6 DEF A
<1> QED
  BY <1>3, <1>5, <1>6 DEF Popped

\* What prune_handlers drops: handlers of depth d, from the top down to one that
\* is still in scope.
LEMMA PruneEffect ==
  ASSUME NEW hs \in Seq(Handler), NEW d \in Nat, NEW pos \in Nat, NEW g, g = Prune(hs, d, pos)
  PROVE  /\ Popped(g, hs)
         /\ \A k \in DOMAIN hs : k \notin DOMAIN g =>
              hs[k].depth = d /\ ~ (pos < Body(hs[k].fn)[hs[k].try].end)
         /\ Len(g) > 0 => LET h == hs[Len(g)] IN h.depth # d \/ pos < Body(h.fn)[h.try].end
<1> DEFINE A == {k \in DOMAIN hs : hs[k].depth # d \/ pos < Body(hs[k].fn)[hs[k].try].end}
<1>1. A \in SUBSET DOMAIN hs /\ DOMAIN hs = 1 .. Len(hs) /\ Len(hs) \in Nat
  BY LenProperties
<1>2. g = Keep(hs, Max({0} \cup A))
  BY DEF Prune
<1>3. \A k \in DOMAIN hs : k \in A <=> (hs[k].depth # d \/ pos < Body(hs[k].fn)[hs[k].try].end)
  OBVIOUS
<1> HIDE DEF A
<1>4. /\ g \in Seq(Handler) /\ Len(g) \in 0 .. Len(hs) /\ DOMAIN g = 1 .. Len(g)
      /\ \A i \in DOMAIN g : i \in DOMAIN hs /\ g[i] = hs[i]
      /\ \A i \in A : i <= Len(g)
      /\ Len(g) = 0 \/ Len(g) \in A
  BY <1>1, <1>2, KeepLast
<1>5. \A k \in DOMAIN hs : k \notin DOMAIN g => k \notin A
  BY <1>1, <1>4
<1> QED
  BY <1>1, <1>3, <1>4, <1>5 DEF Popped

\* The height before the next instruction.
LEMMA HeightStep ==
  ASSUME NEW f, NEW q \in Nat \ {0}
  PROVE  /\ Height(f, q) \in Int
         /\ Height(f, q + 1) = Height(f, q) + (CASE Body(f)[q].op = "push" -> 1
                                                 [] Body(f)[q].op = "drop" -> -1
                                                 [] OTHER -> 0)
<1> DEFINE N(op, p) == {i \in 1 .. p - 1 : Body(f)[i].op = op}
<1>1. \A op : IsFiniteSet(N(op, q)) /\ Cardinality(N(op, q)) \in Nat
  <2> TAKE op
  <2>1. IsFiniteSet(1 .. q - 1) /\ N(op, q) \in SUBSET (1 .. q - 1)
    BY FS_Interval
  <2> QED
    BY <2>1, FS_Subset, FS_CardinalityType
<1>2. \A op : Cardinality(N(op, q + 1)) = Cardinality(N(op, q)) + (IF Body(f)[q].op = op THEN 1 ELSE 0)
  <2> TAKE op
  <2>1. q \notin N(op, q) /\ N(op, q + 1) = IF Body(f)[q].op = op THEN N(op, q) \cup {q} ELSE N(op, q)
    OBVIOUS
  <2> HIDE DEF N
  <2>2. IsFiniteSet(N(op, q))
    BY <1>1
  <2>3. Cardinality(N(op, q) \cup {q}) = Cardinality(N(op, q)) + 1
    BY <2>1, <2>2, FS_AddElement
  <2> QED
    BY <1>1, <2>1, <2>3
<1>3. \A p : Height(f, p) = Cardinality(N("push", p)) - Cardinality(N("drop", p))
  BY DEF Height
<1> HIDE DEF N
<1> QED
  BY <1>1, <1>2, <1>3

-----------------------------------------------------------------------------
(***************************************************************************)
(* Bodies.                                                                 *)
(***************************************************************************)

\* Constructs and labels lie inside the body.
LEMMA BodyPlaces ==
  ASSUME NEW f \in Wasm
  PROVE  /\ f \in Func /\ f # None
         /\ Body(f) \in Seq(Instruction) /\ Len(Body(f)) \in Nat /\ DOMAIN Body(f) = 1 .. Len(Body(f))
         /\ End(f) \in Nat \ {0}
         /\ \A c \in Constructs(f) :
              /\ c \in 1 .. Len(Body(f)) /\ Body(f)[c].end \in Nat
              /\ c + 2 <= Body(f)[c].end /\ Body(f)[c].end <= End(f)
              /\ LabelOf(f, c) \in 1 .. End(f)
<1>1. f \in Func /\ f # None /\ Body(f) \in Seq(Instruction)
  BY CallsAssumption DEF Wasm, Body
<1>2. Len(Body(f)) \in Nat /\ DOMAIN Body(f) = 1 .. Len(Body(f))
  BY <1>1, LenProperties
<1>3. ASSUME NEW c \in Constructs(f)
      PROVE  /\ c \in 1 .. Len(Body(f)) /\ Body(f)[c].end \in Nat
             /\ c + 2 <= Body(f)[c].end /\ Body(f)[c].end <= End(f)
             /\ LabelOf(f, c) \in 1 .. End(f)
  <2>1. c \in 1 .. Len(Body(f))
    BY <1>2 DEF Constructs
  <2>2. Body(f)[c].end \in c + 2 .. Len(Body(f)) + 1
    BY ValidAssumption DEF Validated, End
  <2> QED
    BY <2>1, <2>2, <1>2 DEF LabelOf, End
<1> QED
  BY <1>1, <1>2, <1>3 DEF End

\* A try_table's catch leads to a construct around it.
LEMMA CatchLabel ==
  ASSUME NEW f \in Wasm, NEW t \in Tries(f)
  PROVE  LET label == Body(f)[t].label IN
         /\ label \in Constructs(f) /\ label < t /\ t < Body(f)[label].end - 1
         /\ Body(f)[t].end < Body(f)[label].end /\ label \in Around(f, t) /\ t \in Constructs(f)
<1> DEFINE label == Body(f)[t].label
<1>1. label \in Around(f, t) /\ t \in Constructs(f)
  BY ValidAssumption DEF Validated, Tries
<1>2. label \in Constructs(f) /\ label < t /\ t < Body(f)[label].end - 1
  BY <1>1 DEF Around
<1>3. t < Body(f)[label].end
  BY <1>1, <1>2, BodyPlaces
<1>4. Body(f)[t].end < Body(f)[label].end
  BY <1>1, <1>2, <1>3, ValidAssumption DEF Validated
<1> QED
  BY <1>1, <1>2, <1>4
-----------------------------------------------------------------------------
(***************************************************************************)
(* Calls and returns, as the other activations see them.                   *)
(***************************************************************************)

\* The activations up to the n-th stay, but for the record of traps.
CallsUpTo(n) ==
  /\ depth' = n /\ cstack' \in Seq(Activation) /\ Len(cstack') = n
  /\ \A i \in 1 .. n : /\ cstack'[i].kind = cstack[i].kind
                       /\ cstack'[i].saved = cstack[i].saved /\ cstack'[i].outer = cstack[i].outer

\* The activations and the frames that wait, by their types.
LEMMA StackType ==
  ASSUME CallsShapes
  PROVE  /\ depth \in Nat /\ DOMAIN cstack = 1 .. depth /\ depth <= MaxDepth /\ MaxDepth \in Nat
         /\ \A i \in 1 .. depth : cstack[i] \in Activation /\ cstack[i].saved \in Frame /\ cstack[i].outer \in Frame
         /\ \A i \in 0 .. depth : Resumed(i) \in Frame
<1>1. cstack \in Seq(Activation) /\ depth = Len(cstack)
  BY DEF CallsShapes
<1>2. depth \in Nat /\ DOMAIN cstack = 1 .. depth
  BY <1>1, LenProperties
<1>3. \A i \in 1 .. depth : cstack[i] \in Activation
  BY <1>1, ElementOfSeq
<1>4. \A i \in 1 .. depth : cstack[i].saved \in Frame /\ cstack[i].outer \in Frame
  BY <1>3 DEF Activation
<1>5. \A i \in 0 .. depth : Resumed(i) \in Frame
  <2> TAKE i \in 0 .. depth
  <2>1. i # depth => i + 1 \in 1 .. depth
    BY <1>2
  <2> QED
    BY <2>1, <1>4 DEF Resumed, CallsShapes
<1> QED
  BY <1>2, <1>3, <1>4, <1>5, CallsAssumption DEF CallsShapes

\* Guest code runs in an activation, and the embedder in none.
LEMMA WhoRuns ==
  ASSUME CallsShapes, FramesNest
  PROVE  /\ InWasm <=> frame.fn \in Wasm
         /\ InWasm => /\ depth > 0 /\ cstack # << >> /\ frame.fn \in Func
                      /\ frame.pc \in 1 .. End(frame.fn) /\ frame.ctx = Prog[frame.fn].inst
         /\ cstack = << >> <=> depth = 0
         /\ frame.fn = None <=> depth = 0
<1>1. depth \in Nat /\ depth \in 0 .. depth /\ Resumed(depth) = frame
  BY StackType DEF Resumed
<1>2. frame.fn = None <=> depth = 0
  BY <1>1 DEF FramesNest
<1>3. frame.fn \in Wasm => frame.fn # None /\ frame.fn \in Func
  BY CallsAssumption DEF Wasm
<1>4. InWasm <=> frame.fn \in Wasm
  BY <1>3 DEF InWasm, InHost
<1>5. cstack = << >> <=> depth = 0
  BY StackType, EmptySeq DEF CallsShapes
<1>6. InWasm => frame.pc \in 1 .. End(frame.fn) /\ frame.ctx = Prog[frame.fn].inst
  BY <1>1, <1>4 DEF FramesNest
<1> QED
  BY <1>1, <1>2, <1>3, <1>4, <1>5, <1>6

\* A trap is recorded, or nothing at all, in the activations up to the n-th.
LEMMA KeptCalls ==
  ASSUME CallsShapes, NEW n \in 0 .. depth, depth' = n,
         NEW cs, cs = Keep(cstack, n),
         \/ cstack' = cs
         \/ cstack' = Owe(cs)
         \/ n > 0 /\ cstack' = Raise(cs)
  PROVE  CallsUpTo(n)
<1>1. cstack \in Seq(Activation) /\ n \in 0 .. Len(cstack) /\ n \in Nat
  BY StackType DEF CallsShapes
<1>2. cs \in Seq(Activation) /\ Len(cs) = n /\ DOMAIN cs = 1 .. n /\ \A i \in 1 .. n : cs[i] = cstack[i]
  BY <1>1, KeepEffect
<1>3. \A i \in 1 .. n : cs[i] \in Activation
  BY <1>2, ElementOfSeq
<1>4. CASE cstack' = cs
  BY <1>2, <1>4 DEF CallsUpTo
<1>5. ASSUME n > 0, \/ cstack' = [cs EXCEPT ![n].raised = TRUE]
                    \/ cstack' = [cs EXCEPT ![n].owes = TRUE]
      PROVE  CallsUpTo(n)
  <2>1. PICK a : /\ a \in Activation /\ cstack' = [cs EXCEPT ![n] = a]
                 /\ a.kind = cs[n].kind /\ a.saved = cs[n].saved /\ a.outer = cs[n].outer
    <3>1. n \in 1 .. n
      BY <1>5, <1>1
    <3>2. [cs[n] EXCEPT !.raised = TRUE] \in Activation /\ [cs[n] EXCEPT !.owes = TRUE] \in Activation
      BY <3>1, <1>3 DEF Activation
    <3>3. /\ [cs[n] EXCEPT !.raised = TRUE].kind = cs[n].kind /\ [cs[n] EXCEPT !.raised = TRUE].saved = cs[n].saved
          /\ [cs[n] EXCEPT !.raised = TRUE].outer = cs[n].outer
          /\ [cs[n] EXCEPT !.owes = TRUE].kind = cs[n].kind /\ [cs[n] EXCEPT !.owes = TRUE].saved = cs[n].saved
          /\ [cs[n] EXCEPT !.owes = TRUE].outer = cs[n].outer
      BY <3>1, <1>3 DEF Activation
    <3> QED
      BY <1>5, <3>2, <3>3
  <2>2. n \in 1 .. Len(cs)
    BY <1>1, <1>2, <1>5
  <2>3. /\ cstack' \in Seq(Activation) /\ Len(cstack') = n
        /\ \A i \in 1 .. n : cstack'[i] = IF i = n THEN a ELSE cs[i]
    BY <2>1, <2>2, <1>2, ExceptSeq
  <2> QED
    BY <2>1, <2>3, <1>2 DEF CallsUpTo
<1>6. n = 0 => cs = << >>
  BY <1>2, EmptySeq
<1>7. CASE cstack' = Owe(cs)
  BY <1>2, <1>4, <1>5, <1>6, <1>7, <1>1 DEF Owe
<1>8. CASE n > 0 /\ cstack' = Raise(cs)
  BY <1>2, <1>5, <1>8 DEF Raise
<1> QED
  BY <1>4, <1>7, <1>8

\* No activation begins or ends.
LEMMA SameCalls ==
  ASSUME CallsShapes, depth' = depth,
         \/ cstack' = cstack
         \/ cstack' = Owe(cstack)
         \/ depth > 0 /\ cstack' = Raise(cstack)
  PROVE  CallsUpTo(depth)
<1>1. depth \in 0 .. depth /\ depth = Len(cstack) /\ cstack \in Seq(Activation)
  BY StackType DEF CallsShapes
<1>2. cstack = Keep(cstack, depth)
  BY <1>1, SubSeqFull DEF Keep
<1> QED
  BY <1>1, <1>2, KeptCalls

\* The frames of the activations up to the n-th are as they were.
LEMMA BackKeepsFrames ==
  ASSUME CallsShapes, FramesNest, NEW n \in 0 .. depth, CallsUpTo(n),
         frame'.fn = None <=> n = 0,
         frame'.fn \in Wasm => frame'.pc \in 1 .. End(frame'.fn) /\ frame'.ctx = Prog[frame'.fn].inst
  PROVE  FramesNest' /\ \A i \in 0 .. n - 1 : Resumed(i)' = Resumed(i)
<1>1. depth \in Nat /\ n \in Nat /\ n <= depth /\ depth' = n /\ DOMAIN cstack = 1 .. depth
  BY StackType DEF CallsUpTo
<1>2. DOMAIN cstack' = 1 .. n
  BY LenProperties DEF CallsUpTo
<1>3. Resumed(n)' = frame'
  BY <1>1 DEF Resumed
<1>4. \A i \in 0 .. n - 1 : Resumed(i)' = Resumed(i)
  <2> TAKE i \in 0 .. n - 1
  <2>1. i # n /\ i # depth /\ i + 1 \in 1 .. n
    BY <1>1
  <2> QED
    BY <2>1, <1>1 DEF Resumed, CallsUpTo
<1>5. ASSUME NEW i \in 0 .. n
      PROVE  /\ Resumed(i)'.fn \in Wasm => /\ Resumed(i)'.pc \in 1 .. End(Resumed(i)'.fn)
                                           /\ Resumed(i)'.ctx = Prog[Resumed(i)'.fn].inst
             /\ Resumed(i)'.fn = None <=> i = 0
  <2>1. CASE i = n
    BY <2>1, <1>3
  <2>2. CASE i # n
    <3>1. i \in 0 .. n - 1 /\ i \in 0 .. depth
      BY <2>2, <1>1
    <3> QED
      BY <3>1, <1>4 DEF FramesNest
  <2> QED
    BY <2>1, <2>2
<1>6. \A i \in 1 .. n : i \in DOMAIN cstack
  BY <1>1
<1>7. ASSUME NEW i \in 1 .. n
      PROVE  LET s == cstack'[i].saved IN
             /\ cstack'[i].outer.fn = s.fn /\ cstack'[i].outer.base = s.base
             /\ IF cstack'[i].kind = "op"
                THEN s.fn \in Wasm /\ s.pc >= 2 /\ Body(s.fn)[s.pc - 1].op = "any"
                ELSE s.fn \notin Wasm
  BY <1>6 DEF FramesNest, CallsUpTo
<1> QED
  BY <1>1, <1>2, <1>4, <1>5, <1>7 DEF FramesNest

\* A call: the caller waits.
LEMMA PushKeepsFrames ==
  ASSUME CallsShapes, FramesNest, NEW a \in Activation, cstack' = Append(cstack, a), depth' = depth + 1,
         NEW n, n = depth,
         a.saved.fn = frame.fn, a.outer.fn = frame.fn, a.outer.base = a.saved.base,
         a.saved.fn \in Wasm => /\ a.saved.pc \in 2 .. End(a.saved.fn) /\ a.saved.ctx = Prog[a.saved.fn].inst
                                /\ Body(a.saved.fn)[a.saved.pc - 1].op = "any",
         a.kind = "op" <=> a.saved.fn \in Wasm,
         frame'.fn \in Func,
         frame'.fn \in Wasm => frame'.pc \in 1 .. End(frame'.fn) /\ frame'.ctx = Prog[frame'.fn].inst
  PROVE  /\ FramesNest' /\ cstack' \in Seq(Activation) /\ depth' = Len(cstack')
         /\ \A i \in 0 .. n : Resumed(i)' = IF i = n THEN a.saved ELSE Resumed(i)
         /\ \A i \in 1 .. n + 1 : cstack'[i] = IF i = n + 1 THEN a ELSE cstack[i]
<1>1. n \in Nat /\ DOMAIN cstack = 1 .. n /\ cstack \in Seq(Activation) /\ n = Len(cstack) /\ depth' = n + 1
  BY StackType DEF CallsShapes
<1>2. /\ cstack' \in Seq(Activation) /\ depth' = Len(cstack') /\ DOMAIN cstack' = 1 .. n + 1
      /\ \A i \in 1 .. n : cstack'[i] = cstack[i]
      /\ cstack'[n + 1] = a
  BY <1>1, AppendProperties, LenProperties
<1>3. \A i : i = n + 1 => Resumed(i)' = frame'
  BY <1>1 DEF Resumed
<1>4. \A i \in 0 .. n : Resumed(i)' = IF i = n THEN a.saved ELSE Resumed(i)
  <2> TAKE i \in 0 .. n
  <2>1. i # depth' /\ (i # n => i + 1 \in 1 .. n)
    BY <1>1
  <2> QED
    BY <2>1, <1>2 DEF Resumed
<1>5. \A i \in 1 .. n + 1 : cstack'[i] = IF i = n + 1 THEN a ELSE cstack[i]
  BY <1>1, <1>2
<1>6. Resumed(n) = frame
  BY DEF Resumed
<1>7. ASSUME NEW i \in 0 .. n + 1
      PROVE  /\ Resumed(i)'.fn \in Wasm => /\ Resumed(i)'.pc \in 1 .. End(Resumed(i)'.fn)
                                           /\ Resumed(i)'.ctx = Prog[Resumed(i)'.fn].inst
             /\ Resumed(i)'.fn = None <=> i = 0
  <2>1. CASE i = n + 1
    BY <2>1, <1>1, <1>3, CallsAssumption
  <2>2. CASE i = n
    <3>1. Resumed(i)' = a.saved /\ (frame.fn = None <=> i = 0)
      BY <2>2, <1>1, <1>4, <1>6 DEF FramesNest
    <3>2. a.saved.fn \in Wasm => a.saved.pc \in 1 .. End(a.saved.fn)
      BY BodyPlaces
    <3> QED
      BY <3>1, <3>2
  <2>3. CASE i # n /\ i # n + 1
    <3>1. i \in 0 .. n /\ Resumed(i)' = Resumed(i)
      BY <2>3, <1>1, <1>4
    <3> QED
      BY <3>1 DEF FramesNest
  <2> QED
    BY <2>1, <2>2, <2>3
<1>8. ASSUME NEW i \in 1 .. n + 1
      PROVE  LET s == cstack'[i].saved IN
             /\ cstack'[i].outer.fn = s.fn /\ cstack'[i].outer.base = s.base
             /\ IF cstack'[i].kind = "op"
                THEN s.fn \in Wasm /\ s.pc >= 2 /\ Body(s.fn)[s.pc - 1].op = "any"
                ELSE s.fn \notin Wasm
  <2>1. CASE i = n + 1
    <3>1. a.saved.fn \in Wasm => a.saved.pc >= 2
      BY BodyPlaces
    <3> QED
      BY <2>1, <3>1, <1>2
  <2>2. CASE i # n + 1
    <3>1. i \in DOMAIN cstack /\ cstack'[i] = cstack[i]
      BY <2>2, <1>1, <1>2
    <3> QED
      BY <3>1 DEF FramesNest
  <2> QED
    BY <2>1, <2>2
<1> QED
  BY <1>2, <1>3, <1>4, <1>5, <1>7, <1>8 DEF FramesNest

\* Handlers are popped, and those of activations that ended are gone.
LEMMA PoppedStayOwned ==
  ASSUME CallsShapes, HandlersOwned, NEW n \in Nat, depth' = n,
         Popped(handlers', handlers),
         \A k \in DOMAIN handlers' : handlers'[k].depth <= n,
         \A i \in 1 .. n : \/ Resumed(i)'.fn = Resumed(i).fn
                         \/ \A k \in DOMAIN handlers' : handlers'[k].depth # i,
         n <= depth
  PROVE  HandlersOwned'
<1>1. \A k \in DOMAIN handlers : handlers[k] \in Handler
  BY ElementOfSeq, LenProperties DEF CallsShapes
<1>2. \A k \in DOMAIN handlers' : k \in DOMAIN handlers /\ handlers'[k] = handlers[k]
  BY DEF Popped
<1>3. ASSUME NEW k \in DOMAIN handlers'
      PROVE  handlers'[k].depth \in 1 .. n /\ handlers'[k].try \in Tries(handlers'[k].fn)
  BY <1>1, <1>2 DEF HandlersOwned, Handler
<1>4. \A j, k \in DOMAIN handlers' : j < k => handlers'[j].depth <= handlers'[k].depth
  BY <1>2 DEF HandlersOwned
<1>5. ASSUME NEW i \in 1 .. n, NEW k \in DOMAIN handlers', handlers'[k].depth = i
      PROVE  handlers'[k].fn = Resumed(i)'.fn
  <2>1. i \in 1 .. depth /\ k \in DOMAIN handlers /\ handlers[k].depth = i
    BY <1>2, <1>5, StackType
  <2> QED
    BY <2>1, <1>2, <1>5 DEF HandlersOwned
<1> QED
  BY <1>3, <1>4, <1>5 DEF HandlersOwned

\* What do_throw does in frame fr, the d-th: it finds the innermost handler of
\* the frame that catches the tag, or the frame ends.
Caught(hs, fr, d, tag, m) ==
  /\ m \in DOMAIN hs /\ hs[m].depth = d /\ tag \in Body(hs[m].fn)[hs[m].try].catch
  /\ \E l \in DOMAIN hs : l >= m /\ hs[l].depth = d /\ fr.pc < Body(hs[l].fn)[hs[l].try].end
  /\ LET f == hs[m].fn
         t == hs[m].try
         label == Body(f)[t].label
     IN /\ sp' = fr.base + hs[m].sp + 1 - (Height(f, t) - Height(f, label))
        /\ frame' = [fr EXCEPT !.pc = LabelOf(f, label)]
  /\ Popped(handlers', hs) /\ Len(handlers') = m - 1
  /\ pending' = None

Uncaught(hs, fr, d, h, exn) ==
  /\ pending' = exn /\ sp' = h /\ frame' = [fr EXCEPT !.pc = End(fr.fn)]
  /\ Popped(handlers', hs) /\ \A k \in DOMAIN handlers' : handlers'[k].depth < d
  /\ \A k \in DOMAIN hs : hs[k].depth < d => k \in DOMAIN handlers'

\* A popped stack of handlers is in order.
LEMMA PoppedSorted ==
  ASSUME NEW g, NEW hs, Popped(g, hs), Sorted(hs)
  PROVE  Sorted(g)
BY DEF Popped, Sorted

\* do_throw finds a handler, or none.
LEMMA ThrowEffect ==
  ASSUME NEW hs \in Seq(Handler), Sorted(hs), NEW d \in Nat, NEW fr \in Frame, fr.fn \in Wasm,
         NEW h, NEW exn, DoThrow(fr, h, hs, d, exn)
  PROVE  (\E m \in DOMAIN hs : Caught(hs, fr, d, exn.tag, m)) \/ Uncaught(hs, fr, d, h, exn)
<1> DEFINE P == Prune(hs, d, fr.pc)
           C == Catching(P, d, exn.tag)
<1>1. fr.pc \in Nat /\ DOMAIN hs = 1 .. Len(hs) /\ Len(hs) \in Nat
  BY LenProperties DEF Frame
<1>2. /\ Popped(P, hs)
      /\ \A k \in DOMAIN hs : k \notin DOMAIN P => hs[k].depth = d
      /\ Len(P) > 0 => LET l == hs[Len(P)] IN l.depth # d \/ fr.pc < Body(l.fn)[l.try].end
  BY <1>1, PruneEffect
<1>3. /\ P \in Seq(Handler) /\ Len(P) \in Nat /\ Len(P) <= Len(hs) /\ DOMAIN P = 1 .. Len(P)
      /\ \A k \in DOMAIN P : k \in DOMAIN hs /\ P[k] = hs[k]
  BY <1>1, <1>2 DEF Popped
<1>4. C \in SUBSET (0 .. Len(P)) /\ \A m \in C : m \in DOMAIN P
  BY <1>3 DEF Catching
<1>5. IF C # {}
      THEN LET hd    == P[Max(C)]
               label == Body(hd.fn)[hd.try].label
               pop   == Height(hd.fn, hd.try) - Height(hd.fn, label)
           IN /\ sp' = fr.base + hd.sp + 1 - pop
              /\ frame' = [fr EXCEPT !.pc = LabelOf(hd.fn, label)]
              /\ handlers' = Keep(P, Max(C) - 1)
              /\ pending' = None
      ELSE /\ pending' = exn
           /\ handlers' = BelowDepth(P, d)
           /\ frame' = [fr EXCEPT !.pc = End(fr.fn)]
           /\ sp' = h
  BY DEF DoThrow
<1>6. \A m \in C : /\ exn.tag \in Body(P[m].fn)[P[m].try].catch
                   /\ \A j \in m .. Len(P) : P[j].depth = d
  BY DEF Catching
<1> HIDE DEF P, C
<1>7. CASE C # {}
  <2> DEFINE m == Max(C)
  <2>1. m \in C
    BY <1>3, <1>4, <1>7, GreatestNumber
  <2> HIDE DEF m
  <2>2. m \in DOMAIN P /\ m \in Nat /\ m >= 1 /\ m <= Len(P) /\ m \in DOMAIN hs /\ P[m] = hs[m]
    BY <2>1, <1>3, <1>4
  <2>3. hs[m].depth = d /\ exn.tag \in Body(hs[m].fn)[hs[m].try].catch
    BY <2>1, <2>2, <1>3, <1>6
  <2>4. Len(P) \in DOMAIN P /\ Len(P) \in DOMAIN hs /\ Len(P) >= m /\ hs[Len(P)].depth = d
    BY <2>1, <2>2, <1>3, <1>6
  <2>5. fr.pc < Body(hs[Len(P)].fn)[hs[Len(P)].try].end
    BY <2>2, <2>4, <1>2
  <2>6. m - 1 \in 0 .. Len(P)
    BY <2>2, <1>3
  <2>7. /\ handlers' \in Seq(Handler) /\ Len(handlers') = m - 1 /\ DOMAIN handlers' = 1 .. m - 1
        /\ \A k \in 1 .. m - 1 : handlers'[k] = P[k]
    BY <2>6, <1>3, <1>5, <1>7, KeepEffect DEF m
  <2>8. \A k \in 1 .. m - 1 : k \in DOMAIN P
    BY <2>2, <1>3
  <2>9. Popped(handlers', hs)
    BY <2>2, <2>6, <2>7, <2>8, <1>1, <1>3 DEF Popped
  <2>10. /\ sp' = fr.base + hs[m].sp + 1 - (Height(hs[m].fn, hs[m].try) - Height(hs[m].fn, Body(hs[m].fn)[hs[m].try].label))
         /\ frame' = [fr EXCEPT !.pc = LabelOf(hs[m].fn, Body(hs[m].fn)[hs[m].try].label)]
         /\ pending' = None
    BY <2>2, <1>5, <1>7 DEF m
  <2>11. Caught(hs, fr, d, exn.tag, m)
    BY <2>2, <2>3, <2>4, <2>5, <2>7, <2>9, <2>10 DEF Caught
  <2> QED
    BY <2>2, <2>11
<1>8. CASE C = {}
  <2>1. Sorted(P)
    BY <1>2, PoppedSorted
  <2>2. handlers' = BelowDepth(P, d)
    BY <1>5, <1>8
  <2>3. /\ Popped(handlers', P) /\ \A k \in DOMAIN handlers' : handlers'[k].depth < d
        /\ \A k \in DOMAIN P : P[k].depth < d => k \in DOMAIN handlers'
    BY <2>1, <2>2, <1>3, BelowEffect
  <2>4. Popped(handlers', hs)
    BY <2>3, <1>2, PoppedTwice
  <2>5. \A k \in DOMAIN hs : hs[k].depth < d => k \in DOMAIN P
    BY <1>2
  <2>6. \A k \in DOMAIN hs : hs[k].depth < d => k \in DOMAIN handlers'
    BY <2>3, <2>5, <1>3
  <2>7. Uncaught(hs, fr, d, h, exn)
    BY <2>3, <2>4, <2>6, <1>5, <1>8 DEF Uncaught
  <2> QED
    BY <2>7
<1> QED
  BY <1>7, <1>8

-----------------------------------------------------------------------------
(***************************************************************************)
(* Frames keep their context, handlers their function.                     *)
(***************************************************************************)

Exception == [tag : Tag, level : Nat]
RestTyped == /\ sp \in Int /\ trapped \in BOOLEAN /\ tail \in Func \cup {None}
             /\ pending \in Exception \cup {None}

\* A step that leaves the activations up to the n-th and goes on in the n-th, in
\* its function or, if it has no handler left, in another.
LEMMA BackKeepsContext ==
  ASSUME ContextInv, NEW n \in 0 .. depth, CallsUpTo(n), frame' \in Frame, RestTyped',
         \/ frame'.fn = Resumed(n).fn
         \/ n > 0 /\ frame'.fn \in Func /\ \A k \in DOMAIN handlers' : handlers'[k].depth # n,
         frame'.fn \in Wasm => frame'.pc \in 1 .. End(frame'.fn) /\ frame'.ctx = Prog[frame'.fn].inst,
         Popped(handlers', handlers), \A k \in DOMAIN handlers' : handlers'[k].depth <= n
  PROVE  ContextInv' /\ \A i \in 0 .. n - 1 : Resumed(i)' = Resumed(i)
<1> USE DEF ContextInv
<1>1. depth \in Nat /\ n \in Nat /\ n <= depth /\ depth' = n /\ depth <= MaxDepth /\ MaxDepth \in Nat
  BY StackType DEF CallsUpTo
<1>2. frame'.fn = None <=> n = 0
  <2>1. Resumed(n).fn = None <=> n = 0
    BY DEF FramesNest
  <2> QED
    BY <2>1, CallsAssumption
<1>3. FramesNest' /\ \A i \in 0 .. n - 1 : Resumed(i)' = Resumed(i)
  BY <1>2, BackKeepsFrames
<1>4. CallsShapes'
  BY <1>1 DEF CallsShapes, RestTyped, CallsUpTo, Popped, Exception
<1>5. Resumed(n)' = frame'
  BY <1>1 DEF Resumed
<1>6. \A i \in 1 .. n : Resumed(i)'.fn = Resumed(i).fn \/ \A k \in DOMAIN handlers' : handlers'[k].depth # i
  <2> TAKE i \in 1 .. n
  <2>1. i = n \/ i \in 0 .. n - 1
    BY <1>1
  <2> QED
    BY <2>1, <1>3, <1>5
<1>7. HandlersOwned'
  BY <1>1, <1>6, PoppedStayOwned
<1> QED
  BY <1>3, <1>4, <1>7

\* The handlers are in the order of their frames.
LEMMA HandlersSorted ==
  ASSUME ContextInv
  PROVE  /\ handlers \in Seq(Handler) /\ Sorted(handlers) /\ Popped(handlers, handlers)
         /\ \A k \in DOMAIN handlers : handlers[k] \in Handler /\ handlers[k].depth \in Nat /\ handlers[k].depth <= depth
<1>1. handlers \in Seq(Handler) /\ DOMAIN handlers = 1 .. Len(handlers) /\ Len(handlers) \in Nat
  BY LenProperties DEF ContextInv, CallsShapes
<1>2. Sorted(handlers)
  BY DEF Sorted, ContextInv, HandlersOwned
<1>3. \A k \in DOMAIN handlers : handlers[k] \in Handler
  BY <1>1, ElementOfSeq
<1>4. \A k \in DOMAIN handlers : handlers[k].depth \in 1 .. depth
  BY DEF ContextInv, HandlersOwned
<1> QED
  BY <1>1, <1>2, <1>3, <1>4, StackType DEF Popped, ContextInv

\* The running function goes on at another place, or has ended.
LEMMA MoveKeepsContext ==
  ASSUME ContextInv, InWasm, NEW q \in 1 .. End(frame.fn), frame' = [frame EXCEPT !.pc = q],
         depth' = depth, cstack' = cstack \/ cstack' = Raise(cstack),
         handlers' = handlers, RestTyped'
  PROVE  ContextInv'
<1>1. frame.fn \in Wasm /\ depth > 0 /\ frame.ctx = Prog[frame.fn].inst
  BY WhoRuns DEF ContextInv
<1>2. depth \in 0 .. depth /\ CallsUpTo(depth)
  BY <1>1, SameCalls, StackType DEF ContextInv
<1>3. /\ frame' \in Frame /\ frame'.fn = frame.fn /\ frame'.pc = q /\ frame'.ctx = frame.ctx
  <2>1. frame \in Frame /\ q \in Nat
    BY <1>1, BodyPlaces DEF ContextInv, CallsShapes
  <2> QED
    BY <2>1 DEF Frame
<1>4. frame'.fn = Resumed(depth).fn
  BY <1>3 DEF Resumed
<1>5. Popped(handlers', handlers) /\ \A k \in DOMAIN handlers' : handlers'[k].depth <= depth
  BY HandlersSorted
<1> QED
  BY <1>1, <1>2, <1>3, <1>4, <1>5, BackKeepsContext

\* An exception comes to the n-th frame, fr.
LEMMA ThrowKeepsContext ==
  ASSUME ContextInv, NEW n \in 1 .. depth, CallsUpTo(n),
         NEW fr \in Frame, fr.fn \in Wasm, fr.fn = Resumed(n).fn,
         fr.pc \in 1 .. End(fr.fn), fr.ctx = Prog[fr.fn].inst,
         NEW hs, Popped(hs, handlers), \A k \in DOMAIN hs : hs[k].depth <= n,
         NEW h \in Int, NEW exn \in Exception, DoThrow(fr, h, hs, n, exn),
         trapped' = trapped, tail' = tail
  PROVE  /\ ContextInv'
         /\ (\E m \in DOMAIN hs : Caught(hs, fr, n, exn.tag, m)) \/ Uncaught(hs, fr, n, h, exn)
         /\ \A i \in 0 .. n - 1 : Resumed(i)' = Resumed(i)
<1>1. Sorted(hs) /\ hs \in Seq(Handler) /\ n \in Nat /\ n \in 0 .. depth /\ n <= depth
  <2>1. Sorted(hs)
    BY HandlersSorted, PoppedSorted
  <2>2. hs \in Seq(Handler)
    BY DEF Popped
  <2>3. depth \in Nat
    BY StackType DEF ContextInv
  <2> QED
    BY <2>1, <2>2, <2>3
<1>2. (\E m \in DOMAIN hs : Caught(hs, fr, n, exn.tag, m)) \/ Uncaught(hs, fr, n, h, exn)
  BY <1>1, ThrowEffect
<1>3. trapped' \in BOOLEAN /\ tail' \in Func \cup {None}
  BY DEF ContextInv, CallsShapes
<1>4. /\ frame' \in Frame /\ frame'.fn = fr.fn /\ frame'.ctx = fr.ctx /\ frame'.pc \in 1 .. End(fr.fn)
      /\ RestTyped' /\ Popped(handlers', hs)
  <2>1. ASSUME NEW m \in DOMAIN hs, Caught(hs, fr, n, exn.tag, m)
        PROVE  /\ frame' \in Frame /\ frame'.fn = fr.fn /\ frame'.ctx = fr.ctx /\ frame'.pc \in 1 .. End(fr.fn)
               /\ RestTyped' /\ Popped(handlers', hs)
    <3> DEFINE t == hs[m].try
               label == Body(fr.fn)[t].label
    <3>1. m \in DOMAIN handlers /\ hs[m] = handlers[m] /\ hs[m] \in Handler
      BY HandlersSorted DEF Popped
    <3>2. hs[m].depth = n /\ hs[m].fn = fr.fn /\ t \in Tries(fr.fn)
      BY <2>1, <3>1 DEF Caught, ContextInv, HandlersOwned
    <3>3. label \in Constructs(fr.fn) /\ t \in Constructs(fr.fn)
      BY <3>2, CatchLabel
    <3>4. LabelOf(fr.fn, label) \in 1 .. End(fr.fn) /\ End(fr.fn) \in Nat
      BY <3>3, BodyPlaces
    <3>5. t \in Nat \ {0} /\ label \in Nat \ {0}
      BY <3>3, BodyPlaces
    <3>6. Height(fr.fn, t) \in Int /\ Height(fr.fn, label) \in Int
      BY <3>5, HeightStep
    <3>7. /\ sp' = fr.base + hs[m].sp + 1 - (Height(fr.fn, t) - Height(fr.fn, label))
          /\ frame' = [fr EXCEPT !.pc = LabelOf(fr.fn, label)]
          /\ pending' = None /\ Popped(handlers', hs)
      BY <2>1, <3>2 DEF Caught
    <3>8. frame' \in Frame /\ frame'.fn = fr.fn /\ frame'.ctx = fr.ctx /\ frame'.pc = LabelOf(fr.fn, label)
      BY <3>4, <3>7 DEF Frame
    <3>9. sp' \in Int
      BY <3>1, <3>6, <3>7 DEF Frame, Handler
    <3> QED
      BY <1>3, <3>4, <3>7, <3>8, <3>9 DEF RestTyped
  <2>2. ASSUME Uncaught(hs, fr, n, h, exn)
        PROVE  /\ frame' \in Frame /\ frame'.fn = fr.fn /\ frame'.ctx = fr.ctx /\ frame'.pc \in 1 .. End(fr.fn)
               /\ RestTyped' /\ Popped(handlers', hs)
    <3>1. End(fr.fn) \in Nat \ {0}
      BY BodyPlaces
    <3> QED
      BY <2>2, <3>1, <1>3 DEF Uncaught, Frame, RestTyped
  <2> QED
    BY <1>2, <2>1, <2>2
<1>5. Popped(handlers', handlers)
  BY <1>4, PoppedTwice, HandlersSorted
<1>6. \A k \in DOMAIN handlers' : handlers'[k].depth <= n
  BY <1>4 DEF Popped
<1>7. ContextInv' /\ \A i \in 0 .. n - 1 : Resumed(i)' = Resumed(i)
  BY <1>1, <1>4, <1>5, <1>6, BackKeepsContext
<1> QED
  BY <1>2, <1>7

\* The nesting of API calls is a number.
LEMMA LevelType ==
  ASSUME CallsShapes
  PROVE  Level(cstack) \in Nat
<1>1. DOMAIN cstack = 1 .. Len(cstack) /\ Len(cstack) \in Nat
  BY LenProperties DEF CallsShapes
<1>2. IsFiniteSet(DOMAIN cstack)
  BY <1>1, FS_Interval
<1> QED
  BY <1>2, FS_Subset, FS_CardinalityType DEF Level

\* The callee's frame is its own.
LEMMA StartEffect ==
  ASSUME NEW g \in Func, NEW base \in Int, NEW fr \in Frame, trapped \in BOOLEAN,
         NEW lbase \in Nat, Start(g, base, lbase, fr.ctx)
  PROVE  /\ frame' \in Frame /\ frame'.fn = g /\ frame'.pc = 1 /\ frame'.base = base
         /\ frame'.fn \in Wasm => frame'.pc \in 1 .. End(frame'.fn) /\ frame'.ctx = Prog[frame'.fn].inst
         /\ sp' = base /\ tail' = None /\ trapped' = (trapped /\ Prog[g].host) /\ trapped' \in BOOLEAN
<1>1. /\ frame' = [fn |-> g, pc |-> 1, base |-> base, lbase |-> lbase, nloc |-> Prog[g].locals,
                   ctx |-> IF Prog[g].host THEN fr.ctx ELSE Prog[g].inst]
      /\ sp' = base /\ tail' = None /\ trapped' = (trapped /\ Prog[g].host)
  BY DEF Start
<1>2. Prog[g].locals \in Nat /\ Prog[g].host \in BOOLEAN
  BY CallsAssumption
<1>3. (IF Prog[g].host THEN fr.ctx ELSE Prog[g].inst) \in {Prog[f].inst : f \in Func} \cup {None}
  BY DEF Frame
<1>4. frame' \in Frame
  BY <1>1, <1>2, <1>3 DEF Frame
<1>5. g \in Wasm => ~ Prog[g].host /\ End(g) \in Nat \ {0}
  BY BodyPlaces DEF Wasm
<1>6. trapped' \in BOOLEAN
  BY <1>1, <1>2
<1> QED
  BY <1>1, <1>4, <1>5, <1>6

\* A frame that made a call resumes behind the instruction that made it.
Waits(s) ==
  s.fn \in Wasm => /\ s.pc \in 2 .. End(s.fn) /\ s.ctx = Prog[s.fn].inst
                   /\ Body(s.fn)[s.pc - 1].op = "any"

\* A call: the handlers stay, and the caller waits behind it.
LEMMA EnterKeepsContext ==
  ASSUME ContextInv, NEW g \in Func, NEW kind \in {"op", "call", "start"},
         NEW caller \in Frame, NEW base \in Int, Enter(g, kind, caller, base),
         caller.fn = frame.fn, caller.base = frame.base, Waits(caller),
         kind = "op" <=> caller.fn \in Wasm,
         NEW n, n = depth
  PROVE  /\ ContextInv'
         /\ \A i \in 0 .. n - 1 : Resumed(i)' = Resumed(i)
         /\ \A i \in n .. n : Resumed(i)' = caller
         /\ \A i \in 1 .. n : cstack'[i] = cstack[i]
         /\ cstack'[n + 1] = [kind |-> kind, saved |-> caller, outer |-> frame, raised |-> FALSE, owes |-> FALSE]
         /\ frame'.fn = g /\ frame'.pc = 1 /\ frame'.base = base /\ sp' = base
         /\ tail' = None /\ trapped' = (trapped /\ Prog[g].host)
<1> DEFINE a == [kind |-> kind, saved |-> caller, outer |-> frame, raised |-> FALSE, owes |-> FALSE]
<1>1. /\ depth < MaxDepth /\ cstack' = Append(cstack, a) /\ depth' = depth + 1
      /\ Start(g, base, caller.lbase + caller.nloc, caller.ctx)
      /\ handlers' = handlers /\ pending' = pending
  BY DEF Enter
<1>2. frame \in Frame /\ trapped \in BOOLEAN /\ pending \in Exception \cup {None}
  BY DEF ContextInv, CallsShapes, Exception
<1>3. caller.lbase + caller.nloc \in Nat
  BY DEF Frame
<1>4. /\ frame' \in Frame /\ frame'.fn = g /\ frame'.pc = 1 /\ frame'.base = base
      /\ frame'.fn \in Wasm => frame'.pc \in 1 .. End(frame'.fn) /\ frame'.ctx = Prog[frame'.fn].inst
      /\ sp' = base /\ tail' = None /\ trapped' = (trapped /\ Prog[g].host) /\ trapped' \in BOOLEAN
  BY <1>1, <1>2, <1>3, StartEffect
<1>5. /\ a \in Activation /\ a.saved = caller /\ a.outer = frame /\ a.kind = kind
  BY <1>2 DEF Activation
<1> HIDE DEF a
<1>6. /\ FramesNest' /\ cstack' \in Seq(Activation) /\ depth' = Len(cstack')
      /\ \A i \in 0 .. n : Resumed(i)' = IF i = n THEN a.saved ELSE Resumed(i)
      /\ \A i \in 1 .. n + 1 : cstack'[i] = IF i = n + 1 THEN a ELSE cstack[i]
  BY <1>1, <1>4, <1>5, PushKeepsFrames DEF ContextInv, Waits
<1>7. n \in Nat /\ MaxDepth \in Nat
  BY StackType DEF ContextInv
<1>8. CallsShapes'
  BY <1>1, <1>2, <1>4, <1>6, <1>7 DEF ContextInv, CallsShapes, Exception
<1>9. HandlersOwned'
  <2>1. \A k \in DOMAIN handlers : handlers[k].depth \in 1 .. n /\ handlers[k].try \in Tries(handlers[k].fn)
    BY DEF ContextInv, HandlersOwned
  <2>2. \A k \in DOMAIN handlers : handlers[k].depth \in 1 .. n + 1
    BY <2>1, <1>7
  <2>3. ASSUME NEW i \in 1 .. n + 1, NEW k \in DOMAIN handlers, handlers[k].depth = i
        PROVE  handlers[k].fn = Resumed(i)'.fn
    <3>1. i \in 1 .. n /\ i \in 0 .. n
      BY <2>1, <2>3, <1>7
    <3>2. Resumed(i)'.fn = Resumed(i).fn
      BY <3>1, <1>5, <1>6, <1>7 DEF Resumed
    <3> QED
      BY <3>1, <3>2, <2>3 DEF ContextInv, HandlersOwned
  <2> QED
    BY <2>1, <2>2, <2>3, <1>1 DEF ContextInv, HandlersOwned
<1>10. \A i \in 1 .. n : cstack'[i] = cstack[i]
  BY <1>6, <1>7
<1>11. cstack'[n + 1] = a
  BY <1>6, <1>7
<1>12. /\ \A i \in 0 .. n - 1 : Resumed(i)' = Resumed(i)
       /\ \A i \in n .. n : Resumed(i)' = caller
  BY <1>5, <1>6, <1>7
<1>13. cstack'[n + 1] = [kind |-> kind, saved |-> caller, outer |-> frame, raised |-> FALSE, owes |-> FALSE]
  BY <1>11 DEF a
<1> QED
  BY <1>4, <1>6, <1>8, <1>9, <1>10, <1>12, <1>13 DEF ContextInv

\* A refused call ends the guest function that made it, or is the outcome of an
\* API call.
LEMMA RefuseKeepsContext ==
  ASSUME ContextInv, NEW g \in Func, NEW kind \in {"op", "call", "start"},
         NEW caller \in Frame, NEW base \in Int, Refuse(g, kind, caller, base),
         caller.fn = frame.fn, Waits(caller),
         kind = "op" <=> caller.fn \in Wasm
  PROVE  ContextInv'
<1>1. /\ trapped' = TRUE /\ sp' = base /\ handlers' = handlers /\ depth' = depth /\ tail' = tail /\ pending' = pending
      /\ kind = "op" => frame' = [caller EXCEPT !.pc = End(caller.fn)] /\ cstack' = Raise(cstack)
      /\ kind # "op" => (frame' = frame \/ frame' = caller) /\ cstack' = Owe(cstack)
  BY DEF Refuse
<1>2. RestTyped' /\ frame \in Frame
  BY <1>1 DEF ContextInv, CallsShapes, RestTyped, Exception
<1>3. depth \in 0 .. depth /\ Resumed(depth).fn = frame.fn
  BY StackType DEF ContextInv, Resumed
<1>4. frame.fn \in Wasm => depth > 0
  BY WhoRuns DEF ContextInv
<1>5. CallsUpTo(depth)
  BY <1>1, <1>4, SameCalls DEF ContextInv
<1>6. frame' \in Frame /\ frame'.fn = frame.fn
  <2>1. kind = "op" => End(caller.fn) \in Nat
    BY BodyPlaces
  <2> QED
    BY <2>1, <1>1, <1>2 DEF Frame
<1>7. frame'.fn \in Wasm => frame'.pc \in 1 .. End(frame'.fn) /\ frame'.ctx = Prog[frame'.fn].inst
  <2>1. ASSUME frame'.fn \in Wasm
        PROVE  frame'.pc \in 1 .. End(frame'.fn) /\ frame'.ctx = Prog[frame'.fn].inst
    <3>1. kind = "op" /\ frame' = [caller EXCEPT !.pc = End(caller.fn)]
      BY <2>1, <1>1, <1>6
    <3>2. End(caller.fn) \in Nat \ {0} /\ caller.ctx = Prog[caller.fn].inst
      BY <2>1, <1>6, BodyPlaces DEF Waits
    <3> QED
      BY <3>1, <3>2 DEF Frame
  <2> QED
    BY <2>1
<1>8. Popped(handlers', handlers) /\ \A k \in DOMAIN handlers' : handlers'[k].depth <= depth
  BY <1>1, HandlersSorted
<1> QED
  BY <1>2, <1>3, <1>5, <1>6, <1>7, <1>8, BackKeepsContext

\* The innermost activation is over: what it called from goes on.
LEMMA FinishKeepsContext ==
  ASSUME ContextInv, depth > 0, NEW st, Finish(st), tail' = tail,
         NEW n, n = depth - 1, NEW a, a = cstack[depth], NEW hs, hs = BelowDepth(handlers, depth)
  PROVE  /\ ContextInv' /\ CallsUpTo(n)
         /\ \A i \in 0 .. n - 1 : Resumed(i)' = Resumed(i)
         /\ n \in Nat /\ depth' = n /\ a.saved = Resumed(n) /\ a.saved \in Frame /\ a \in Activation
         /\ Popped(hs, handlers) /\ \A k \in DOMAIN hs : hs[k].depth <= n
         /\ \A k \in DOMAIN handlers : handlers[k].depth <= n => k \in DOMAIN hs
         /\ pending # None /\ a.kind = "op" =>
              \/ \E m \in DOMAIN hs : Caught(hs, a.saved, n, pending.tag, m)
              \/ Uncaught(hs, a.saved, n, frame.base, pending)
<1> DEFINE cs == Keep(cstack, Len(cstack) - 1)
<1>1. /\ depth' = depth - 1 /\ depth = Len(cstack) /\ depth \in Nat /\ n \in Nat /\ n \in 0 .. depth
      /\ depth \in 1 .. depth /\ n < depth /\ n = Len(cstack) - 1
  BY StackType DEF ContextInv, CallsShapes, Finish
<1>2. a \in Activation /\ a.saved \in Frame /\ a.outer \in Frame /\ DOMAIN cstack = 1 .. depth
  BY <1>1, StackType DEF ContextInv
<1>3. a.saved = Resumed(n)
  BY <1>1 DEF Resumed
<1>4. /\ a.saved.fn \in Wasm => a.saved.pc \in 1 .. End(a.saved.fn) /\ a.saved.ctx = Prog[a.saved.fn].inst
      /\ a.saved.fn = None <=> n = 0
  BY <1>1, <1>3 DEF ContextInv, FramesNest
<1>5. /\ a.outer.fn = a.saved.fn
      /\ a.kind = "op" <=> a.saved.fn \in Wasm
  BY <1>1, <1>2 DEF ContextInv, FramesNest
<1>6. a.kind = "op" => n > 0
  BY <1>1, <1>4, <1>5, CallsAssumption DEF Wasm
<1>7. /\ Popped(hs, handlers) /\ \A k \in DOMAIN hs : hs[k].depth < depth
      /\ \A k \in DOMAIN handlers : handlers[k].depth < depth => k \in DOMAIN hs
  BY <1>1, HandlersSorted, BelowEffect
<1>8. \A k \in DOMAIN handlers : handlers[k].depth \in Nat
  BY HandlersSorted
<1>9. /\ \A k \in DOMAIN hs : hs[k].depth <= n
      /\ \A k \in DOMAIN handlers : handlers[k].depth <= n => k \in DOMAIN hs
  <2>1. \A x \in Nat : x < depth <=> x <= n
    BY <1>1
  <2>2. \A k \in DOMAIN hs : hs[k].depth \in Nat
    BY <1>7, <1>8 DEF Popped
  <2>3. \A k \in DOMAIN hs : hs[k].depth <= n
    BY <2>1, <2>2, <1>7
  <2>4. ASSUME NEW k \in DOMAIN handlers, handlers[k].depth <= n
        PROVE  k \in DOMAIN hs
    BY <2>1, <2>4, <1>7, <1>8
  <2> QED
    BY <2>3, <2>4
<1>10. CallsUpTo(n)
  <2>1. cstack' = cs \/ cstack' = Owe(cs) \/ (a.kind = "op" /\ cstack' = Raise(cs))
    BY <1>1 DEF Finish
  <2>2. cs = Keep(cstack, n)
    BY <1>1
  <2> HIDE DEF cs
  <2> QED
    BY <2>1, <2>2, <1>1, <1>6, KeptCalls DEF ContextInv
<1>11. /\ frame \in Frame /\ frame.base \in Int /\ frame.fn \in Func /\ Arity(frame.fn) \in Nat
       /\ pending \in Exception \cup {None} /\ trapped \in BOOLEAN
  <2>1. frame \in Frame /\ pending \in Exception \cup {None} /\ trapped \in BOOLEAN
    BY DEF ContextInv, CallsShapes, Exception
  <2>2. frame.fn # None
    BY WhoRuns DEF ContextInv
  <2> QED
    BY <2>1, <2>2, CallsAssumption DEF Frame, Arity
<1> DEFINE Goal == /\ ContextInv' /\ \A i \in 0 .. n - 1 : Resumed(i)' = Resumed(i)
<1>12. CASE pending # None /\ a.kind = "op"
  <2>1. DoThrow(a.saved, frame.base, hs, n, pending) /\ trapped' = trapped
    BY <1>1, <1>12 DEF Finish
  <2>2. n \in 1 .. depth /\ pending \in Exception /\ a.saved.fn \in Wasm
    BY <1>1, <1>5, <1>6, <1>11, <1>12
  <2>3. /\ ContextInv'
        /\ (\E m \in DOMAIN hs : Caught(hs, a.saved, n, pending.tag, m)) \/ Uncaught(hs, a.saved, n, frame.base, pending)
        /\ \A i \in 0 .. n - 1 : Resumed(i)' = Resumed(i)
    BY <2>1, <2>2, <1>2, <1>3, <1>4, <1>7, <1>9, <1>10, <1>11, ThrowKeepsContext
  <2> QED
    BY <2>3, <1>1, <1>2, <1>3, <1>7, <1>9, <1>10
<1>13. CASE ~ (pending # None /\ a.kind = "op")
  <2>1. /\ handlers' = hs /\ tail' = tail
        /\ sp' = frame.base \/ sp' = frame.base + Arity(frame.fn)
        /\ trapped' = trapped \/ trapped' = TRUE
        /\ pending' = pending \/ pending' = None
        /\ IF a.kind = "op"
           THEN frame' = a.saved \/ frame' = [a.saved EXCEPT !.pc = End(a.saved.fn)]
           ELSE frame' = a.saved \/ frame' = a.outer
    BY <1>1, <1>13 DEF Finish, AfterApi, Unreported
  <2>2. RestTyped'
    <3>1. sp' \in Int
      BY <2>1, <1>11
    <3>2. trapped' \in BOOLEAN
      BY <2>1, <1>11
    <3>3. tail' \in Func \cup {None}
      BY DEF ContextInv, CallsShapes
    <3>4. pending' \in Exception \cup {None}
      BY <2>1, <1>11
    <3> QED
      BY <3>1, <3>2, <3>3, <3>4 DEF RestTyped
  <2>3. a.saved.fn \in Wasm => End(a.saved.fn) \in Nat \ {0}
    BY BodyPlaces
  <2>4. frame' \in Frame /\ frame'.fn = a.saved.fn
    BY <2>1, <2>3, <1>2, <1>5 DEF Frame
  <2>5. frame'.fn \in Wasm => frame'.pc \in 1 .. End(frame'.fn) /\ frame'.ctx = Prog[frame'.fn].inst
    <3>1. ASSUME frame'.fn \in Wasm
          PROVE  frame'.pc \in 1 .. End(frame'.fn) /\ frame'.ctx = Prog[frame'.fn].inst
      <4>1. a.saved.fn \in Wasm /\ (frame' = a.saved \/ frame' = [a.saved EXCEPT !.pc = End(a.saved.fn)])
        BY <3>1, <2>1, <2>4, <1>5
      <4>2. /\ a.saved.pc \in 1 .. End(a.saved.fn) /\ a.saved.ctx = Prog[a.saved.fn].inst
            /\ End(a.saved.fn) \in 1 .. End(a.saved.fn)
        BY <4>1, <2>3, <1>4
      <4>3. frame'.pc \in 1 .. End(a.saved.fn) /\ frame'.ctx = a.saved.ctx
        BY <4>1, <4>2, <1>2 DEF Frame
      <4> QED
        BY <4>2, <4>3, <2>4
    <3> QED
      BY <3>1
  <2>6. Popped(handlers', handlers) /\ \A k \in DOMAIN handlers' : handlers'[k].depth <= n
    BY <2>1, <1>7, <1>9
  <2>7. frame'.fn = Resumed(n).fn
    BY <2>4, <1>3
  <2>8. ContextInv' /\ \A i \in 0 .. n - 1 : Resumed(i)' = Resumed(i)
    BY <2>2, <2>4, <2>5, <2>6, <2>7, <1>1, <1>10, BackKeepsContext
  <2> QED
    BY <2>8, <1>1, <1>2, <1>3, <1>7, <1>9, <1>10, <1>13
<1> QED
  BY <1>12, <1>13

\* A run ends: its function is replaced by its tail call, or the activation is over.
LEMMA RunEndsKeepsContext ==
  ASSUME ContextInv, depth > 0, NEW st, RunEnds(st)
  PROVE  ContextInv'
<1>1. /\ depth \in Nat /\ depth \in 0 .. depth
      /\ frame \in Frame /\ trapped \in BOOLEAN /\ tail \in Func \cup {None}
      /\ pending \in Exception \cup {None}
  BY StackType DEF ContextInv, CallsShapes, Exception
<1>2. CASE Finish(st) /\ tail' = tail
  BY <1>2, FinishKeepsContext
<1>3. CASE Finish("trap") /\ tail' = tail
  BY <1>3, FinishKeepsContext
<1>4. CASE /\ tail # None /\ handlers' = BelowDepth(handlers, depth)
           /\ Start(tail, frame.base, frame.lbase, frame.ctx)
           /\ cstack' = cstack /\ depth' = depth /\ pending' = pending
  <2>1. tail \in Func /\ frame.base \in Int /\ frame.lbase \in Nat
    BY <1>1, <1>4 DEF Frame
  <2>2. /\ frame' \in Frame /\ frame'.fn = tail
        /\ frame'.fn \in Wasm => frame'.pc \in 1 .. End(frame'.fn) /\ frame'.ctx = Prog[frame'.fn].inst
        /\ sp' = frame.base /\ tail' = None /\ trapped' \in BOOLEAN
    BY <1>1, <1>4, <2>1, StartEffect
  <2>3. CallsUpTo(depth)
    BY <1>4, SameCalls DEF ContextInv
  <2>4. Popped(handlers', handlers) /\ \A k \in DOMAIN handlers' : handlers'[k].depth < depth
    BY <1>1, <1>4, HandlersSorted, BelowEffect
  <2>5. \A k \in DOMAIN handlers' : handlers'[k].depth <= depth /\ handlers'[k].depth # depth
    BY <2>4, <1>1, HandlersSorted DEF Popped
  <2>6. RestTyped'
    BY <1>1, <1>4, <2>1, <2>2 DEF RestTyped
  <2> QED
    BY <1>1, <2>1, <2>2, <2>3, <2>4, <2>5, <2>6, BackKeepsContext
<1> QED
  BY <1>2, <1>3, <1>4 DEF RunEnds

\* A try_table pushes a handler of its own frame.
LEMMA TryTableKeepsContext ==
  ASSUME ContextInv, TryTable
  PROVE  ContextInv'
<1>1. /\ InWasm /\ frame.pc < End(frame.fn) /\ Instr.op = "try" /\ frame' = [frame EXCEPT !.pc = @ + 1]
      /\ sp' = sp /\ cstack' = cstack /\ depth' = depth /\ trapped' = trapped /\ tail' = tail /\ pending' = pending
  BY DEF TryTable, Next1
<1> DEFINE f == frame.fn
           hs == Prune(handlers, depth, frame.pc + 1)
           h  == [depth |-> depth, fn |-> f, try |-> frame.pc, sp |-> sp - frame.base - 1]
<1>2. handlers' = Append(hs, h)
  BY DEF TryTable
<1>3. f \in Wasm /\ depth > 0 /\ depth \in Nat /\ frame.pc \in 1 .. End(f) /\ frame.ctx = Prog[f].inst
      /\ frame \in Frame /\ sp \in Int
  BY <1>1, WhoRuns, StackType DEF ContextInv, CallsShapes
<1>4. End(f) \in Nat /\ DOMAIN Body(f) = 1 .. Len(Body(f)) /\ Len(Body(f)) \in Nat
  BY <1>3, BodyPlaces
<1>5. frame.pc \in Tries(f) /\ frame.pc + 1 \in 1 .. End(f) /\ frame.pc \in Nat
  BY <1>1, <1>3, <1>4 DEF Tries, Constructs, Instr, End
<1>6. Popped(hs, handlers)
  BY <1>3, <1>5, HandlersSorted, PruneEffect
<1> HIDE DEF hs
<1>7. h \in Handler
  BY <1>3, <1>5 DEF Handler, Frame
<1>8. /\ handlers' \in Seq(Handler) /\ Len(handlers') = Len(hs) + 1 /\ DOMAIN handlers' = 1 .. Len(hs) + 1
      /\ \A k \in 1 .. Len(hs) : handlers'[k] = hs[k]
      /\ handlers'[Len(hs) + 1] = h /\ Len(hs) \in Nat /\ DOMAIN hs = 1 .. Len(hs)
  <2>1. hs \in Seq(Handler) /\ DOMAIN hs = 1 .. Len(hs)
    BY <1>6 DEF Popped
  <2> QED
    BY <2>1, <1>2, <1>7, AppendProperties, LenProperties
<1> HIDE DEF h
<1>9. /\ \A k \in DOMAIN handlers' : handlers'[k] = h \/ (k \in DOMAIN handlers /\ handlers'[k] = handlers[k])
      /\ \A j, k \in DOMAIN handlers' : j < k =>
           /\ handlers'[k] = h \/ (k \in DOMAIN handlers /\ handlers'[k] = handlers[k])
           /\ j \in DOMAIN handlers /\ handlers'[j] = handlers[j]
  BY <1>6, <1>8 DEF Popped
<1>10. h.depth = depth /\ h.fn = f /\ h.try = frame.pc
  BY DEF h
<1>11. frame' \in Frame /\ frame'.fn = f /\ frame'.pc \in 1 .. End(f) /\ frame'.ctx = frame.ctx
  BY <1>1, <1>3, <1>5 DEF Frame
<1>12. depth \in 0 .. depth /\ CallsUpTo(depth)
  BY <1>1, <1>3, SameCalls DEF ContextInv
<1>13. Resumed(depth).fn = f /\ Resumed(depth) = frame
  BY DEF Resumed
<1>14. frame'.fn = None <=> depth = 0
  BY <1>3, <1>11, BodyPlaces
<1>15. FramesNest' /\ \A i \in 0 .. depth - 1 : Resumed(i)' = Resumed(i)
  BY <1>3, <1>11, <1>12, <1>14, BackKeepsFrames DEF ContextInv
<1>16. CallsShapes'
  BY <1>1, <1>8, <1>11, <1>12 DEF ContextInv, CallsShapes, CallsUpTo
<1>17. \A i \in 1 .. depth : Resumed(i)'.fn = Resumed(i).fn
  <2> TAKE i \in 1 .. depth
  <2>1. i = depth \/ i \in 0 .. depth - 1
    BY <1>3
  <2>2. i = depth => Resumed(i)' = frame'
    BY <1>1 DEF Resumed
  <2> QED
    BY <2>1, <2>2, <1>11, <1>13, <1>15
<1>18. \A k \in DOMAIN handlers : /\ handlers[k].depth \in 1 .. depth /\ handlers[k].try \in Tries(handlers[k].fn)
                                  /\ handlers[k].fn = Resumed(handlers[k].depth).fn
  BY DEF ContextInv, HandlersOwned
<1>19. HandlersOwned'
  <2>1. \A j, k \in DOMAIN handlers' : j < k => handlers'[j].depth <= handlers'[k].depth
    BY <1>3, <1>9, <1>10, <1>18 DEF ContextInv, HandlersOwned
  <2>2. \A k \in DOMAIN handlers' : handlers'[k].depth \in 1 .. depth /\ handlers'[k].try \in Tries(handlers'[k].fn)
    BY <1>3, <1>5, <1>9, <1>10, <1>18
  <2>3. ASSUME NEW i \in 1 .. depth, NEW k \in DOMAIN handlers', handlers'[k].depth = i
        PROVE  handlers'[k].fn = Resumed(i)'.fn
    BY <2>3, <1>9, <1>10, <1>13, <1>17, <1>18
  <2> QED
    BY <2>1, <2>2, <2>3, <1>1 DEF HandlersOwned
<1> QED
  BY <1>15, <1>16, <1>19 DEF ContextInv

\* The frame an instruction calls from, and the one an API call does.
LEMMA Callers ==
  ASSUME ContextInv
  PROVE  /\ AtAny => /\ Next1 \in Frame /\ Next1.fn = frame.fn /\ Next1.base = frame.base /\ Next1.fn \in Wasm
                     /\ Next1.pc = frame.pc + 1 /\ Next1.pc \in 2 .. End(Next1.fn) /\ Next1.ctx = Prog[Next1.fn].inst
                     /\ Waits(Next1)
         /\ \A g \in Func : InHost => /\ EntryFrame(g) \in Frame /\ EntryFrame(g).fn = frame.fn
                                      /\ EntryFrame(g).base = frame.base /\ EntryFrame(g).fn \notin Wasm
                                      /\ Waits(EntryFrame(g))
<1>1. frame \in Frame
  BY DEF ContextInv, CallsShapes
<1>2. ASSUME AtAny
      PROVE  /\ Next1 \in Frame /\ Next1.fn = frame.fn /\ Next1.base = frame.base /\ Next1.fn \in Wasm
             /\ Next1.pc = frame.pc + 1 /\ Next1.pc \in 2 .. End(Next1.fn) /\ Next1.ctx = Prog[Next1.fn].inst
             /\ Waits(Next1)
  <2>1. InWasm /\ frame.pc < End(frame.fn) /\ Body(frame.fn)[frame.pc].op = "any"
    BY <1>2 DEF AtAny, Instr
  <2>2. frame.fn \in Wasm /\ frame.pc \in 1 .. End(frame.fn) /\ frame.ctx = Prog[frame.fn].inst /\ frame.pc \in Nat
    BY <2>1, <1>1, WhoRuns DEF ContextInv, Frame
  <2>3. End(frame.fn) \in Nat
    BY <2>2, BodyPlaces
  <2>4. Next1 \in Frame /\ Next1.fn = frame.fn /\ Next1.base = frame.base /\ Next1.pc = frame.pc + 1 /\ Next1.ctx = frame.ctx
    BY <1>1, <2>2 DEF Next1, Frame
  <2>5. Next1.pc - 1 = frame.pc /\ Next1.pc \in 2 .. End(frame.fn)
    BY <2>1, <2>2, <2>3, <2>4
  <2>6. Waits(Next1)
    BY <2>1, <2>2, <2>4, <2>5 DEF Waits
  <2> QED
    BY <2>2, <2>4, <2>5, <2>6
<1>3. ASSUME NEW g \in Func, InHost
      PROVE  /\ EntryFrame(g) \in Frame /\ EntryFrame(g).fn = frame.fn
             /\ EntryFrame(g).base = frame.base /\ EntryFrame(g).fn \notin Wasm
             /\ Waits(EntryFrame(g))
  <2>1. frame.fn \notin Wasm
    BY <1>3, WhoRuns DEF ContextInv, InWasm
  <2>2. (IF Prog[g].host THEN frame.ctx ELSE Prog[g].inst) \in {Prog[f].inst : f \in Func} \cup {None}
    BY <1>1 DEF Frame
  <2> QED
    BY <1>1, <2>1, <2>2 DEF EntryFrame, Frame, Waits
<1> QED
  BY <1>2, <1>3

\* Nothing runs.
LEMMA InitContext ==
  ASSUME Init
  PROVE  ContextInv
<1>1. /\ frame = RootFrame /\ sp = 0 /\ cstack = << >> /\ handlers = << >>
      /\ depth = 0 /\ trapped = FALSE /\ tail = None /\ pending = None
  BY DEF Init
<1>2. DOMAIN cstack = {} /\ DOMAIN handlers = {} /\ Len(cstack) = 0 /\ cstack \in Seq(Activation) /\ handlers \in Seq(Handler)
  BY <1>1, EmptySeq
<1>3. RootFrame \in Frame
  BY DEF RootFrame, Frame
<1>4. CallsShapes
  <2>1. depth = Len(cstack) /\ depth <= MaxDepth /\ sp \in Int
    BY <1>1, <1>2, CallsAssumption
  <2>2. trapped \in BOOLEAN /\ tail \in Func \cup {None} /\ pending \in [tag : Tag, level : Nat] \cup {None}
    BY <1>1
  <2> QED
    BY <1>1, <1>2, <1>3, <2>1, <2>2 DEF CallsShapes
<1>5. \A i \in 0 .. depth : i = 0 /\ Resumed(i) = frame
  BY <1>1 DEF Resumed
<1>6. frame.fn = None /\ frame.fn \notin Wasm
  BY <1>1, CallsAssumption DEF RootFrame, Wasm
<1> QED
  BY <1>1, <1>2, <1>4, <1>5, <1>6 DEF ContextInv, FramesNest, HandlersOwned

\* An instruction, but for throw and try_table, moves in the frame.
LEMMA Moves ==
  ASSUME ContextInv,
         \/ Plain \/ Return \/ Trap \/ (\E g \in Func : TailCall(g))
         \/ InWasm /\ \E c \in Constructs(frame.fn) : Br(c)
  PROVE  /\ InWasm /\ frame.pc < End(frame.fn) /\ frame.fn \in Wasm
         /\ \E q \in 1 .. End(frame.fn) : frame' = [frame EXCEPT !.pc = q]
         /\ depth' = depth /\ (cstack' = cstack \/ cstack' = Raise(cstack)) /\ handlers' = handlers /\ pending' = pending
         /\ RestTyped'
<1>1. /\ frame \in Frame /\ sp \in Int /\ trapped \in BOOLEAN /\ tail \in Func \cup {None}
      /\ pending \in Exception \cup {None}
  BY DEF ContextInv, CallsShapes, Exception
<1>2. /\ InWasm /\ frame.pc < End(frame.fn)
      /\ depth' = depth /\ (cstack' = cstack \/ cstack' = Raise(cstack)) /\ handlers' = handlers /\ pending' = pending
      /\ trapped' = trapped \/ trapped' = TRUE
      /\ tail' = tail \/ tail' \in Func
  BY DEF Plain, Return, Trap, TailCall, Br, AtAny
<1>3. frame.fn \in Wasm /\ frame.pc \in 1 .. End(frame.fn) /\ End(frame.fn) \in Nat \ {0}
  BY <1>2, WhoRuns, BodyPlaces DEF ContextInv
<1>7. sp' \in Int => RestTyped'
  <2>1. trapped' \in BOOLEAN
    BY <1>1, <1>2
  <2>2. tail' \in Func \cup {None}
    BY <1>1, <1>2
  <2>3. pending' \in Exception \cup {None}
    BY <1>1, <1>2
  <2> QED
    BY <2>1, <2>2, <2>3 DEF RestTyped
<1>4. CASE Plain
  <2>1. frame' = [frame EXCEPT !.pc = frame.pc + 1] /\ sp' \in Int
    BY <1>1, <1>4 DEF Plain, Next1
  <2>2. frame.pc + 1 \in 1 .. End(frame.fn)
    BY <1>2, <1>3
  <2>3. RestTyped'
    BY <1>1, <1>7, <2>1
  <2> QED
    BY <1>2, <1>3, <2>1, <2>2, <2>3
<1>5. CASE Return \/ Trap \/ \E g \in Func : TailCall(g)
  <2>1. frame' = [frame EXCEPT !.pc = End(frame.fn)] /\ sp' = sp
    BY <1>5 DEF Return, Trap, TailCall
  <2>2. End(frame.fn) \in 1 .. End(frame.fn)
    BY <1>3
  <2>3. RestTyped'
    BY <1>1, <1>7, <2>1
  <2> QED
    BY <1>2, <1>3, <2>1, <2>2, <2>3
<1>6. CASE \E c \in Constructs(frame.fn) : Br(c)
  <2>1. PICK c \in Constructs(frame.fn) : Br(c)
    BY <1>6
  <2>2. /\ frame' = [frame EXCEPT !.pc = LabelOf(frame.fn, c)]
        /\ sp' = sp - (Height(frame.fn, frame.pc) - Height(frame.fn, c))
    BY <2>1 DEF Br
  <2>3. LabelOf(frame.fn, c) \in 1 .. End(frame.fn) /\ c \in Nat \ {0}
    BY <1>3, BodyPlaces
  <2>4. frame.pc \in Nat \ {0}
    BY <1>3
  <2>5. Height(frame.fn, frame.pc) \in Int /\ Height(frame.fn, c) \in Int
    BY <2>3, <2>4, HeightStep
  <2>6. RestTyped'
    BY <1>1, <1>7, <2>2, <2>5
  <2> QED
    BY <1>2, <1>3, <2>2, <2>3, <2>6
<1> QED
  BY <1>4, <1>5, <1>6

\* throw, in the frame that moves on to the next instruction.
LEMMA ThrowInFrame ==
  ASSUME ContextInv, NEW t \in Tag, Throw(t), NEW n, n = depth, NEW hs, hs = handlers, NEW fr, fr = Next1
  PROVE  /\ ContextInv' /\ InWasm /\ frame.pc < End(frame.fn) /\ n \in 1 .. n /\ fr \in Frame
         /\ LET exn == [tag |-> t, level |-> Level(cstack)] IN
            (\E m \in DOMAIN hs : Caught(hs, fr, n, exn.tag, m)) \/ Uncaught(hs, fr, n, sp - 1, exn)
         /\ \A i \in 0 .. n - 1 : Resumed(i)' = Resumed(i)
         /\ CallsUpTo(n)
<1> DEFINE exn == [tag |-> t, level |-> Level(cstack)]
<1>1. /\ AtAny /\ DoThrow(Next1, sp - 1, handlers, depth, exn)
      /\ cstack' = cstack /\ depth' = depth /\ trapped' = trapped /\ tail' = tail
  BY DEF Throw
<1>2. depth \in 1 .. depth /\ depth \in Nat /\ sp - 1 \in Int
  BY <1>1, WhoRuns, StackType DEF ContextInv, AtAny, CallsShapes
<1>3. /\ Next1 \in Frame /\ Next1.fn = frame.fn /\ Next1.fn \in Wasm
      /\ Next1.pc \in 1 .. End(Next1.fn) /\ Next1.ctx = Prog[Next1.fn].inst
  <2>1. /\ Next1 \in Frame /\ Next1.fn = frame.fn /\ Next1.fn \in Wasm
        /\ Next1.pc \in 2 .. End(Next1.fn) /\ Next1.ctx = Prog[Next1.fn].inst
    BY <1>1, Callers
  <2>2. End(Next1.fn) \in Nat
    BY <2>1, BodyPlaces
  <2> QED
    BY <2>1, <2>2
<1>4. CallsUpTo(depth)
  BY <1>1, SameCalls DEF ContextInv
<1>5. exn \in Exception
  BY LevelType DEF Exception, ContextInv
<1>6. Popped(handlers, handlers) /\ \A k \in DOMAIN handlers : handlers[k].depth <= depth
  BY HandlersSorted
<1>7. Next1.fn = Resumed(depth).fn
  BY <1>3 DEF Resumed
<1> HIDE DEF exn
<1>8. /\ ContextInv'
      /\ (\E m \in DOMAIN hs : Caught(hs, fr, n, exn.tag, m)) \/ Uncaught(hs, fr, n, sp - 1, exn)
      /\ \A i \in 0 .. n - 1 : Resumed(i)' = Resumed(i)
  BY <1>1, <1>2, <1>3, <1>4, <1>5, <1>6, <1>7, ThrowKeepsContext
<1> QED
  BY <1>1, <1>2, <1>3, <1>4, <1>8 DEF AtAny, exn

\* Every step keeps frames in their context.
LEMMA ContextStep ==
  ASSUME ContextInv, [Next]_vars
  PROVE  ContextInv'
<1>1. CASE UNCHANGED vars
  BY <1>1 DEF vars, ContextInv, CallsShapes, FramesNest, HandlersOwned, Resumed
<1>2. ASSUME NEW g \in Func, Call(g)
      PROVE  ContextInv'
  <2>1. AtAny /\ CallFn(g, "op", Next1, sp - Arity(g))
    BY <1>2 DEF Call
  <2>2. sp - Arity(g) \in Int
    BY CallsAssumption DEF Arity, ContextInv, CallsShapes
  <2>3. /\ Next1 \in Frame /\ Next1.fn = frame.fn /\ Next1.base = frame.base /\ Next1.fn \in Wasm
        /\ Waits(Next1)
    BY <2>1, Callers
  <2>4. CASE Enter(g, "op", Next1, sp - Arity(g))
    BY <2>2, <2>3, <2>4, EnterKeepsContext
  <2>5. CASE Refuse(g, "op", Next1, sp - Arity(g))
    BY <2>2, <2>3, <2>5, RefuseKeepsContext
  <2> QED
    BY <2>1, <2>4, <2>5 DEF CallFn
<1>3. ASSUME NEW g \in Func, NEW kind \in {"call", "start"}, InHost, CallFn(g, kind, EntryFrame(g), frame.base)
      PROVE  ContextInv'
  <2>1. frame.base \in Int
    BY DEF ContextInv, CallsShapes, Frame
  <2>2. /\ EntryFrame(g) \in Frame /\ EntryFrame(g).fn = frame.fn
        /\ EntryFrame(g).base = frame.base /\ EntryFrame(g).fn \notin Wasm
        /\ Waits(EntryFrame(g))
    BY <1>3, Callers
  <2>3. CASE Enter(g, kind, EntryFrame(g), frame.base)
    BY <2>1, <2>2, <2>3, EnterKeepsContext
  <2>4. CASE Refuse(g, kind, EntryFrame(g), frame.base)
    BY <2>1, <2>2, <2>4, RefuseKeepsContext
  <2> QED
    BY <1>3, <2>3, <2>4 DEF CallFn
<1>4. CASE \/ Plain \/ Return \/ Trap \/ (\E g \in Func : TailCall(g))
           \/ InWasm /\ \E c \in Constructs(frame.fn) : Br(c)
  BY <1>4, Moves, MoveKeepsContext
<1>5. CASE TryTable
  BY <1>5, TryTableKeepsContext
<1>6. ASSUME NEW t \in Tag, Throw(t)
      PROVE  ContextInv'
  BY <1>6, ThrowInFrame
<1>7. CASE WasmEnds \/ HostReturns \/ HostTraps
  <2>1. depth > 0 /\ \E st : RunEnds(st)
    BY <1>7, WhoRuns, StackType DEF WasmEnds, HostReturns, HostTraps, ContextInv
  <2> QED
    BY <2>1, RunEndsKeepsContext
<1> QED
  BY <1>1, <1>2, <1>3, <1>4, <1>5, <1>6, <1>7 DEF Next, ApiCall, ApiStart

\* However calls nest, return, trap, throw and re-enter, a suspended frame keeps its
\* context and its handlers.
THEOREM ContextCorrect == Spec => []ContextInv
<1>1. Init => ContextInv
  BY InitContext
<1>2. ContextInv /\ [Next]_vars => ContextInv'
  BY ContextStep
<1> QED
  BY <1>1, <1>2, PTL DEF Spec

\* Every function on the stack keeps the context of its own instance.
THEOREM ContextIsKept == Spec => []ContextIsOwn
<1>1. ContextInv => ContextIsOwn
  <2> SUFFICES ASSUME ContextInv
               PROVE  ContextIsOwn
    OBVIOUS
  <2>1. InWasm => frame.ctx = Prog[frame.fn].inst
    BY WhoRuns DEF ContextInv
  <2>2. ASSUME NEW i \in DOMAIN cstack, cstack[i].kind = "op"
        PROVE  cstack[i].saved.ctx = Prog[cstack[i].saved.fn].inst
    <3>1. i - 1 \in 0 .. depth /\ i - 1 # depth /\ i - 1 + 1 = i
      BY StackType DEF ContextInv
    <3>2. Resumed(i - 1) = cstack[i].saved
      BY <3>1 DEF Resumed
    <3>3. cstack[i].saved.fn \in Wasm
      BY <2>2 DEF ContextInv, FramesNest
    <3> QED
      BY <3>1, <3>2, <3>3 DEF ContextInv, FramesNest
  <2> QED
    BY <2>1, <2>2 DEF ContextIsOwn
<1> QED
  BY <1>1, ContextCorrect, PTL

-----------------------------------------------------------------------------
(***************************************************************************)
(* The handlers of a frame are the try_tables around it.                   *)
(***************************************************************************)

\* The handlers of depth d are of try_tables of f.
Of(hs, d, f) == \A k \in DOMAIN hs : hs[k].depth = d => hs[k].try \in Tries(f)

\* hs and g have the same handlers of depth d.
Agree(g, hs, d) ==
  /\ \A k \in DOMAIN hs : hs[k].depth = d => k \in DOMAIN g /\ g[k] = hs[k]
  /\ \A k \in DOMAIN g : g[k].depth = d => k \in DOMAIN hs /\ g[k] = hs[k]

\* Handlers that agree at a depth match the same scopes there.
LEMMA InstalledSame ==
  ASSUME NEW g, NEW hs, NEW d, Agree(g, hs, d), NEW f, NEW q, Installed(hs, d, f, q)
  PROVE  Installed(g, d, f, q)
BY DEF Installed, Agree

\* Places of constructs and try_tables, for the arithmetic of scopes.
LEMMA TryPlaces ==
  ASSUME NEW f \in Wasm
  PROVE  /\ \A t \in Tries(f) : t \in Constructs(f) /\ Body(f)[t].op = "try"
         /\ \A c \in Constructs(f) : /\ c \in Nat /\ Body(f)[c].end \in Nat /\ c + 2 <= Body(f)[c].end
                                     /\ Body(f)[c].end <= End(f)
         /\ \A c, d \in Constructs(f) : c < d /\ d < Body(f)[c].end => Body(f)[d].end < Body(f)[c].end
         /\ End(f) \in Nat
BY BodyPlaces, ValidAssumption DEF Tries, Validated

\* Past an instruction that is no try_table.
LEMMA AdvanceInstalled ==
  ASSUME NEW f \in Wasm, NEW hs, NEW d, Of(hs, d, f), NEW p \in Nat, Installed(hs, d, f, p),
         Body(f)[p].op # "try"
  PROVE  Installed(hs, d, f, p + 1)
<1>1. \A t \in Tries(f) : t < p => t < p + 1
  BY TryPlaces
<1>2. ASSUME NEW t \in Tries(f) \cap Around(f, p + 1)
      PROVE  t \in Tries(f) \cap Around(f, p)
  <2>1. t \in Nat /\ t # p /\ Body(f)[t].end \in Nat /\ t \in Constructs(f)
    BY TryPlaces
  <2> QED
    BY <2>1 DEF Around
<1> QED
  BY <1>1, <1>2 DEF Installed, Of

\* At the end of the body no try_table is around.
LEMMA EndInstalled ==
  ASSUME NEW f \in Wasm, NEW hs, NEW d, Of(hs, d, f), NEW p \in 1 .. End(f), Installed(hs, d, f, p)
  PROVE  Installed(hs, d, f, End(f))
<1>1. Around(f, End(f)) = {}
  BY TryPlaces DEF Around
<1>2. \A t \in Tries(f) : t < p => t < End(f)
  BY TryPlaces
<1> QED
  BY <1>1, <1>2 DEF Installed, Of

\* Where a frame starts or has ended, no handler need be installed.
LEMMA BareInstalled ==
  ASSUME NEW f \in Wasm, NEW hs, NEW d, \A k \in DOMAIN hs : hs[k].depth # d, NEW p, p = 1 \/ p = End(f)
  PROVE  Installed(hs, d, f, p)
<1>1. Around(f, p) = {}
  <2>1. \A c \in Constructs(f) : c \in Nat /\ 1 <= c /\ Body(f)[c].end \in Nat /\ Body(f)[c].end <= End(f)
    BY BodyPlaces
  <2>2. End(f) \in Nat
    BY BodyPlaces
  <2> QED
    BY <2>1, <2>2 DEF Around
<1> QED
  BY <1>1 DEF Installed

\* A place behind a construct has the try_tables around it that the construct has.
LEMMA AroundLabel ==
  ASSUME NEW f \in Wasm, NEW c \in Constructs(f), NEW t \in Tries(f) \cap Around(f, LabelOf(f, c))
  PROVE  t < c /\ Body(f)[c].end < Body(f)[t].end
<1>1. /\ t \in Constructs(f) /\ t \in Nat /\ Body(f)[t].end \in Nat /\ Body(f)[t].op = "try"
      /\ c \in Nat /\ Body(f)[c].end \in Nat /\ c + 2 <= Body(f)[c].end
  BY TryPlaces
<1>2. t < LabelOf(f, c) /\ LabelOf(f, c) < Body(f)[t].end - 1
  BY DEF Around
<1>3. CASE Body(f)[c].op = "loop"
  <2>1. t < c /\ c < Body(f)[t].end
    BY <1>1, <1>2, <1>3 DEF LabelOf
  <2> QED
    BY <2>1, <1>1, TryPlaces
<1>4. CASE Body(f)[c].op # "loop"
  <2>1. t < Body(f)[c].end /\ Body(f)[c].end < Body(f)[t].end - 1
    BY <1>2, <1>4 DEF LabelOf
  <2>2. ~ (c < t)
    BY <2>1, <1>1, TryPlaces
  <2>3. t # c
    BY <2>1, <1>1
  <2> QED
    BY <2>1, <2>2, <2>3, <1>1
<1> QED
  BY <1>3, <1>4

\* br from inside a construct to its label.
LEMMA BranchInstalled ==
  ASSUME LoopsHoldNoTry, NEW f \in Wasm, NEW hs, NEW d, Of(hs, d, f), NEW p \in Nat, Installed(hs, d, f, p),
         NEW c \in Around(f, p)
  PROVE  Installed(hs, d, f, LabelOf(f, c))
<1>1. /\ c \in Constructs(f) /\ c < p /\ p < Body(f)[c].end - 1 /\ c \in Nat /\ Body(f)[c].end \in Nat
  BY TryPlaces DEF Around
<1>2. ASSUME NEW k \in DOMAIN hs, hs[k].depth = d
      PROVE  hs[k].try < LabelOf(f, c)
  <2> DEFINE t == hs[k].try
  <2>1. t \in Tries(f) /\ t < p /\ t \in Constructs(f) /\ t \in Nat /\ Body(f)[t].op = "try"
    BY <1>2, TryPlaces DEF Of, Installed
  <2>2. CASE Body(f)[c].op = "loop"
    <3>1. ~ (c < t /\ t < Body(f)[c].end - 1)
      BY <1>1, <2>1, <2>2 DEF LoopsHoldNoTry, Around
    <3> QED
      BY <3>1, <2>1, <2>2, <1>1 DEF LabelOf
  <2>3. CASE Body(f)[c].op # "loop"
    BY <2>1, <2>3, <1>1 DEF LabelOf
  <2> QED
    BY <2>2, <2>3
<1>3. ASSUME NEW t \in Tries(f) \cap Around(f, LabelOf(f, c))
      PROVE  t \in Around(f, p)
  <2>1. t < c /\ Body(f)[c].end < Body(f)[t].end
    BY <1>1, AroundLabel
  <2>2. t \in Constructs(f) /\ t \in Nat /\ Body(f)[t].end \in Nat
    BY TryPlaces
  <2> QED
    BY <1>1, <2>1, <2>2 DEF Around
<1> QED
  BY <1>2, <1>3 DEF Installed

\* A catch: what is left are the handlers of the try_tables around its label.
LEMMA CatchInstalled ==
  ASSUME LoopsHoldNoTry, NEW f \in Wasm, NEW hs \in Seq(Handler), NEW d, Of(hs, d, f),
         NEW fr \in Frame, Installed(hs, d, f, fr.pc), fr.fn = f,
         NEW tag, NEW m, Caught(hs, fr, d, tag, m), hs[m].fn = f,
         \A k \in DOMAIN hs : hs[k].depth = d => hs[k].fn = f,
         NEW g, Popped(g, hs), Len(g) = m - 1
  PROVE  /\ Installed(g, d, f, LabelOf(f, Body(f)[hs[m].try].label))
         /\ hs[m].try < fr.pc /\ fr.pc < Body(f)[hs[m].try].end
<1> DEFINE t == hs[m].try
           L == Body(f)[t].label
<1>1. /\ m \in DOMAIN hs /\ hs[m].depth = d /\ DOMAIN hs = 1 .. Len(hs) /\ Len(hs) \in Nat /\ m \in Nat
      /\ fr.pc \in Nat
  BY LenProperties DEF Caught, Frame
<1>2. t \in Tries(f) /\ t < fr.pc
  BY <1>1 DEF Of, Installed
<1>3. fr.pc < Body(f)[t].end
  <2>1. PICK l \in DOMAIN hs : l >= m /\ hs[l].depth = d /\ fr.pc < Body(f)[hs[l].try].end
    BY DEF Caught
  <2>2. l = m \/ m < l
    BY <2>1, <1>1
  <2>3. m < l => Body(f)[hs[l].try].end < Body(f)[t].end
    BY <2>1, <1>1 DEF Installed
  <2>4. Body(f)[hs[l].try].end \in Nat /\ Body(f)[t].end \in Nat
    BY <2>1, <1>2, TryPlaces DEF Of
  <2> QED
    BY <2>1, <2>2, <2>3, <2>4, <1>1
<1>4. /\ L \in Constructs(f) /\ L < t /\ Body(f)[t].end < Body(f)[L].end /\ L \in Around(f, t)
  BY <1>2, CatchLabel
<1>5. Body(f)[L].op # "loop" /\ LabelOf(f, L) = Body(f)[L].end
  BY <1>2, <1>4 DEF LoopsHoldNoTry, LabelOf
<1>6. /\ t \in Nat /\ Body(f)[t].end \in Nat /\ L \in Nat /\ Body(f)[L].end \in Nat
  BY <1>2, <1>4, TryPlaces
<1>7. \A k \in DOMAIN g : k \in DOMAIN hs /\ g[k] = hs[k]
  BY DEF Popped
<1>8. ASSUME NEW k \in DOMAIN g, g[k].depth = d
      PROVE  g[k].try < LabelOf(f, L)
  <2>1. hs[k].try < fr.pc /\ hs[k].try \in Tries(f) /\ g[k] = hs[k]
    BY <1>7, <1>8 DEF Installed, Of
  <2>2. hs[k].try \in Nat
    BY <2>1, TryPlaces
  <2> QED
    BY <2>1, <2>2, <1>1, <1>3, <1>4, <1>5, <1>6
<1>9. ASSUME NEW u \in Tries(f) \cap Around(f, LabelOf(f, L))
      PROVE  \E k \in DOMAIN g : g[k].depth = d /\ g[k].try = u
  <2>1. u < L /\ Body(f)[L].end < Body(f)[u].end
    BY <1>4, AroundLabel
  <2>2. u \in Nat /\ Body(f)[u].end \in Nat /\ u \in Constructs(f)
    BY TryPlaces
  <2>3. LabelOf(f, L) < Body(f)[u].end - 1
    BY DEF Around
  <2>4. u \in Around(f, fr.pc)
    BY <2>1, <2>2, <2>3, <1>1, <1>2, <1>3, <1>4, <1>5, <1>6 DEF Around
  <2>5. PICK k \in DOMAIN hs : hs[k].depth = d /\ hs[k].try = u
    BY <2>4 DEF Installed
  <2>6. ~ (m < k)
    BY <2>5, <2>1, <2>2, <1>1, <1>4, <1>6 DEF Installed
  <2>7. k # m
    BY <2>5, <2>1, <2>2, <1>4, <1>6
  <2>8. k \in 1 .. m - 1
    BY <2>6, <2>7, <1>1
  <2> QED
    BY <2>5, <2>8, <1>7 DEF Popped
<1>10. \A j, k \in DOMAIN g : g[j].depth = d /\ g[k].depth = d /\ j < k =>
         g[j].try < g[k].try /\ Body(f)[g[k].try].end < Body(f)[g[j].try].end
  BY <1>7 DEF Installed
<1> QED
  BY <1>2, <1>3, <1>8, <1>9, <1>10 DEF Installed

\* The handlers of the innermost frame that prune_handlers leaves are those whose
\* try_table the place is still in.
LEMMA PrunedInstalled ==
  ASSUME NEW f \in Wasm, NEW hs \in Seq(Handler), Sorted(hs), NEW d \in Nat,
         \A k \in DOMAIN hs : hs[k].depth <= d, \A k \in DOMAIN hs : hs[k].depth = d => hs[k].fn = f,
         Of(hs, d, f), NEW q, Installed(hs, d, f, q),
         NEW pos \in Nat, NEW g, g = Prune(hs, d, pos)
  PROVE  /\ Popped(g, hs)
         /\ \A k \in DOMAIN g : g[k].depth = d => pos < Body(f)[g[k].try].end
         /\ \A k \in DOMAIN hs : hs[k].depth < d => k \in DOMAIN g
         /\ \A k \in DOMAIN hs : hs[k].depth = d /\ pos < Body(f)[hs[k].try].end => k \in DOMAIN g
<1>1. /\ Popped(g, hs)
      /\ \A k \in DOMAIN hs : k \notin DOMAIN g =>
              hs[k].depth = d /\ ~ (pos < Body(hs[k].fn)[hs[k].try].end)
      /\ Len(g) > 0 => LET h == hs[Len(g)] IN h.depth # d \/ pos < Body(h.fn)[h.try].end
  BY PruneEffect
<1>2. /\ g \in Seq(Handler) /\ DOMAIN g = 1 .. Len(g) /\ Len(g) \in Nat
      /\ \A k \in DOMAIN g : k \in DOMAIN hs /\ g[k] = hs[k]
      /\ \A k \in DOMAIN hs : hs[k] \in Handler
  BY <1>1, LenProperties, ElementOfSeq DEF Popped
<1>3. ASSUME NEW k \in DOMAIN g, g[k].depth = d
      PROVE  pos < Body(f)[g[k].try].end
  <2> DEFINE l == Len(g)
  <2>1. k \in DOMAIN hs /\ g[k] = hs[k] /\ l \in DOMAIN hs /\ l \in DOMAIN g /\ k <= l /\ l > 0 /\ k \in Nat
    BY <1>2
  <2>2. hs[l].depth \in Nat /\ hs[k].depth \in Nat
    BY <1>2, <2>1 DEF Handler
  <2>3. hs[l].depth = d
    <3>1. k < l => hs[k].depth <= hs[l].depth
      BY <2>1 DEF Sorted
    <3>2. k = l \/ k < l
      BY <2>1, <1>2
    <3> QED
      BY <3>1, <3>2, <2>1, <2>2, <1>3
  <2>4. pos < Body(f)[hs[l].try].end
    BY <2>1, <2>3, <1>1
  <2>5. k < l => Body(f)[hs[l].try].end < Body(f)[hs[k].try].end
    BY <2>1, <2>3, <1>3 DEF Installed
  <2>6. Body(f)[hs[l].try].end \in Nat /\ Body(f)[hs[k].try].end \in Nat
    BY <2>1, <2>3, <1>3, TryPlaces DEF Of
  <2>7. k = l \/ k < l
    BY <2>1, <1>2
  <2> HIDE DEF l
  <2> QED
    BY <2>1, <2>4, <2>5, <2>6, <2>7
<1>4. ASSUME NEW k \in DOMAIN hs, hs[k].depth < d
      PROVE  k \in DOMAIN g
  <2>1. hs[k].depth \in Nat
    BY <1>2 DEF Handler
  <2>2. hs[k].depth # d
    BY <2>1, <1>4
  <2> QED
    BY <2>2, <1>1
<1>5. ASSUME NEW k \in DOMAIN hs, hs[k].depth = d, pos < Body(f)[hs[k].try].end
      PROVE  k \in DOMAIN g
  BY <1>1, <1>5
<1> QED
  BY <1>1, <1>3, <1>4, <1>5

\* jav_try_table: the new handler is inside those that stay.
LEMMA PushInstalled ==
  ASSUME NEW f \in Wasm, NEW hs \in Seq(Handler), Sorted(hs), NEW d \in Nat,
         \A k \in DOMAIN hs : hs[k].depth <= d, \A k \in DOMAIN hs : hs[k].depth = d => hs[k].fn = f,
         Of(hs, d, f), NEW p \in Tries(f), Installed(hs, d, f, p),
         NEW g, g = Prune(hs, d, p + 1), NEW h \in Handler, h.depth = d, h.try = p,
         NEW new, new = Append(g, h)
  PROVE  Installed(new, d, f, p + 1) /\ \A i : i < d => Agree(new, hs, i)
<1>1. p \in Constructs(f) /\ p \in Nat /\ Body(f)[p].end \in Nat /\ p + 1 \in Nat
  BY TryPlaces
<1>2. /\ Popped(g, hs)
      /\ \A k \in DOMAIN g : g[k].depth = d => p + 1 < Body(f)[g[k].try].end
      /\ \A k \in DOMAIN hs : hs[k].depth < d => k \in DOMAIN g
      /\ \A k \in DOMAIN hs : hs[k].depth = d /\ p + 1 < Body(f)[hs[k].try].end => k \in DOMAIN g
  BY <1>1, PrunedInstalled
<1>3. /\ g \in Seq(Handler) /\ DOMAIN g = 1 .. Len(g) /\ Len(g) \in Nat
      /\ \A k \in DOMAIN g : k \in DOMAIN hs /\ g[k] = hs[k]
  BY <1>2, LenProperties DEF Popped
<1> DEFINE l == Len(g) + 1
<1>4. /\ DOMAIN new = 1 .. l /\ new[l] = h /\ \A k \in DOMAIN g : k \in DOMAIN new /\ new[k] = g[k]
      /\ \A k \in DOMAIN new : k = l \/ k \in DOMAIN g
      /\ l \in DOMAIN new /\ l \notin DOMAIN g /\ \A k \in DOMAIN g : k < l
  <2>1. new \in Seq(Handler) /\ Len(new) = l /\ new[l] = h /\ \A k \in 1 .. Len(g) : new[k] = g[k]
    BY <1>3, AppendProperties
  <2>2. DOMAIN new = 1 .. l
    BY <2>1, LenProperties
  <2> QED
    BY <2>1, <2>2, <1>3
<1> HIDE DEF l
<1>5. ASSUME NEW k \in DOMAIN g, g[k].depth = d
      PROVE  /\ g[k].try \in Constructs(f) /\ g[k].try \in Nat /\ g[k].try < p
             /\ Body(f)[p].end < Body(f)[g[k].try].end
  <2>1. g[k].try \in Tries(f) /\ g[k].try < p /\ p + 1 < Body(f)[g[k].try].end
    BY <1>2, <1>3, <1>5 DEF Of, Installed
  <2>2. g[k].try \in Constructs(f) /\ g[k].try \in Nat /\ Body(f)[g[k].try].end \in Nat
    BY <2>1, TryPlaces
  <2>3. p < Body(f)[g[k].try].end
    BY <2>1, <2>2, <1>1
  <2> QED
    BY <2>1, <2>2, <2>3, <1>1, TryPlaces
<1>6. ASSUME NEW k \in DOMAIN new, new[k].depth = d
      PROVE  new[k].try < p + 1
  BY <1>1, <1>4, <1>5, <1>6
<1>7. ASSUME NEW j \in DOMAIN new, NEW k \in DOMAIN new, new[j].depth = d, new[k].depth = d, j < k
      PROVE  new[j].try < new[k].try /\ Body(f)[new[k].try].end < Body(f)[new[j].try].end
  <2>1. j \in DOMAIN g
    <3>1. j = l => ~ (j < k)
      BY <1>3, <1>4 DEF l
    <3> QED
      BY <3>1, <1>4, <1>7
  <2>2. CASE k = l
    BY <2>1, <2>2, <1>4, <1>5, <1>7
  <2>3. CASE k \in DOMAIN g
    BY <2>1, <2>3, <1>3, <1>4, <1>7 DEF Installed
  <2> QED
    BY <2>2, <2>3, <1>4
<1>8. ASSUME NEW t \in Tries(f) \cap Around(f, p + 1)
      PROVE  \E k \in DOMAIN new : new[k].depth = d /\ new[k].try = t
  <2>1. t \in Nat /\ Body(f)[t].end \in Nat /\ t \in Constructs(f) /\ t < p + 1 /\ p + 1 < Body(f)[t].end - 1
    BY TryPlaces DEF Around
  <2>2. CASE t = p
    BY <2>2, <1>4
  <2>3. CASE t # p
    <3>1. t \in Around(f, p)
      BY <2>1, <2>3, <1>1 DEF Around
    <3>2. PICK k \in DOMAIN hs : hs[k].depth = d /\ hs[k].try = t
      BY <3>1 DEF Installed
    <3>3. k \in DOMAIN g
      BY <3>2, <2>1, <1>1, <1>2
    <3> QED
      BY <3>2, <3>3, <1>3, <1>4
  <2> QED
    BY <2>2, <2>3
<1>9. Installed(new, d, f, p + 1)
  BY <1>6, <1>7, <1>8 DEF Installed
<1>10. \A i : i < d => Agree(new, hs, i)
  BY <1>2, <1>3, <1>4 DEF Agree
<1> QED
  BY <1>9, <1>10

\* The scopes of the suspended frames below the running one, the n-th, stay.
LEMMA LowerScopes ==
  ASSUME ContextInv, HandlersNest, NEW n \in 0 .. depth, depth' = n,
         \A i \in 0 .. n - 1 : Resumed(i)' = Resumed(i),
         \A i \in 1 .. n - 1 : Agree(handlers', handlers, i),
         n > 0 /\ frame'.fn \in Wasm => Installed(handlers', n, frame'.fn, frame'.pc)
  PROVE  HandlersNest'
<1>1. depth \in Nat
  BY StackType DEF ContextInv
<1>2. Resumed(n)' = frame'
  BY DEF Resumed
<1>3. ASSUME NEW i \in 1 .. n, Resumed(i)'.fn \in Wasm
      PROVE  Installed(handlers', i, Resumed(i)'.fn, Resumed(i)'.pc)
  <2>1. CASE i = n
    BY <2>1, <1>1, <1>2, <1>3
  <2>2. CASE i # n
    <3>1. i \in 1 .. n - 1 /\ i \in 0 .. n - 1 /\ i \in 1 .. depth
      BY <2>2, <1>1
    <3>2. Resumed(i)' = Resumed(i)
      BY <3>1
    <3>3. Installed(handlers, i, Resumed(i).fn, Resumed(i).pc)
      BY <3>1, <3>2, <1>3 DEF HandlersNest
    <3> QED
      BY <3>1, <3>2, <3>3, InstalledSame
  <2> QED
    BY <2>1, <2>2
<1> QED
  BY <1>3 DEF HandlersNest

\* What stays of hs when it is popped: all below the d-th frame.
LEMMA PoppedAgree ==
  ASSUME NEW g, NEW hs, NEW n, Popped(g, hs), \A k \in DOMAIN hs : hs[k].depth < n => k \in DOMAIN g
  PROVE  \A i : i < n => Agree(g, hs, i)
BY DEF Popped, Agree

\* The scopes after an exception came to the n-th frame, fr.
LEMMA ThrowKeepsScopes ==
  ASSUME LoopsHoldNoTry, ContextInv, NEW n \in 1 .. depth,
         NEW fr \in Frame, fr.fn \in Wasm, fr.fn = Resumed(n).fn, fr.pc \in 1 .. End(fr.fn),
         NEW hs, Popped(hs, handlers), \A k \in DOMAIN handlers : handlers[k].depth < n => k \in DOMAIN hs,
         Installed(hs, n, fr.fn, fr.pc), NEW tag, NEW exn, NEW h,
         (\E m \in DOMAIN hs : Caught(hs, fr, n, tag, m)) \/ Uncaught(hs, fr, n, h, exn)
  PROVE  /\ Installed(handlers', n, frame'.fn, frame'.pc)
         /\ \A i \in 1 .. n - 1 : Agree(handlers', handlers, i)
<1> DEFINE f == fr.fn
<1>1. /\ hs \in Seq(Handler) /\ DOMAIN hs = 1 .. Len(hs) /\ Len(hs) \in Nat /\ Sorted(hs) /\ n \in Nat
      /\ \A k \in DOMAIN hs : hs[k].depth \in Nat /\ k \in DOMAIN handlers /\ hs[k] = handlers[k]
  <2>1. depth \in Nat
    BY StackType DEF ContextInv
  <2> QED
    BY <2>1, HandlersSorted, PoppedSorted, LenProperties DEF Popped
<1>2. \A k \in DOMAIN hs : hs[k].depth = n => hs[k].fn = f /\ hs[k].try \in Tries(f)
  BY <1>1 DEF ContextInv, HandlersOwned
<1>3. Of(hs, n, f) /\ \A k \in DOMAIN hs : hs[k].depth = n => hs[k].fn = f
  BY <1>2 DEF Of
<1>4. \A x \in 1 .. n - 1 : x < n
  BY <1>1
<1>5. ASSUME NEW m \in DOMAIN hs, Caught(hs, fr, n, tag, m)
      PROVE  /\ Installed(handlers', n, frame'.fn, frame'.pc)
             /\ \A i \in 1 .. n - 1 : Agree(handlers', handlers, i)
  <2>1. /\ Popped(handlers', hs) /\ Len(handlers') = m - 1 /\ hs[m].fn = f /\ hs[m].depth = n
        /\ frame'.fn = f /\ frame'.pc = LabelOf(f, Body(f)[hs[m].try].label)
    BY <1>5, <1>2 DEF Caught, Frame
  <2>2. Installed(handlers', n, f, LabelOf(f, Body(f)[hs[m].try].label))
    BY <1>1, <1>3, <1>5, <2>1, CatchInstalled
  <2>3. ASSUME NEW k \in DOMAIN hs, hs[k].depth < n
        PROVE  k \in DOMAIN handlers'
    <3>1. k # m /\ ~ (m < k)
      BY <2>1, <2>3, <1>1 DEF Sorted
    <3>2. k \in 1 .. m - 1
      BY <3>1, <1>1
    <3> QED
      BY <3>2, <2>1 DEF Popped
  <2>4. \A k \in DOMAIN handlers : handlers[k].depth < n => k \in DOMAIN handlers'
    BY <2>3, <1>1
  <2>5. Popped(handlers', handlers)
    BY <2>1, PoppedTwice, HandlersSorted
  <2>6. \A i \in 1 .. n - 1 : Agree(handlers', handlers, i)
    BY <2>4, <2>5, <1>4, PoppedAgree
  <2> QED
    BY <2>1, <2>2, <2>6
<1>6. ASSUME Uncaught(hs, fr, n, h, exn)
      PROVE  /\ Installed(handlers', n, frame'.fn, frame'.pc)
             /\ \A i \in 1 .. n - 1 : Agree(handlers', handlers, i)
  <2>1. /\ Popped(handlers', hs) /\ \A k \in DOMAIN handlers' : handlers'[k].depth < n
        /\ \A k \in DOMAIN hs : hs[k].depth < n => k \in DOMAIN handlers'
    BY <1>6 DEF Uncaught
  <2>2. frame'.fn = f /\ frame'.pc = End(f)
    BY <1>6 DEF Uncaught, Frame
  <2>3. \A k \in DOMAIN handlers' : handlers'[k].depth # n
    BY <2>1, <1>1 DEF Popped
  <2>4. Installed(handlers', n, f, End(f))
    BY <2>3, BareInstalled
  <2>5. \A k \in DOMAIN handlers : handlers[k].depth < n => k \in DOMAIN handlers'
    BY <2>1, <1>1
  <2>6. Popped(handlers', handlers)
    BY <2>1, PoppedTwice, HandlersSorted
  <2>7. \A i \in 1 .. n - 1 : Agree(handlers', handlers, i)
    BY <2>5, <2>6, <1>4, PoppedAgree
  <2> QED
    BY <2>2, <2>4, <2>7
<1> QED
  BY <1>5, <1>6

\* The suspended frames of a step within an activation.
LEMMA SameDepth ==
  ASSUME ContextInv, depth' = depth,
         \/ cstack' = cstack
         \/ cstack' = Owe(cstack)
         \/ depth > 0 /\ cstack' = Raise(cstack)
  PROVE  depth \in 0 .. depth /\ CallsUpTo(depth) /\ \A i \in 0 .. depth - 1 : Resumed(i)' = Resumed(i)
<1>1. depth \in Nat /\ CallsUpTo(depth)
  BY SameCalls, StackType DEF ContextInv
<1>2. \A i \in 0 .. depth - 1 : Resumed(i)' = Resumed(i)
  <2> TAKE i \in 0 .. depth - 1
  <2>1. i # depth /\ i + 1 \in 1 .. depth
    BY <1>1
  <2> QED
    BY <2>1, <1>1 DEF Resumed, CallsUpTo
<1> QED
  BY <1>1, <1>2

\* The running function's handlers.
LEMMA OwnScopes ==
  ASSUME ContextInv, HandlersNest, InWasm, NEW f, f = frame.fn, NEW p, p = frame.pc, NEW n, n = depth
  PROVE  /\ f \in Wasm /\ p \in 1 .. End(f) /\ p \in Nat /\ End(f) \in Nat \ {0} /\ n \in Nat \ {0} /\ n \in 1 .. n
         /\ Installed(handlers, n, f, p) /\ Of(handlers, n, f)
         /\ \A k \in DOMAIN handlers : handlers[k].depth = n => handlers[k].fn = f
<1>1. f \in Wasm /\ p \in 1 .. End(f) /\ End(f) \in Nat \ {0} /\ n > 0 /\ n \in Nat
  BY WhoRuns, BodyPlaces, StackType DEF ContextInv
<1>2. n \in 1 .. n /\ Resumed(n) = frame
  BY <1>1 DEF Resumed
<1>3. Installed(handlers, n, f, p)
  BY <1>1, <1>2 DEF HandlersNest
<1>4. \A k \in DOMAIN handlers : handlers[k].depth = n => handlers[k].fn = f
  BY <1>1, <1>2 DEF ContextInv, HandlersOwned
<1>5. Of(handlers, n, f)
  BY <1>4 DEF Of, ContextInv, HandlersOwned
<1> QED
  BY <1>1, <1>2, <1>3, <1>4, <1>5

\* Handlers that did not change agree.
LEMMA AllAgree ==
  ASSUME NEW hs, NEW g, g = hs, NEW i
  PROVE  Agree(g, hs, i)
BY DEF Agree

\* A call has the scopes of its caller, and none of its own yet.
LEMMA CallScopes ==
  ASSUME ContextInv, HandlersNest, NEW g \in Func, NEW kind \in {"op", "call", "start"}, NEW caller, NEW base,
         CallFn(g, kind, caller, base),
         \/ kind = "op" /\ AtAny /\ caller = Next1 /\ base \in Int
         \/ kind # "op" /\ InHost /\ caller = EntryFrame(g) /\ base = frame.base
  PROVE  HandlersNest'
<1>1. /\ caller \in Frame /\ caller.fn = frame.fn /\ caller.base = frame.base /\ base \in Int
      /\ Waits(caller)
      /\ kind = "op" <=> caller.fn \in Wasm
      /\ kind = "op" => AtAny /\ caller.pc = frame.pc + 1
  <2>1. frame.base \in Int
    BY DEF ContextInv, CallsShapes, Frame
  <2> QED
    BY <2>1, Callers
<1>2. PICK n : n = depth
  OBVIOUS
<1>3. n \in Nat /\ 0 \in 0 .. depth
  BY <1>2, StackType DEF ContextInv
<1>4. frame.fn \in Wasm <=> kind = "op"
  BY <1>1
<1>5. kind = "op" => InWasm
  BY <1>1 DEF AtAny
<1>6. CASE Enter(g, kind, caller, base)
  <2>1. /\ \A i \in 0 .. n - 1 : Resumed(i)' = Resumed(i)
        /\ \A i \in n .. n : Resumed(i)' = caller
        /\ frame'.fn = g /\ frame'.pc = 1
    BY <1>1, <1>2, <1>6, EnterKeepsContext
  <2>2. depth' = n + 1 /\ handlers' = handlers
    BY <1>2, <1>6 DEF Enter
  <2>3. \A i : i = n + 1 => Resumed(i)' = frame'
    BY <2>2 DEF Resumed
  <2>4. \A k \in DOMAIN handlers : handlers[k].depth # n + 1
    BY <1>2, <1>3 DEF ContextInv, HandlersOwned
  <2>5. ASSUME NEW i \in 1 .. n + 1, Resumed(i)'.fn \in Wasm
        PROVE  Installed(handlers, i, Resumed(i)'.fn, Resumed(i)'.pc)
    <3>1. CASE i = n + 1
      <4>1. Resumed(i)' = frame' /\ g \in Wasm
        BY <3>1, <2>1, <2>3, <2>5
      <4>2. Installed(handlers, i, g, 1)
        BY <3>1, <4>1, <2>4, BareInstalled
      <4> QED
        BY <4>1, <4>2, <2>1
    <3>2. CASE i = n
      <4>1. Resumed(i)' = caller /\ kind = "op" /\ i \in 0 .. n
        BY <3>2, <2>1, <2>5, <1>1, <1>3
      <4>2. PICK f, p : f = frame.fn /\ p = frame.pc
        OBVIOUS
      <4>3. /\ f \in Wasm /\ p \in Nat /\ Installed(handlers, n, f, p) /\ Of(handlers, n, f)
        BY <4>1, <4>2, <1>2, <1>5, OwnScopes
      <4>4. Body(f)[p].op # "try"
        BY <4>1, <4>2, <1>1 DEF AtAny, Instr
      <4>5. Installed(handlers, n, f, p + 1)
        BY <4>3, <4>4, AdvanceInstalled
      <4> QED
        BY <3>2, <4>1, <4>2, <4>5, <1>1
    <3>3. CASE i # n /\ i # n + 1
      <4>1. i \in 0 .. n - 1 /\ i \in 1 .. depth
        BY <3>3, <1>2, <1>3
      <4>2. Resumed(i)' = Resumed(i)
        BY <3>3, <4>1, <2>1
      <4> QED
        BY <4>1, <4>2, <2>5 DEF HandlersNest
    <3> QED
      BY <3>1, <3>2, <3>3
  <2> QED
    BY <2>2, <2>5 DEF HandlersNest
<1>7. CASE Refuse(g, kind, caller, base)
  <2>1. /\ handlers' = handlers /\ depth' = depth
        /\ IF kind = "op" THEN frame' = [caller EXCEPT !.pc = End(caller.fn)] /\ cstack' = Raise(cstack)
                          ELSE (frame' = frame \/ frame' = caller) /\ cstack' = Owe(cstack)
    BY <1>7 DEF Refuse
  <2>2. kind = "op" => n > 0
    BY <1>2, <1>4, WhoRuns DEF ContextInv
  <2>3. n \in 0 .. depth /\ depth' = n /\ \A i \in 0 .. n - 1 : Resumed(i)' = Resumed(i)
    BY <1>2, <2>1, <2>2, SameDepth
  <2>4. ASSUME n > 0, frame'.fn \in Wasm
        PROVE  Installed(handlers', n, frame'.fn, frame'.pc)
    <3>1. PICK f, p : f = frame.fn /\ p = frame.pc
      OBVIOUS
    <3>2. kind = "op" /\ frame'.fn = f /\ frame'.pc = End(f)
      BY <2>1, <2>4, <3>1, <1>1 DEF Frame
    <3>3. /\ f \in Wasm /\ p \in 1 .. End(f) /\ Installed(handlers, n, f, p) /\ Of(handlers, n, f)
      BY <3>1, <3>2, <1>2, <1>5, OwnScopes
    <3>4. Installed(handlers, n, f, End(f))
      BY <3>3, EndInstalled
    <3> QED
      BY <2>1, <3>2, <3>4
  <2>5. \A i \in 1 .. n - 1 : Agree(handlers', handlers, i)
    BY <2>1, AllAgree
  <2> QED
    BY <2>3, <2>4, <2>5, LowerScopes
<1> QED
  BY <1>6, <1>7 DEF CallFn

\* Instructions within the frame.
LEMMA MoveScopes ==
  ASSUME LoopsHoldNoTry, ContextInv, HandlersNest,
         \/ Plain \/ Return \/ Trap \/ (\E g \in Func : TailCall(g))
         \/ InWasm /\ \E c \in Constructs(frame.fn) : Br(c)
  PROVE  HandlersNest'
<1>1. PICK f, p, n : f = frame.fn /\ p = frame.pc /\ n = depth
  OBVIOUS
<1>2. /\ InWasm /\ frame.pc < End(frame.fn) /\ frame \in Frame
      /\ depth' = depth /\ (cstack' = cstack \/ cstack' = Raise(cstack)) /\ handlers' = handlers
  BY Moves DEF ContextInv, CallsShapes
<1>3. /\ f \in Wasm /\ p \in 1 .. End(f) /\ p \in Nat /\ End(f) \in Nat \ {0} /\ n \in Nat \ {0}
      /\ Installed(handlers, n, f, p) /\ Of(handlers, n, f)
  BY <1>1, <1>2, OwnScopes
<1>4. n \in 0 .. depth /\ depth' = n /\ \A i \in 0 .. n - 1 : Resumed(i)' = Resumed(i)
  BY <1>1, <1>2, <1>3, SameDepth
<1>5. \A i \in 1 .. n - 1 : Agree(handlers', handlers, i)
  BY <1>2, AllAgree
<1>6. frame'.fn = f /\ Installed(handlers', n, f, frame'.pc)
  <2>1. CASE Plain
    <3>1. frame'.fn = f /\ frame'.pc = p + 1 /\ Body(f)[p].op # "try"
      BY <2>1, <1>1, <1>2, <1>3 DEF Plain, Next1, Instr, Frame
    <3>2. Installed(handlers, n, f, p + 1)
      BY <3>1, <1>3, AdvanceInstalled
    <3> QED
      BY <3>1, <3>2, <1>2
  <2>2. CASE Return \/ Trap \/ \E g \in Func : TailCall(g)
    <3>1. frame'.fn = f /\ frame'.pc = End(f)
      BY <2>2, <1>1, <1>2, <1>3 DEF Return, Trap, TailCall, Frame
    <3>2. Installed(handlers, n, f, End(f))
      BY <1>3, EndInstalled
    <3> QED
      BY <3>1, <3>2, <1>2
  <2>3. CASE \E c \in Constructs(frame.fn) : Br(c)
    <3>1. PICK c \in Constructs(frame.fn) : Br(c)
      BY <2>3
    <3>2. c \in Around(f, p) /\ frame' = [frame EXCEPT !.pc = LabelOf(f, c)]
      BY <3>1, <1>1 DEF Br
    <3>3. frame'.fn = f /\ frame'.pc = LabelOf(f, c)
      BY <3>2, <1>1, <1>2 DEF Frame
    <3>4. Installed(handlers, n, f, LabelOf(f, c))
      BY <3>2, <1>3, BranchInstalled
    <3> QED
      BY <3>3, <3>4, <1>2
  <2> QED
    BY <2>1, <2>2, <2>3
<1> QED
  BY <1>4, <1>5, <1>6, LowerScopes

\* try_table
LEMMA TryTableScopes ==
  ASSUME ContextInv, HandlersNest, TryTable
  PROVE  HandlersNest'
<1>1. PICK f, p, n, hs, h : /\ f = frame.fn /\ p = frame.pc /\ n = depth /\ hs = handlers
                            /\ h = [depth |-> depth, fn |-> frame.fn, try |-> frame.pc,
                                    sp |-> sp - frame.base - 1]
  OBVIOUS
<1>2. /\ InWasm /\ frame.pc < End(frame.fn) /\ Instr.op = "try" /\ frame' = [frame EXCEPT !.pc = frame.pc + 1]
      /\ cstack' = cstack /\ depth' = depth /\ handlers' = Append(Prune(hs, n, p + 1), h)
      /\ frame \in Frame /\ sp \in Int
  BY <1>1 DEF TryTable, Next1, ContextInv, CallsShapes
<1>3. /\ f \in Wasm /\ p \in 1 .. End(f) /\ p \in Nat /\ End(f) \in Nat \ {0} /\ n \in Nat \ {0}
      /\ Installed(hs, n, f, p) /\ Of(hs, n, f)
      /\ \A k \in DOMAIN hs : hs[k].depth = n => hs[k].fn = f
  BY <1>1, <1>2, OwnScopes
<1>4. n \in 0 .. depth /\ depth' = n /\ \A i \in 0 .. n - 1 : Resumed(i)' = Resumed(i)
  BY <1>1, <1>2, <1>3, SameDepth
<1>5. p \in Tries(f)
  <2>1. DOMAIN Body(f) = 1 .. Len(Body(f)) /\ Len(Body(f)) \in Nat
    BY <1>3, BodyPlaces
  <2> QED
    BY <2>1, <1>1, <1>2, <1>3 DEF Tries, Constructs, Instr, End
<1>6. h \in Handler /\ h.depth = n /\ h.try = p
  BY <1>1, <1>2, <1>3 DEF Handler, Frame
<1>7. hs \in Seq(Handler) /\ Sorted(hs) /\ \A k \in DOMAIN hs : hs[k].depth <= n
  BY <1>1, HandlersSorted
<1>8. Installed(handlers', n, f, p + 1) /\ \A i : i < n => Agree(handlers', hs, i)
  BY <1>2, <1>3, <1>5, <1>6, <1>7, PushInstalled
<1>9. frame'.fn = f /\ frame'.pc = p + 1
  BY <1>1, <1>2 DEF Frame
<1>10. \A i \in 1 .. n - 1 : Agree(handlers', handlers, i)
  BY <1>1, <1>3, <1>8
<1> QED
  BY <1>4, <1>8, <1>9, <1>10, LowerScopes

\* throw
LEMMA ThrowScopes ==
  ASSUME LoopsHoldNoTry, ContextInv, HandlersNest, NEW t \in Tag, Throw(t)
  PROVE  HandlersNest'
<1>1. PICK f, p, n, hs, fr : f = frame.fn /\ p = frame.pc /\ n = depth /\ hs = handlers /\ fr = Next1
  OBVIOUS
<1> DEFINE exn == [tag |-> t, level |-> Level(cstack)]
<1>2. /\ InWasm /\ n \in 1 .. n /\ fr \in Frame
      /\ (\E m \in DOMAIN hs : Caught(hs, fr, n, exn.tag, m)) \/ Uncaught(hs, fr, n, sp - 1, exn)
      /\ \A i \in 0 .. n - 1 : Resumed(i)' = Resumed(i)
  BY <1>1, ThrowInFrame
<1>3. /\ f \in Wasm /\ p \in 1 .. End(f) /\ p \in Nat /\ End(f) \in Nat \ {0} /\ n \in Nat \ {0}
      /\ Installed(hs, n, f, p) /\ Of(hs, n, f)
  BY <1>1, <1>2, OwnScopes
<1>4. /\ AtAny /\ depth' = n
  BY <1>1 DEF Throw
<1>5. /\ fr.fn = f /\ fr.pc = p + 1 /\ fr.pc \in 2 .. End(f) /\ Body(f)[p].op # "try"
  BY <1>1, <1>4, Callers DEF AtAny, Instr
<1>6. Installed(hs, n, fr.fn, fr.pc)
  BY <1>3, <1>5, AdvanceInstalled
<1>7. fr.fn = Resumed(n).fn /\ n \in 1 .. depth /\ n \in 0 .. depth /\ fr.pc \in 1 .. End(f)
  BY <1>1, <1>3, <1>5 DEF Resumed
<1>8. Popped(hs, handlers) /\ \A k \in DOMAIN handlers : handlers[k].depth < n => k \in DOMAIN hs
  BY <1>1, HandlersSorted
<1> HIDE DEF exn
<1>9. /\ Installed(handlers', n, frame'.fn, frame'.pc)
      /\ \A i \in 1 .. n - 1 : Agree(handlers', handlers, i)
  BY <1>2, <1>3, <1>5, <1>6, <1>7, <1>8, ThrowKeepsScopes
<1> QED
  BY <1>2, <1>4, <1>7, <1>9, LowerScopes

\* The innermost activation is over.
LEMMA FinishScopes ==
  ASSUME LoopsHoldNoTry, ContextInv, HandlersNest, depth > 0, NEW st, Finish(st), tail' = tail
  PROVE  HandlersNest'
<1>1. PICK n, a, hs : n = depth - 1 /\ a = cstack[depth] /\ hs = BelowDepth(handlers, depth)
  OBVIOUS
<1>2. /\ \A i \in 0 .. n - 1 : Resumed(i)' = Resumed(i)
      /\ n \in Nat /\ depth' = n /\ a.saved = Resumed(n) /\ a.saved \in Frame /\ a \in Activation
      /\ Popped(hs, handlers) /\ \A k \in DOMAIN hs : hs[k].depth <= n
      /\ \A k \in DOMAIN handlers : handlers[k].depth <= n => k \in DOMAIN hs
      /\ pending # None /\ a.kind = "op" =>
           \/ \E m \in DOMAIN hs : Caught(hs, a.saved, n, pending.tag, m)
           \/ Uncaught(hs, a.saved, n, frame.base, pending)
  BY <1>1, FinishKeepsContext
<1>3. depth = Len(cstack) /\ depth \in Nat /\ n \in 0 .. depth /\ depth \in 1 .. depth /\ a.outer \in Frame
  BY <1>1, <1>2, StackType DEF ContextInv, CallsShapes
<1>4. /\ a.outer.fn = a.saved.fn
      /\ a.kind = "op" <=> a.saved.fn \in Wasm
      /\ a.saved.fn \in Wasm => a.saved.pc \in 1 .. End(a.saved.fn)
      /\ a.saved.fn = None <=> n = 0
  <2>1. depth \in DOMAIN cstack
    BY <1>3, StackType DEF ContextInv
  <2> QED
    BY <2>1, <1>1, <1>2, <1>3 DEF ContextInv, FramesNest
<1>5. a.kind = "op" => n \in 1 .. depth
  BY <1>3, <1>4, CallsAssumption DEF Wasm
<1>6. a.kind = "op" => Installed(handlers, n, a.saved.fn, a.saved.pc)
  BY <1>2, <1>4, <1>5 DEF HandlersNest
<1>7. \A k \in DOMAIN handlers : handlers[k].depth \in Nat
  BY HandlersSorted
<1>8. \A k \in DOMAIN handlers : handlers[k].depth < n + 1 => k \in DOMAIN hs
  <2>1. \A x \in Nat : x < n + 1 => x <= n
    BY <1>2
  <2> QED
    BY <2>1, <1>2, <1>7
<1>9. \A i : i < n + 1 => Agree(hs, handlers, i)
  BY <1>2, <1>8, PoppedAgree
<1>10. Agree(hs, handlers, n) /\ \A i \in 1 .. n - 1 : Agree(hs, handlers, i)
  BY <1>2, <1>9
<1>11. a.kind = "op" => Installed(hs, n, a.saved.fn, a.saved.pc)
  BY <1>6, <1>10, InstalledSame
<1>12. CASE pending # None /\ a.kind = "op"
  <2>1. \A k \in DOMAIN handlers : handlers[k].depth < n => k \in DOMAIN hs
    BY <1>2, <1>7
  <2>2. /\ Installed(handlers', n, frame'.fn, frame'.pc)
        /\ \A i \in 1 .. n - 1 : Agree(handlers', handlers, i)
    BY <2>1, <1>2, <1>4, <1>5, <1>11, <1>12, ThrowKeepsScopes
  <2> QED
    BY <2>2, <1>2, <1>3, LowerScopes
<1>13. CASE ~ (pending # None /\ a.kind = "op")
  <2>1. /\ handlers' = hs
        /\ IF a.kind = "op"
           THEN frame' = a.saved \/ frame' = [a.saved EXCEPT !.pc = End(a.saved.fn)]
           ELSE frame' = a.saved \/ frame' = a.outer
    BY <1>1, <1>3, <1>13 DEF Finish, AfterApi
  <2>2. ASSUME n > 0, frame'.fn \in Wasm
        PROVE  Installed(handlers', n, frame'.fn, frame'.pc)
    <3>1. a.kind = "op" /\ a.saved.fn \in Wasm
      BY <2>1, <2>2, <1>2, <1>4 DEF Frame
    <3>2. CASE frame' = a.saved
      BY <3>1, <3>2, <2>1, <1>11
    <3>3. CASE frame' = [a.saved EXCEPT !.pc = End(a.saved.fn)]
      <4>1. frame'.fn = a.saved.fn /\ frame'.pc = End(a.saved.fn)
        BY <3>3, <1>2 DEF Frame
      <4>2. Of(hs, n, a.saved.fn)
        <5>1. \A k \in DOMAIN hs : hs[k].depth = n => hs[k].try \in Tries(hs[k].fn) /\ hs[k].fn = a.saved.fn
          BY <3>1, <1>2, <1>5 DEF Popped, ContextInv, HandlersOwned
        <5> QED
          BY <5>1 DEF Of
      <4>3. Installed(hs, n, a.saved.fn, End(a.saved.fn))
        BY <3>1, <4>2, <1>4, <1>11, EndInstalled
      <4> QED
        BY <4>1, <4>3, <2>1
    <3> QED
      BY <3>1, <3>2, <3>3, <2>1
  <2>3. \A i \in 1 .. n - 1 : Agree(handlers', handlers, i)
    BY <2>1, <1>10
  <2> QED
    BY <2>2, <2>3, <1>2, <1>3, LowerScopes
<1> QED
  BY <1>12, <1>13

\* The end of a run.
LEMMA RunEndsScopes ==
  ASSUME LoopsHoldNoTry, ContextInv, HandlersNest, depth > 0, NEW st, RunEnds(st)
  PROVE  HandlersNest'
<1>1. CASE Finish(st) /\ tail' = tail
  BY <1>1, FinishScopes
<1>2. CASE Finish("trap") /\ tail' = tail
  BY <1>2, FinishScopes
<1>3. CASE /\ tail # None /\ handlers' = BelowDepth(handlers, depth)
           /\ Start(tail, frame.base, frame.lbase, frame.ctx)
           /\ cstack' = cstack /\ depth' = depth /\ pending' = pending
  <2>1. PICK n : n = depth
    OBVIOUS
  <2>2. n \in Nat /\ n \in 0 .. depth /\ depth' = n /\ \A i \in 0 .. n - 1 : Resumed(i)' = Resumed(i)
    BY <1>3, <2>1, SameDepth, StackType DEF ContextInv
  <2>3. /\ Popped(handlers', handlers)
        /\ \A k \in DOMAIN handlers' : handlers'[k].depth < n
        /\ \A k \in DOMAIN handlers : handlers[k].depth < n => k \in DOMAIN handlers'
    BY <1>3, <2>1, <2>2, HandlersSorted, BelowEffect
  <2>4. \A i \in 1 .. n - 1 : Agree(handlers', handlers, i)
    <3>1. \A i : i < n => Agree(handlers', handlers, i)
      BY <2>3, PoppedAgree
    <3> QED
      BY <3>1, <2>2
  <2>5. \A k \in DOMAIN handlers' : handlers'[k].depth # n
    BY <2>2, <2>3, HandlersSorted DEF Popped
  <2>6. frame'.pc = 1
    BY <1>3 DEF Start
  <2>7. frame'.fn \in Wasm => Installed(handlers', n, frame'.fn, frame'.pc)
    BY <2>5, <2>6, BareInstalled
  <2> QED
    BY <2>2, <2>4, <2>7, LowerScopes
<1> QED
  BY <1>1, <1>2, <1>3 DEF RunEnds

\* Every step keeps the handlers matched with the scopes.
LEMMA ScopesStep ==
  ASSUME LoopsHoldNoTry, ScopesInv, [Next]_vars
  PROVE  ScopesInv'
<1>1. ContextInv /\ HandlersNest /\ ContextInv'
  BY ContextStep DEF ScopesInv
<1>2. CASE UNCHANGED vars
  BY <1>1, <1>2 DEF vars, HandlersNest, Resumed, ScopesInv
<1>3. ASSUME NEW g \in Func, Call(g)
      PROVE  HandlersNest'
  <2>1. AtAny /\ CallFn(g, "op", Next1, sp - Arity(g))
    BY <1>3 DEF Call
  <2>2. sp - Arity(g) \in Int
    BY <1>1, CallsAssumption DEF Arity, ContextInv, CallsShapes
  <2> QED
    BY <2>1, <2>2, <1>1, CallScopes
<1>4. ASSUME NEW g \in Func, ApiCall(g) \/ ApiStart(g)
      PROVE  HandlersNest'
  <2>1. InHost /\ \E kind \in {"call", "start"} : CallFn(g, kind, EntryFrame(g), frame.base)
    BY <1>4 DEF ApiCall, ApiStart
  <2> QED
    BY <2>1, <1>1, CallScopes
<1>5. CASE \/ Plain \/ Return \/ Trap \/ (\E g \in Func : TailCall(g))
           \/ InWasm /\ \E c \in Constructs(frame.fn) : Br(c)
  BY <1>1, <1>5, MoveScopes DEF ScopesInv
<1>6. CASE TryTable
  BY <1>1, <1>6, TryTableScopes DEF ScopesInv
<1>7. CASE \E t \in Tag : Throw(t)
  BY <1>1, <1>7, ThrowScopes DEF ScopesInv
<1>8. CASE WasmEnds \/ HostReturns \/ HostTraps
  <2>1. depth > 0 /\ \E st : RunEnds(st)
    BY <1>1, <1>8, WhoRuns, StackType DEF WasmEnds, HostReturns, HostTraps, ContextInv
  <2> QED
    BY <2>1, <1>1, RunEndsScopes DEF ScopesInv
<1>9. HandlersNest' => ScopesInv'
  BY <1>1 DEF ScopesInv
<1> QED
  BY <1>2, <1>3, <1>4, <1>5, <1>6, <1>7, <1>8, <1>9 DEF Next

\* What a throw finds, once prune_handlers has run.
LEMMA ScopesMatch ==
  ASSUME ScopesInv
  PROVE  HandlersMatchScopes
<1> DEFINE hs == Prune(handlers, depth, frame.pc + 1)
           own == {k \in DOMAIN hs : hs[k].depth = depth}
<1>1. ContextInv /\ HandlersNest
  BY DEF ScopesInv
<1>2. ASSUME AtAny
      PROVE  /\ \A k \in own : hs[k].fn = frame.fn
             /\ {hs[k].try : k \in own} = Tries(frame.fn) \cap Around(frame.fn, frame.pc)
             /\ \A j, k \in own : j < k => hs[j].try < hs[k].try
  <2>1. PICK f, p, n, g : f = frame.fn /\ p = frame.pc /\ n = depth /\ g = hs
    OBVIOUS
  <2>2. InWasm /\ Body(f)[p].op = "any"
    BY <1>2, <2>1 DEF AtAny, Instr
  <2>3. /\ f \in Wasm /\ p \in Nat /\ n \in Nat /\ p + 1 \in Nat
        /\ Installed(handlers, n, f, p) /\ Of(handlers, n, f)
        /\ \A k \in DOMAIN handlers : handlers[k].depth = n => handlers[k].fn = f
    BY <1>1, <2>1, <2>2, OwnScopes
  <2>4. handlers \in Seq(Handler) /\ Sorted(handlers) /\ \A k \in DOMAIN handlers : handlers[k].depth <= n
    BY <1>1, <2>1, HandlersSorted
  <2>5. /\ Popped(g, handlers)
        /\ \A k \in DOMAIN g : g[k].depth = n => p + 1 < Body(f)[g[k].try].end
        /\ \A k \in DOMAIN handlers : handlers[k].depth = n /\ p + 1 < Body(f)[handlers[k].try].end => k \in DOMAIN g
    BY <2>1, <2>3, <2>4, PrunedInstalled
  <2>6. \A k \in DOMAIN g : k \in DOMAIN handlers /\ g[k] = handlers[k]
    BY <2>5 DEF Popped
  <2> DEFINE mine == {k \in DOMAIN g : g[k].depth = n}
  <2>7. \A k \in mine : g[k].fn = f
    BY <2>3, <2>6
  <2>8. \A j, k \in mine : j < k => g[j].try < g[k].try
    BY <2>3, <2>6 DEF Installed
  <2>9. ASSUME NEW k \in mine
        PROVE  g[k].try \in Tries(f) \cap Around(f, p)
    <3>1. g[k].try \in Tries(f) /\ g[k].try < p /\ p + 1 < Body(f)[g[k].try].end
      BY <2>3, <2>5, <2>6 DEF Installed, Of
    <3>2. g[k].try \in Constructs(f) /\ Body(f)[g[k].try].end \in Nat
      BY <2>3, <3>1, TryPlaces
    <3> QED
      BY <2>3, <3>1, <3>2 DEF Around
  <2>10. ASSUME NEW t \in Tries(f) \cap Around(f, p)
         PROVE  \E k \in mine : g[k].try = t
    <3>1. PICK k \in DOMAIN handlers : handlers[k].depth = n /\ handlers[k].try = t
      BY <2>3 DEF Installed
    <3>2. p + 1 < Body(f)[t].end
      <4>1. Body(f)[t].end \in Nat /\ p < Body(f)[t].end - 1
        BY <2>3, TryPlaces DEF Around
      <4> QED
        BY <4>1, <2>3
    <3>3. k \in DOMAIN g
      BY <3>1, <3>2, <2>5
    <3> QED
      BY <3>1, <3>3, <2>6
  <2>11. own = mine /\ hs = g
    BY <2>1
  <2> HIDE DEF hs, own, mine
  <2>12. {g[k].try : k \in mine} = Tries(f) \cap Around(f, p)
    BY <2>9, <2>10
  <2> QED
    BY <2>1, <2>7, <2>8, <2>11, <2>12
<1>3. ASSUME InHost
      PROVE  own = {}
  <2>1. frame.fn \notin Wasm /\ depth \in Nat
    BY <1>1, <1>3, WhoRuns, StackType DEF ContextInv, InWasm
  <2>2. \A k \in DOMAIN handlers : handlers[k].depth # depth
    <3>1. ASSUME NEW k \in DOMAIN handlers, handlers[k].depth = depth
          PROVE  FALSE
      <4>1. handlers[k].fn \in Wasm /\ depth \in 1 .. depth
        BY <1>1, <3>1, HandlersSorted DEF Handler, ContextInv, HandlersOwned
      <4>2. handlers[k].fn = frame.fn
        BY <1>1, <3>1, <4>1 DEF Resumed, ContextInv, HandlersOwned
      <4> QED
        BY <4>1, <4>2, <2>1
    <3> QED
      BY <3>1
  <2>3. frame.pc + 1 \in Nat
    BY <1>1 DEF ContextInv, CallsShapes, Frame
  <2>4. Popped(hs, handlers)
    BY <1>1, <2>1, <2>3, HandlersSorted, PruneEffect
  <2> QED
    BY <2>2, <2>4 DEF Popped
<1> QED
  BY <1>2, <1>3 DEF HandlersMatchScopes

\* Where no try_table is in a loop, a throw finds exactly the try_tables around it.
THEOREM ScopesCorrect ==
  ASSUME LoopsHoldNoTry
  PROVE  Spec => []HandlersMatchScopes
<1>1. Init => ScopesInv
  <2> SUFFICES ASSUME Init
               PROVE  ScopesInv
    OBVIOUS
  <2>1. ContextInv
    BY InitContext
  <2>2. HandlersNest
    BY DEF Init, HandlersNest
  <2> QED
    BY <2>1, <2>2 DEF ScopesInv
<1>2. ScopesInv /\ [Next]_vars => ScopesInv'
  BY ScopesStep
<1>3. ScopesInv => HandlersMatchScopes
  BY ScopesMatch
<1> QED
  BY <1>1, <1>2, <1>3, PTL DEF Spec

-----------------------------------------------------------------------------
(***************************************************************************)
(* Operands, traps, tail calls and exceptions.                             *)
(***************************************************************************)

\* The heights the validator gives places.
LEMMA Heights ==
  ASSUME NEW f \in Wasm
  PROVE  /\ \A q \in 1 .. End(f) : Height(f, q) \in Nat
         /\ Height(f, 1) = 0
         /\ \A c \in Constructs(f) : /\ Height(f, c) \in Nat
                                     /\ Height(f, LabelOf(f, c)) = Height(f, c)
<1>1. End(f) \in Nat \ {0}
  BY BodyPlaces
<1>2. ASSUME NEW q \in 1 .. End(f)
      PROVE  Height(f, q) \in Nat
  <2>1. Height(f, q) \in Int
    BY HeightStep
  <2>2. Height(f, q) >= 0
    BY ValidAssumption DEF Validated
  <2> QED
    BY <2>1, <2>2
<1>3. Height(f, 1) = 0
  <2>1. \A op : {i \in 1 .. 1 - 1 : Body(f)[i].op = op} = {}
    OBVIOUS
  <2>2. Cardinality({}) = 0
    BY FS_EmptySet
  <2> QED
    BY <2>1, <2>2 DEF Height
<1>4. ASSUME NEW c \in Constructs(f)
      PROVE  Height(f, c) \in Nat /\ Height(f, LabelOf(f, c)) = Height(f, c)
  <2>1. c \in 1 .. End(f) /\ c \in Nat \ {0}
    BY <1>1, BodyPlaces DEF End
  <2>2. Height(f, c) \in Nat
    BY <2>1, <1>2
  <2>3. CASE Body(f)[c].op = "loop"
    <3>1. Height(f, c + 1) = Height(f, c)
      BY <2>1, <2>2, <2>3, HeightStep
    <3> QED
      BY <2>2, <2>3, <3>1 DEF LabelOf
  <2>4. CASE Body(f)[c].op # "loop"
    BY <2>2, <2>4, ValidAssumption DEF LabelOf, Validated
  <2> QED
    BY <2>3, <2>4
<1> QED
  BY <1>2, <1>3, <1>4

\* Whether guest code runs is told by the function of the frame.
LEMMA GuestRuns ==
  /\ InWasm <=> frame.fn \in Wasm
  /\ InWasm' <=> frame'.fn \in Wasm
  /\ InHost <=> ~ InWasm
  /\ InHost' <=> ~ InWasm'
BY CallsAssumption DEF InWasm, InHost, Wasm

\* Recording a trap changes the innermost activation, the n-th, alone.
RaisedOnTop(r, cs, n) ==
  /\ \A i \in 1 .. n : r[i].kind = cs[i].kind /\ r[i].owes = cs[i].owes
  /\ \A i \in 1 .. n - 1 : r[i] = cs[i]
  /\ Len(r) = n /\ r[n].raised = TRUE

OwedOnTop(r, cs, n) ==
  /\ \A i \in 1 .. n : r[i].kind = cs[i].kind /\ r[i].raised = cs[i].raised
  /\ \A i \in 1 .. n - 1 : r[i] = cs[i]
  /\ Len(r) = n /\ (n > 0 => r[n].owes = TRUE)

\* What the record of a trap changes.
LEMMA RaiseEffect ==
  ASSUME NEW cs \in Seq(Activation), NEW n, n = Len(cs), n > 0, NEW r, r = Raise(cs)
  PROVE  RaisedOnTop(r, cs, n)
<1>1. n \in Nat /\ n \in 1 .. n /\ DOMAIN cs = 1 .. n /\ \A i \in 1 .. n : cs[i] \in Activation
  BY ElementOfSeq, LenProperties
<1> DEFINE c == [cs[n] EXCEPT !.raised = TRUE]
<1>2. r = [cs EXCEPT ![n] = c]
  BY <1>1 DEF Raise
<1>3. c.raised = TRUE /\ c.kind = cs[n].kind /\ c.owes = cs[n].owes /\ c \in Activation
  BY <1>1 DEF Activation
<1> HIDE DEF c
<1>4. Len(r) = n /\ \A i \in 1 .. n : r[i] = IF i = n THEN c ELSE cs[i]
  BY <1>1, <1>2, <1>3, ExceptSeq
<1>5. \A i \in 1 .. n - 1 : i \in 1 .. n /\ i # n
  BY <1>1
<1> QED
  BY <1>1, <1>3, <1>4, <1>5 DEF RaisedOnTop

\* What the record of a trap in a call changes.
LEMMA OweEffect ==
  ASSUME NEW cs \in Seq(Activation), NEW n, n = Len(cs), NEW r, r = Owe(cs)
  PROVE  OwedOnTop(r, cs, n)
<1>1. n \in Nat /\ DOMAIN cs = 1 .. n /\ \A i \in 1 .. n : cs[i] \in Activation
  BY ElementOfSeq, LenProperties
<1>2. CASE n = 0
  <2>1. cs = << >> /\ r = cs
    BY <1>2, EmptySeq DEF Owe
  <2> QED
    BY <2>1, <1>1, <1>2 DEF OwedOnTop
<1>3. CASE n > 0
  <2> DEFINE c == [cs[n] EXCEPT !.owes = TRUE]
  <2>1. cs # << >> /\ n \in 1 .. n
    BY <1>1, <1>3, EmptySeq
  <2>2. r = [cs EXCEPT ![n] = c]
    BY <2>1, <1>1 DEF Owe
  <2>3. c.owes = TRUE /\ c.kind = cs[n].kind /\ c.raised = cs[n].raised /\ c \in Activation
    BY <2>1, <1>1 DEF Activation
  <2> HIDE DEF c
  <2>4. Len(r) = n /\ \A i \in 1 .. n : r[i] = IF i = n THEN c ELSE cs[i]
    BY <2>1, <2>2, <2>3, <1>1, ExceptSeq
  <2>5. \A i \in 1 .. n - 1 : i \in 1 .. n /\ i # n
    BY <1>1
  <2> QED
    BY <2>1, <2>3, <2>4, <2>5 DEF OwedOnTop
<1>4. n = 0 \/ n > 0
  BY <1>1
<1> QED
  BY <1>2, <1>3, <1>4, Zenon

\* The links below the running frame, the n-th, stay.
LEMMA LinksStay ==
  ASSUME ContextInv, CallsLinked, NEW n \in 0 .. depth, CallsUpTo(n),
         \A i \in 0 .. n - 1 : Resumed(i)' = Resumed(i),
         frame'.base = Resumed(n).base,
         n > 0 => Arity(frame'.fn) = Arity(Resumed(n).fn)
  PROVE  CallsLinked'
<1>1. depth \in Nat /\ DOMAIN cstack = 1 .. depth /\ depth' = n /\ DOMAIN cstack' = 1 .. n
  BY StackType, LenProperties DEF ContextInv, CallsUpTo
<1>2. Resumed(n)' = frame'
  BY <1>1 DEF Resumed
<1>3. ASSUME NEW i \in 1 .. n
      PROVE  LET s == cstack'[i].saved
                 t == Resumed(i)' IN
             IF cstack'[i].kind = "op"
             THEN s.base <= t.base /\ t.base + Arity(t.fn) = s.base + Height(s.fn, s.pc)
             ELSE t.base = s.base
  <2>1. i \in DOMAIN cstack /\ cstack'[i].kind = cstack[i].kind /\ cstack'[i].saved = cstack[i].saved
    BY <1>1 DEF CallsUpTo
  <2>2. Resumed(i)'.base = Resumed(i).base /\ Arity(Resumed(i)'.fn) = Arity(Resumed(i).fn)
    <3>1. i = n \/ i \in 0 .. n - 1
      BY <1>1
    <3> QED
      BY <3>1, <1>1, <1>2
  <2> QED
    BY <2>1, <2>2 DEF CallsLinked
<1> QED
  BY <1>1, <1>3 DEF CallsLinked

\* Popping keeps the heights of the other handlers.
LEMMA PoppedHeights ==
  ASSUME HandlerHeights, Popped(handlers', handlers)
  PROVE  HandlerHeights'
BY DEF HandlerHeights, Popped

\* The operands after an exception came to the n-th frame, fr: a catch has what
\* its label expects.
LEMMA ThrowHeights ==
  ASSUME ContextInv, HandlerHeights, NEW n \in 1 .. depth, NEW fr \in Frame, fr.fn \in Wasm, fr.fn = Resumed(n).fn,
         NEW hs, Popped(hs, handlers), NEW tag, NEW exn, NEW h \in Int, fr.base <= h,
         (\E m \in DOMAIN hs : Caught(hs, fr, n, tag, m)) \/ Uncaught(hs, fr, n, h, exn)
  PROVE  /\ frame'.base = fr.base /\ frame'.fn = fr.fn
         /\ fr.base <= sp'
         /\ frame'.pc < End(fr.fn) => sp' = fr.base + Height(fr.fn, frame'.pc)
         /\ Popped(handlers', handlers)
         /\ pending' = None \/ (pending' = exn /\ frame'.pc = End(fr.fn))
<1>1. fr.base \in Int /\ End(fr.fn) \in Nat
  BY BodyPlaces DEF Frame
<1>2. ASSUME NEW m \in DOMAIN hs, Caught(hs, fr, n, tag, m)
      PROVE  /\ frame'.base = fr.base /\ frame'.fn = fr.fn
             /\ fr.base <= sp' /\ sp' = fr.base + Height(fr.fn, frame'.pc)
             /\ Popped(handlers', handlers) /\ pending' = None
  <2> DEFINE t == hs[m].try
             label == Body(fr.fn)[t].label
  <2>1. m \in DOMAIN handlers /\ hs[m] = handlers[m] /\ hs[m].depth = n
    BY <1>2 DEF Popped, Caught
  <2>2. hs[m].fn = fr.fn /\ t \in Tries(fr.fn) /\ hs[m].sp = Height(fr.fn, t) - 1
    BY <2>1 DEF ContextInv, HandlersOwned, HandlerHeights
  <2>3. label \in Constructs(fr.fn) /\ t \in Constructs(fr.fn)
    BY <2>2, CatchLabel
  <2>4. /\ Height(fr.fn, t) \in Nat /\ Height(fr.fn, label) \in Nat
        /\ Height(fr.fn, LabelOf(fr.fn, label)) = Height(fr.fn, label)
    BY <2>3, Heights
  <2>5. /\ sp' = fr.base + hs[m].sp + 1 - (Height(fr.fn, t) - Height(fr.fn, label))
        /\ frame' = [fr EXCEPT !.pc = LabelOf(fr.fn, label)]
        /\ pending' = None /\ Popped(handlers', hs)
    BY <1>2, <2>2 DEF Caught
  <2>6. frame'.base = fr.base /\ frame'.fn = fr.fn /\ frame'.pc = LabelOf(fr.fn, label)
    BY <2>5 DEF Frame
  <2> HIDE DEF t, label
  <2>7. sp' = fr.base + Height(fr.fn, label)
    BY <2>2, <2>4, <2>5, <1>1
  <2>8. Popped(handlers', handlers)
    BY <2>5, PoppedTwice, HandlersSorted
  <2> QED
    BY <2>4, <2>5, <2>6, <2>7, <2>8, <1>1
<1>3. ASSUME Uncaught(hs, fr, n, h, exn)
      PROVE  /\ frame'.base = fr.base /\ frame'.fn = fr.fn
             /\ fr.base <= sp' /\ frame'.pc = End(fr.fn)
             /\ Popped(handlers', handlers) /\ pending' = exn
  <2>1. Popped(handlers', hs)
    BY <1>3 DEF Uncaught
  <2>2. Popped(handlers', handlers)
    BY <2>1, PoppedTwice, HandlersSorted
  <2> QED
    BY <1>3, <2>2 DEF Uncaught, Frame
<1> QED
  BY <1>1, <1>2, <1>3

RestInv == HeightsAgree /\ TrapsAgree /\ TailsAgree /\ Unwinds

\* Inside a body nothing has trapped, and nothing is pending.
LEMMA Calm ==
  ASSUME CallsInv, InWasm, frame.pc < End(frame.fn), NEW f, f = frame.fn, NEW p, p = frame.pc, NEW n, n = depth
  PROVE  /\ f \in Wasm /\ p \in 1 .. End(f) /\ p \in Nat \ {0} /\ End(f) \in Nat /\ p < End(f)
         /\ n \in Nat /\ n > 0 /\ n \in 0 .. depth /\ n \in 1 .. depth
         /\ trapped = FALSE /\ tail = None /\ pending = None
         /\ \A i \in 1 .. n : ~ cstack[i].raised
         /\ sp = frame.base + Height(f, p) /\ frame.base \in Int /\ Height(f, p) \in Nat
<1>1. ContextInv /\ HeightsAgree /\ TrapsAgree /\ TailsAgree /\ Unwinds
  BY DEF CallsInv
<1>2. /\ f \in Wasm /\ p \in 1 .. End(f) /\ End(f) \in Nat \ {0} /\ n > 0 /\ n \in Nat /\ frame \in Frame
      /\ trapped \in BOOLEAN /\ DOMAIN cstack = 1 .. n /\ n = Len(cstack)
  BY <1>1, WhoRuns, BodyPlaces, StackType DEF ContextInv, CallsShapes
<1>3. p \in Nat /\ p < End(f) /\ p # End(f) /\ frame.base \in Int
  BY <1>2 DEF Frame
<1>4. trapped = FALSE
  BY <1>1, <1>2, <1>3 DEF TrapsAgree
<1>5. tail = None
  BY <1>1, <1>3 DEF TailsAgree
<1>6. pending = None
  BY <1>1, <1>3 DEF Unwinds
<1>7. ASSUME NEW i \in 1 .. n
      PROVE  ~ cstack[i].raised
  <2>1. ~ cstack[n].raised
    BY <1>1, <1>2, <1>4 DEF TrapsAgree, Top
  <2> QED
    BY <2>1, <1>1, <1>2 DEF TrapsAgree
<1>8. sp = frame.base + Height(f, p) /\ Height(f, p) \in Nat
  BY <1>1, <1>2, <1>3, Heights DEF HeightsAgree
<1> QED
  BY <1>2, <1>3, <1>4, <1>5, <1>6, <1>7, <1>8

\* Where no trap was raised and the flag is clear, they agree.
LEMMA CalmTraps ==
  ASSUME ContextInv', trapped' = FALSE, \A i \in 1 .. depth' : ~ cstack'[i].raised
  PROVE  TrapsAgree'
<1>1. depth' = Len(cstack') /\ cstack' \in Seq(Activation) /\ FramesNest'
  BY DEF ContextInv, CallsShapes
<1>2. DOMAIN cstack' = 1 .. depth' /\ depth' \in Nat
  BY <1>1, LenProperties
<1>3. InWasm' => ~ cstack'[depth'].raised
  <2>1. InWasm' => depth' # 0
    <3>1. frame'.fn = None <=> depth' = 0
      <4>1. \A i \in 0 .. depth' : Resumed(i)'.fn = None <=> i = 0
        BY <1>1 DEF FramesNest
      <4>2. \A i : i = depth' => Resumed(i)' = frame'
        BY DEF Resumed
      <4>3. depth' \in 0 .. depth'
        BY <1>2
      <4> QED
        BY <4>1, <4>2, <4>3
    <3> QED
      BY <3>1 DEF InWasm, InHost
  <2> QED
    BY <2>1, <1>2
<1> QED
  BY <1>1, <1>2, <1>3 DEF TrapsAgree, Top

\* Where nothing has trapped and nothing is pending, all agrees.
LEMMA CalmRest ==
  ASSUME ContextInv', trapped' = FALSE, \A i \in 1 .. depth' : ~ cstack'[i].raised,
         tail' = None, pending' = None
  PROVE  TrapsAgree' /\ TailsAgree' /\ Unwinds'
BY CalmTraps DEF TailsAgree, Unwinds

\* Instructions within the frame, but for a trap.
LEMMA MoveRest ==
  ASSUME CallsInv, ContextInv',
         Plain \/ Return \/ (\E g \in Func : TailCall(g)) \/ (InWasm /\ \E c \in Constructs(frame.fn) : Br(c))
  PROVE  RestInv'
<1>1. PICK f, p, n : f = frame.fn /\ p = frame.pc /\ n = depth
  OBVIOUS
<1>2. ContextInv /\ HeightsAgree
  BY DEF CallsInv
<1>3. /\ InWasm /\ p < End(f) /\ depth' = depth /\ handlers' = handlers /\ pending' = pending
      /\ \E q \in 1 .. End(f) : frame' = [frame EXCEPT !.pc = q]
      /\ frame \in Frame
  BY <1>1, <1>2, Moves DEF ContextInv, CallsShapes
<1>4. cstack' = cstack /\ trapped' = trapped
  BY DEF Plain, Return, TailCall, Br
<1>5. /\ f \in Wasm /\ p \in 1 .. End(f) /\ p \in Nat \ {0} /\ End(f) \in Nat /\ p < End(f)
      /\ n \in Nat /\ n > 0 /\ n \in 0 .. depth /\ n \in 1 .. depth
      /\ trapped = FALSE /\ tail = None /\ pending = None
      /\ \A i \in 1 .. n : ~ cstack[i].raised
      /\ sp = frame.base + Height(f, p) /\ frame.base \in Int /\ Height(f, p) \in Nat
  BY <1>1, <1>3, Calm
<1>6. frame'.fn = f /\ frame'.base = frame.base /\ frame'.pc \in 1 .. End(f)
  BY <1>1, <1>3 DEF Frame
<1>7. CallsUpTo(n) /\ \A i \in 0 .. n - 1 : Resumed(i)' = Resumed(i)
  BY <1>1, <1>2, <1>3, <1>4, SameDepth
<1>8. Resumed(n) = frame
  BY <1>1 DEF Resumed
<1>9. CallsLinked'
  BY <1>1, <1>2, <1>5, <1>6, <1>7, <1>8, LinksStay DEF HeightsAgree
<1>10. HandlerHeights'
  <2>1. Popped(handlers', handlers)
    BY <1>2, <1>3, HandlersSorted
  <2> QED
    BY <2>1, <1>2, PoppedHeights DEF HeightsAgree
<1>11. frame.base <= sp' /\ (frame'.pc < End(f) => sp' = frame.base + Height(f, frame'.pc))
  <2>1. CASE Plain
    <3>1. /\ frame'.pc = p + 1
          /\ sp' = CASE Body(f)[p].op = "push" -> sp + 1 [] Body(f)[p].op = "drop" -> sp - 1 [] OTHER -> sp
      BY <2>1, <1>1, <1>3 DEF Plain, Instr, Next1, Frame
    <3>2. sp' = frame.base + Height(f, p + 1)
      BY <3>1, <1>5, HeightStep
    <3>3. Height(f, p + 1) \in Nat
      <4>1. p + 1 \in 1 .. End(f)
        BY <1>5
      <4> QED
        BY <4>1, <1>5, Heights
    <3> QED
      BY <3>1, <3>2, <3>3, <1>5
  <2>2. CASE Return \/ \E g \in Func : TailCall(g)
    <3>1. frame'.pc = End(f) /\ sp' = sp
      BY <2>2, <1>1, <1>3 DEF Return, TailCall, Frame
    <3> QED
      BY <3>1, <1>5
  <2>3. CASE \E c \in Constructs(frame.fn) : Br(c)
    <3>1. PICK c \in Constructs(f) : Br(c)
      BY <2>3, <1>1
    <3>2. /\ sp' = sp - (Height(f, p) - Height(f, c))
          /\ frame' = [frame EXCEPT !.pc = LabelOf(f, c)]
      BY <3>1, <1>1 DEF Br
    <3>3. frame'.pc = LabelOf(f, c)
      BY <3>2, <1>3 DEF Frame
    <3>4. Height(f, c) \in Nat /\ Height(f, LabelOf(f, c)) = Height(f, c)
      BY <1>5, Heights
    <3> QED
      BY <3>2, <3>3, <3>4, <1>5
  <2> QED
    BY <2>1, <2>2, <2>3
<1>12. HeightsAgree'
  BY <1>6, <1>9, <1>10, <1>11 DEF HeightsAgree
<1>13. CASE tail' = None
  <2>1. TrapsAgree' /\ TailsAgree' /\ Unwinds'
    BY <1>1, <1>3, <1>4, <1>5, <1>13, CalmRest
  <2> QED
    BY <2>1, <1>12 DEF RestInv
<1>14. CASE \E g \in Func : TailCall(g)
  <2>1. PICK g \in Func : TailCall(g)
    BY <1>14
  <2>2. tail' = g /\ Arity(g) = Arity(f) /\ frame'.pc = End(f)
    BY <2>1, <1>1, <1>3 DEF TailCall, Frame
  <2>3. TailsAgree' /\ Unwinds'
    BY <2>2, <1>3, <1>5, <1>6, GuestRuns DEF TailsAgree, Unwinds
  <2>4. TrapsAgree'
    BY <1>1, <1>3, <1>4, <1>5, CalmTraps
  <2> QED
    BY <2>3, <2>4, <1>12 DEF RestInv
<1>15. tail' = tail \/ \E g \in Func : TailCall(g)
  BY DEF Plain, Return, Br
<1> QED
  BY <1>5, <1>13, <1>14, <1>15

\* A trapping instruction.
LEMMA TrapRest ==
  ASSUME CallsInv, ContextInv', Trap
  PROVE  RestInv'
<1>1. PICK f, p, n : f = frame.fn /\ p = frame.pc /\ n = depth
  OBVIOUS
<1>2. ContextInv /\ HeightsAgree /\ frame \in Frame
  BY DEF CallsInv, ContextInv, CallsShapes
<1>3. /\ AtAny /\ InWasm /\ p < End(f) /\ depth' = depth /\ handlers' = handlers /\ pending' = pending
      /\ frame' = [frame EXCEPT !.pc = End(f)] /\ trapped' = TRUE /\ cstack' = Raise(cstack)
      /\ sp' = sp /\ tail' = tail
  BY <1>1 DEF Trap, AtAny
<1>4. /\ f \in Wasm /\ p \in 1 .. End(f) /\ p \in Nat \ {0} /\ End(f) \in Nat /\ p < End(f)
      /\ n \in Nat /\ n > 0 /\ n \in 0 .. depth /\ n \in 1 .. depth
      /\ trapped = FALSE /\ tail = None /\ pending = None
      /\ \A i \in 1 .. n : ~ cstack[i].raised
      /\ sp = frame.base + Height(f, p) /\ frame.base \in Int /\ Height(f, p) \in Nat
  BY <1>1, <1>3, Calm
<1>5. frame'.fn = f /\ frame'.base = frame.base /\ frame'.pc = End(f)
  BY <1>1, <1>3, <1>2 DEF Frame
<1>6. CallsUpTo(n) /\ \A i \in 0 .. n - 1 : Resumed(i)' = Resumed(i)
  BY <1>1, <1>2, <1>3, <1>4, SameDepth
<1>7. Resumed(n) = frame
  BY <1>1 DEF Resumed
<1>8. CallsLinked'
  BY <1>1, <1>2, <1>4, <1>5, <1>6, <1>7, LinksStay DEF HeightsAgree
<1>9. HandlerHeights'
  <2>1. Popped(handlers', handlers)
    BY <1>2, <1>3, HandlersSorted
  <2> QED
    BY <2>1, <1>2, PoppedHeights DEF HeightsAgree
<1>10. HeightsAgree'
  BY <1>3, <1>4, <1>5, <1>8, <1>9 DEF HeightsAgree
<1>11. TrapsAgree'
  <2>1. cstack \in Seq(Activation) /\ n = Len(cstack)
    BY <1>1, <1>2 DEF ContextInv, CallsShapes
  <2>2. /\ \A i \in 1 .. n - 1 : cstack'[i] = cstack[i]
        /\ Len(cstack') = n /\ cstack'[n].raised = TRUE
    <3>1. RaisedOnTop(cstack', cstack, n)
      BY <2>1, <1>3, <1>4, RaiseEffect
    <3> QED
      BY <3>1 DEF RaisedOnTop
  <2>3. DOMAIN cstack' = 1 .. n /\ depth' = n
    BY <1>1, <1>3, <1>6, LenProperties DEF CallsUpTo
  <2>4. \A i \in DOMAIN cstack' : cstack'[i].raised => i = n
    <3>1. \A i \in 1 .. n : i = n \/ i \in 1 .. n - 1
      BY <1>4
    <3> QED
      BY <3>1, <2>2, <2>3, <1>4
  <2> QED
    BY <2>2, <2>3, <2>4, <1>3, <1>4, <1>5, GuestRuns DEF TrapsAgree, Top
<1>12. TailsAgree' /\ Unwinds'
  BY <1>3, <1>4 DEF TailsAgree, Unwinds
<1> QED
  BY <1>10, <1>11, <1>12 DEF RestInv

\* try_table: the handler's height is that beneath the parameter.
LEMMA TryTableRest ==
  ASSUME CallsInv, ContextInv', TryTable
  PROVE  RestInv'
<1>1. PICK f, p, n, h : /\ f = frame.fn /\ p = frame.pc /\ n = depth
                        /\ h = [depth |-> depth, fn |-> frame.fn, try |-> frame.pc,
                                sp |-> sp - frame.base - 1]
  OBVIOUS
<1>2. ContextInv /\ HeightsAgree /\ frame \in Frame /\ sp \in Int
  BY DEF CallsInv, ContextInv, CallsShapes
<1>3. /\ InWasm /\ p < End(f) /\ Body(f)[p].op = "try" /\ frame' = [frame EXCEPT !.pc = p + 1]
      /\ sp' = sp /\ cstack' = cstack /\ depth' = depth /\ trapped' = trapped /\ tail' = tail /\ pending' = pending
      /\ handlers' = Append(Prune(handlers, n, p + 1), h)
  BY <1>1 DEF TryTable, Next1, Instr
<1>4. /\ f \in Wasm /\ p \in 1 .. End(f) /\ p \in Nat \ {0} /\ End(f) \in Nat /\ p < End(f)
      /\ n \in Nat /\ n > 0 /\ n \in 0 .. depth /\ n \in 1 .. depth
      /\ trapped = FALSE /\ tail = None /\ pending = None
      /\ \A i \in 1 .. n : ~ cstack[i].raised
      /\ sp = frame.base + Height(f, p) /\ frame.base \in Int /\ Height(f, p) \in Nat
  BY <1>1, <1>3, Calm
<1>5. frame'.fn = f /\ frame'.base = frame.base /\ frame'.pc = p + 1
  BY <1>1, <1>2, <1>3 DEF Frame
<1>6. CallsUpTo(n) /\ \A i \in 0 .. n - 1 : Resumed(i)' = Resumed(i)
  BY <1>1, <1>2, <1>3, <1>4, SameDepth
<1>7. Resumed(n) = frame
  BY <1>1 DEF Resumed
<1>8. CallsLinked'
  BY <1>1, <1>2, <1>4, <1>5, <1>6, <1>7, LinksStay DEF HeightsAgree
<1>9. h.fn = f /\ h.try = p /\ h.sp = Height(f, p) - 1 /\ h \in Handler
  BY <1>1, <1>2, <1>4 DEF Handler
<1>10. HandlerHeights'
  <2>1. PICK g : g = Prune(handlers, n, p + 1)
    OBVIOUS
  <2>2. p + 1 \in Nat /\ handlers \in Seq(Handler)
    BY <1>2, <1>4, HandlersSorted
  <2>3. Popped(g, handlers)
    BY <2>1, <2>2, <1>4, PruneEffect
  <2>4. handlers' = Append(g, h) /\ g \in Seq(Handler)
    BY <2>1, <2>3, <1>3 DEF Popped
  <2>5. /\ DOMAIN handlers' = 1 .. Len(g) + 1 /\ handlers'[Len(g) + 1] = h
        /\ \A k \in 1 .. Len(g) : handlers'[k] = g[k]
        /\ DOMAIN g = 1 .. Len(g) /\ Len(g) \in Nat
    <3>1. /\ handlers' \in Seq(Handler) /\ Len(handlers') = Len(g) + 1 /\ handlers'[Len(g) + 1] = h
          /\ \A k \in 1 .. Len(g) : handlers'[k] = g[k]
      BY <2>4, <1>9, AppendProperties
    <3> QED
      BY <3>1, <2>4, LenProperties
  <2>6. \A k \in DOMAIN handlers' : handlers'[k] = h \/ (k \in DOMAIN handlers /\ handlers'[k] = handlers[k])
    BY <2>3, <2>5 DEF Popped
  <2> QED
    BY <2>6, <1>2, <1>9 DEF HandlerHeights, HeightsAgree
<1>11. Height(f, p + 1) = Height(f, p)
  BY <1>3, <1>4, HeightStep
<1>12. HeightsAgree'
  BY <1>3, <1>4, <1>5, <1>8, <1>10, <1>11 DEF HeightsAgree
<1>13. TrapsAgree' /\ TailsAgree' /\ Unwinds'
  BY <1>1, <1>3, <1>4, CalmRest
<1> QED
  BY <1>12, <1>13 DEF RestInv

\* throw
LEMMA ThrowRest ==
  ASSUME CallsInv, ContextInv', NEW t \in Tag, Throw(t)
  PROVE  RestInv'
<1>1. PICK f, p, n, hs, fr, exn, h : /\ f = frame.fn /\ p = frame.pc /\ n = depth /\ hs = handlers /\ fr = Next1
                                     /\ exn = [tag |-> t, level |-> Level(cstack)] /\ h = sp - 1
  OBVIOUS
<1>2. ContextInv /\ HeightsAgree
  BY DEF CallsInv
<1>3. /\ InWasm /\ p < End(f) /\ fr \in Frame /\ AtAny /\ Height(f, p) >= 1
      /\ (\E m \in DOMAIN hs : Caught(hs, fr, n, exn.tag, m)) \/ Uncaught(hs, fr, n, h, exn)
      /\ \A i \in 0 .. n - 1 : Resumed(i)' = Resumed(i)
      /\ CallsUpTo(n)
      /\ cstack' = cstack /\ depth' = depth /\ trapped' = trapped /\ tail' = tail
  BY <1>1, <1>2, ThrowInFrame DEF Throw
<1>4. /\ f \in Wasm /\ p \in 1 .. End(f) /\ p \in Nat \ {0} /\ End(f) \in Nat /\ p < End(f)
      /\ n \in Nat /\ n > 0 /\ n \in 0 .. depth /\ n \in 1 .. depth
      /\ trapped = FALSE /\ tail = None /\ pending = None
      /\ \A i \in 1 .. n : ~ cstack[i].raised
      /\ sp = frame.base + Height(f, p) /\ frame.base \in Int /\ Height(f, p) \in Nat
  BY <1>1, <1>3, Calm
<1>5. fr.fn = f /\ fr.base = frame.base /\ fr.fn = Resumed(n).fn /\ fr.base = Resumed(n).base
  BY <1>1, <1>2, <1>3, Callers DEF Resumed
<1>6. h \in Int /\ fr.base <= h /\ Popped(hs, handlers)
  BY <1>1, <1>2, <1>3, <1>4, <1>5, HandlersSorted
<1>7. /\ frame'.base = fr.base /\ frame'.fn = fr.fn
      /\ fr.base <= sp'
      /\ frame'.pc < End(fr.fn) => sp' = fr.base + Height(fr.fn, frame'.pc)
      /\ Popped(handlers', handlers)
      /\ pending' = None \/ (pending' = exn /\ frame'.pc = End(fr.fn))
  BY <1>2, <1>3, <1>4, <1>5, <1>6, ThrowHeights DEF HeightsAgree
<1>8. CallsLinked'
  BY <1>2, <1>3, <1>4, <1>5, <1>7, LinksStay DEF HeightsAgree
<1>9. HandlerHeights'
  BY <1>2, <1>7, PoppedHeights DEF HeightsAgree
<1>10. HeightsAgree'
  BY <1>5, <1>7, <1>8, <1>9 DEF HeightsAgree
<1>11. TrapsAgree' /\ TailsAgree'
  BY <1>1, <1>3, <1>4, CalmTraps DEF TailsAgree
<1>12. Unwinds'
  <2>1. pending' # None => InWasm' /\ frame'.pc = End(frame'.fn) /\ pending'.level = Level(cstack)
    BY <1>1, <1>4, <1>5, <1>7, GuestRuns
  <2> QED
    BY <2>1, <1>3, <1>4 DEF Unwinds
<1> QED
  BY <1>10, <1>11, <1>12 DEF RestInv

\* A frame's operands, as its callee was entered with them.
Linked(kind, caller, g, base) ==
  IF kind = "op"
  THEN caller.base <= base /\ base + Arity(g) = caller.base + Height(caller.fn, caller.pc)
  ELSE base = caller.base

\* A callee starts with no operands, above those that its caller keeps.
LEMMA EnterHeights ==
  ASSUME ContextInv, HeightsAgree, NEW g \in Func, NEW kind \in {"op", "call", "start"},
         NEW caller \in Frame, NEW base \in Int, Enter(g, kind, caller, base),
         caller.fn = frame.fn, caller.base = frame.base, Waits(caller),
         kind = "op" <=> caller.fn \in Wasm,
         Linked(kind, caller, g, base)
  PROVE  HeightsAgree'
<1>1. PICK n : n = depth
  OBVIOUS
<1>2. /\ ContextInv'
      /\ \A i \in 0 .. n - 1 : Resumed(i)' = Resumed(i)
      /\ \A i \in n .. n : Resumed(i)' = caller
      /\ \A i \in 1 .. n : cstack'[i] = cstack[i]
      /\ cstack'[n + 1] = [kind |-> kind, saved |-> caller, outer |-> frame, raised |-> FALSE, owes |-> FALSE]
      /\ frame'.fn = g /\ frame'.pc = 1 /\ frame'.base = base /\ sp' = base
  BY <1>1, EnterKeepsContext
<1>3. depth' = n + 1 /\ handlers' = handlers
  BY <1>1 DEF Enter
<1>4. n \in Nat /\ DOMAIN cstack = 1 .. n
  BY <1>1, StackType DEF ContextInv
<1>5. DOMAIN cstack' = 1 .. n + 1
  BY <1>2, <1>3, LenProperties DEF ContextInv, CallsShapes
<1>6. HandlerHeights'
  BY <1>3 DEF HeightsAgree, HandlerHeights
<1>7. frame'.base <= sp' /\ (InWasm' => sp' = frame'.base + Height(frame'.fn, frame'.pc))
  <2>1. g \in Wasm => Height(g, 1) = 0
    BY Heights
  <2> QED
    BY <2>1, <1>2, GuestRuns
<1>8. \A i \in n + 1 .. n + 1 : Resumed(i)' = frame'
  BY <1>3, <1>4 DEF Resumed
<1>9. \A i \in n .. n : Resumed(i) = frame
  BY <1>1, <1>4 DEF Resumed
<1>10. ASSUME NEW i \in 1 .. n + 1, NEW s, s = cstack'[i].saved, NEW t, t = Resumed(i)'
       PROVE  IF cstack'[i].kind = "op"
              THEN s.base <= t.base /\ t.base + Arity(t.fn) = s.base + Height(s.fn, s.pc)
              ELSE t.base = s.base
  <2>1. CASE i = n + 1
    <3>1. t = frame' /\ s = caller /\ cstack'[i].kind = kind
      BY <2>1, <1>2, <1>4, <1>8, <1>10
    <3> QED
      BY <3>1, <1>2 DEF Linked
  <2>2. CASE i \in 1 .. n
    <3>1. cstack'[i] = cstack[i] /\ s = cstack[i].saved
      BY <2>2, <1>2, <1>10
    <3>2. t.base = Resumed(i).base /\ t.fn = Resumed(i).fn
      <4>1. i \in 0 .. n - 1 \/ i \in n .. n
        BY <2>2, <1>4
      <4> QED
        BY <4>1, <1>2, <1>9, <1>10
    <3> QED
      BY <2>2, <3>1, <3>2, <1>4 DEF HeightsAgree, CallsLinked
  <2> QED
    BY <2>1, <2>2, <1>4
<1>11. CallsLinked'
  BY <1>5, <1>10 DEF CallsLinked
<1> QED
  BY <1>6, <1>7, <1>11 DEF HeightsAgree

\* A refused call in a body is a trap of the frame; a refused API call is the
\* outcome of that call.
LEMMA RefuseHeights ==
  ASSUME ContextInv, HeightsAgree, NEW g, NEW kind \in {"op", "call", "start"},
         NEW caller \in Frame, NEW base \in Int, Refuse(g, kind, caller, base),
         caller.fn = frame.fn, caller.base = frame.base, caller.base <= base,
         kind = "op" <=> caller.fn \in Wasm
  PROVE  /\ HeightsAgree'
         /\ frame'.fn = frame.fn
         /\ kind = "op" => frame'.pc = End(frame'.fn) /\ cstack' = Raise(cstack)
         /\ kind # "op" => cstack' = Owe(cstack)
         /\ DOMAIN cstack' = DOMAIN cstack
<1>1. PICK n : n = depth
  OBVIOUS
<1>2. /\ trapped' = TRUE /\ sp' = base /\ handlers' = handlers /\ depth' = depth /\ tail' = tail /\ pending' = pending
      /\ kind = "op" => frame' = [caller EXCEPT !.pc = End(caller.fn)] /\ cstack' = Raise(cstack)
      /\ kind # "op" => (frame' = frame \/ frame' = caller) /\ cstack' = Owe(cstack)
  BY DEF Refuse
<1>3. frame \in Frame /\ n \in Nat /\ n \in 0 .. depth /\ frame.base \in Int
  BY <1>1, StackType DEF ContextInv, CallsShapes, Frame
<1>4. /\ frame'.fn = frame.fn /\ frame'.base = frame.base
      /\ kind = "op" => frame'.pc = End(frame'.fn)
  BY <1>2, <1>3 DEF Frame
<1>5. kind = "op" => n > 0
  BY <1>1, WhoRuns DEF ContextInv
<1>6. CallsUpTo(n) /\ \A i \in 0 .. n - 1 : Resumed(i)' = Resumed(i)
  <2>1. cstack' = Owe(cstack) \/ (n > 0 /\ cstack' = Raise(cstack))
    BY <1>2, <1>5
  <2> QED
    BY <1>1, <1>2, <2>1, SameDepth
<1>7. Resumed(n) = frame
  BY <1>1 DEF Resumed
<1>8. CallsLinked'
  BY <1>3, <1>4, <1>6, <1>7, LinksStay DEF HeightsAgree
<1>9. HandlerHeights'
  BY <1>2 DEF HeightsAgree, HandlerHeights
<1>10. InWasm' => kind = "op"
  BY <1>4, GuestRuns
<1>11. End(frame'.fn) \in Nat \/ ~ InWasm'
  BY BodyPlaces, GuestRuns
<1>12. HeightsAgree'
  BY <1>2, <1>3, <1>4, <1>8, <1>9, <1>10, <1>11 DEF HeightsAgree
<1>13. DOMAIN cstack' = DOMAIN cstack
  BY <1>1, <1>6, LenProperties, StackType DEF CallsUpTo, ContextInv
<1> QED
  BY <1>2, <1>4, <1>12, <1>13

\* A trap of the running guest function, and no other, is on record.
LEMMA RaiseTraps ==
  ASSUME NEW cs \in Seq(Activation), NEW n, n = Len(cs), n > 0,
         \A i \in 1 .. n - 1 : ~ cs[i].raised,
         cstack' = Raise(cs), depth' = n, trapped' = TRUE,
         InWasm', frame'.pc = End(frame'.fn)
  PROVE  TrapsAgree'
<1>1. n \in Nat /\ n \in 1 .. n
  BY LenProperties
<1>2. RaisedOnTop(cstack', cs, n)
  BY RaiseEffect
<1>3. Len(cstack') = n /\ cstack'[n].raised = TRUE /\ \A i \in 1 .. n - 1 : cstack'[i] = cs[i]
  BY <1>2 DEF RaisedOnTop
<1>4. DOMAIN cstack' = 1 .. n
  <2>1. cs[n] \in Activation
    BY <1>1, ElementOfSeq
  <2>2. DOMAIN cstack' = DOMAIN cs
    BY DEF Raise
  <2> QED
    BY <2>2, LenProperties
<1>5. \A i \in DOMAIN cstack' : cstack'[i].raised => i = n
  <2>1. \A i \in 1 .. n : i = n \/ i \in 1 .. n - 1
    BY <1>1
  <2> QED
    BY <2>1, <1>3, <1>4
<1>6. Top'.raised
  BY <1>3 DEF Top
<1> QED
  BY <1>5, <1>6, GuestRuns DEF TrapsAgree

\* A callback, or the embedder, is told of the trap of a call it made.
LEMMA OweTraps ==
  ASSUME NEW cs \in Seq(Activation), NEW n, n = Len(cs),
         \A i \in 1 .. n : ~ cs[i].raised,
         cstack' = Owe(cs), depth' = n, InHost'
  PROVE  TrapsAgree' /\ TailsAgree'
<1>1. n \in Nat
  BY LenProperties
<1>2. OwedOnTop(cstack', cs, n)
  BY OweEffect
<1>3. /\ Len(cstack') = n /\ (n > 0 => cstack'[n].owes = TRUE)
      /\ \A i \in 1 .. n : cstack'[i].raised = cs[i].raised
  BY <1>2 DEF OwedOnTop
<1>4. DOMAIN cstack' = 1 .. n
  <2>1. DOMAIN cstack' = DOMAIN cs
    BY DEF Owe
  <2> QED
    BY <2>1, LenProperties
<1>5. \A i \in DOMAIN cstack' : ~ cstack'[i].raised
  BY <1>3, <1>4
<1>6. \E i \in 0 .. n : (i > 0 => cstack'[i].owes) /\ \A j \in i + 1 .. n : cstack'[j].kind # "op"
  <2>1. n \in 0 .. n /\ \A j \in n + 1 .. n : FALSE
    BY <1>1
  <2> WITNESS n \in 0 .. n
  <2> QED
    BY <2>1, <1>3
<1>7. cstack' # << >> => Top'.owes
  <2>1. cstack' # << >> => n > 0
    <3>1. n = 0 => DOMAIN cstack' = {}
      BY <1>4
    <3>2. cstack' = cs \/ cstack' = [cs EXCEPT ![Len(cs)].owes = TRUE]
      BY DEF Owe
    <3>3. n = 0 => cs = << >>
      BY EmptySeq
    <3>4. cs = << >> => cstack' = << >>
      BY DEF Owe
    <3> QED
      BY <3>3, <3>4, <1>1
  <2> QED
    BY <2>1, <1>3 DEF Top
<1> QED
  BY <1>5, <1>6, <1>7, GuestRuns DEF TrapsAgree, TailsAgree

\* A callee starts without a trap of its own.
LEMMA EnterRest ==
  ASSUME CallsInv, NEW g \in Func, NEW kind \in {"op", "call", "start"},
         NEW caller \in Frame, NEW base \in Int, Enter(g, kind, caller, base),
         caller.fn = frame.fn, caller.base = frame.base, Waits(caller),
         kind = "op" <=> caller.fn \in Wasm,
         Linked(kind, caller, g, base),
         \A i \in 1 .. depth : ~ cstack[i].raised, pending = None, kind = "op" => trapped = FALSE
  PROVE  RestInv'
<1>1. PICK n : n = depth
  OBVIOUS
<1>2. ContextInv /\ HeightsAgree /\ TrapsAgree
  BY DEF CallsInv
<1>3. HeightsAgree'
  BY <1>2, EnterHeights
<1>4. /\ ContextInv'
      /\ \A i \in 1 .. n : cstack'[i] = cstack[i]
      /\ cstack'[n + 1] = [kind |-> kind, saved |-> caller, outer |-> frame, raised |-> FALSE, owes |-> FALSE]
      /\ frame'.fn = g /\ tail' = None /\ trapped' = (trapped /\ Prog[g].host)
  BY <1>1, <1>2, EnterKeepsContext
<1>5. depth' = n + 1 /\ pending' = None /\ n \in Nat
  BY <1>1, <1>2, StackType DEF Enter, ContextInv
<1>6. cstack'[n + 1].raised = FALSE /\ cstack'[n + 1].kind = kind
  BY <1>4
<1>7. \A i \in 1 .. n + 1 : ~ cstack'[i].raised
  <2>1. \A i \in 1 .. n + 1 : i \in 1 .. n \/ i = n + 1
    BY <1>5
  <2> QED
    BY <2>1, <1>1, <1>4, <1>6
<1>8. CASE trapped' = FALSE
  <2>1. TrapsAgree' /\ TailsAgree' /\ Unwinds'
    BY <1>4, <1>5, <1>7, <1>8, CalmRest
  <2> QED
    BY <2>1, <1>3 DEF RestInv
<1>9. CASE trapped' # FALSE
  <2>1. trapped /\ Prog[g].host /\ kind # "op" /\ trapped \in BOOLEAN
    BY <1>2, <1>4, <1>9 DEF ContextInv, CallsShapes
  <2>2. InHost /\ InHost'
    BY <2>1, <1>4, GuestRuns DEF Wasm
  <2>3. PICK i \in 0 .. n : /\ i > 0 => cstack[i].owes
                            /\ \A j \in i + 1 .. n : cstack[j].kind # "op"
    BY <2>1, <2>2, <1>1, <1>2 DEF TrapsAgree
  <2>4. i \in 0 .. n + 1 /\ (i > 0 => cstack'[i].owes)
    BY <2>3, <1>4, <1>5
  <2>5. \A j \in i + 1 .. n + 1 : cstack'[j].kind # "op"
    <3>1. \A j \in i + 1 .. n + 1 : j = n + 1 \/ (j \in i + 1 .. n /\ j \in 1 .. n)
      BY <1>5
    <3> QED
      BY <3>1, <2>1, <2>3, <1>4, <1>6
  <2>6. depth' = Len(cstack') /\ DOMAIN cstack' = 1 .. n + 1
    BY <1>4, <1>5, LenProperties DEF ContextInv, CallsShapes
  <2>7. TrapsAgree'
    BY <2>2, <2>4, <2>5, <2>6, <1>5, <1>7, GuestRuns DEF TrapsAgree
  <2> QED
    BY <2>7, <1>3, <1>4, <1>5 DEF RestInv, TailsAgree, Unwinds
<1> QED
  BY <1>8, <1>9

\* A refused call.
LEMMA RefuseRest ==
  ASSUME CallsInv, ContextInv', NEW g, NEW kind \in {"op", "call", "start"},
         NEW caller \in Frame, NEW base \in Int, Refuse(g, kind, caller, base),
         caller.fn = frame.fn, caller.base = frame.base, caller.base <= base,
         kind = "op" <=> caller.fn \in Wasm,
         \A i \in 1 .. depth : ~ cstack[i].raised, pending = None, kind = "op" => tail = None
  PROVE  RestInv'
<1>1. PICK n : n = depth
  OBVIOUS
<1>2. ContextInv /\ HeightsAgree
  BY DEF CallsInv
<1>3. /\ HeightsAgree' /\ frame'.fn = frame.fn
      /\ kind = "op" => frame'.pc = End(frame'.fn) /\ cstack' = Raise(cstack)
      /\ kind # "op" => cstack' = Owe(cstack)
  BY <1>2, RefuseHeights
<1>4. trapped' = TRUE /\ depth' = depth /\ tail' = tail /\ pending' = pending
  BY DEF Refuse
<1>5. cstack \in Seq(Activation) /\ n = Len(cstack) /\ n \in Nat /\ \A i \in 1 .. n : ~ cstack[i].raised
  BY <1>1, <1>2, StackType DEF ContextInv, CallsShapes
<1>6. Unwinds'
  BY <1>4 DEF Unwinds
<1>7. CASE kind = "op"
  <2>1. InWasm' /\ n > 0
    BY <1>1, <1>2, <1>3, <1>7, GuestRuns, WhoRuns DEF ContextInv
  <2>2. \A i \in 1 .. n - 1 : ~ cstack[i].raised
    BY <1>5
  <2>3. TrapsAgree'
    BY <2>1, <2>2, <1>1, <1>3, <1>4, <1>5, <1>7, RaiseTraps
  <2>4. TailsAgree'
    BY <1>4, <1>7 DEF TailsAgree
  <2> QED
    BY <2>3, <2>4, <1>3, <1>6 DEF RestInv
<1>8. CASE kind # "op"
  <2>1. InHost'
    BY <1>3, <1>8, GuestRuns
  <2>2. TrapsAgree' /\ TailsAgree'
    BY <2>1, <1>1, <1>3, <1>4, <1>5, <1>8, OweTraps
  <2> QED
    BY <2>2, <1>3, <1>6 DEF RestInv
<1> QED
  BY <1>7, <1>8

\* A call instruction: the arguments become the bottom of the callee's operands.
LEMMA CallRest ==
  ASSUME CallsInv, ContextInv', NEW g \in Func, Call(g)
  PROVE  RestInv'
<1>1. PICK f, p, n, fr, b : f = frame.fn /\ p = frame.pc /\ n = depth /\ fr = Next1 /\ b = sp - Arity(g)
  OBVIOUS
<1>2. ContextInv
  BY DEF CallsInv
<1>3. AtAny /\ InWasm /\ p < End(f) /\ Height(f, p) >= Arity(g) /\ CallFn(g, "op", fr, b) /\ Body(f)[p].op = "any"
  BY <1>1 DEF Call, AtAny, Instr
<1>4. /\ f \in Wasm /\ p \in Nat \ {0}
      /\ trapped = FALSE /\ tail = None /\ pending = None
      /\ \A i \in 1 .. n : ~ cstack[i].raised
      /\ sp = frame.base + Height(f, p) /\ frame.base \in Int /\ Height(f, p) \in Nat
      /\ p \in 1 .. End(f) /\ p < End(f)
  BY <1>1, <1>3, Calm
<1>5. fr \in Frame /\ fr.fn = f /\ fr.base = frame.base /\ fr.pc = p + 1 /\ Waits(fr)
  BY <1>1, <1>2, <1>3, Callers
<1>6. Arity(g) \in Nat
  BY CallsAssumption DEF Arity
<1>7. Height(f, p + 1) = Height(f, p)
  BY <1>3, <1>4, HeightStep
<1>8. /\ b \in Int /\ fr.base <= b
      /\ b + Arity(g) = fr.base + Height(fr.fn, fr.pc)
  BY <1>1, <1>3, <1>4, <1>5, <1>6, <1>7
<1>9. Linked("op", fr, g, b)
  BY <1>8 DEF Linked
<1>10. CASE Enter(g, "op", fr, b)
  BY <1>1, <1>4, <1>5, <1>8, <1>9, <1>10, EnterRest
<1>11. CASE Refuse(g, "op", fr, b)
  BY <1>1, <1>4, <1>5, <1>8, <1>11, RefuseRest
<1> QED
  BY <1>3, <1>10, <1>11 DEF CallFn

\* In a callback, or in the embedder, no activation has a trap of its own, and
\* nothing unwinds.
LEMMA HostCalm ==
  ASSUME CallsInv, InHost
  PROVE  pending = None /\ \A i \in 1 .. depth : ~ cstack[i].raised
<1>1. DOMAIN cstack = 1 .. depth
  BY StackType DEF CallsInv, ContextInv
<1> QED
  BY <1>1, GuestRuns DEF CallsInv, TrapsAgree, Unwinds

\* A call from the embedder or from a callback starts where its operands end.
LEMMA ApiRest ==
  ASSUME CallsInv, ContextInv', NEW g \in Func, NEW kind \in {"call", "start"}, InHost,
         CallFn(g, kind, EntryFrame(g), frame.base)
  PROVE  RestInv'
<1>1. PICK fr, b : fr = EntryFrame(g) /\ b = frame.base
  OBVIOUS
<1>2. ContextInv
  BY DEF CallsInv
<1>3. fr \in Frame /\ fr.fn = frame.fn /\ fr.base = frame.base /\ fr.fn \notin Wasm /\ Waits(fr)
  BY <1>1, <1>2, Callers
<1>4. b \in Int /\ fr.base <= b
  BY <1>1, <1>3 DEF Frame
<1>5. Linked(kind, fr, g, b)
  BY <1>1, <1>3 DEF Linked
<1>6. pending = None /\ \A i \in 1 .. depth : ~ cstack[i].raised
  BY HostCalm
<1>7. CASE Enter(g, kind, fr, b)
  BY <1>1, <1>3, <1>4, <1>5, <1>6, <1>7, EnterRest
<1>8. CASE Refuse(g, kind, fr, b)
  BY <1>1, <1>3, <1>4, <1>6, <1>8, RefuseRest
<1> QED
  BY <1>1, <1>7, <1>8 DEF CallFn

\* How the run of a function may end.
EndsWith(st) ==
  /\ st \in {"ok", "trap"}
  /\ st = "ok" /\ pending = None => /\ tail = None
                                    /\ InWasm => ~ trapped
                                    /\ InHost => ~ Top.owes

\* The frame behind the innermost activation, a, when that is over: it is the
\* n-th, and none beneath has a trap of its own.
LEMMA Finishing ==
  ASSUME CallsInv, depth > 0, NEW st, Finish(st), tail' = tail,
         NEW n, n = depth - 1, NEW a, a = cstack[depth], NEW s, s = a.saved, NEW cs, cs = Keep(cstack, n)
  PROVE  /\ n \in Nat /\ n \in 0 .. depth /\ depth' = n /\ depth = Len(cstack) /\ a = Top /\ depth = n + 1
         /\ s = Resumed(n) /\ s \in Frame /\ a \in Activation
         /\ a.outer.fn = s.fn /\ a.outer.base = s.base /\ a.outer \in Frame
         /\ a.kind = "op" <=> s.fn \in Wasm
         /\ a.kind = "op" => n > 0
         /\ cs \in Seq(Activation) /\ Len(cs) = n /\ DOMAIN cs = 1 .. n
         /\ \A i \in 1 .. n : cs[i] = cstack[i] /\ ~ cs[i].raised
         /\ \A i \in 0 .. n - 1 : Resumed(i)' = Resumed(i)
         /\ CallsUpTo(n)
         /\ frame.base \in Int /\ s.base \in Int /\ s.base <= frame.base
         /\ a.kind = "op" => frame.base + Arity(frame.fn) = s.base + Height(s.fn, s.pc)
         /\ a.kind # "op" => s.base = frame.base
<1>1. ContextInv
  BY DEF CallsInv
<1>2. /\ \A i \in 0 .. n - 1 : Resumed(i)' = Resumed(i)
      /\ n \in Nat /\ depth' = n /\ s = Resumed(n) /\ s \in Frame /\ a \in Activation /\ CallsUpTo(n)
  <2>1. PICK hs : hs = BelowDepth(handlers, depth)
    OBVIOUS
  <2> QED
    BY <2>1, <1>1, FinishKeepsContext
<1>3. depth = Len(cstack) /\ depth \in Nat /\ n \in 0 .. depth /\ depth \in 1 .. depth /\ depth = n + 1
      /\ DOMAIN cstack = 1 .. depth /\ cstack \in Seq(Activation) /\ a.outer \in Frame
  BY <1>1, StackType DEF ContextInv, CallsShapes
<1>4. /\ a.outer.fn = s.fn /\ a.outer.base = s.base
      /\ a.kind = "op" <=> s.fn \in Wasm
      /\ s.fn = None <=> n = 0
  BY <1>1, <1>2, <1>3 DEF ContextInv, FramesNest
<1>5. a.kind = "op" => n > 0
  <2>1. s.fn \in Wasm => s.fn # None
    BY BodyPlaces
  <2>2. n = 0 => s.fn \notin Wasm
    BY <2>1, <1>4
  <2>3. n \in Nat
    BY <1>2
  <2>4. n = 0 => a.kind # "op"
    BY <2>2, <1>4
  <2>5. \A x \in Nat : x = 0 \/ x > 0
    OBVIOUS
  <2> QED
    BY <2>3, <2>4, <2>5
<1>6. cs \in Seq(Activation) /\ Len(cs) = n /\ DOMAIN cs = 1 .. n /\ \A i \in 1 .. n : cs[i] = cstack[i]
  <2>1. ASSUME NEW m \in 0 .. Len(cstack)
        PROVE  /\ Keep(cstack, m) \in Seq(Activation) /\ Len(Keep(cstack, m)) = m /\ DOMAIN Keep(cstack, m) = 1 .. m
               /\ \A i \in 1 .. m : Keep(cstack, m)[i] = cstack[i]
    BY ONLY <2>1, <1>3, KeepEffect
  <2>2. n \in 0 .. Len(cstack)
    BY <1>3
  <2> QED
    BY ONLY <2>1, <2>2, cs = Keep(cstack, n)
<1>7. \A i \in 1 .. n : ~ cstack[i].raised
  <2>1. \A i \in 1 .. n : i \in DOMAIN cstack /\ i # depth
    BY <1>2, <1>3
  <2> QED
    BY <2>1 DEF CallsInv, TrapsAgree
<1>8. frame.base \in Int /\ s.base \in Int
  BY <1>1, <1>2 DEF ContextInv, CallsShapes, Frame
<1>9. Resumed(depth) = frame
  BY DEF Resumed
<1>10. IF a.kind = "op"
       THEN s.base <= frame.base /\ frame.base + Arity(frame.fn) = s.base + Height(s.fn, s.pc)
       ELSE frame.base = s.base
  <2>1. LET t == Resumed(depth) IN
        IF a.kind = "op"
        THEN s.base <= t.base /\ t.base + Arity(t.fn) = s.base + Height(s.fn, s.pc)
        ELSE t.base = s.base
    BY <1>3 DEF CallsInv, HeightsAgree, CallsLinked
  <2> QED
    BY <2>1, <1>9
<1>11. s.base <= frame.base
  BY <1>8, <1>10
<1>12. a = Top
  BY <1>3 DEF Top
<1> QED
  BY <1>2, <1>3, <1>4, <1>5, <1>6, <1>7, <1>8, <1>10, <1>11, <1>12

\* The links of the frames that remain.
LEMMA FinishLinks ==
  ASSUME CallsInv, NEW n \in 0 .. depth, CallsUpTo(n), \A i \in 0 .. n - 1 : Resumed(i)' = Resumed(i),
         NEW s, s = Resumed(n), frame'.fn = s.fn, frame'.base = s.base
  PROVE  CallsLinked'
BY LinksStay DEF CallsInv, HeightsAgree

\* The heights where a run is over and no exception passes through its caller.
LEMMA FinishHeights ==
  ASSUME CallsInv, ContextInv', depth > 0, NEW st, Finish(st), tail' = tail,
         NEW a, a = cstack[depth], ~ (pending # None /\ a.kind = "op")
  PROVE  HeightsAgree'
<1>1. PICK n, s, cs : n = depth - 1 /\ s = a.saved /\ cs = Keep(cstack, n)
  OBVIOUS
<1>2. /\ n \in Nat /\ n \in 0 .. depth /\ depth' = n /\ depth = Len(cstack)
      /\ s = Resumed(n) /\ s \in Frame /\ a \in Activation
      /\ a.outer.fn = s.fn /\ a.outer.base = s.base /\ a.outer \in Frame
      /\ a.kind = "op" <=> s.fn \in Wasm
      /\ \A i \in 0 .. n - 1 : Resumed(i)' = Resumed(i)
      /\ CallsUpTo(n)
      /\ frame.base \in Int /\ s.base \in Int /\ s.base <= frame.base
      /\ a.kind = "op" => frame.base + Arity(frame.fn) = s.base + Height(s.fn, s.pc)
      /\ a.kind # "op" => s.base = frame.base
  BY <1>1, Finishing
<1>3. /\ handlers' = BelowDepth(handlers, depth)
      /\ IF a.kind = "op"
         THEN \/ frame' = a.saved /\ sp' = frame.base + Arity(frame.fn)
              \/ frame' = [a.saved EXCEPT !.pc = End(a.saved.fn)] /\ sp' = frame.base
         ELSE (frame' = a.saved \/ frame' = a.outer) /\ sp' = frame.base
  BY <1>2 DEF Finish, AfterApi
<1>4. frame'.fn = s.fn /\ frame'.base = s.base
  BY <1>1, <1>2, <1>3 DEF Frame
<1>5. CallsLinked'
  BY <1>2, <1>4, FinishLinks
<1>6. HandlerHeights'
  <2>1. Popped(handlers', handlers)
    <3>1. depth \in Nat
      BY StackType DEF CallsInv, ContextInv
    <3> QED
      BY <3>1, <1>3, HandlersSorted, BelowEffect DEF CallsInv
  <2> QED
    BY <2>1, PoppedHeights DEF CallsInv, HeightsAgree
<1>7. s.fn \in Wasm => /\ s.pc \in 1 .. End(s.fn) /\ End(s.fn) \in Nat
                       /\ Height(s.fn, s.pc) \in Nat
  <2>1. s.fn \in Wasm => s.pc \in 1 .. End(s.fn)
    BY <1>2 DEF CallsInv, ContextInv, FramesNest
  <2> QED
    BY <2>1, Heights, BodyPlaces
<1>8. CASE a.kind = "op" /\ frame' = a.saved /\ sp' = frame.base + Arity(frame.fn)
  <2>1. frame' = s /\ sp' = s.base + Height(s.fn, s.pc)
    BY <1>1, <1>2, <1>8
  <2>2. s.base <= sp'
    BY <2>1, <1>2, <1>7, <1>8
  <2> QED
    BY <2>1, <2>2, <1>5, <1>6 DEF HeightsAgree
<1>9. CASE a.kind = "op" /\ frame' = [a.saved EXCEPT !.pc = End(a.saved.fn)] /\ sp' = frame.base
  <2>1. frame'.pc = End(s.fn)
    BY <1>1, <1>2, <1>9 DEF Frame
  <2>2. ~ (frame'.pc < End(frame'.fn))
    BY <2>1, <1>2, <1>4, <1>7, <1>9
  <2> QED
    BY <2>2, <1>2, <1>4, <1>5, <1>6, <1>9 DEF HeightsAgree
<1>10. CASE a.kind # "op"
  <2>1. ~ InWasm'
    BY <1>2, <1>4, <1>10, GuestRuns
  <2>2. frame'.base <= sp'
    BY <1>2, <1>3, <1>4, <1>10
  <2> QED
    BY <2>1, <2>2, <1>5, <1>6 DEF HeightsAgree
<1> QED
  BY <1>3, <1>8, <1>9, <1>10

\* An exception leaves a function: it is caught by the caller, or ends it too.
LEMMA FinishThrow ==
  ASSUME CallsInv, ContextInv', depth > 0, NEW st, Finish(st), tail' = tail,
         NEW a, a = cstack[depth], pending # None, a.kind = "op"
  PROVE  RestInv'
<1>1. PICK n, s, cs, hs, exn : /\ n = depth - 1 /\ s = a.saved /\ cs = Keep(cstack, n)
                               /\ hs = BelowDepth(handlers, depth) /\ exn = pending
  OBVIOUS
<1>2. /\ n \in Nat /\ n \in 0 .. depth /\ depth' = n /\ depth = Len(cstack) /\ depth = n + 1
      /\ s = Resumed(n) /\ s \in Frame
      /\ a.kind = "op" <=> s.fn \in Wasm
      /\ a.kind = "op" => n > 0
      /\ cs \in Seq(Activation) /\ Len(cs) = n /\ DOMAIN cs = 1 .. n
      /\ \A i \in 1 .. n : cs[i] = cstack[i] /\ ~ cs[i].raised
      /\ \A i \in 0 .. n - 1 : Resumed(i)' = Resumed(i)
      /\ CallsUpTo(n)
      /\ frame.base \in Int /\ s.base \in Int /\ s.base <= frame.base
  BY <1>1, Finishing
<1>3. /\ Popped(hs, handlers)
      /\ (\E m \in DOMAIN hs : Caught(hs, s, n, exn.tag, m)) \/ Uncaught(hs, s, n, frame.base, exn)
  BY <1>1, FinishKeepsContext DEF CallsInv
<1>4. cstack' = cs /\ trapped' = trapped
  BY <1>1, <1>2 DEF Finish
<1>5. /\ trapped = FALSE /\ tail = None /\ exn.level = Level(cstack)
  BY <1>1 DEF CallsInv, Unwinds, ContextInv, CallsShapes
<1>6. n \in 1 .. depth /\ s.fn \in Wasm
  BY <1>2
<1>7. /\ frame'.base = s.base /\ frame'.fn = s.fn
      /\ s.base <= sp'
      /\ frame'.pc < End(s.fn) => sp' = s.base + Height(s.fn, frame'.pc)
      /\ Popped(handlers', handlers)
      /\ pending' = None \/ (pending' = exn /\ frame'.pc = End(s.fn))
  BY <1>2, <1>3, <1>6, ThrowHeights DEF CallsInv, HeightsAgree
<1>8. CallsLinked'
  BY <1>2, <1>7, FinishLinks
<1>9. HandlerHeights'
  BY <1>7, PoppedHeights DEF CallsInv, HeightsAgree
<1>10. HeightsAgree'
  BY <1>7, <1>8, <1>9 DEF HeightsAgree
<1>11. TrapsAgree' /\ TailsAgree'
  BY <1>2, <1>4, <1>5, CalmTraps DEF TailsAgree
<1>12. Level(cs) = Level(cstack)
  <2>1. DOMAIN cstack = 1 .. depth
    BY StackType DEF CallsInv, ContextInv
  <2>2. \A i \in DOMAIN cstack : i # depth => i \in DOMAIN cs
    BY <2>1, <1>2
  <2>3. \A i \in DOMAIN cs : i \in DOMAIN cstack /\ cs[i] = cstack[i]
    BY <2>1, <1>2
  <2>4. {i \in DOMAIN cs : cs[i].kind # "op"} = {i \in DOMAIN cstack : cstack[i].kind # "op"}
    BY <2>2, <2>3
  <2> QED
    BY <2>4 DEF Level
<1>13. Unwinds'
  <2>1. pending' # None => InWasm' /\ frame'.pc = End(frame'.fn) /\ pending'.level = Level(cs)
    BY <1>5, <1>6, <1>7, <1>12, GuestRuns
  <2>2. Level(cstack)' = Level(cs)
    BY <1>4 DEF Level
  <2> QED
    BY <2>1, <2>2, <1>4, <1>5 DEF Unwinds
<1> QED
  BY <1>10, <1>11, <1>13 DEF RestInv

\* The innermost activation is over, as the outcome of an API call or with the
\* results or the trap of a function.
LEMMA FinishTraps ==
  ASSUME CallsInv, StartsCatch, ContextInv', depth > 0, NEW st, EndsWith(st), Finish(st), tail' = tail,
         NEW a, a = cstack[depth], ~ (pending # None /\ a.kind = "op")
  PROVE  TrapsAgree' /\ TailsAgree' /\ Unwinds'
<1>1. PICK n, s, cs : n = depth - 1 /\ s = a.saved /\ cs = Keep(cstack, n)
  OBVIOUS
<1>2. /\ n \in Nat /\ depth' = n /\ depth = Len(cstack) /\ a = Top /\ depth = n + 1
      /\ s \in Frame /\ a \in Activation
      /\ a.outer.fn = s.fn /\ a.outer \in Frame
      /\ a.kind = "op" <=> s.fn \in Wasm
      /\ a.kind = "op" => n > 0
      /\ cs \in Seq(Activation) /\ Len(cs) = n /\ DOMAIN cs = 1 .. n
      /\ \A i \in 1 .. n : cs[i] = cstack[i] /\ ~ cs[i].raised
  BY <1>1, Finishing
<1>3. Keep(cstack, Len(cstack) - 1) = cs
  BY <1>1, <1>2
<1>4. /\ frame'.fn = s.fn
      /\ a.kind = "op" => frame' = a.saved \/ frame'.pc = End(frame'.fn)
      /\ InHost' <=> a.kind # "op"
  <2>1. IF a.kind = "op"
        THEN frame' = a.saved \/ frame' = [a.saved EXCEPT !.pc = End(a.saved.fn)]
        ELSE frame' = a.saved \/ frame' = a.outer
    BY <1>2 DEF Finish, AfterApi
  <2>2. frame'.fn = s.fn /\ (a.kind = "op" => frame' = a.saved \/ frame'.pc = End(frame'.fn))
    BY <2>1, <1>1, <1>2 DEF Frame
  <2> QED
    BY <2>2, <1>2, GuestRuns
<1>5. CASE pending # None
  <2>1. trapped = FALSE /\ tail = None /\ cstack # << >>
    BY <1>2, <1>5, EmptySeq, WhoRuns DEF CallsInv, Unwinds, ContextInv, CallsShapes
  <2>2. a.kind = "call"
    BY <2>1, <1>2, <1>5 DEF StartsCatch, Activation
  <2>3. pending' = None /\ cstack' = cs /\ trapped' = trapped
    BY <2>2, <1>2, <1>3, <1>5 DEF Finish, Unreported
  <2> QED
    BY <2>1, <2>3, <1>2, CalmRest
<1>6. CASE pending = None /\ st = "trap" /\ a.kind = "op"
  <2>1. /\ trapped' = TRUE /\ cstack' = Raise(cs) /\ pending' = None
        /\ frame' = [a.saved EXCEPT !.pc = End(a.saved.fn)]
    BY <1>2, <1>3, <1>6 DEF Finish
  <2>2. frame'.pc = End(frame'.fn) /\ InWasm'
    BY <2>1, <1>1, <1>2, <1>4, <1>6, GuestRuns DEF Frame
  <2>3. \A i \in 1 .. n - 1 : ~ cs[i].raised
    BY <1>2
  <2>4. TrapsAgree'
    BY <2>1, <2>2, <2>3, <1>2, <1>6, RaiseTraps
  <2> QED
    BY <2>1, <2>2, <2>4 DEF TailsAgree, Unwinds
<1>7. CASE pending = None /\ st = "trap" /\ a.kind # "op"
  <2>1. cstack' = Owe(cs) /\ pending' = None
    BY <1>2, <1>3, <1>7 DEF Finish
  <2>2. TrapsAgree' /\ TailsAgree'
    BY <2>1, <1>2, <1>4, <1>7, OweTraps
  <2> QED
    BY <2>1, <2>2 DEF Unwinds
<1>8. CASE pending = None /\ st = "ok"
  <2>1. cstack' = cs /\ trapped' = trapped /\ pending' = None
    BY <1>2, <1>3, <1>8 DEF Finish
  <2>2. tail = None /\ (InWasm => ~ trapped) /\ (InHost => ~ a.owes)
    BY <1>2, <1>8 DEF EndsWith
  <2>3. CASE trapped = FALSE
    BY <2>1, <2>2, <2>3, <1>2, CalmRest
  <2>4. CASE trapped = TRUE
    <3>1. InHost /\ ~ a.owes
      BY <2>2, <2>4, GuestRuns
    <3>2. PICK i \in 0 .. n + 1 : /\ i > 0 => cstack[i].owes
                                  /\ \A j \in i + 1 .. n + 1 : cstack[j].kind # "op"
      BY <3>1, <2>4, <1>2 DEF CallsInv, TrapsAgree
    <3>3. i # n + 1
      BY <3>1, <3>2, <1>2
    <3>4. i \in 0 .. n /\ n + 1 \in i + 1 .. n + 1 /\ (i > 0 => i \in 1 .. n)
      BY <3>3, <1>2
    <3>5. a.kind # "op"
      BY <3>2, <3>4, <1>2
    <3>6. i > 0 => cstack'[i].owes
      BY <3>2, <3>4, <2>1, <1>2
    <3>7. \A j \in i + 1 .. n : cstack'[j].kind # "op"
      <4>1. \A j \in i + 1 .. n : j \in i + 1 .. n + 1 /\ j \in 1 .. n
        BY <3>4, <1>2
      <4> QED
        BY <4>1, <3>2, <2>1, <1>2
    <3>8. InHost' /\ ~ InWasm'
      BY <3>5, <1>4, GuestRuns
    <3>9. TrapsAgree'
      BY <3>4, <3>6, <3>7, <3>8, <2>1, <1>2 DEF TrapsAgree
    <3> QED
      BY <3>9, <2>1, <2>2 DEF TailsAgree, Unwinds
  <2>5. trapped \in BOOLEAN
    BY DEF CallsInv, ContextInv, CallsShapes
  <2> QED
    BY <2>3, <2>4, <2>5
<1>9. st = "ok" \/ st = "trap"
  BY DEF EndsWith
<1> QED
  BY <1>5, <1>6, <1>7, <1>8, <1>9

\* The innermost activation is over.
LEMMA FinishRest ==
  ASSUME CallsInv, StartsCatch, ContextInv', depth > 0, NEW st, EndsWith(st), Finish(st), tail' = tail
  PROVE  RestInv'
<1>1. PICK a : a = cstack[depth]
  OBVIOUS
<1>2. CASE pending # None /\ a.kind = "op"
  BY <1>1, <1>2, FinishThrow
<1>3. CASE ~ (pending # None /\ a.kind = "op")
  BY <1>1, <1>3, FinishHeights, FinishTraps DEF RestInv
<1> QED
  BY <1>2, <1>3

\* A tail call reuses the frame: the caller waits for as many results.
LEMMA ReuseRest ==
  ASSUME CallsInv, ContextInv', depth > 0, InWasm, trapped = FALSE, pending = None, tail # None,
         NEW g, g = tail, handlers' = BelowDepth(handlers, depth),
         Start(g, frame.base, frame.lbase, frame.ctx),
         cstack' = cstack, depth' = depth, pending' = pending
  PROVE  RestInv'
<1>1. PICK n : n = depth
  OBVIOUS
<1>2. /\ ContextInv /\ HeightsAgree /\ TrapsAgree /\ TailsAgree /\ frame \in Frame
      /\ g \in Func /\ n \in Nat /\ n \in 0 .. depth
  BY <1>1, StackType DEF CallsInv, ContextInv, CallsShapes
<1>3. frame.base \in Int /\ frame.lbase \in Nat /\ trapped \in BOOLEAN
  BY <1>2 DEF Frame
<1>4. /\ frame'.fn = g /\ frame'.pc = 1 /\ frame'.base = frame.base
      /\ sp' = frame.base /\ tail' = None /\ trapped' = (trapped /\ Prog[g].host)
  BY <1>2, <1>3, StartEffect
<1>5. Arity(g) = Arity(frame.fn)
  BY <1>2 DEF TailsAgree
<1>6. CallsUpTo(n) /\ \A i \in 0 .. n - 1 : Resumed(i)' = Resumed(i)
  BY <1>1, <1>2, SameDepth
<1>7. Resumed(n) = frame
  BY <1>1 DEF Resumed
<1>8. CallsLinked'
  BY <1>2, <1>4, <1>5, <1>6, <1>7, LinksStay DEF HeightsAgree
<1>9. HandlerHeights'
  <2>1. Popped(handlers', handlers)
    BY <1>1, <1>2, HandlersSorted, BelowEffect
  <2> QED
    BY <2>1, <1>2, PoppedHeights DEF HeightsAgree
<1>10. HeightsAgree'
  <2>1. frame'.fn \in Wasm => Height(frame'.fn, 1) = 0
    BY Heights
  <2> QED
    BY <2>1, <1>3, <1>4, <1>8, <1>9, GuestRuns DEF HeightsAgree
<1>11. \A i \in 1 .. n : ~ cstack[i].raised
  <2>1. DOMAIN cstack = 1 .. n /\ n = Len(cstack)
    BY <1>1, <1>2, StackType DEF ContextInv, CallsShapes
  <2>2. ~ cstack[n].raised
    BY <2>1, <1>2 DEF TrapsAgree, Top
  <2> QED
    BY <2>1, <2>2, <1>1, <1>2 DEF TrapsAgree
<1>12. TrapsAgree' /\ TailsAgree' /\ Unwinds'
  BY <1>1, <1>4, <1>11, CalmRest
<1> QED
  BY <1>10, <1>12 DEF RestInv

\* The end of a run of guest code, or of a callback that reports what it saw.
LEMMA RunEndsRest ==
  ASSUME CallsInv, StartsCatch, ContextInv', depth > 0, NEW st \in {"ok", "trap"}, RunEnds(st),
         InWasm => frame.pc = End(frame.fn) /\ (st = "ok" => ~ trapped),
         InHost /\ st = "ok" => ~ Top.owes
  PROVE  RestInv'
<1>1. trapped \in BOOLEAN /\ cstack # << >> /\ (InHost \/ InWasm)
  BY WhoRuns, GuestRuns DEF CallsInv, ContextInv, CallsShapes
<1>2. CASE ~ (st = "ok" /\ pending = None /\ tail # None)
  <2>1. Finish(st) /\ tail' = tail
    BY <1>2 DEF RunEnds
  <2>2. EndsWith(st)
    BY <1>2 DEF EndsWith
  <2> QED
    BY <2>1, <2>2, FinishRest
<1>3. CASE st = "ok" /\ pending = None /\ tail # None
  <2>1. CASE Finish("trap") /\ tail' = tail
    <3>1. EndsWith("trap")
      BY DEF EndsWith
    <3> QED
      BY <3>1, <2>1, FinishRest
  <2>2. CASE /\ Start(tail, frame.base, frame.lbase, frame.ctx) /\ handlers' = BelowDepth(handlers, depth)
             /\ cstack' = cstack /\ depth' = depth /\ pending' = pending
    <3>1. InWasm
      BY <1>1, <1>3 DEF CallsInv, TailsAgree
    <3>2. trapped = FALSE
      BY <3>1, <1>1, <1>3
    <3> QED
      BY <3>1, <3>2, <2>2, <1>3, ReuseRest
  <2>3. \/ Finish("trap") /\ tail' = tail
        \/ /\ Start(tail, frame.base, frame.lbase, frame.ctx) /\ handlers' = BelowDepth(handlers, depth)
           /\ cstack' = cstack /\ depth' = depth /\ pending' = pending
    BY <1>3 DEF RunEnds
  <2> QED
    BY <2>1, <2>2, <2>3, Zenon
<1> QED
  BY <1>2, <1>3

\* The embedder alone is at height 0, and every flag is clear.
LEMMA InitCalls ==
  ASSUME Init
  PROVE  CallsInv
<1>1. /\ frame = RootFrame /\ sp = 0 /\ cstack = << >> /\ handlers = << >>
      /\ depth = 0 /\ trapped = FALSE /\ tail = None /\ pending = None
  BY DEF Init
<1>2. DOMAIN cstack = {} /\ DOMAIN handlers = {}
  BY <1>1, EmptySeq
<1>3. frame.base = 0 /\ ~ InWasm
  BY <1>1 DEF RootFrame, InWasm, InHost
<1>4. ContextInv
  BY InitContext
<1>5. HeightsAgree
  BY <1>1, <1>2, <1>3 DEF HeightsAgree, CallsLinked, HandlerHeights
<1>6. TrapsAgree /\ TailsAgree /\ Unwinds
  BY <1>1, <1>2, <1>3 DEF TrapsAgree, TailsAgree, Unwinds
<1> QED
  BY <1>4, <1>5, <1>6 DEF CallsInv

\* Every step keeps heights, traps, tail calls and exceptions in order.
LEMMA CallsStep ==
  ASSUME ~ HostIgnoresTraps, CallsInv, StartsCatch, [Next]_vars
  PROVE  CallsInv'
<1>1. ContextInv'
  BY ContextStep DEF CallsInv
<1>2. CASE UNCHANGED vars
  BY <1>1, <1>2 DEF vars, CallsInv, HeightsAgree, CallsLinked, HandlerHeights, Resumed, TrapsAgree, TailsAgree,
     Unwinds, Top, InWasm, InHost
<1>3. ASSUME NEW g \in Func, Call(g)
      PROVE  RestInv'
  BY <1>1, <1>3, CallRest
<1>4. ASSUME NEW g \in Func, ApiCall(g) \/ ApiStart(g)
      PROVE  RestInv'
  <2>1. PICK kind \in {"call", "start"} : InHost /\ CallFn(g, kind, EntryFrame(g), frame.base)
    BY <1>4 DEF ApiCall, ApiStart
  <2> QED
    BY <2>1, <1>1, ApiRest
<1>5. ASSUME Plain \/ Return \/ (\E g \in Func : TailCall(g)) \/ (InWasm /\ \E c \in Constructs(frame.fn) : Br(c))
      PROVE  RestInv'
  BY <1>1, <1>5, MoveRest
<1>6. ASSUME TryTable
      PROVE  RestInv'
  BY <1>1, <1>6, TryTableRest
<1>7. ASSUME Trap
      PROVE  RestInv'
  BY <1>1, <1>7, TrapRest
<1>8. ASSUME NEW t \in Tag, Throw(t)
      PROVE  RestInv'
  BY <1>1, <1>8, ThrowRest
<1>9. InWasm \/ (InHost /\ cstack # << >>) => depth > 0
  <2>1. depth \in Nat /\ (InWasm => depth > 0) /\ (cstack = << >> <=> depth = 0)
    BY WhoRuns, StackType DEF CallsInv, ContextInv
  <2> QED
    BY <2>1
<1>10. ASSUME WasmEnds
      PROVE  RestInv'
  <2>1. PICK st \in {"ok", "trap"} : st = IF trapped THEN "trap" ELSE "ok"
    OBVIOUS
  <2>2. InWasm /\ ~ InHost /\ frame.pc = End(frame.fn) /\ RunEnds(st) /\ (st = "ok" => ~ trapped)
    BY <2>1, <1>10, GuestRuns DEF WasmEnds
  <2> QED
    BY <2>2, <1>1, <1>9, RunEndsRest
<1>11. ASSUME HostReturns
      PROVE  RestInv'
  <2>1. InHost /\ ~ InWasm /\ cstack # << >> /\ RunEnds("ok") /\ ~ Top.owes
    BY <1>11, GuestRuns DEF HostReturns, Top
  <2> QED
    BY <2>1, <1>1, <1>9, RunEndsRest
<1>12. ASSUME HostTraps
      PROVE  RestInv'
  <2>1. InHost /\ ~ InWasm /\ cstack # << >> /\ RunEnds("trap")
    BY <1>12, GuestRuns DEF HostTraps
  <2> QED
    BY <2>1, <1>1, <1>9, RunEndsRest
<1>13. RestInv' => CallsInv'
  BY <1>1 DEF CallsInv, RestInv
<1> QED
  BY <1>2, <1>3, <1>4, <1>5, <1>6, <1>7, <1>8, <1>10, <1>11, <1>12, <1>13 DEF Next

\* What the theorems below assume of a behaviour: no exception leaves a start
\* function.
THEOREM CallsCorrect ==
  ASSUME ~ HostIgnoresTraps
  PROVE  Spec /\ []StartsCatch => []CallsInv
<1>1. Init => CallsInv
  BY InitCalls
<1>2. CallsInv /\ StartsCatch /\ [Next]_vars => CallsInv'
  BY CallsStep
<1> QED
  BY <1>1, <1>2, PTL DEF Spec

\* What the invariant says of the types and of the call depth.
LEMMA TypesFollow ==
  ASSUME CallsInv
  PROVE  CallsTypeOK
<1>1. /\ frame \in Frame /\ depth = Len(cstack) /\ depth <= MaxDepth /\ trapped \in BOOLEAN
      /\ tail \in Func \cup {None} /\ frame.base <= sp
  BY DEF CallsInv, HeightsAgree, ContextInv, CallsShapes
<1>2. /\ InWasm => frame.pc \in 1 .. End(frame.fn)
      /\ cstack = << >> => frame.fn = None
  BY WhoRuns DEF CallsInv, ContextInv
<1>3. \A k \in DOMAIN handlers : handlers[k].depth \in 1 .. depth
  BY DEF CallsInv, ContextInv, HandlersOwned
<1>4. ASSUME NEW k \in DOMAIN handlers, k > 1
      PROVE  handlers[k - 1].depth <= handlers[k].depth
  <2>1. DOMAIN handlers = 1 .. Len(handlers) /\ Len(handlers) \in Nat
    BY LenProperties DEF CallsInv, ContextInv, CallsShapes
  <2>2. k - 1 \in DOMAIN handlers /\ k - 1 < k
    BY <2>1, <1>4
  <2> QED
    BY <2>2 DEF CallsInv, ContextInv, HandlersOwned
<1>5. frame.fn \in Func \cup {None}
  BY <1>1 DEF Frame
<1> QED
  BY <1>1, <1>2, <1>3, <1>4, <1>5 DEF CallsTypeOK

\* The call depth is balanced on every path, and the bases nest (jav_call_fn).
THEOREM CallsTyped ==
  ASSUME ~ HostIgnoresTraps
  PROVE  Spec /\ []StartsCatch => []CallsTypeOK
<1>1. CallsInv => CallsTypeOK
  BY TypesFollow
<1> QED
  BY <1>1, CallsCorrect, PTL

\* The operands of a running frame are those the validator counted, after calls,
\* branches, catches and re-entrant calls alike.
THEOREM HeightsAreTyped ==
  ASSUME ~ HostIgnoresTraps
  PROVE  Spec /\ []StartsCatch => []StackMatchesTypes
<1>1. ASSUME CallsInv
      PROVE  StackMatchesTypes
  <2>1. ASSUME InWasm, frame.pc < End(frame.fn)
        PROVE  sp - frame.base = Height(frame.fn, frame.pc)
    <3>1. PICK f, p, n : f = frame.fn /\ p = frame.pc /\ n = depth
      OBVIOUS
    <3>2. sp = frame.base + Height(f, p) /\ frame.base \in Int /\ Height(f, p) \in Nat
      BY <2>1, <3>1, <1>1, Calm
    <3> QED
      BY <3>1, <3>2
  <2> QED
    BY <2>1 DEF StackMatchesTypes
<1> QED
  BY <1>1, CallsCorrect, PTL

\* A run is reported as trapped exactly when a trap was raised in it (jit_enter,
\* interp_run).
THEOREM TrapsAreOwn ==
  ASSUME ~ HostIgnoresTraps
  PROVE  Spec /\ []StartsCatch => []TrapIsOwn
<1>1. CallsInv => TrapIsOwn
  BY DEF CallsInv, TrapsAgree, TrapIsOwn, Top
<1> QED
  BY <1>1, CallsCorrect, PTL

\* An exception is caught within the API call it was thrown in, or is that call's
\* outcome (do_throw, jav_classify_outcome).
THEOREM ExceptionsStay ==
  ASSUME ~ HostIgnoresTraps
  PROVE  Spec /\ []StartsCatch => []ExceptionsStayInTheirCall
<1>1. CallsInv => ExceptionsStayInTheirCall
  BY WhoRuns DEF CallsInv, ContextInv, Unwinds, ExceptionsStayInTheirCall
<1> QED
  BY <1>1, CallsCorrect, PTL

\* Only an activation that is entered or over, or guest code, changes the
\* function that runs.
LEMMA HostStays ==
  ASSUME ~ HostIgnoresTraps, CallsInv, Next, cstack' = cstack, frame'.fn # frame.fn
  PROVE  InWasm
<1> SUFFICES ASSUME InHost
             PROVE  FALSE
  BY GuestRuns
<1>1. PICK n : n = Len(cstack) /\ n = depth /\ n \in Nat
  BY StackType DEF CallsInv, ContextInv, CallsShapes
<1>2. ~ InWasm /\ ~ AtAny
  BY GuestRuns DEF AtAny
<1>3. ASSUME NEW g \in Func, NEW kind \in {"call", "start"}, CallFn(g, kind, EntryFrame(g), frame.base)
      PROVE  FALSE
  <2>1. CASE Enter(g, kind, EntryFrame(g), frame.base)
    <3>1. PICK a : a \in Activation /\ cstack' = Append(cstack, a)
      <4>1. EntryFrame(g) \in Frame /\ frame \in Frame
        BY Callers DEF CallsInv, ContextInv, CallsShapes
      <4>2. [kind |-> kind, saved |-> EntryFrame(g), outer |-> frame, raised |-> FALSE, owes |-> FALSE] \in Activation
        BY <4>1 DEF Activation
      <4> QED
        BY <2>1, <4>2 DEF Enter
    <3>2. Len(cstack') = n + 1
      BY <3>1, <1>1, AppendProperties DEF CallsInv, ContextInv, CallsShapes
    <3> QED
      BY <3>2, <1>1
  <2>2. CASE Refuse(g, kind, EntryFrame(g), frame.base)
    <3>1. frame' = frame \/ frame' = EntryFrame(g)
      BY <2>2 DEF Refuse
    <3>2. EntryFrame(g).fn = frame.fn
      BY Callers DEF CallsInv
    <3> QED
      BY <3>1, <3>2
  <2> QED
    BY <1>3, <2>1, <2>2 DEF CallFn
<1>4. ASSUME NEW st, Finish(st), tail' = tail, cstack # << >>
      PROVE  FALSE
  <2>1. n > 0
    BY <1>1, <1>4, WhoRuns DEF CallsInv, ContextInv
  <2>2. PICK m, a, hs : m = depth - 1 /\ a = cstack[depth] /\ hs = BelowDepth(handlers, depth)
    OBVIOUS
  <2>3. CallsUpTo(m)
    BY <2>1, <2>2, <1>1, <1>4, FinishKeepsContext DEF CallsInv
  <2>4. Len(cstack') = m
    BY <2>3 DEF CallsUpTo
  <2> QED
    BY <2>2, <2>4, <1>1
<1>5. ASSUME NEW st \in {"ok", "trap"}, RunEnds(st), cstack # << >>, st = "ok" => ~ Top.owes
      PROVE  FALSE
  <2>1. st = "ok" => tail = None
    BY <1>2, <1>5 DEF CallsInv, TailsAgree
  <2>2. Finish(st) /\ tail' = tail
    BY <2>1, <1>5 DEF RunEnds
  <2> QED
    BY <2>2, <1>4, <1>5
<1>6. ~ WasmEnds /\ ~ Plain /\ ~ TryTable /\ ~ Return /\ ~ Trap
  BY <1>2 DEF WasmEnds, Plain, TryTable, Return, Trap
<1>7. /\ \A g \in Func : ~ Call(g) /\ ~ TailCall(g)
      /\ \A t \in Tag : ~ Throw(t)
  BY <1>2 DEF Call, TailCall, Throw
<1>8. \A g \in Func : ~ ApiCall(g) /\ ~ ApiStart(g)
  BY <1>3 DEF ApiCall, ApiStart
<1>9. ~ HostReturns
  BY <1>5 DEF HostReturns, Top
<1>10. ~ HostTraps
  BY <1>5 DEF HostTraps
<1> QED
  BY <1>2, <1>6, <1>7, <1>8, <1>9, <1>10 DEF Next

\* A return_call replaces guest code alone: a callback returns to its caller
\* (capi_host_invoke, JAV_INVOKE_TAIL).
THEOREM HostIsNotReplaced ==
  ASSUME ~ HostIgnoresTraps
  PROVE  Spec /\ []StartsCatch => HostNotReplaced
<1>1. CallsInv /\ [Next]_vars => [cstack' = cstack /\ frame'.fn # frame.fn => InWasm]_vars
  BY HostStays
<1> QED
  BY <1>1, CallsCorrect, PTL DEF Spec, HostNotReplaced
=============================================================================
