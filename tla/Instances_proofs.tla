-------------------------- MODULE Instances_proofs --------------------------
(***************************************************************************)
(* Proofs about Instances: whatever instantiations nest, fail or trap, no  *)
(* slot holds a function of an instance that was freed, and a collection   *)
(* keeps what the slots hold, unless a module has two tables or two items  *)
(* of a segment that allocate.                                             *)
(***************************************************************************)
EXTENDS Instances, SequenceTheorems, TLAPS

\* The innermost activation.
LEMMA TopIs ==
  ASSUME Shapes
  PROVE  /\ Len(stack) \in Nat /\ DOMAIN stack = 1 .. Len(stack)
         /\ stack # << >> => Len(stack) \in DOMAIN stack /\ Top = stack[Len(stack)]
         /\ stack = << >> => Top.kind = "host"
         /\ Guest => stack # << >> /\ Top \in [kind : {"call"}, inst : Inst, saved : Inst \cup {Cluster}]
         /\ \A i : Building(i) => stack # << >> /\ IsBuild(Len(stack), i) /\ i \in Inst
         /\ ~ (InHost /\ Guest) /\ \A i : ~ (Building(i) /\ (InHost \/ Guest))
<1>1. stack \in Seq(Frame)
  BY DEF Shapes
<1>2. /\ Len(stack) \in Nat /\ DOMAIN stack = 1 .. Len(stack)
      /\ stack # << >> => Len(stack) \in DOMAIN stack /\ Top = stack[Len(stack)]
      /\ stack = << >> => Top.kind = "host"
  BY <1>1 DEF Top, Last
<1>3. stack # << >> => Top \in Frame
  BY <1>1, <1>2
<1> QED
  BY <1>2, <1>3 DEF Guest, InHost, Building, IsBuild, Frame

\* Popping leaves the activations below as they were.
LEMMA PopEffect ==
  ASSUME Shapes, stack # << >>, Pop
  PROVE  /\ stack' \in Seq(Frame) /\ Len(stack') = Len(stack) - 1
         /\ \A k \in DOMAIN stack' : k \in DOMAIN stack /\ k < Len(stack) /\ stack'[k] = stack[k]
<1>1. stack \in Seq(Frame) /\ Len(stack) \in Nat /\ Len(stack) >= 1
  BY DEF Shapes
<1>2. stack' = SubSeq(stack, 1, Len(stack) - 1)
  BY DEF Pop
<1> DEFINE n == Len(stack) - 1
           s == SubSeq(stack, 1, n)
<1>3. n \in Nat /\ \A k \in 1 .. n : stack[k] \in Frame
  BY <1>1
<1> HIDE DEF n
<1>4. s \in Seq(Frame) /\ Len(s) = n /\ \A k \in 1 .. n : s[k] = stack[k]
  BY <1>3, SubSeqProperties
<1> HIDE DEF s
<1>5. DOMAIN s = 1 .. n
  BY <1>4
<1>6. DOMAIN stack = 1 .. Len(stack)
  BY <1>1
<1> QED
  BY <1>1, <1>2, <1>3, <1>4, <1>5, <1>6 DEF n, s

\* What a sequence is with one element more.
LEMMA AppendEffect ==
  ASSUME Shapes, NEW a \in Frame, stack' = Append(stack, a)
  PROVE  /\ stack' \in Seq(Frame) /\ Len(stack') = Len(stack) + 1
         /\ stack'[Len(stack) + 1] = a
         /\ \A k \in DOMAIN stack' : k # Len(stack) + 1 => k \in DOMAIN stack /\ stack'[k] = stack[k]
         /\ \A k \in DOMAIN stack : k \in DOMAIN stack' /\ k < Len(stack')
BY DEF Shapes

\* Every instantiation but the innermost waits for its start function.
LEMMA OthersHaveStarted ==
  ASSUME Shapes, StackNests, NEW i \in Inst, state[i] = "building", ~ Building(i)
  PROVE  at[i].stage = "start"
<1>1. PICK k \in DOMAIN stack : IsBuild(k, i)
  BY DEF StackNests
<1>2. k # Len(stack) \/ stack = << >>
  BY <1>1, TopIs DEF Building, IsBuild
<1> QED
  BY <1>1, <1>2 DEF StackNests, IsBuild

\* Only an instantiation that allocates segments has a pooled item.
LEMMA NothingParked ==
  ASSUME Shapes, StackNests, SlotsInTurn, NEW i \in Inst, ~ Building(i)
  PROVE  parked[i] = << >>
BY OthersHaveStarted DEF SlotsInTurn
-----------------------------------------------------------------------------
(***************************************************************************)
(* Steps that change the stack.                                            *)
(***************************************************************************)

\* An activation ends: what is uncovered is a host callback, the embedder, an
\* instantiation at its start function, or the caller, in its own instance.
LEMMA ReturnKeepsNesting ==
  ASSUME Shapes, StackNests, Return
  PROVE  Shapes' /\ StackNests'
<1> USE TopIs DEF Return
<1>1. Pop /\ stack # << >> /\ stack[Len(stack)].kind # "build" /\ ctx' = stack[Len(stack)].saved
  OBVIOUS
<1>2. UNCHANGED <<shape, slots, view, insts, heap>>
  OBVIOUS
<1>3. Shapes'
  <2>1. ctx' \in Inst \cup {Cluster}
    BY <1>1 DEF Shapes, Frame
  <2> QED
    BY <1>1, <1>2, <2>1, PopEffect DEF Shapes, shape, slots, Present
<1>4. \A k \in DOMAIN stack' :
        /\ Present(stack[k].inst)'
        /\ stack'[k].kind = "build" =>
             /\ state'[stack'[k].inst] = "building"
             /\ at'[stack'[k].inst].stage = "start"
        /\ k > 1 /\ stack'[k - 1].kind = "call" =>
             stack'[k].kind # "build" /\ stack'[k].saved = stack'[k - 1].inst
  BY <1>1, <1>2, PopEffect DEF StackNests, shape, Present
<1>5. \A i \in Inst : state'[i] = "building" => \E k \in DOMAIN stack' : IsBuild(k, i)'
  BY <1>1, <1>2, PopEffect DEF StackNests, shape, IsBuild
<1>6. \A i \in Inst, k, l \in DOMAIN stack' : IsBuild(k, i)' /\ IsBuild(l, i)' => k = l
  BY <1>1, <1>2, PopEffect DEF StackNests, IsBuild
<1>7. Guest' => ctx' = Top.inst'
  <2> SUFFICES ASSUME Guest' PROVE ctx' = Top.inst'
    OBVIOUS
  <2>1. Len(stack') \in DOMAIN stack' /\ Top' = stack'[Len(stack')] /\ Top'.kind = "call"
    BY <1>3 DEF Guest, Top, Last, Shapes
  <2> QED
    BY <1>1, <2>1, PopEffect DEF StackNests
<1> QED
  BY <1>3, <1>4, <1>5, <1>6, <1>7 DEF StackNests

\* A call is made by guest code or by a host callback.
LEMMA PushKeepsNesting ==
  ASSUME Shapes, StackNests, Guest \/ InHost, NEW kind \in {"call", "host"}, NEW i \in Inst,
         Present(i), Push(kind, i), ctx' \in Inst \cup {Cluster}, kind = "call" => ctx' = i
  PROVE  Shapes' /\ StackNests'
<1> USE TopIs
<1> DEFINE a == [kind |-> kind, inst |-> i, saved |-> ctx]
<1>1. stack' = Append(stack, a) /\ UNCHANGED <<shape, slots, view, insts, heap>>
  BY DEF Push
<1>2. a \in Frame /\ a.kind = kind /\ a.inst = i /\ a.saved = ctx
  BY DEF Frame, Shapes
<1> HIDE DEF a
<1>3. Shapes'
  BY <1>1, <1>2, AppendEffect DEF Shapes, shape, slots, Present
<1>4. \A k \in DOMAIN stack : stack[k].kind = "build" => at[stack[k].inst].stage = "start"
  BY DEF StackNests, Guest, InHost
<1>5. stack # << >> /\ stack[Len(stack)].kind = "call" => ctx = stack[Len(stack)].inst
  BY DEF StackNests, Guest
<1>6. \A k \in DOMAIN stack' :
        /\ Present(stack[k].inst)'
        /\ stack'[k].kind = "build" =>
             /\ state'[stack'[k].inst] = "building"
             /\ at'[stack'[k].inst].stage = "start"
        /\ k > 1 /\ stack'[k - 1].kind = "call" =>
             stack'[k].kind # "build" /\ stack'[k].saved = stack'[k - 1].inst
  <2> TAKE k \in DOMAIN stack'
  <2>1. CASE k = Len(stack) + 1
    <3>1. stack'[k] = a /\ Present(i)'
      BY <1>1, <1>2, <2>1, AppendEffect DEF shape, Present
    <3>2. k > 1 => k - 1 = Len(stack) /\ stack # << >> /\ stack'[k - 1] = stack[Len(stack)]
      <4>1. DOMAIN stack' = 1 .. Len(stack) + 1 /\ DOMAIN stack = 1 .. Len(stack) /\ Len(stack) \in Nat
        BY <1>1, <1>2, AppendEffect DEF Shapes
      <4>2. k > 1 => Len(stack) \in DOMAIN stack'
        BY <4>1, <2>1
      <4>3. k > 1 => stack'[Len(stack)] = stack[Len(stack)]
        BY <1>1, <1>2, <4>1, <4>2, AppendEffect
      <4> QED
        BY <4>1, <4>3, <2>1
    <3> QED
      BY <1>2, <1>5, <3>1, <3>2 DEF Present
  <2>2. CASE k # Len(stack) + 1
    BY <1>1, <1>2, <1>4, <2>2, AppendEffect DEF StackNests, shape, Present
  <2> QED
    BY <2>1, <2>2
<1>7. \A j \in Inst : state'[j] = "building" => \E k \in DOMAIN stack' : IsBuild(k, j)'
  BY <1>1, <1>2, AppendEffect DEF StackNests, shape, IsBuild
<1>8. \A j \in Inst, k, l \in DOMAIN stack' : IsBuild(k, j)' /\ IsBuild(l, j)' => k = l
  BY <1>1, <1>2, AppendEffect DEF StackNests, IsBuild
<1>9. Guest' => ctx' = Top.inst'
  <2>1. Top' = a
    BY <1>1, <1>2, AppendEffect DEF Top, Last
  <2> QED
    BY <1>2, <2>1 DEF Guest
<1> QED
  BY <1>3, <1>6, <1>7, <1>8, <1>9 DEF StackNests

\* An instantiation comes to its end, one way or the other.
LEMMA BuildEndsKeepsNesting ==
  ASSUME Shapes, StackNests, NEW i \in Inst, Building(i), Pop,
         NEW s \in {"live", "trapped"}, state' = [state EXCEPT ![i] = s],
         \A j \in Inst : j # i => at'[j] = at[j]
  PROVE  StackNests'
<1> USE TopIs
<1>1. stack # << >> /\ IsBuild(Len(stack), i)
  OBVIOUS
<1>2. \A j \in Inst : state'[j] = IF j = i THEN s ELSE state[j]
  BY DEF Shapes
<1>3. \A k \in DOMAIN stack' : stack'[k].inst \in Inst /\ (stack'[k].kind = "build" => stack'[k].inst # i)
  <2> TAKE k \in DOMAIN stack'
  <2>1. k \in DOMAIN stack /\ k < Len(stack) /\ stack'[k] = stack[k]
    BY <1>1, PopEffect
  <2>2. stack[k] \in Frame
    BY <2>1 DEF Shapes
  <2>3. stack[k].inst \in Inst
    BY <2>2 DEF Frame
  <2> QED
    BY <1>1, <2>1, <2>3 DEF StackNests, IsBuild
<1>4. \A k \in DOMAIN stack' :
        /\ Present(stack[k].inst)'
        /\ stack'[k].kind = "build" =>
             /\ state'[stack'[k].inst] = "building"
             /\ at'[stack'[k].inst].stage = "start"
        /\ k > 1 /\ stack'[k - 1].kind = "call" =>
             stack'[k].kind # "build" /\ stack'[k].saved = stack'[k - 1].inst
  BY <1>1, <1>2, <1>3, PopEffect DEF StackNests, Present
<1>5. \A j \in Inst : state'[j] = "building" => \E k \in DOMAIN stack' : IsBuild(k, j)'
  <2> TAKE j \in Inst
  <2> HAVE state'[j] = "building"
  <2>1. j # i /\ state[j] = "building"
    BY <1>2
  <2>2. PICK k \in DOMAIN stack : IsBuild(k, j)
    BY <2>1 DEF StackNests
  <2>3. k # Len(stack) /\ k \in DOMAIN stack'
    BY <1>1, <2>1, <2>2, PopEffect DEF IsBuild
  <2> QED
    BY <1>1, <2>2, <2>3, PopEffect DEF IsBuild
<1>6. \A j \in Inst, k, l \in DOMAIN stack' : IsBuild(k, j)' /\ IsBuild(l, j)' => k = l
  BY <1>1, PopEffect DEF StackNests, IsBuild
<1>7. ~ Guest'
  <2> SUFFICES ASSUME Guest' PROVE FALSE
    OBVIOUS
  <2>1. Len(stack') \in DOMAIN stack' /\ Top' = stack'[Len(stack')] /\ Top'.kind = "call"
    BY <1>1, PopEffect DEF Guest, Top, Last, Shapes
  <2> QED
    BY <1>1, <2>1, PopEffect DEF StackNests, IsBuild
<1> QED
  BY <1>4, <1>5, <1>6, <1>7 DEF StackNests

\* A step of the instance that runs, with nothing called or ended.
LEMMA SameStackKeepsNesting ==
  ASSUME Shapes, StackNests, UNCHANGED <<state, ctx, stack>>,
         \A j \in Inst : at'[j].stage = "start" \/ at[j].stage # "start"
  PROVE  StackNests'
BY DEF StackNests, Present, IsBuild, Guest, Top, Shapes, Frame

\* The embedder frees an instance that is not on the stack.
LEMMA FreedKeepsNesting ==
  ASSUME Shapes, StackNests, InHost, NEW i \in Inst, state' = [state EXCEPT ![i] = "freed"],
         \A k \in DOMAIN stack : stack[k].inst # i, UNCHANGED <<at, stack>>
  PROVE  StackNests'
<1> USE TopIs
<1>1. \A j \in Inst : state'[j] = IF j = i THEN "freed" ELSE state[j]
  BY DEF Shapes
<1>2. Top' = Top /\ ~ Guest'
  BY DEF Guest, InHost, Top
<1>3. \A k \in DOMAIN stack : stack[k].kind = "build" => at[stack[k].inst].stage = "start"
  BY DEF StackNests, InHost
<1>4. \A k \in DOMAIN stack : stack[k].inst \in Inst
  <2> TAKE k \in DOMAIN stack
  <2>1. stack[k] \in Frame
    BY DEF Shapes
  <2> QED
    BY <2>1 DEF Frame
<1> QED
  BY <1>1, <1>2, <1>3, <1>4 DEF StackNests, Present, IsBuild

\* An instantiation begins.
LEMMA NewKeepsNesting ==
  ASSUME Shapes, StackNests, InHost, NEW i \in Inst, state[i] = "unused",
         stack' = Append(stack, [kind |-> "build", inst |-> i]), ctx' = i,
         state' = [state EXCEPT ![i] = "building"], at' = at
  PROVE  StackNests'
<1> USE TopIs
<1> DEFINE a == [kind |-> "build", inst |-> i]
<1>1. stack' = Append(stack, a)
  OBVIOUS
<1>2. a \in Frame /\ a.kind = "build" /\ a.inst = i
  BY DEF Frame
<1> HIDE DEF a
<1>3. \A j \in Inst : state'[j] = IF j = i THEN "building" ELSE state[j]
  BY DEF Shapes
<1>4. \A k \in DOMAIN stack : stack[k].inst \in Inst /\ stack[k].inst # i
  <2> TAKE k \in DOMAIN stack
  <2>1. stack[k] \in Frame
    BY DEF Shapes
  <2>2. stack[k].inst \in Inst
    BY <2>1 DEF Frame
  <2> QED
    BY <2>2 DEF StackNests, Present
<1>5. \A k \in DOMAIN stack : stack[k].kind = "build" => at[stack[k].inst].stage = "start"
  BY DEF StackNests, InHost
<1>6. stack # << >> => stack[Len(stack)].kind # "call"
  BY DEF InHost
<1>7. Len(stack') = Len(stack) + 1 /\ stack'[Len(stack) + 1] = a /\ Len(stack') \in DOMAIN stack'
  BY <1>1, <1>2, AppendEffect
<1>8. \A k \in DOMAIN stack' : k # Len(stack) + 1 => k \in DOMAIN stack /\ stack'[k] = stack[k]
  BY <1>1, <1>2, AppendEffect
<1>9. \A k \in DOMAIN stack' :
        /\ Present(stack[k].inst)'
        /\ stack'[k].kind = "build" =>
             /\ state'[stack'[k].inst] = "building"
             /\ at'[stack'[k].inst].stage # "start" => k = Len(stack') /\ ctx' = stack'[k].inst
        /\ k > 1 /\ stack'[k - 1].kind = "call" =>
             stack'[k].kind # "build" /\ stack'[k].saved = stack'[k - 1].inst
  <2> TAKE k \in DOMAIN stack'
  <2>1. CASE k = Len(stack) + 1
    <3>1. stack'[k] = a /\ Present(stack[k].inst)'
      BY <1>2, <1>3, <1>7, <2>1 DEF Present
    <3>2. ~ (k > 1 /\ stack'[k - 1].kind = "call")
      <4>1. DOMAIN stack' = 1 .. Len(stack) + 1 /\ DOMAIN stack = 1 .. Len(stack) /\ Len(stack) \in Nat
        BY <1>1, <1>2, AppendEffect DEF Shapes
      <4>2. k > 1 => Len(stack) \in DOMAIN stack' /\ k - 1 = Len(stack) /\ stack # << >>
        BY <4>1, <2>1
      <4> QED
        BY <4>2, <4>1, <1>6, <1>8
    <3> QED
      BY <1>2, <1>3, <1>7, <2>1, <3>1, <3>2
  <2>2. CASE k # Len(stack) + 1
    <3>1. k \in DOMAIN stack /\ stack'[k] = stack[k]
      BY <1>8, <2>2
    <3>2. k > 1 => k - 1 \in DOMAIN stack /\ stack'[k - 1] = stack[k - 1]
      <4>1. DOMAIN stack' = 1 .. Len(stack) + 1 /\ DOMAIN stack = 1 .. Len(stack) /\ Len(stack) \in Nat
        BY <1>1, <1>2, AppendEffect DEF Shapes
      <4>2. k > 1 => k - 1 \in DOMAIN stack' /\ k - 1 # Len(stack) + 1
        BY <4>1
      <4> QED
        BY <4>2, <1>8
    <3> QED
      BY <1>3, <1>4, <1>5, <3>1, <3>2 DEF StackNests, Present
  <2> QED
    BY <2>1, <2>2
<1>10. \A j \in Inst : state'[j] = "building" => \E k \in DOMAIN stack' : IsBuild(k, j)'
  <2> TAKE j \in Inst
  <2>1. CASE j = i
    BY <1>2, <1>7, <2>1 DEF IsBuild
  <2>2. CASE j # i /\ state'[j] = "building"
    <3>1. PICK k \in DOMAIN stack : IsBuild(k, j)
      BY <1>3, <2>2 DEF StackNests
    <3>2. k \in DOMAIN stack' /\ stack'[k] = stack[k]
      BY <1>1, <1>2, AppendEffect
    <3> QED
      BY <3>1, <3>2 DEF IsBuild
  <2> QED
    BY <2>1, <2>2
<1>11. \A j \in Inst, k, l \in DOMAIN stack' : IsBuild(k, j)' /\ IsBuild(l, j)' => k = l
  BY <1>2, <1>4, <1>7, <1>8 DEF StackNests, IsBuild
<1>12. ~ Guest'
  <2>1. Top' = a
    BY <1>1, <1>2, AppendEffect DEF Top, Last
  <2> QED
    BY <1>2, <2>1 DEF Guest
<1> QED
  BY <1>9, <1>10, <1>11, <1>12 DEF StackNests

\* The start function is called.
LEMMA StartKeepsNesting ==
  ASSUME Shapes, StackNests, NEW i \in Inst, Building(i),
         stack' = Append(stack, [kind |-> "call", inst |-> i, saved |-> i]), ctx' = i,
         state' = state, at'[i].stage = "start", \A j \in Inst : j # i => at'[j] = at[j]
  PROVE  StackNests'
<1> USE TopIs
<1> DEFINE a == [kind |-> "call", inst |-> i, saved |-> i]
<1>1. stack' = Append(stack, a)
  OBVIOUS
<1>2. a \in Frame /\ a.kind = "call" /\ a.inst = i
  BY DEF Frame
<1> HIDE DEF a
<1>3. stack # << >> /\ IsBuild(Len(stack), i) /\ Len(stack) \in DOMAIN stack
  OBVIOUS
<1>4. Len(stack') = Len(stack) + 1 /\ stack'[Len(stack) + 1] = a /\ Len(stack') \in DOMAIN stack'
  BY <1>1, <1>2, AppendEffect
<1>5. \A k \in DOMAIN stack' : k # Len(stack) + 1 => k \in DOMAIN stack /\ stack'[k] = stack[k]
  BY <1>1, <1>2, AppendEffect
<1>6. DOMAIN stack' = 1 .. Len(stack) + 1 /\ DOMAIN stack = 1 .. Len(stack) /\ Len(stack) \in Nat
  BY <1>1, <1>2, AppendEffect DEF Shapes
<1>7. \A k \in DOMAIN stack : stack[k].kind = "build" => at'[stack[k].inst].stage = "start"
  <2> TAKE k \in DOMAIN stack
  <2> HAVE stack[k].kind = "build"
  <2>1. stack[k] \in Frame
    BY DEF Shapes
  <2>2. stack[k].inst \in Inst
    BY <2>1 DEF Frame
  <2>3. stack[k].inst = i \/ at[stack[k].inst].stage = "start"
    BY <1>3 DEF StackNests, IsBuild
  <2> QED
    BY <2>2, <2>3
<1>8. \A k \in DOMAIN stack' :
        /\ Present(stack[k].inst)'
        /\ stack'[k].kind = "build" =>
             /\ state'[stack'[k].inst] = "building"
             /\ at'[stack'[k].inst].stage = "start"
        /\ k > 1 /\ stack'[k - 1].kind = "call" =>
             stack'[k].kind # "build" /\ stack'[k].saved = stack'[k - 1].inst
  <2> TAKE k \in DOMAIN stack'
  <2>1. CASE k = Len(stack) + 1
    <3>1. stack'[k] = a /\ Present(stack[k].inst)'
      BY <1>2, <1>3, <1>4, <2>1 DEF Present, StackNests, IsBuild
    <3>2. k - 1 = Len(stack) /\ Len(stack) # Len(stack) + 1
      <4> DEFINE n == Len(stack)
      <4>1. n \in Nat /\ k = n + 1
        BY <1>6, <2>1
      <4> HIDE DEF n
      <4>2. k - 1 = n /\ n # n + 1
        BY <4>1
      <4> QED
        BY <4>2 DEF n
    <3>3. Len(stack) \in DOMAIN stack'
      BY <1>3, <1>6
    <3>4. stack'[Len(stack)] = stack[Len(stack)]
      BY <1>5, <3>2, <3>3
    <3> QED
      BY <1>2, <1>3, <3>1, <3>2, <3>4 DEF IsBuild
  <2>2. CASE k # Len(stack) + 1
    <3>1. k \in DOMAIN stack /\ stack'[k] = stack[k]
      BY <1>5, <2>2
    <3>2. k > 1 => k - 1 \in DOMAIN stack' /\ k - 1 # Len(stack) + 1
      BY <1>6, <2>2
    <3>3. k > 1 => k - 1 \in DOMAIN stack /\ stack'[k - 1] = stack[k - 1]
      BY <1>5, <3>2
    <3> QED
      BY <1>7, <3>1, <3>3 DEF StackNests, Present
  <2> QED
    BY <2>1, <2>2
<1>9. \A j \in Inst : state'[j] = "building" => \E k \in DOMAIN stack' : IsBuild(k, j)'
  <2> TAKE j \in Inst
  <2> HAVE state'[j] = "building"
  <2>1. PICK k \in DOMAIN stack : IsBuild(k, j)
    BY DEF StackNests
  <2>2. k \in DOMAIN stack' /\ stack'[k] = stack[k]
    BY <1>1, <1>2, AppendEffect
  <2> QED
    BY <2>1, <2>2 DEF IsBuild
<1>10. \A j \in Inst, k, l \in DOMAIN stack' : IsBuild(k, j)' /\ IsBuild(l, j)' => k = l
  BY <1>2, <1>4, <1>5 DEF StackNests, IsBuild
<1>11. Top' = a
  BY <1>1, <1>2, AppendEffect DEF Top, Last
<1> QED
  BY <1>2, <1>8, <1>9, <1>10, <1>11 DEF StackNests
-----------------------------------------------------------------------------
(***************************************************************************)
(* What a slot holds.                                                      *)
(***************************************************************************)

\* A slot of a sequence is written.
LEMMA SlotWritten ==
  ASSUME NEW S, NEW s \in Seq(S), NEW n, NEW v \in S
  PROVE  /\ [s EXCEPT ![n] = v] \in Seq(S)
         /\ ToSet([s EXCEPT ![n] = v]) \subseteq ToSet(s) \cup {v}
<1>1. DOMAIN s = 1 .. Len(s) /\ Len(s) \in Nat /\ \A k \in 1 .. Len(s) : s[k] \in S
  OBVIOUS
<1> DEFINE r == [s EXCEPT ![n] = v]
<1>2. r = [k \in 1 .. Len(s) |-> IF k = n THEN v ELSE s[k]]
  BY <1>1
<1>3. r \in [1 .. Len(s) -> S]
  BY <1>1, <1>2
<1>4. r \in Seq(S)
  BY <1>1, <1>3
<1>5. ToSet(r) \subseteq ToSet(s) \cup {v}
  BY <1>1, <1>2 DEF ToSet
<1> QED
  BY <1>4, <1>5

\* A global is written.
LEMMA GlobalWritten ==
  ASSUME Shapes, NEW i \in Inst, NEW n, NEW v \in Val, globals' = [globals EXCEPT ![i][n] = v]
  PROVE  /\ globals' \in [Inst -> Seq(Val)]
         /\ ToSet(globals'[i]) \subseteq ToSet(globals[i]) \cup {v}
         /\ \A j \in Inst : j # i => globals'[j] = globals[j]
<1>1. globals \in [Inst -> Seq(Val)] /\ globals[i] \in Seq(Val)
  BY DEF Shapes
<1>2. [globals[i] EXCEPT ![n] = v] \in Seq(Val)
  BY <1>1, SlotWritten, Zenon
<1>3. ToSet([globals[i] EXCEPT ![n] = v]) \subseteq ToSet(globals[i]) \cup {v}
  BY <1>1, SlotWritten, Zenon
<1>4. globals' = [j \in Inst |-> IF j = i THEN [globals[i] EXCEPT ![n] = v] ELSE globals[j]]
  BY <1>1
<1>5. globals'[i] = [globals[i] EXCEPT ![n] = v] /\ \A j \in Inst : j # i => globals'[j] = globals[j]
  BY <1>4, Zenon
<1>6. globals' \in [Inst -> Seq(Val)]
  BY <1>1, <1>2, <1>4
<1> QED
  BY <1>3, <1>5, <1>6

\* A slot is added to a sequence.
LEMMA SlotAdded ==
  ASSUME NEW S, NEW s \in Seq(S), NEW v \in S
  PROVE  /\ Append(s, v) \in Seq(S)
         /\ ToSet(Append(s, v)) = ToSet(s) \cup {v}
<1>1. Append(s, v) \in Seq(S) /\ Len(Append(s, v)) = Len(s) + 1 /\ Len(s) \in Nat
  OBVIOUS
<1>2. DOMAIN Append(s, v) = 1 .. Len(s) + 1 /\ DOMAIN s = 1 .. Len(s)
  BY <1>1
<1>3. Append(s, v)[Len(s) + 1] = v /\ \A k \in DOMAIN s : Append(s, v)[k] = s[k]
  OBVIOUS
<1> QED
  BY <1>1, <1>2, <1>3 DEF ToSet

\* The slots of an instance's tables, when what is written is in V.
LEMMA TablesGrow ==
  ASSUME NEW j \in Inst, NEW V, tabs'[j] = tabs[j],
         \A t \in ToSet(tabs[j]) : ToSet(store'[t]) \subseteq ToSet(store[t]) \cup V
  PROVE  TableSlots(tabs[j])' \subseteq TableSlots(tabs[j]) \cup V
BY DEF TableSlots

\* The slots of an instance, likewise.
LEMMA SlotsGrow ==
  ASSUME NEW j, NEW V,
         ToSet(globals'[j]) \subseteq ToSet(globals[j]) \cup V,
         TableSlots(tabs[j])' \subseteq TableSlots(tabs[j]) \cup V,
         SegmentSlots(segs[j])' \subseteq SegmentSlots(segs[j]) \cup V,
         ToSet(parked'[j]) \subseteq ToSet(parked[j]) \cup V
  PROVE  Slots(j)' \subseteq Slots(j) \cup V
BY DEF Slots, InstRoots

\* A slot of i alone is written.
LEMMA OwnSlotWritten ==
  ASSUME NEW i \in Inst, NEW v, UNCHANGED <<tabs, store, segs>>,
         ToSet(globals'[i]) \subseteq ToSet(globals[i]) \cup {v},
         ToSet(parked'[i]) \subseteq ToSet(parked[i]) \cup {v},
         \A j \in Inst : j # i => globals'[j] = globals[j] /\ parked'[j] = parked[j]
  PROVE  /\ Slots(i)' \subseteq Slots(i) \cup {v}
         /\ \A j \in Inst : j # i => Slots(j)' = Slots(j)
<1>1. \A j : TableSlots(tabs[j])' = TableSlots(tabs[j]) /\ SegmentSlots(segs[j])' = SegmentSlots(segs[j])
  BY DEF TableSlots, SegmentSlots, Live
<1>2. Slots(i)' \subseteq Slots(i) \cup {v}
  BY <1>1, SlotsGrow
<1>3. \A j \in Inst : j # i => Slots(j)' = Slots(j)
  BY <1>1 DEF Slots, InstRoots
<1> QED
  BY <1>2, <1>3

\* What a segment is.
LEMMA SegmentIs ==
  ASSUME Shapes, NEW j \in Inst, NEW k \in DOMAIN segs[j]
  PROVE  /\ segs[j] \in Seq([vals : Seq(Val), dropped : BOOLEAN]) /\ DOMAIN segs[j] = 1 .. Len(segs[j])
         /\ segs[j][k] \in [vals : Seq(Val), dropped : BOOLEAN] /\ segs[j][k].vals \in Seq(Val)
<1> DEFINE R == [vals : Seq(Val), dropped : BOOLEAN]
<1>1. segs \in [Inst -> Seq(R)]
  BY DEF Shapes
<1>2. \A x \in R : x.vals \in Seq(Val)
  OBVIOUS
<1> HIDE DEF R
<1>3. segs[j] \in Seq(R)
  BY <1>1
<1>4. DOMAIN segs[j] = 1 .. Len(segs[j]) /\ segs[j][k] \in R
  BY <1>3
<1> QED
  BY <1>2, <1>3, <1>4 DEF R

\* The slots of the segments that are not dropped.
LEMMA SegmentsAre ==
  ASSUME NEW sg, NEW x
  PROVE  x \in SegmentSlots(sg) <=> \E k \in DOMAIN sg : ~ sg[k].dropped /\ x \in ToSet(sg[k].vals)
BY DEF SegmentSlots, Live

\* No table is made and no place is lost.
LEMMA TablesStayInOrder ==
  ASSUME Shapes, TablesInOrder, Shapes', UNCHANGED <<state, mod>>, DOMAIN store' = DOMAIN store,
         \A j \in Inst : at'[j].stage = "globals" => at[j].stage = "globals" /\ at[j].n <= at'[j].n
  PROVE  TablesInOrder'
<1> SUFFICES ASSUME NEW j \in Inst, NEW t \in DOMAIN store, t[1] = j
             PROVE  /\ state[j] # "unused"
                    /\ state[j] = "building" /\ at'[j].stage = "globals" => Len(P(j).globals) + t[2] < at'[j].n
  BY DEF TablesInOrder, P
<1>1. t[2] \in Nat /\ at[j].n \in Nat /\ at'[j].n \in Nat
  BY DEF Shapes
<1>2. state[j] = "building" => Len(P(j).globals) \in Nat
  <2> HAVE state[j] = "building"
  <2>1. mod[j] \in Module
    BY DEF Shapes, Present
  <2>2. Plan[mod[j]].globals \in Seq(Expr)
    BY <2>1, PlanAssumption
  <2> QED
    BY <2>2 DEF P
<1> QED
  BY <1>1, <1>2 DEF TablesInOrder

\* What evaluating a constant expression yields, and leaves in the heap.
LEMMA EvalEffect ==
  ASSUME Shapes, NEW i \in Inst, NEW e, NEW v, Eval(e, i, v)
  PROVE  /\ v \in Val /\ heap' \subseteq Obj
         /\ v \in Obj \/ v = Func(i) \/ v = Nil
         /\ v \in Obj => e = "alloc" /\ v \in heap'
         /\ e # "alloc" => heap' = heap
         /\ heap \cap Roots(ctx) \subseteq heap'
BY InstancesAssumption DEF Shapes, Eval, Alloc, Val

\* Functions stay tracked when each new one in a slot is tracked or the slot's own.
LEMMA FunctionsStay ==
  ASSUME FunctionsTracked, insts \subseteq insts',
         \A j \in Seen' : \A l \in Inst : Func(l) \in Slots(j)' =>
           (j \in Seen /\ Func(l) \in Slots(j)) \/ l \in insts' \cup {j}
  PROVE  FunctionsTracked'
BY DEF FunctionsTracked
-----------------------------------------------------------------------------
(***************************************************************************)
(* The steps of an instantiation.                                          *)
(***************************************************************************)

\* While instance i is built, it is the one that runs, and is present; no
\* other's plan is being followed.
LEMMA WhatIsBuilt ==
  ASSUME InstancesInv, NEW i \in Inst, Building(i)
  PROVE  /\ state[i] = "building" /\ i \in Seen /\ mod[i] \in Module
         /\ at[i].stage # "start" => ctx = i
         /\ \A j \in Inst : j # i => parked[j] = << >>
         /\ \A j \in Inst : j # i /\ state[j] = "building" => at[j].stage = "start" /\ j \in insts
         /\ \A j \in Seen : j # i => j \in insts
         /\ P(i).globals \in Seq(Expr) /\ P(i).tables \in Seq(Expr) /\ P(i).elems \in Seq(Segment)
         /\ at[i].n \in Nat \ {0}
         /\ globals[i] \in Seq(Val) /\ parked[i] \in Seq(Val) /\ tabs[i] \in Seq(DOMAIN store)
         /\ segs[i] \in Seq([vals : Seq(Val), dropped : BOOLEAN])
<1> USE DEF InstancesInv
<1>1. stack # << >> /\ IsBuild(Len(stack), i) /\ Len(stack) \in DOMAIN stack
  BY TopIs
<1>2. state[i] = "building" /\ (at[i].stage # "start" => ctx = i)
  BY <1>1 DEF StackNests, IsBuild
<1>3. \A j \in Inst : j # i => ~ Building(j)
  BY DEF Building
<1>4. \A j \in Inst : j # i => parked[j] = << >>
  BY <1>3, NothingParked
<1>5. \A j \in Inst : j # i /\ state[j] = "building" => at[j].stage = "start" /\ j \in insts
  BY <1>3, OthersHaveStarted DEF StoreTracks
<1>6. i \in Seen /\ \A j \in Seen : j # i => j \in insts
  BY <1>2, <1>5 DEF Seen
<1>7. mod[i] \in Module
  BY <1>2 DEF Shapes, Present
<1>8. P(i).globals \in Seq(Expr) /\ P(i).tables \in Seq(Expr) /\ P(i).elems \in Seq(Segment)
  BY <1>7, PlanAssumption DEF P
<1>9. /\ at[i].n \in Nat \ {0}
      /\ globals[i] \in Seq(Val) /\ parked[i] \in Seq(Val) /\ tabs[i] \in Seq(DOMAIN store)
      /\ segs[i] \in Seq([vals : Seq(Val), dropped : BOOLEAN])
  BY DEF Shapes
<1> QED
  BY <1>2, <1>4, <1>5, <1>6, <1>7, <1>8, <1>9

\* The step InitGlobal keeps the invariant.
LEMMA InitGlobalKeeps ==
  ASSUME InstancesInv, NEW i \in Inst, NEW v, InitGlobal(i, v)
  PROVE  InstancesInv'
<1> USE DEF InstancesInv
<1>1. /\ Building(i) /\ at[i].stage = "globals" /\ Eval(P(i).globals[at[i].n], i, v)
      /\ globals' = [globals EXCEPT ![i][at[i].n] = v]
      /\ at' = [at EXCEPT ![i] = [stage |-> "globals", n |-> at[i].n + 1]]
      /\ UNCHANGED <<state, mod, exporter, tabs, store, segs, parked, view, ctx, stack, insts>>
  BY DEF InitGlobal, Goto
<1>2. v \in Val /\ heap' \subseteq Obj /\ (v \in Obj \/ v = Func(i) \/ v = Nil)
  BY <1>1, EvalEffect
<1>3. at'[i] = [stage |-> "globals", n |-> at[i].n + 1] /\ \A j \in Inst : j # i => at'[j] = at[j]
  BY <1>1 DEF Shapes
<1>4. at[i].n \in Nat \ {0} /\ at[i].n + 1 \in Nat \ {0}
  BY <1>1, WhatIsBuilt
<1>5. at' \in [Inst -> [stage : {"globals", "elems", "start"}, n : Nat \ {0}]]
  BY <1>1, <1>4 DEF Shapes
<1>6. /\ globals' \in [Inst -> Seq(Val)]
      /\ ToSet(globals'[i]) \subseteq ToSet(globals[i]) \cup {v}
      /\ \A j \in Inst : j # i => globals'[j] = globals[j]
  BY <1>1, <1>2, GlobalWritten
<1>7. Shapes'
  BY <1>1, <1>2, <1>5, <1>6 DEF Shapes, Present
<1>8. StackNests'
  BY <1>1, <1>3, SameStackKeepsNesting
<1>9. StoreTracks'
  BY <1>1, <1>3 DEF StoreTracks, Present
<1>10. SlotsInTurn'
  <2>1. state[i] = "building"
    BY <1>1, WhatIsBuilt
  <2>2. TablesInOrder'
    <3>1. DOMAIN store' = DOMAIN store /\ at'[i].n >= at[i].n /\ at[i].stage = "globals"
      BY <1>1, <1>3, <1>4
    <3>2. \A j \in Inst : at'[j].stage = "globals" => at[j].stage = "globals" /\ at[j].n <= at'[j].n
      <4> TAKE j \in Inst
      <4>1. at[j].n \in Nat
        BY DEF Shapes
      <4> QED
        BY <1>3, <3>1, <4>1
    <3> QED
      BY <1>1, <1>7, <3>1, <3>2, TablesStayInOrder DEF SlotsInTurn
  <2> QED
    BY <1>1, <1>3, <2>1, <2>2 DEF SlotsInTurn, P
<1>11. FunctionsTracked'
  <2> SUFFICES ASSUME NEW j \in Seen', NEW l \in Inst, Func(l) \in Slots(j)'
               PROVE  (j \in Seen /\ Func(l) \in Slots(j)) \/ l \in insts' \cup {j}
    BY <1>1, FunctionsStay
  <2>1. j \in Seen /\ j \in Inst
    BY <1>1 DEF Seen, Shapes
  <2>2. Func(l) \in Slots(j) \/ (j = i /\ Func(l) = v)
    BY <1>1, <1>6, <2>1, OwnSlotWritten
  <2>3. Func(l) = v => l = i
    BY <1>2, InstancesAssumption DEF Func
  <2> QED
    BY <2>1, <2>2, <2>3
<1> QED
  BY <1>7, <1>8, <1>9, <1>10, <1>11

\* The construction of i is over, well or not.
LEMMA BuildEndsInShape ==
  ASSUME Shapes, NEW i \in Inst, mod[i] \in Module, stack' \in Seq(Frame),
         NEW s \in {"live", "trapped"}, state' = [state EXCEPT ![i] = s], heap' \subseteq heap,
         UNCHANGED <<mod, exporter, at, globals, tabs, store, segs, parked, view, ctx, insts>>
  PROVE  Shapes'
<1>1. state' \in [Inst -> {"unused", "building", "live", "trapped", "freed"}]
  BY DEF Shapes
<1>2. \A j \in Inst : Present(j)' => mod'[j] \in Module
  BY DEF Shapes, Present
<1> QED
  BY <1>1, <1>2 DEF Shapes

\* The step BuildEnds keeps the invariant.
LEMMA BuildEndsKeeps ==
  ASSUME InstancesInv, Shapes', NEW i \in Inst, Building(i), Pop,
         NEW s \in {"live", "trapped"}, state' = [state EXCEPT ![i] = s], s = "live" => i \in insts,
         UNCHANGED <<mod, exporter, store, insts>>, parked'[i] = << >>,
         \A j \in Inst : j # i => at'[j] = at[j] /\ segs'[j] = segs[j] /\ parked'[j] = parked[j],
         \A j \in Inst : Slots(j)' \subseteq Slots(j)
  PROVE  InstancesInv'
<1> USE DEF InstancesInv
<1>1. state[i] = "building" /\ \A j \in Inst : state'[j] = IF j = i THEN s ELSE state[j]
  <2>1. state[i] = "building"
    BY WhatIsBuilt
  <2>2. \A j \in Inst : state'[j] = IF j = i THEN s ELSE state[j]
    BY DEF Shapes
  <2> QED
    BY <2>1, <2>2
<1>2. StackNests'
  BY BuildEndsKeepsNesting
<1>3. stack # << >>
  BY TopIs
<1>4. StoreTracks'
  <2>1. \A k \in DOMAIN stack' : stack'[k].kind # "build" => stack'[k].inst \in insts'
    BY <1>3, PopEffect DEF StoreTracks
  <2>2. insts' \subseteq {j \in Inst : Present(j)'}
    BY <1>1 DEF StoreTracks, Present
  <2>3. \A j \in Inst : Present(j)' /\ exporter'[j] # Nil => state'[exporter'[j]] = "live"
    <3> TAKE j \in Inst
    <3> HAVE Present(j)' /\ exporter'[j] # Nil
    <3>1. Present(j) /\ exporter[j] # Nil /\ exporter[j] \in Inst
      BY <1>1 DEF Present, Shapes
    <3>2. state[exporter[j]] = "live"
      BY <3>1 DEF StoreTracks
    <3> QED
      BY <1>1, <3>1, <3>2
  <2> QED
    BY <1>1, <2>1, <2>2, <2>3 DEF StoreTracks
<1>5. SlotsInTurn'
  <2>1. TablesInOrder'
    BY <1>1 DEF SlotsInTurn, TablesInOrder, P
  <2> QED
    BY <1>1, <2>1 DEF SlotsInTurn, P
<1>6. FunctionsTracked'
  <2>1. \A j \in Seen' : j \in Seen /\ j \in Inst
    BY <1>1 DEF Seen, Shapes
  <2> QED
    BY <2>1, FunctionsStay
<1> QED
  BY <1>2, <1>4, <1>5, <1>6

\* Slots are the same when what they are read from is.
LEMMA SlotsSame ==
  ASSUME UNCHANGED slots
  PROVE  \A j : Slots(j)' = Slots(j)
BY DEF slots, Slots, InstRoots, TableSlots, SegmentSlots, Live

\* The step AllocationFails keeps the invariant.
LEMMA AllocationFailsKeeps ==
  ASSUME InstancesInv, NEW i \in Inst, AllocationFails(i)
  PROVE  InstancesInv'
<1> USE DEF InstancesInv
<1>1. /\ Building(i) /\ at[i].stage = "globals" /\ Pop
      /\ state' = [state EXCEPT ![i] = "trapped"] /\ insts' = insts /\ heap' \subseteq heap
      /\ UNCHANGED <<mod, exporter, at, slots, view, ctx>>
  BY DEF AllocationFails, Trapped
<1>2. stack' \in Seq(Frame)
  BY <1>1, TopIs, PopEffect
<1>3. Shapes'
  BY <1>1, <1>2, WhatIsBuilt, BuildEndsInShape DEF slots
<1>4. parked[i] = << >>
  BY <1>1 DEF SlotsInTurn
<1> QED
  BY <1>1, <1>3, <1>4, SlotsSame, BuildEndsKeeps DEF slots

\* The step in which a data segment traps keeps the invariant.
LEMMA DataTrapsKeeps ==
  ASSUME InstancesInv, NEW i \in Inst, DataTraps(i)
  PROVE  InstancesInv'
<1> USE DEF InstancesInv
<1>1. /\ Building(i) /\ at[i].stage = "elems" /\ at[i].n = Len(P(i).elems) + 1 /\ Pop
      /\ state' = [state EXCEPT ![i] = "trapped"] /\ insts' = insts
      /\ UNCHANGED <<mod, exporter, at, slots, view, ctx, heap>>
  BY DEF DataTraps, AfterSegments, Trapped
<1>2. stack' \in Seq(Frame)
  BY <1>1, TopIs, PopEffect
<1>3. Shapes'
  BY <1>1, <1>2, WhatIsBuilt, BuildEndsInShape DEF slots
<1>4. parked[i] = << >>
  BY <1>1, WhatIsBuilt DEF SlotsInTurn
<1> QED
  BY <1>1, <1>3, <1>4, SlotsSame, BuildEndsKeeps DEF slots

\* The step StartEnds keeps the invariant.
LEMMA StartEndsKeeps ==
  ASSUME InstancesInv, NEW i \in Inst, StartEnds(i)
  PROVE  InstancesInv'
<1> USE DEF InstancesInv
<1>1. /\ Building(i) /\ at[i].stage = "start" /\ Pop /\ insts' = insts
      /\ \E s \in {"live", "trapped"} : state' = [state EXCEPT ![i] = s]
      /\ UNCHANGED <<mod, exporter, at, slots, view, ctx, heap>>
  BY DEF StartEnds, Trapped
<1>2. stack' \in Seq(Frame)
  BY <1>1, TopIs, PopEffect
<1>3. Shapes'
  BY <1>1, <1>2, WhatIsBuilt, BuildEndsInShape DEF slots
<1>4. parked[i] = << >>
  BY <1>1 DEF SlotsInTurn
<1>5. i \in insts
  BY <1>1, WhatIsBuilt DEF StoreTracks
<1> QED
  BY <1>1, <1>3, <1>4, <1>5, SlotsSame, BuildEndsKeeps DEF slots

\* A step of i that leaves the stack and who is tracked alone.
LEMMA BuildStepKeeps ==
  ASSUME InstancesInv, Shapes', NEW i \in Inst, Building(i), at[i].stage # "start",
         UNCHANGED <<state, mod, exporter, stack, ctx>>,
         insts' \in {insts, insts \cup {i}},
         at'[i].stage # "globals" => i \in insts',
         at'[i].stage = "globals" => at[i].stage = "globals" /\ segs' = segs /\ at'[i].n >= at[i].n,
         DOMAIN store' = DOMAIN store,
         parked'[i] # << >> => at'[i].stage = "elems" /\ at'[i].n \in DOMAIN P(i).elems,
         \A j \in Inst : j # i => at'[j] = at[j] /\ segs'[j] = segs[j] /\ parked'[j] = parked[j],
         FunctionsTracked'
  PROVE  InstancesInv'
<1> USE DEF InstancesInv
<1>1. state[i] = "building" /\ mod[i] \in Module
  BY WhatIsBuilt
<1>2. StackNests'
  BY SameStackKeepsNesting
<1>3. StoreTracks'
  BY <1>1 DEF StoreTracks, Present
<1>4. TablesInOrder'
  <2>1. \A j \in Inst : at'[j].stage = "globals" => at[j].stage = "globals" /\ at[j].n <= at'[j].n
    <3> TAKE j \in Inst
    <3>1. at[j].n \in Nat /\ at'[j].n \in Nat
      BY DEF Shapes
    <3> QED
      BY <3>1
  <2> QED
    BY <2>1, TablesStayInOrder DEF SlotsInTurn
<1>5. SlotsInTurn'
  BY <1>1, <1>4 DEF SlotsInTurn, P
<1> QED
  BY <1>2, <1>3, <1>5

\* The step AllocModule keeps the invariant.
LEMMA AllocModuleKeeps ==
  ASSUME InstancesInv, NEW i \in Inst, AllocModule(i)
  PROVE  InstancesInv'
<1> USE DEF InstancesInv
<1>1. /\ Building(i) /\ at[i].stage = "globals"
      /\ view' = [view EXCEPT ![i] = [tables |-> TRUE, nsegs |-> 0]]
      /\ insts' = insts \cup {i}
      /\ at' = [at EXCEPT ![i] = [stage |-> "elems", n |-> 1]]
      /\ UNCHANGED <<state, mod, exporter, slots, ctx, stack, heap>>
  BY DEF AllocModule, Goto
<1>2. Shapes'
  <2>1. at' \in [Inst -> [stage : {"globals", "elems", "start"}, n : Nat \ {0}]]
    BY <1>1 DEF Shapes
  <2>2. view' \in [Inst -> [tables : BOOLEAN, nsegs : Nat]]
    BY <1>1 DEF Shapes
  <2> QED
    BY <1>1, <2>1, <2>2 DEF Shapes, slots, Present
<1>3. at'[i] = [stage |-> "elems", n |-> 1] /\ \A j \in Inst : j # i => at'[j] = at[j]
  BY <1>1 DEF Shapes
<1>4. parked' = parked /\ parked[i] = << >>
  BY <1>1 DEF SlotsInTurn, slots
<1>5. FunctionsTracked'
  <2>1. \A j \in Seen' : j \in Seen
    BY <1>1, WhatIsBuilt DEF Seen
  <2> QED
    BY <1>1, <2>1, SlotsSame, FunctionsStay
<1> QED
  BY <1>1, <1>2, <1>3, <1>4, <1>5, BuildStepKeeps DEF slots

\* The step ElemItem keeps the invariant.
LEMMA ElemItemKeeps ==
  ASSUME InstancesInv, NEW i \in Inst, NEW v, ElemItem(i, v)
  PROVE  InstancesInv'
<1> USE DEF InstancesInv
<1>1. /\ Building(i) /\ at[i].stage = "elems" /\ at[i].n \in DOMAIN P(i).elems
      /\ Eval(P(i).elems[at[i].n].items[Len(parked[i]) + 1], i, v)
      /\ parked' = [parked EXCEPT ![i] = Append(parked[i], v)]
      /\ UNCHANGED <<shape, globals, tabs, store, segs, view, ctx, stack, insts>>
  BY DEF ElemItem, Shapes
<1>2. v \in Val /\ heap' \subseteq Obj /\ (v \in Obj \/ v = Func(i) \/ v = Nil)
  BY <1>1, EvalEffect
<1>3. Append(parked[i], v) \in Seq(Val) /\ ToSet(Append(parked[i], v)) \subseteq ToSet(parked[i]) \cup {v}
  BY <1>1, <1>2, WhatIsBuilt, SlotAdded
<1>4. Shapes'
  <2>1. parked' \in [Inst -> Seq(Val)]
    BY <1>1, <1>3 DEF Shapes
  <2> QED
    BY <1>1, <1>2, <2>1 DEF Shapes, shape, Present
<1>5. parked'[i] = Append(parked[i], v) /\ \A j \in Inst : j # i => parked'[j] = parked[j]
  BY <1>1 DEF Shapes
<1>6. FunctionsTracked'
  <2> SUFFICES ASSUME NEW j \in Seen', NEW l \in Inst, Func(l) \in Slots(j)'
               PROVE  (j \in Seen /\ Func(l) \in Slots(j)) \/ l \in insts' \cup {j}
    BY <1>1, FunctionsStay
  <2>1. j \in Seen /\ j \in Inst
    BY <1>1 DEF Seen, Shapes, shape
  <2>2. Func(l) \in Slots(j) \/ (j = i /\ Func(l) = v)
    BY <1>1, <1>3, <1>5, <2>1, OwnSlotWritten
  <2>3. Func(l) = v => l = i
    BY <1>2, InstancesAssumption DEF Func
  <2> QED
    BY <2>1, <2>2, <2>3
<1>7. i \in insts
  BY <1>1, WhatIsBuilt DEF StoreTracks
<1>8. UNCHANGED <<state, mod, exporter, at, store, segs, insts, stack, ctx>>
  BY <1>1 DEF shape
<1> QED
  BY <1>1, <1>4, <1>5, <1>6, <1>7, <1>8, BuildStepKeeps

\* Registering a segment adds it, dropped or not, and empties the pool.
LEMMA RegisterEffect ==
  ASSUME InstancesInv, NEW i \in Inst, NEW d \in BOOLEAN, Register(i, d)
  PROVE  /\ segs' \in [Inst -> Seq([vals : Seq(Val), dropped : BOOLEAN])]
         /\ parked' \in [Inst -> Seq(Val)] /\ parked'[i] = << >>
         /\ \A j \in Inst : j # i => segs'[j] = segs[j] /\ parked'[j] = parked[j]
         /\ SegmentSlots(segs[i])' \subseteq SegmentSlots(segs[i]) \cup ToSet(parked[i])
<1> USE DEF InstancesInv
<1> DEFINE sg == [vals |-> parked[i], dropped |-> d]
<1>1. /\ Building(i) /\ segs' = [segs EXCEPT ![i] = Append(segs[i], sg)]
      /\ parked' = [parked EXCEPT ![i] = << >>]
  BY DEF Register, Shapes
<1>2. /\ sg \in [vals : Seq(Val), dropped : BOOLEAN] /\ sg.vals = parked[i]
      /\ segs[i] \in Seq([vals : Seq(Val), dropped : BOOLEAN])
  BY <1>1, WhatIsBuilt
<1> HIDE DEF sg
<1>3. /\ Append(segs[i], sg) \in Seq([vals : Seq(Val), dropped : BOOLEAN])
      /\ DOMAIN Append(segs[i], sg) = 1 .. Len(segs[i]) + 1 /\ DOMAIN segs[i] = 1 .. Len(segs[i])
      /\ Append(segs[i], sg)[Len(segs[i]) + 1] = sg
      /\ \A k \in DOMAIN segs[i] : Append(segs[i], sg)[k] = segs[i][k]
  BY <1>2
<1>4. segs'[i] = Append(segs[i], sg) /\ parked'[i] = << >>
  BY <1>1 DEF Shapes
<1>5. \A j \in Inst : j # i => segs'[j] = segs[j] /\ parked'[j] = parked[j]
  BY <1>1 DEF Shapes
<1>6. segs' \in [Inst -> Seq([vals : Seq(Val), dropped : BOOLEAN])] /\ parked' \in [Inst -> Seq(Val)]
  <2>1. segs \in [Inst -> Seq([vals : Seq(Val), dropped : BOOLEAN])] /\ parked \in [Inst -> Seq(Val)]
    BY DEF Shapes
  <2>2. << >> \in Seq(Val)
    OBVIOUS
  <2> QED
    BY <1>1, <1>3, <2>1, <2>2
<1>7. ASSUME NEW x \in SegmentSlots(segs[i])'
      PROVE  x \in SegmentSlots(segs[i]) \cup ToSet(parked[i])
  <2>1. x \in SegmentSlots(segs'[i])
    BY <1>7 DEF SegmentSlots, Live
  <2>2. PICK k \in DOMAIN segs'[i] : ~ segs'[i][k].dropped /\ x \in ToSet(segs'[i][k].vals)
    BY <2>1, SegmentsAre
  <2>3. CASE k = Len(segs[i]) + 1
    BY <1>2, <1>3, <1>4, <2>2, <2>3
  <2>4. CASE k # Len(segs[i]) + 1
    <3>1. k \in DOMAIN segs[i] /\ segs'[i][k] = segs[i][k]
      BY <1>2, <1>3, <1>4, <2>2, <2>4
    <3> QED
      BY <2>2, <3>1, SegmentsAre
  <2> QED
    BY <2>3, <2>4
<1> QED
  BY <1>4, <1>5, <1>6, <1>7

\* A segment is registered, and its items may be written into the slots of a
\* table: nothing is new to the instances that see them.
LEMMA RegisteredFunctions ==
  ASSUME InstancesInv, NEW i \in Inst, NEW d \in BOOLEAN, Register(i, d), i \in insts,
         UNCHANGED <<globals, tabs>>,
         \A t \in DOMAIN store : ToSet(store'[t]) \subseteq ToSet(store[t]) \cup ToSet(parked[i])
  PROVE  /\ \A j \in Inst : Slots(j)' \subseteq Slots(j) \cup ToSet(parked[i])
         /\ UNCHANGED <<state, insts>> => FunctionsTracked'
<1> USE DEF InstancesInv
<1>1. \A j \in Inst : Slots(j)' \subseteq Slots(j) \cup ToSet(parked[i])
  <2> TAKE j \in Inst
  <2>1. TableSlots(tabs[j])' \subseteq TableSlots(tabs[j]) \cup ToSet(parked[i])
    <3>1. \A t \in ToSet(tabs[j]) : t \in DOMAIN store
      <4>1. tabs[j] \in Seq(DOMAIN store)
        BY DEF Shapes
      <4> QED
        BY <4>1 DEF ToSet
    <3> QED
      BY <3>1, TablesGrow
  <2>2. SegmentSlots(segs[j])' \subseteq SegmentSlots(segs[j]) \cup ToSet(parked[i])
    <3>1. CASE j = i
      BY <3>1, RegisterEffect
    <3>2. CASE j # i
      <4>1. segs'[j] = segs[j]
        BY <3>2, RegisterEffect
      <4> QED
        BY <4>1 DEF SegmentSlots, Live
    <3> QED
      BY <3>1, <3>2
  <2>3. ToSet(parked'[j]) \subseteq ToSet(parked[j])
    <3>1. ToSet(<< >>) = {}
      BY DEF ToSet
    <3> QED
      BY <3>1, RegisterEffect
  <2> QED
    BY <2>1, <2>2, <2>3, SlotsGrow
<1>2. ASSUME UNCHANGED <<state, insts>> PROVE FunctionsTracked'
  <2> SUFFICES ASSUME NEW j \in Seen', NEW l \in Inst, Func(l) \in Slots(j)'
               PROVE  (j \in Seen /\ Func(l) \in Slots(j)) \/ l \in insts' \cup {j}
    BY <1>2, FunctionsStay
  <2>1. j \in Seen /\ j \in Inst
    BY <1>2 DEF Seen, Shapes
  <2>2. Func(l) \in Slots(j) \/ Func(l) \in Slots(i)
    BY <1>1, <2>1 DEF Slots
  <2>3. Func(l) \in Slots(i) => l \in insts
    BY DEF FunctionsTracked, Seen
  <2> QED
    BY <1>2, <2>1, <2>2, <2>3
<1> QED
  BY <1>1, <1>2

\* The step KeepSegment keeps the invariant.
LEMMA KeepSegmentKeeps ==
  ASSUME InstancesInv, NEW i \in Inst, KeepSegment(i)
  PROVE  InstancesInv'
<1> USE DEF InstancesInv
<1> DEFINE d == P(i).elems[at[i].n].mode = "declarative"
<1>1. /\ Register(i, d) /\ Building(i) /\ at[i].stage = "elems"
      /\ at' = [at EXCEPT ![i] = [stage |-> "elems", n |-> at[i].n + 1]]
      /\ UNCHANGED <<state, mod, exporter, globals, tabs, store, view, ctx, stack, insts, heap>>
  BY DEF KeepSegment, Register, Goto
<1>2. d \in BOOLEAN
  OBVIOUS
<1> HIDE DEF d
<1>3. i \in insts /\ at[i].n + 1 \in Nat \ {0}
  BY <1>1, WhatIsBuilt DEF StoreTracks
<1>4. at' \in [Inst -> [stage : {"globals", "elems", "start"}, n : Nat \ {0}]]
  BY <1>1, <1>3 DEF Shapes
<1>5. at'[i].stage = "elems" /\ \A j \in Inst : j # i => at'[j] = at[j]
  BY <1>1 DEF Shapes
<1>6. Shapes'
  <2>1. segs' \in [Inst -> Seq([vals : Seq(Val), dropped : BOOLEAN])] /\ parked' \in [Inst -> Seq(Val)]
    BY <1>1, <1>2, RegisterEffect
  <2> QED
    BY <1>1, <1>4, <2>1 DEF Shapes, Present
<1>7. FunctionsTracked'
  BY <1>1, <1>2, <1>3, RegisteredFunctions
<1> QED
  BY <1>1, <1>2, <1>3, <1>5, <1>6, <1>7, RegisterEffect, BuildStepKeeps

\* An active segment writes only its own items into a table.
LEMMA SegmentWritten ==
  ASSUME Shapes, NEW i \in Inst, NEW o \in Nat,
         store' = [store EXCEPT ![tabs[i][1]] = [k \in DOMAIN @ |->
                     IF k \in o + 1 .. o + Len(parked[i]) THEN parked[i][k - o] ELSE @[k]]]
  PROVE  /\ DOMAIN store' = DOMAIN store /\ store' \in [DOMAIN store -> [1 .. 2 -> Val]]
         /\ \A t \in DOMAIN store : ToSet(store'[t]) \subseteq ToSet(store[t]) \cup ToSet(parked[i])
<1>1. /\ store \in [DOMAIN store -> [1 .. 2 -> Val]]
      /\ parked[i] \in Seq(Val) /\ Len(parked[i]) \in Nat /\ DOMAIN parked[i] = 1 .. Len(parked[i])
  BY DEF Shapes
<1> DEFINE u == tabs[i][1]
           g == [k \in DOMAIN store[u] |->
                   IF k \in o + 1 .. o + Len(parked[i]) THEN parked[i][k - o] ELSE store[u][k]]
<1>2. store' = [t \in DOMAIN store |-> IF t = u THEN g ELSE store[t]]
  BY <1>1
<1> HIDE DEF u
<1>3. u \in DOMAIN store => DOMAIN store[u] = 1 .. 2
  BY <1>1
<1>4. \A k \in Nat : k \in o + 1 .. o + Len(parked[i]) => k - o \in DOMAIN parked[i] /\ parked[i][k - o] \in Val
  BY <1>1
<1>5. u \in DOMAIN store => /\ g \in [1 .. 2 -> Val]
                            /\ ToSet(g) \subseteq ToSet(store[u]) \cup ToSet(parked[i])
  <2> HAVE u \in DOMAIN store
  <2>1. \A k \in 1 .. 2 : g[k] = IF k \in o + 1 .. o + Len(parked[i]) THEN parked[i][k - o] ELSE store[u][k]
    BY <1>3
  <2>2. \A k \in 1 .. 2 : g[k] \in Val
    BY <1>1, <1>4, <2>1
  <2>3. DOMAIN g = 1 .. 2 /\ g = [k \in 1 .. 2 |-> g[k]]
    BY <1>3
  <2> HIDE DEF g
  <2>4. g \in [1 .. 2 -> Val]
    BY <2>2, <2>3
  <2>5. ASSUME NEW k \in 1 .. 2 PROVE g[k] \in ToSet(store[u]) \cup ToSet(parked[i])
    <3>1. CASE k \in o + 1 .. o + Len(parked[i])
      <4>1. g[k] = parked[i][k - o] /\ k - o \in DOMAIN parked[i]
        BY <1>4, <2>1, <3>1
      <4> QED
        BY <4>1 DEF ToSet
    <3>2. CASE k \notin o + 1 .. o + Len(parked[i])
      <4>1. g[k] = store[u][k] /\ k \in DOMAIN store[u]
        BY <1>3, <2>1, <3>2
      <4> QED
        BY <4>1 DEF ToSet
    <3> QED
      BY <3>1, <3>2
  <2>6. ToSet(g) \subseteq ToSet(store[u]) \cup ToSet(parked[i])
    BY <2>3, <2>5 DEF ToSet
  <2> QED
    BY <2>4, <2>6
<1> HIDE DEF g
<1> QED
  BY <1>1, <1>2, <1>5

\* The step ActiveSegment keeps the invariant.
LEMMA ActiveSegmentKeeps ==
  ASSUME InstancesInv, NEW i \in Inst, NEW o \in Nat, ActiveSegment(i, o)
  PROVE  InstancesInv'
<1> USE DEF InstancesInv
<1> DEFINE t == tabs[i][1]
           n == Len(parked[i])
<1>1. /\ Register(i, TRUE) /\ Building(i) /\ at[i].stage = "elems"
      /\ UNCHANGED <<mod, exporter, globals, tabs, view, ctx, heap>>
  BY DEF ActiveSegment, Register
<1>2. i \in insts /\ at[i].n + 1 \in Nat \ {0} /\ mod[i] \in Module
  BY <1>1, WhatIsBuilt DEF StoreTracks
<1>3. segs' \in [Inst -> Seq([vals : Seq(Val), dropped : BOOLEAN])] /\ parked' \in [Inst -> Seq(Val)]
  BY <1>1, RegisterEffect
<1>4. parked'[i] = << >> /\ \A j \in Inst : j # i => segs'[j] = segs[j] /\ parked'[j] = parked[j]
  BY <1>1, RegisterEffect
<1>5. ASSUME store' = [store EXCEPT ![t] = [k \in DOMAIN @ |->
                         IF k \in o + 1 .. o + n THEN parked[i][k - o] ELSE @[k]]],
             Goto(i, "elems", at[i].n + 1), UNCHANGED <<state, stack, insts>>
      PROVE  InstancesInv'
  <2>1. at' = [at EXCEPT ![i] = [stage |-> "elems", n |-> at[i].n + 1]]
    BY <1>5 DEF Goto
  <2>2. at' \in [Inst -> [stage : {"globals", "elems", "start"}, n : Nat \ {0}]]
    BY <1>2, <2>1 DEF Shapes
  <2>3. at'[i].stage = "elems" /\ \A j \in Inst : j # i => at'[j] = at[j]
    BY <2>1 DEF Shapes
  <2>4. /\ DOMAIN store' = DOMAIN store /\ store' \in [DOMAIN store -> [1 .. 2 -> Val]]
        /\ \A u \in DOMAIN store : ToSet(store'[u]) \subseteq ToSet(store[u]) \cup ToSet(parked[i])
    BY <1>5, SegmentWritten
  <2>5. Shapes'
    BY <1>1, <1>3, <1>5, <2>2, <2>4 DEF Shapes, Present
  <2>6. FunctionsTracked'
    BY <1>1, <1>2, <1>5, <2>4, RegisteredFunctions
  <2> QED
    BY <1>1, <1>2, <1>4, <1>5, <2>3, <2>4, <2>5, <2>6, BuildStepKeeps
<1>6. ASSUME state' = [state EXCEPT ![i] = "trapped"], insts' = insts, Pop, UNCHANGED <<at, store>>
      PROVE  InstancesInv'
  <2>1. stack' \in Seq(Frame)
    BY <1>1, <1>6, TopIs, PopEffect
  <2>2. state' \in [Inst -> {"unused", "building", "live", "trapped", "freed"}]
    BY <1>6 DEF Shapes
  <2>3. \A j \in Inst : Present(j)' => mod'[j] \in Module
    BY <1>1, <1>2, <1>6 DEF Shapes, Present
  <2>4. Shapes'
    BY <1>1, <1>3, <1>6, <2>1, <2>2, <2>3 DEF Shapes
  <2>5. \A j \in Inst : Slots(j)' \subseteq Slots(j)
    <3>1. \A u \in DOMAIN store : ToSet(store'[u]) \subseteq ToSet(store[u]) \cup ToSet(parked[i])
      BY <1>6
    <3>2. \A j \in Inst : Slots(j)' \subseteq Slots(j) \cup ToSet(parked[i])
      BY <1>1, <1>2, <1>6, <3>1, RegisteredFunctions
    <3> QED
      <4> TAKE j \in Inst
      <4>1. CASE j = i
        BY <3>2, <4>1 DEF Slots
      <4>2. CASE j # i
        <5>1. globals'[j] = globals[j] /\ parked'[j] = parked[j] /\ segs'[j] = segs[j] /\ tabs' = tabs /\ store' = store
          BY <1>1, <1>4, <1>6, <4>2
        <5> QED
          BY <5>1 DEF Slots, InstRoots, TableSlots, SegmentSlots, Live
      <4> QED
        BY <4>1, <4>2
  <2> QED
    BY <1>1, <1>4, <1>6, <2>4, <2>5, BuildEndsKeeps
<1> QED
  BY <1>5, <1>6 DEF ActiveSegment, Trapped

\* The table InitTable makes is a new one.
LEMMA InitTableEffect ==
  ASSUME InstancesInv, NEW i \in Inst, NEW v, InitTable(i, v),
         NEW d, d = at[i].n - Len(P(i).globals)
  PROVE  /\ d \in Nat /\ Table(i, d) \notin DOMAIN store /\ DOMAIN store' = DOMAIN store \cup {Table(i, d)}
         /\ store'[Table(i, d)] = <<v, v>> /\ \A t \in DOMAIN store : store'[t] = store[t]
         /\ tabs'[i] = Append(tabs[i], Table(i, d)) /\ \A j \in Inst : j # i => tabs'[j] = tabs[j]
         /\ tabs' \in [Inst -> Seq(DOMAIN store')] /\ ToSet(tabs'[i]) = ToSet(tabs[i]) \cup {Table(i, d)}
         /\ \A j \in Inst : ToSet(tabs[j]) \subseteq DOMAIN store
<1> USE DEF InstancesInv
<1>1. /\ Building(i) /\ at[i].stage = "globals" /\ at[i].n > Len(P(i).globals)
      /\ store' = [t \in DOMAIN store \cup {Table(i, d)} |-> IF t = Table(i, d) THEN <<v, v>> ELSE store[t]]
      /\ tabs' = [tabs EXCEPT ![i] = Append(tabs[i], Table(i, d))]
  BY DEF InitTable, Shapes
<1>2. d \in Nat /\ Len(P(i).globals) \in Nat /\ at[i].n \in Nat /\ Len(P(i).globals) + d = at[i].n
  BY <1>1, WhatIsBuilt
<1>3. Table(i, d) \notin DOMAIN store
  <2> SUFFICES ASSUME Table(i, d) \in DOMAIN store PROVE FALSE
    OBVIOUS
  <2>1. Table(i, d)[1] = i /\ Table(i, d)[2] = d
    BY DEF Table
  <2>2. state[i] = "building"
    BY <1>1, WhatIsBuilt
  <2>3. Len(P(i).globals) + d < at[i].n
    BY <1>1, <2>1, <2>2 DEF SlotsInTurn, TablesInOrder
  <2> QED
    BY <1>2, <2>3
<1>4. DOMAIN store' = DOMAIN store \cup {Table(i, d)} /\ \A t \in DOMAIN store : store'[t] = store[t]
  BY <1>1, <1>3
<1>5. store'[Table(i, d)] = <<v, v>>
  BY <1>1
<1>6. tabs'[i] = Append(tabs[i], Table(i, d)) /\ \A j \in Inst : j # i => tabs'[j] = tabs[j]
  BY <1>1 DEF Shapes
<1>7. \A j \in Inst : tabs[j] \in Seq(DOMAIN store)
  BY DEF Shapes
<1>8. \A j \in Inst : tabs[j] \in Seq(DOMAIN store') /\ ToSet(tabs[j]) \subseteq DOMAIN store
  <2> TAKE j \in Inst
  <2>1. tabs[j] \in Seq(DOMAIN store)
    BY <1>7
  <2> QED
    BY <1>4, <2>1 DEF ToSet
<1>9. Append(tabs[i], Table(i, d)) \in Seq(DOMAIN store')
  BY <1>4, <1>8, SlotAdded
<1>10. ToSet(Append(tabs[i], Table(i, d))) = ToSet(tabs[i]) \cup {Table(i, d)}
  BY <1>4, <1>8, SlotAdded
<1>11. tabs' \in [Inst -> Seq(DOMAIN store')]
  BY <1>1, <1>8, <1>9 DEF Shapes
<1> QED
  BY <1>2, <1>3, <1>4, <1>5, <1>6, <1>8, <1>10, <1>11

\* The new table adds its initial value to the slots of its instance.
LEMMA TableMade ==
  ASSUME InstancesInv, NEW i \in Inst, NEW v, InitTable(i, v)
  PROVE  /\ Slots(i)' \subseteq Slots(i) \cup {v}
         /\ \A j \in Inst : j # i => Slots(j)' = Slots(j)
<1> DEFINE d == at[i].n - Len(P(i).globals)
<1>1. /\ Table(i, d) \notin DOMAIN store
      /\ store'[Table(i, d)] = <<v, v>> /\ \A t \in DOMAIN store : store'[t] = store[t]
      /\ \A j \in Inst : j # i => tabs'[j] = tabs[j]
      /\ ToSet(tabs'[i]) = ToSet(tabs[i]) \cup {Table(i, d)}
      /\ \A j \in Inst : ToSet(tabs[j]) \subseteq DOMAIN store
  BY InitTableEffect
<1> HIDE DEF d
<1>2. UNCHANGED <<globals, segs, parked>>
  BY DEF InitTable
<1>3. \A j : SegmentSlots(segs[j])' = SegmentSlots(segs[j])
  BY <1>2 DEF SegmentSlots, Live
<1>4. ToSet(<<v, v>>) = {v}
  BY DEF ToSet
<1>5. \A t \in ToSet(tabs'[i]) : ToSet(store'[t]) \subseteq TableSlots(tabs[i]) \cup {v}
  <2> TAKE t \in ToSet(tabs'[i])
  <2>1. CASE t = Table(i, d)
    BY <1>1, <1>4, <2>1
  <2>2. CASE t # Table(i, d)
    <3>1. t \in ToSet(tabs[i]) /\ store'[t] = store[t]
      BY <1>1, <2>2
    <3> QED
      BY <3>1 DEF TableSlots
  <2> QED
    BY <2>1, <2>2
<1>6. TableSlots(tabs[i])' \subseteq TableSlots(tabs[i]) \cup {v}
  BY <1>5 DEF TableSlots
<1>7. Slots(i)' \subseteq Slots(i) \cup {v}
  BY <1>2, <1>3, <1>6, SlotsGrow
<1>8. \A j \in Inst : j # i => TableSlots(tabs[j])' = TableSlots(tabs[j])
  <2> TAKE j \in Inst
  <2> HAVE j # i
  <2>1. tabs'[j] = tabs[j] /\ \A t \in ToSet(tabs[j]) : store'[t] = store[t]
    BY <1>1
  <2> QED
    BY <2>1 DEF TableSlots
<1>9. \A j \in Inst : j # i => Slots(j)' = Slots(j)
  BY <1>2, <1>3, <1>8 DEF Slots, InstRoots
<1> QED
  BY <1>7, <1>9

\* The step InitTable keeps the invariant.
LEMMA InitTableKeeps ==
  ASSUME InstancesInv, NEW i \in Inst, NEW v, InitTable(i, v)
  PROVE  InstancesInv'
<1> USE DEF InstancesInv
<1> DEFINE d == at[i].n - Len(P(i).globals)
<1>1. /\ Building(i) /\ at[i].stage = "globals" /\ Eval(P(i).tables[d], i, v)
      /\ at' = [at EXCEPT ![i] = [stage |-> "globals", n |-> at[i].n + 1]]
      /\ UNCHANGED <<state, mod, exporter, globals, segs, parked, view, ctx, stack, insts>>
  BY DEF InitTable, Goto
<1>2. v \in Val /\ heap' \subseteq Obj /\ (v \in Obj \/ v = Func(i) \/ v = Nil)
  BY <1>1, EvalEffect
<1>3. /\ d \in Nat /\ DOMAIN store' = DOMAIN store \cup {Table(i, d)}
      /\ store'[Table(i, d)] = <<v, v>> /\ \A t \in DOMAIN store : store'[t] = store[t]
      /\ tabs' \in [Inst -> Seq(DOMAIN store')]
  BY InitTableEffect
<1>4. /\ state[i] = "building" /\ at[i].n \in Nat \ {0} /\ at[i].n + 1 \in Nat \ {0} /\ mod[i] \in Module
      /\ Len(P(i).globals) \in Nat /\ Len(P(i).globals) + d = at[i].n
  BY <1>1, WhatIsBuilt
<1>5. at'[i] = [stage |-> "globals", n |-> at[i].n + 1] /\ \A j \in Inst : j # i => at'[j] = at[j]
  BY <1>1 DEF Shapes
<1>6. at' \in [Inst -> [stage : {"globals", "elems", "start"}, n : Nat \ {0}]]
  BY <1>1, <1>4 DEF Shapes
<1> HIDE DEF d
<1>7. Shapes'
  <2>1. \A t \in DOMAIN store' : store'[t] \in [1 .. 2 -> Val]
    <3>1. <<v, v>> \in [1 .. 2 -> Val]
      BY <1>2
    <3>2. \A t \in DOMAIN store : store[t] \in [1 .. 2 -> Val]
      BY DEF Shapes
    <3> QED
      BY <1>3, <3>1, <3>2
  <2>2. DOMAIN store' \subseteq Inst \X Nat
    BY <1>3 DEF Shapes, Table
  <2>3. store' \in [DOMAIN store' -> [1 .. 2 -> Val]]
    <3>1. store' = [t \in DOMAIN store' |-> store'[t]]
      BY DEF InitTable
    <3> QED
      BY <2>1, <3>1
  <2> QED
    BY <1>1, <1>2, <1>3, <1>6, <2>2, <2>3 DEF Shapes, Present
<1>8. StackNests'
  BY <1>1, <1>5, SameStackKeepsNesting
<1>9. StoreTracks'
  BY <1>1, <1>5 DEF StoreTracks, Present
<1>10. SlotsInTurn'
  <2>1. TablesInOrder'
    <3> SUFFICES ASSUME NEW j \in Inst, NEW t \in DOMAIN store', t[1] = j
                 PROVE  /\ state[j] # "unused"
                        /\ state[j] = "building" /\ at'[j].stage = "globals" =>
                             Len(P(j).globals) + t[2] < at'[j].n
      BY <1>1 DEF TablesInOrder, P
    <3>1. CASE t = Table(i, d)
      <4>1. j = i /\ t[2] = d
        BY <3>1 DEF Table
      <4> QED
        BY <1>3, <1>4, <1>5, <4>1
    <3>2. CASE t # Table(i, d) /\ j # i
      BY <1>3, <1>5, <3>2 DEF SlotsInTurn, TablesInOrder
    <3>3. CASE t # Table(i, d) /\ j = i
      <4>1. Len(P(i).globals) + t[2] < at[i].n /\ t[2] \in Nat
        BY <1>1, <1>3, <1>4, <3>3 DEF SlotsInTurn, TablesInOrder, Shapes
      <4> QED
        BY <1>4, <1>5, <3>3, <4>1
    <3> QED
      BY <3>1, <3>2, <3>3
  <2> QED
    BY <1>1, <1>5, <1>4, <2>1 DEF SlotsInTurn, P
<1>11. FunctionsTracked'
  <2> SUFFICES ASSUME NEW j \in Seen', NEW l \in Inst, Func(l) \in Slots(j)'
               PROVE  (j \in Seen /\ Func(l) \in Slots(j)) \/ l \in insts' \cup {j}
    BY <1>1, FunctionsStay
  <2>1. j \in Seen /\ j \in Inst
    BY <1>1 DEF Seen, Shapes
  <2>2. Func(l) \in Slots(j) \/ (j = i /\ Func(l) = v)
    BY <2>1, TableMade
  <2>3. Func(l) = v => l = i
    BY <1>2, InstancesAssumption DEF Func
  <2> QED
    BY <2>1, <2>2, <2>3
<1> QED
  BY <1>7, <1>8, <1>9, <1>10, <1>11

\* The step Complete keeps the invariant.
LEMMA CompleteKeeps ==
  ASSUME InstancesInv, NEW i \in Inst, Complete(i)
  PROVE  InstancesInv'
<1> USE DEF InstancesInv
<1>1. /\ Building(i) /\ at[i].stage = "elems" /\ at[i].n = Len(P(i).elems) + 1
      /\ view' = [view EXCEPT ![i] = [tables |-> TRUE, nsegs |-> Len(segs[i])]]
      /\ at' = [at EXCEPT ![i] = [stage |-> "start", n |-> 1]]
      /\ ctx' = i /\ UNCHANGED <<mod, exporter, slots, insts, heap>>
  BY DEF Complete, AfterSegments, Goto
<1>2. i \in insts /\ parked[i] = << >> /\ mod[i] \in Module /\ state[i] = "building"
  BY <1>1, WhatIsBuilt DEF StoreTracks, SlotsInTurn
<1>3. view' \in [Inst -> [tables : BOOLEAN, nsegs : Nat]]
  <2>1. Len(segs[i]) \in Nat
    BY <1>1, WhatIsBuilt
  <2> QED
    BY <1>1, <2>1 DEF Shapes
<1>4. at' \in [Inst -> [stage : {"globals", "elems", "start"}, n : Nat \ {0}]]
  BY <1>1 DEF Shapes
<1>5. at'[i].stage = "start" /\ \A j \in Inst : j # i => at'[j] = at[j]
  BY <1>1 DEF Shapes
<1>6. \A j \in Inst : Slots(j)' \subseteq Slots(j)
  BY <1>1, SlotsSame
<1>7. ASSUME Pop, state' = [state EXCEPT ![i] = "live"]
      PROVE  InstancesInv'
  <2>1. stack' \in Seq(Frame)
    BY <1>1, <1>7, TopIs, PopEffect
  <2>2. state' \in [Inst -> {"unused", "building", "live", "trapped", "freed"}]
    BY <1>7 DEF Shapes
  <2>3. \A j \in Inst : Present(j)' => mod'[j] \in Module
    BY <1>1, <1>2, <1>7 DEF Shapes, Present
  <2>4. Shapes'
    BY <1>1, <1>3, <1>4, <2>1, <2>2, <2>3 DEF Shapes, slots
  <2> QED
    BY <1>1, <1>2, <1>5, <1>6, <1>7, <2>4, BuildEndsKeeps DEF slots
<1>8. ASSUME stack' = Append(stack, [kind |-> "call", inst |-> i, saved |-> i]), UNCHANGED state
      PROVE  InstancesInv'
  <2>1. stack' \in Seq(Frame)
    <3>1. [kind |-> "call", inst |-> i, saved |-> i] \in Frame
      BY DEF Frame
    <3> QED
      BY <1>8, <3>1, AppendEffect
  <2>2. Shapes'
    BY <1>1, <1>3, <1>4, <1>8, <2>1 DEF Shapes, slots, Present
  <2>3. StackNests'
    BY <1>1, <1>5, <1>8, StartKeepsNesting
  <2>4. StoreTracks'
    <3>1. \A k \in DOMAIN stack' : stack'[k].kind # "build" => stack'[k].inst \in insts
      <4> DEFINE a == [kind |-> "call", inst |-> i, saved |-> i]
      <4>1. a \in Frame /\ a.inst = i
        BY DEF Frame
      <4>2. stack' = Append(stack, a)
        BY <1>8
      <4> HIDE DEF a
      <4> QED
        BY <1>2, <4>1, <4>2, AppendEffect DEF StoreTracks
    <3> QED
      BY <1>1, <1>2, <1>5, <1>8, <3>1 DEF StoreTracks, Present
  <2>5. SlotsInTurn'
    <3>1. TablesInOrder'
      BY <1>1, <1>5, <1>8 DEF SlotsInTurn, TablesInOrder, slots, P
    <3> QED
      BY <1>1, <1>2, <1>5, <1>8, <3>1 DEF SlotsInTurn, slots, P
  <2>6. FunctionsTracked'
    <3>1. \A j \in Seen' : j \in Seen /\ j \in Inst
      BY <1>1, <1>8 DEF Seen, Shapes
    <3> QED
      BY <1>1, <1>6, <3>1, FunctionsStay
  <2> QED
    BY <2>2, <2>3, <2>4, <2>5, <2>6
<1> QED
  BY <1>7, <1>8 DEF Complete

\* The step New keeps the invariant.
LEMMA NewKeeps ==
  ASSUME InstancesInv, NEW m \in Module, NEW i \in Inst, NEW e, New(m, i, e)
  PROVE  InstancesInv'
<1> USE DEF InstancesInv
<1> DEFINE a == [kind |-> "build", inst |-> i]
<1>1. /\ InHost /\ state[i] = "unused"
      /\ state' = [state EXCEPT ![i] = "building"] /\ mod' = [mod EXCEPT ![i] = m]
      /\ exporter' = [exporter EXCEPT ![i] = e]
      /\ globals' = [globals EXCEPT ![i] = [g \in DOMAIN Plan[m].globals |-> Nil]]
      /\ tabs' = [tabs EXCEPT ![i] = IF Plan[m].imports THEN <<tabs[e][1]>> ELSE << >>]
      /\ stack' = Append(stack, a) /\ ctx' = i
      /\ UNCHANGED <<at, store, segs, parked, view, insts, heap>>
  BY DEF New
<1>2. \/ e \in Inst /\ state[e] = "live" /\ tabs[e] # << >> /\ tabs'[i] = <<tabs[e][1]>>
      \/ e = Nil /\ tabs'[i] = << >>
  BY <1>1 DEF New, Shapes
<1>3. a \in Frame /\ a.kind = "build" /\ a.inst = i
  BY DEF Frame
<1> HIDE DEF a
<1>4. \A j \in Inst : state'[j] = IF j = i THEN "building" ELSE state[j]
  BY <1>1 DEF Shapes
<1>5. /\ mod'[i] = m /\ exporter'[i] = e
      /\ \A j \in Inst : j # i => /\ mod'[j] = mod[j] /\ exporter'[j] = exporter[j]
                                  /\ globals'[j] = globals[j] /\ tabs'[j] = tabs[j]
  BY <1>1 DEF Shapes
<1>6. globals'[i] \in Seq(Val) /\ ToSet(globals'[i]) \subseteq {Nil}
  <2>1. globals'[i] = [g \in DOMAIN Plan[m].globals |-> Nil]
    BY <1>1 DEF Shapes
  <2>2. DOMAIN Plan[m].globals = 1 .. Len(Plan[m].globals) /\ Len(Plan[m].globals) \in Nat
    <3>1. Plan[m].globals \in Seq(Expr)
      BY PlanAssumption
    <3> QED
      BY <3>1
  <2>3. globals'[i] \in [1 .. Len(Plan[m].globals) -> Val]
    BY <2>1, <2>2 DEF Val
  <2> QED
    BY <2>1, <2>2, <2>3 DEF ToSet
<1>7. tabs'[i] \in Seq(DOMAIN store) /\ (\A t \in ToSet(tabs'[i]) : e \in Inst /\ t \in ToSet(tabs[e]))
  <2>1. CASE e \in Inst /\ state[e] = "live" /\ tabs[e] # << >> /\ tabs'[i] = <<tabs[e][1]>>
    <3>1. tabs[e] \in Seq(DOMAIN store)
      BY <2>1 DEF Shapes
    <3>2. 1 \in DOMAIN tabs[e] /\ tabs[e][1] \in DOMAIN store
      BY <2>1, <3>1
    <3>3. \A t \in ToSet(tabs'[i]) : t = tabs[e][1]
      BY <2>1 DEF ToSet
    <3> QED
      BY <2>1, <3>2, <3>3 DEF ToSet
  <2>2. CASE tabs'[i] = << >>
    BY <2>2 DEF ToSet
  <2> QED
    BY <1>2, <2>1, <2>2
<1>8. Shapes'
  <2>1. state' \in [Inst -> {"unused", "building", "live", "trapped", "freed"}]
    BY <1>1 DEF Shapes
  <2>2. mod' \in [Inst -> Module \cup {Nil}] /\ exporter' \in [Inst -> Inst \cup {Nil}]
    BY <1>1, <1>2 DEF Shapes
  <2>3. \A j \in Inst : Present(j)' => mod'[j] \in Module
    BY <1>4, <1>5 DEF Shapes, Present
  <2>4. globals' \in [Inst -> Seq(Val)]
    BY <1>1, <1>5, <1>6 DEF Shapes
  <2>5. tabs' \in [Inst -> Seq(DOMAIN store)]
    BY <1>1, <1>5, <1>7 DEF Shapes
  <2>6. stack' \in Seq(Frame)
    BY <1>1, <1>3, AppendEffect
  <2> QED
    BY <1>1, <2>1, <2>2, <2>3, <2>4, <2>5, <2>6 DEF Shapes
<1>9. StackNests'
  BY <1>1, NewKeepsNesting DEF a
<1>10. at[i].stage = "globals" /\ at[i].n = 1 /\ segs[i] = << >> /\ parked[i] = << >>
  BY <1>1 DEF SlotsInTurn
<1>11. StoreTracks'
  <2>1. \A k \in DOMAIN stack' : stack'[k].kind # "build" => stack'[k].inst \in insts'
    BY <1>1, <1>3, AppendEffect DEF StoreTracks
  <2>2. insts' \subseteq {j \in Inst : Present(j)'}
    BY <1>1, <1>4 DEF StoreTracks, Present
  <2>3. \A j \in Inst : Present(j)' /\ exporter'[j] # Nil => state'[exporter'[j]] = "live"
    <3> TAKE j \in Inst
    <3> HAVE Present(j)' /\ exporter'[j] # Nil
    <3>1. CASE j = i
      BY <1>1, <1>2, <1>4, <1>5, <3>1
    <3>2. CASE j # i
      <4>1. Present(j) /\ exporter[j] # Nil /\ exporter[j] \in Inst
        BY <1>4, <1>5, <3>2 DEF Present, Shapes
      <4>2. state[exporter[j]] = "live"
        BY <4>1 DEF StoreTracks
      <4> QED
        BY <1>1, <1>4, <1>5, <3>2, <4>1, <4>2
    <3> QED
      BY <3>1, <3>2
  <2> QED
    BY <1>1, <1>4, <1>10, <2>1, <2>2, <2>3 DEF StoreTracks
<1>12. SlotsInTurn'
  <2>1. TablesInOrder'
    BY <1>1, <1>4, <1>5 DEF SlotsInTurn, TablesInOrder, P
  <2> QED
    BY <1>1, <1>4, <1>5, <1>10, <2>1 DEF SlotsInTurn, P
<1>13. FunctionsTracked'
  <2> SUFFICES ASSUME NEW j \in Seen', NEW l \in Inst, Func(l) \in Slots(j)'
               PROVE  (j \in Seen /\ Func(l) \in Slots(j)) \/ l \in insts' \cup {j}
    BY <1>1, FunctionsStay
  <2>1. CASE j = i
    <3>1. ToSet(<< >>) = {} /\ SegmentSlots(<< >>) = {}
      BY DEF ToSet, SegmentSlots, Live
    <3>2. SegmentSlots(segs[j])' = {} /\ ToSet(parked'[j]) = {}
      BY <1>1, <1>10, <2>1, <3>1 DEF SegmentSlots, Live
    <3>3. Func(l) # Nil
      BY InstancesAssumption
    <3>4. Func(l) \in TableSlots(tabs[j])'
      BY <1>6, <2>1, <3>2, <3>3 DEF Slots, InstRoots
    <3>5. PICK t \in ToSet(tabs'[i]) : Func(l) \in ToSet(store[t])
      BY <1>1, <2>1, <3>4 DEF TableSlots
    <3>6. e \in Inst /\ state[e] = "live" /\ Func(l) \in Slots(e)
      BY <1>2, <1>7, <3>5, InstancesAssumption DEF Slots, InstRoots, TableSlots
    <3>7. e \in insts /\ l \in insts \cup {e}
      BY <3>6 DEF StoreTracks, FunctionsTracked, Seen
    <3> QED
      BY <1>1, <3>7
  <2>2. CASE j # i
    <3>1. j \in Seen /\ j \in Inst
      BY <1>1, <1>4, <2>2 DEF Seen, Shapes
    <3>2. Slots(j)' = Slots(j)
      BY <1>1, <1>5, <2>2, <3>1 DEF Slots, InstRoots, TableSlots, SegmentSlots, Live
    <3> QED
      BY <3>1, <3>2
  <2> QED
    BY <2>1, <2>2
<1> QED
  BY <1>8, <1>9, <1>11, <1>12, <1>13
-----------------------------------------------------------------------------
(***************************************************************************)
(* Everything else: guest code, the embedder, deletions.                   *)
(***************************************************************************)

\* Guest code runs in an instance the store tracks.
LEMMA GuestIsTracked ==
  ASSUME InstancesInv, Guest
  PROVE  ctx \in Inst /\ ctx \in insts /\ ctx \in Seen
<1> USE DEF InstancesInv
<1>1. Len(stack) \in DOMAIN stack /\ Top = stack[Len(stack)] /\ Top.kind # "build" /\ ctx = Top.inst
  BY TopIs DEF StackNests, Guest
<1>2. ctx \in insts
  BY <1>1 DEF StoreTracks
<1> QED
  BY <1>2 DEF Seen, Shapes

\* A step that changes what slots hold, or what a collection left, and no more.
LEMMA SlotStepKeeps ==
  ASSUME InstancesInv, UNCHANGED <<shape, tabs, parked, view, ctx, stack, insts>>,
         globals' \in [Inst -> Seq(Val)], DOMAIN store' = DOMAIN store,
         store' \in [DOMAIN store -> [1 .. 2 -> Val]],
         segs' \in [Inst -> Seq([vals : Seq(Val), dropped : BOOLEAN])],
         \A j \in Inst : segs[j] = << >> => segs'[j] = << >>,
         heap' \subseteq Obj,
         \A j \in Seen : \A l \in Inst : Func(l) \in Slots(j)' => Func(l) \in Slots(j) \/ l \in insts
  PROVE  InstancesInv'
<1> USE DEF InstancesInv, shape
<1>1. Shapes'
  BY DEF Shapes, Present
<1>2. StackNests'
  BY SameStackKeepsNesting
<1>3. StoreTracks'
  BY DEF StoreTracks, Present
<1>4. SlotsInTurn'
  BY DEF SlotsInTurn, TablesInOrder, P
<1>5. FunctionsTracked'
  <2>1. Seen' = Seen
    BY DEF Seen
  <2> QED
    BY <2>1, FunctionsStay
<1> QED
  BY <1>1, <1>2, <1>3, <1>4, <1>5

\* A step that only changes the stack and the bound context.
LEMMA StackStepKeeps ==
  ASSUME InstancesInv, UNCHANGED <<shape, slots, view, insts, heap>>, Shapes', StackNests',
         \A k \in DOMAIN stack' : stack'[k].kind # "build" => stack'[k].inst \in insts
  PROVE  InstancesInv'
<1> USE DEF InstancesInv, shape
<1>1. StoreTracks'
  BY DEF StoreTracks, Present
<1>2. SlotsInTurn'
  BY DEF SlotsInTurn, TablesInOrder, P, slots
<1>3. FunctionsTracked'
  <2>1. Seen' = Seen
    BY DEF Seen
  <2> QED
    BY <2>1, SlotsSame, FunctionsStay
<1> QED
  BY <1>1, <1>2, <1>3

\* A step that pushes an activation keeps the invariant.
LEMMA PushKeeps ==
  ASSUME InstancesInv, Guest \/ InHost, NEW kind \in {"call", "host"}, NEW i \in insts,
         Push(kind, i), ctx' \in Inst \cup {Cluster}, kind = "call" => ctx' = i
  PROVE  InstancesInv'
<1> USE DEF InstancesInv
<1> DEFINE a == [kind |-> kind, inst |-> i, saved |-> ctx]
<1>1. stack' = Append(stack, a) /\ UNCHANGED <<shape, slots, view, insts, heap>>
  BY DEF Push
<1>2. i \in Inst /\ Present(i)
  BY DEF StoreTracks
<1>3. a \in Frame /\ a.inst = i
  BY <1>2 DEF Frame, Shapes
<1> HIDE DEF a
<1>4. Shapes' /\ StackNests'
  BY <1>2, PushKeepsNesting
<1>5. \A k \in DOMAIN stack' : stack'[k].kind # "build" => stack'[k].inst \in insts
  BY <1>1, <1>3, AppendEffect DEF StoreTracks
<1> QED
  BY <1>1, <1>4, <1>5, StackStepKeeps

\* The step GuestCall keeps the invariant.
LEMMA GuestCallKeeps ==
  ASSUME InstancesInv, NEW i \in Inst, GuestCall(i)
  PROVE  InstancesInv'
<1>1. Guest /\ Func(i) \in TableSlots(tabs[ctx]) /\ Push("call", i) /\ ctx' = i
  BY DEF GuestCall
<1>2. ctx \in insts /\ ctx \in Seen
  BY <1>1, GuestIsTracked
<1>3. i \in insts
  BY <1>1, <1>2 DEF InstancesInv, FunctionsTracked, Slots, InstRoots
<1> QED
  BY <1>1, <1>3, PushKeeps

\* The step HostCallback keeps the invariant.
LEMMA HostCallbackKeeps ==
  ASSUME InstancesInv, HostCallback
  PROVE  InstancesInv'
<1>1. Guest /\ Push("host", ctx) /\ ctx' = ctx
  BY DEF HostCallback
<1>2. ctx \in insts /\ ctx \in Inst
  BY <1>1, GuestIsTracked
<1> QED
  BY <1>1, <1>2, PushKeeps

\* The step CallExport keeps the invariant.
LEMMA CallExportKeeps ==
  ASSUME InstancesInv, NEW i \in Inst, CallExport(i)
  PROVE  InstancesInv'
<1>1. InHost /\ state[i] = "live" /\ Push("call", i) /\ ctx' = i
  BY DEF CallExport
<1>2. i \in insts
  BY <1>1 DEF InstancesInv, StoreTracks
<1> QED
  BY <1>1, <1>2, PushKeeps

\* The step Return keeps the invariant.
LEMMA ReturnKeeps ==
  ASSUME InstancesInv, Return
  PROVE  InstancesInv'
<1> USE DEF InstancesInv
<1>1. stack # << >> /\ Pop /\ UNCHANGED <<shape, slots, view, insts, heap>>
  BY DEF Return
<1>2. Shapes' /\ StackNests'
  BY ReturnKeepsNesting
<1>3. \A k \in DOMAIN stack' : stack'[k].kind # "build" => stack'[k].inst \in insts
  BY <1>1, PopEffect DEF StoreTracks
<1> QED
  BY <1>1, <1>2, <1>3, StackStepKeeps

\* The step HostAlloc keeps the invariant.
LEMMA HostAllocKeeps ==
  ASSUME InstancesInv, HostAlloc
  PROVE  InstancesInv'
<1>1. UNCHANGED <<shape, slots, view, ctx, stack, insts>> /\ heap' \subseteq heap
  BY DEF HostAlloc
<1>2. \A j : Slots(j)' = Slots(j)
  BY <1>1, SlotsSame
<1> QED
  BY <1>1, <1>2, SlotStepKeeps DEF InstancesInv, Shapes, slots

\* One slot of a table is written.
LEMMA TableWritten ==
  ASSUME Shapes, NEW u \in DOMAIN store, NEW k \in {1, 2}, NEW v \in Val,
         store' = [store EXCEPT ![u][k] = v]
  PROVE  /\ DOMAIN store' = DOMAIN store /\ store' \in [DOMAIN store -> [1 .. 2 -> Val]]
         /\ \A t \in DOMAIN store : ToSet(store'[t]) \subseteq ToSet(store[t]) \cup {v}
<1>1. store \in [DOMAIN store -> [1 .. 2 -> Val]] /\ store[u] \in [1 .. 2 -> Val]
  BY DEF Shapes
<1> DEFINE g == [store[u] EXCEPT ![k] = v]
<1>2. g \in [1 .. 2 -> Val] /\ ToSet(g) \subseteq ToSet(store[u]) \cup {v}
  BY <1>1 DEF ToSet
<1>3. store' = [t \in DOMAIN store |-> IF t = u THEN g ELSE store[t]]
  BY <1>1
<1> HIDE DEF g
<1> QED
  BY <1>1, <1>2, <1>3

\* An instance sees tables of the store.
LEMMA SeenTables ==
  ASSUME Shapes, NEW j \in Inst
  PROVE  ToSet(tabs[j]) \subseteq DOMAIN store
<1>1. tabs[j] \in Seq(DOMAIN store)
  BY DEF Shapes
<1> QED
  BY <1>1 DEF ToSet

\* A value written into tables may be seen by every instance.
LEMMA SharedSlotWritten ==
  ASSUME Shapes, UNCHANGED <<globals, tabs, segs, parked>>, NEW v,
         \A t \in DOMAIN store : ToSet(store'[t]) \subseteq ToSet(store[t]) \cup {v}
  PROVE  \A j \in Inst : Slots(j)' \subseteq Slots(j) \cup {v}
<1> TAKE j \in Inst
<1>1. TableSlots(tabs[j])' \subseteq TableSlots(tabs[j]) \cup {v}
  BY SeenTables, TablesGrow
<1>2. SegmentSlots(segs[j])' = SegmentSlots(segs[j])
  BY DEF SegmentSlots, Live
<1> QED
  BY <1>1, <1>2, SlotsGrow

\* Where the fresh object of the guest goes.
LEMMA GuestAllocEffect ==
  ASSUME InstancesInv, NEW o \in Obj, GuestAlloc(o)
  PROVE  /\ UNCHANGED <<shape, tabs, segs, parked, view, ctx, stack, insts>>
         /\ globals' \in [Inst -> Seq(Val)] /\ DOMAIN store' = DOMAIN store
         /\ store' \in [DOMAIN store -> [1 .. 2 -> Val]]
         /\ \A j \in Inst : Slots(j)' \subseteq Slots(j) \cup {o}
         /\ heap' \subseteq Obj /\ o \in heap' /\ heap \cap Roots(ctx) \subseteq heap'
<1> USE DEF InstancesInv
<1>1. Guest /\ Alloc(o, ctx) /\ UNCHANGED <<shape, tabs, segs, parked, view, ctx, stack, insts>>
  BY DEF GuestAlloc
<1>2. heap' \subseteq Obj /\ o \in heap' /\ heap \cap Roots(ctx) \subseteq heap'
  BY <1>1 DEF Alloc, Shapes
<1>3. o \in Val /\ ctx \in Inst
  BY <1>1, GuestIsTracked DEF Val
<1>4. globals \in [Inst -> Seq(Val)] /\ store \in [DOMAIN store -> [1 .. 2 -> Val]]
  BY DEF Shapes
<1>5. ASSUME NEW g \in DOMAIN globals[ctx], globals' = [globals EXCEPT ![ctx][g] = o], UNCHANGED store
      PROVE  globals' \in [Inst -> Seq(Val)] /\ \A j \in Inst : Slots(j)' \subseteq Slots(j) \cup {o}
  <2>1. /\ globals' \in [Inst -> Seq(Val)] /\ ToSet(globals'[ctx]) \subseteq ToSet(globals[ctx]) \cup {o}
        /\ \A j \in Inst : j # ctx => globals'[j] = globals[j]
    BY <1>3, <1>5, GlobalWritten
  <2> QED
    BY <1>1, <1>3, <1>5, <2>1, OwnSlotWritten
<1>6. ASSUME NEW t \in ToSet(tabs[ctx]), NEW k \in {1, 2}, store' = [store EXCEPT ![t][k] = o], UNCHANGED globals
      PROVE  /\ DOMAIN store' = DOMAIN store /\ store' \in [DOMAIN store -> [1 .. 2 -> Val]]
             /\ \A j \in Inst : Slots(j)' \subseteq Slots(j) \cup {o}
  <2>1. t \in DOMAIN store
    BY <1>3, SeenTables
  <2>2. /\ DOMAIN store' = DOMAIN store /\ store' \in [DOMAIN store -> [1 .. 2 -> Val]]
        /\ \A u \in DOMAIN store : ToSet(store'[u]) \subseteq ToSet(store[u]) \cup {o}
    BY <1>3, <1>6, <2>1, TableWritten
  <2> QED
    BY <1>1, <1>6, <2>2, SharedSlotWritten
<1>7. UNCHANGED <<globals, store>> => \A j : Slots(j)' = Slots(j)
  BY <1>1, SlotsSame DEF slots
<1> QED
  BY <1>1, <1>2, <1>4, <1>5, <1>6, <1>7 DEF GuestAlloc

\* The step GuestAlloc keeps the invariant.
LEMMA GuestAllocKeeps ==
  ASSUME InstancesInv, NEW o \in Obj, GuestAlloc(o)
  PROVE  InstancesInv'
<1>1. \A l \in Inst : Func(l) # o
  BY InstancesAssumption
<1>2. segs \in [Inst -> Seq([vals : Seq(Val), dropped : BOOLEAN])]
  BY DEF InstancesInv, Shapes
<1>3. \A j \in Seen : j \in Inst
  BY DEF Seen, InstancesInv, Shapes
<1> QED
  BY <1>1, <1>2, <1>3, GuestAllocEffect, SlotStepKeeps

\* What table.init leaves in the slots.
LEMMA GuestTableInitEffect ==
  ASSUME InstancesInv, GuestTableInit
  PROVE  /\ UNCHANGED <<shape, globals, tabs, segs, parked, view, ctx, stack, insts, heap>>
         /\ DOMAIN store' = DOMAIN store /\ store' \in [DOMAIN store -> [1 .. 2 -> Val]]
         /\ \A j \in Inst : Slots(j)' \subseteq Slots(j) \cup Slots(ctx)
<1> USE DEF InstancesInv
<1>1. Guest /\ tabs[ctx] # << >> /\ UNCHANGED <<shape, globals, tabs, segs, parked, view, ctx, stack, insts, heap>>
  BY DEF GuestTableInit
<1>2. PICK s \in Usable : \E v \in ToSet(segs[ctx][s].vals) : store' = [store EXCEPT ![tabs[ctx][1]][1] = v]
  BY DEF GuestTableInit
<1>3. PICK v \in ToSet(segs[ctx][s].vals) : store' = [store EXCEPT ![tabs[ctx][1]][1] = v]
  BY <1>2
<1>4. ctx \in Inst
  BY <1>1, GuestIsTracked
<1>5. v \in Val /\ v \in Slots(ctx)
  <2>1. s \in DOMAIN segs[ctx] /\ ~ segs[ctx][s].dropped
    BY DEF Usable, Live
  <2>2. segs[ctx][s].vals \in Seq(Val)
    BY <1>4, <2>1, SegmentIs
  <2>3. v \in Val
    BY <1>3, <2>2 DEF ToSet
  <2>4. v \in SegmentSlots(segs[ctx])
    BY <1>3, <2>1, SegmentsAre
  <2> QED
    BY <2>3, <2>4 DEF Slots, InstRoots
<1>6. tabs[ctx][1] \in DOMAIN store
  <2>1. tabs[ctx] \in Seq(DOMAIN store)
    BY <1>4 DEF Shapes
  <2> QED
    BY <1>1, <2>1
<1>7. /\ DOMAIN store' = DOMAIN store /\ store' \in [DOMAIN store -> [1 .. 2 -> Val]]
      /\ \A u \in DOMAIN store : ToSet(store'[u]) \subseteq ToSet(store[u]) \cup {v}
  BY <1>3, <1>5, <1>6, TableWritten
<1>8. \A j \in Inst : Slots(j)' \subseteq Slots(j) \cup {v}
  BY <1>1, <1>7, SharedSlotWritten
<1> QED
  BY <1>1, <1>5, <1>7, <1>8

\* The step GuestTableInit keeps the invariant.
LEMMA GuestTableInitKeeps ==
  ASSUME InstancesInv, GuestTableInit
  PROVE  InstancesInv'
<1>1. ctx \in Inst /\ ctx \in insts /\ ctx \in Seen
  BY GuestIsTracked DEF GuestTableInit
<1>2. \A j \in Seen : j \in Inst
  BY DEF Seen, InstancesInv, Shapes
<1>3. \A l \in Inst : Func(l) \in Slots(ctx) => l \in insts
  BY <1>1 DEF InstancesInv, FunctionsTracked
<1>4. \A j \in Seen : \A l \in Inst : Func(l) \in Slots(j)' => Func(l) \in Slots(j) \/ l \in insts
  BY <1>2, <1>3, GuestTableInitEffect
<1>5. /\ globals \in [Inst -> Seq(Val)] /\ heap \subseteq Obj
      /\ segs \in [Inst -> Seq([vals : Seq(Val), dropped : BOOLEAN])]
  BY DEF InstancesInv, Shapes
<1> QED
  BY <1>4, <1>5, GuestTableInitEffect, SlotStepKeeps

\* elem.drop only takes slots away.
LEMMA GuestElemDropEffect ==
  ASSUME InstancesInv, GuestElemDrop
  PROVE  /\ UNCHANGED <<shape, globals, tabs, store, parked, view, ctx, stack, insts, heap>>
         /\ segs' \in [Inst -> Seq([vals : Seq(Val), dropped : BOOLEAN])]
         /\ \A j \in Inst : segs[j] = << >> => segs'[j] = << >>
         /\ \A j \in Inst : Slots(j)' \subseteq Slots(j)
<1> USE DEF InstancesInv
<1>1. Guest /\ UNCHANGED <<shape, globals, tabs, store, parked, view, ctx, stack, insts, heap>>
  BY DEF GuestElemDrop
<1>2. PICK s \in Usable : segs' = [segs EXCEPT ![ctx][s].dropped = TRUE]
  BY DEF GuestElemDrop
<1>3. ctx \in Inst /\ s \in DOMAIN segs[ctx]
  BY <1>1, GuestIsTracked DEF Usable, Live
<1>4. segs[ctx] \in Seq([vals : Seq(Val), dropped : BOOLEAN]) /\ DOMAIN segs[ctx] = 1 .. Len(segs[ctx])
  BY <1>3, SegmentIs
<1>5. segs[ctx][s] \in [vals : Seq(Val), dropped : BOOLEAN]
  BY <1>3, SegmentIs
<1> DEFINE r == [segs[ctx][s] EXCEPT !.dropped = TRUE]
           g == [segs[ctx] EXCEPT ![s] = r]
<1>6. r \in [vals : Seq(Val), dropped : BOOLEAN] /\ r.dropped
  BY <1>5
<1>7. segs' = [segs EXCEPT ![ctx] = g]
  BY <1>2
<1> HIDE DEF r
<1>8. g \in Seq([vals : Seq(Val), dropped : BOOLEAN])
  BY <1>4, <1>6, SlotWritten, Zenon
<1>9. /\ DOMAIN g = DOMAIN segs[ctx] /\ g[s] = r
      /\ \A k \in DOMAIN segs[ctx] : k # s => g[k] = segs[ctx][k]
  BY <1>3, <1>4
<1> HIDE DEF g
<1>10. /\ segs' \in [Inst -> Seq([vals : Seq(Val), dropped : BOOLEAN])]
       /\ segs'[ctx] = g /\ \A j \in Inst : j # ctx => segs'[j] = segs[j]
  BY <1>3, <1>7, <1>8 DEF Shapes
<1>11. segs[ctx] # << >>
  BY <1>3, <1>4
<1>12. \A j \in Inst : SegmentSlots(segs[j])' \subseteq SegmentSlots(segs[j])
  <2> SUFFICES ASSUME NEW j \in Inst, NEW x, x \in SegmentSlots(segs'[j]) PROVE x \in SegmentSlots(segs[j])
    BY DEF SegmentSlots, Live
  <2>1. PICK k \in DOMAIN segs'[j] : ~ segs'[j][k].dropped /\ x \in ToSet(segs'[j][k].vals)
    BY SegmentsAre
  <2>2. k \in DOMAIN segs[j] /\ segs'[j][k] = segs[j][k]
    BY <1>6, <1>9, <1>10, <2>1
  <2> QED
    BY <2>1, <2>2, SegmentsAre
<1>13. \A j \in Inst : Slots(j)' \subseteq Slots(j)
  <2> TAKE j \in Inst
  <2>1. TableSlots(tabs[j])' = TableSlots(tabs[j])
    BY <1>1 DEF TableSlots
  <2>2. Slots(j)' \subseteq Slots(j) \cup {}
    BY <1>1, <1>12, <2>1, SlotsGrow
  <2> QED
    BY <2>2
<1> QED
  BY <1>1, <1>10, <1>11, <1>13

\* The step GuestElemDrop keeps the invariant.
LEMMA GuestElemDropKeeps ==
  ASSUME InstancesInv, GuestElemDrop
  PROVE  InstancesInv'
<1>1. \A j \in Seen : j \in Inst
  BY DEF Seen, InstancesInv, Shapes
<1>2. globals \in [Inst -> Seq(Val)] /\ heap \subseteq Obj /\ store \in [DOMAIN store -> [1 .. 2 -> Val]]
  BY DEF InstancesInv, Shapes
<1> QED
  BY <1>1, <1>2, GuestElemDropEffect, SlotStepKeeps

\* The step Delete keeps the invariant.
LEMMA DeleteKeeps ==
  ASSUME InstancesInv, NEW i \in Inst, Delete(i)
  PROVE  InstancesInv'
<1> USE DEF InstancesInv
<1>1. /\ InHost /\ state[i] = "live" /\ Unused(i)
      /\ state' = [state EXCEPT ![i] = "freed"] /\ insts' = insts \ {i}
      /\ ctx' = IF ctx = i THEN Cluster ELSE ctx
      /\ UNCHANGED <<mod, exporter, at, slots, view, stack, heap>>
  BY DEF Delete
<1>2. \A j \in Inst : state'[j] = IF j = i THEN "freed" ELSE state[j]
  BY <1>1 DEF Shapes
<1>3. /\ \A k \in DOMAIN stack : stack[k].inst # i
      /\ \A j \in Inst : j # i /\ Present(j) => exporter[j] # i /\ Func(i) \notin InstRoots(j)
  BY <1>1 DEF Unused
<1>4. Shapes'
  <2>1. state' \in [Inst -> {"unused", "building", "live", "trapped", "freed"}]
    BY <1>1 DEF Shapes
  <2>2. \A j \in Inst : Present(j)' => mod'[j] \in Module
    BY <1>1, <1>2 DEF Shapes, Present
  <2>3. ctx' \in Inst \cup {Cluster} /\ insts' \subseteq Inst
    BY <1>1 DEF Shapes
  <2> QED
    BY <1>1, <2>1, <2>2, <2>3 DEF Shapes, slots
<1>5. StackNests'
  BY <1>1, <1>3, FreedKeepsNesting
<1>6. StoreTracks'
  <2>1. \A k \in DOMAIN stack' : stack'[k].kind # "build" => stack'[k].inst \in insts'
    BY <1>1, <1>3 DEF StoreTracks
  <2>2. insts' \subseteq {j \in Inst : Present(j)'}
    BY <1>1, <1>2 DEF StoreTracks, Present
  <2>3. \A j \in Inst : Present(j)' /\ exporter'[j] # Nil => state'[exporter'[j]] = "live"
    <3> TAKE j \in Inst
    <3> HAVE Present(j)' /\ exporter'[j] # Nil
    <3>1. j # i /\ Present(j) /\ exporter[j] # Nil /\ exporter[j] \in Inst
      BY <1>1, <1>2 DEF Present, Shapes
    <3>2. state[exporter[j]] = "live" /\ exporter[j] # i
      BY <1>3, <3>1 DEF StoreTracks
    <3> QED
      BY <1>1, <1>2, <3>1, <3>2
  <2> QED
    BY <1>1, <1>2, <2>1, <2>2, <2>3 DEF StoreTracks
<1>7. SlotsInTurn'
  <2>1. TablesInOrder'
    BY <1>1, <1>2 DEF SlotsInTurn, TablesInOrder, P, slots
  <2> QED
    BY <1>1, <1>2, <2>1 DEF SlotsInTurn, P, slots
<1>8. FunctionsTracked'
  <2> SUFFICES ASSUME NEW j \in Seen', NEW l \in Inst, Func(l) \in Slots(j)'
               PROVE  l \in insts' \cup {j}
    BY DEF FunctionsTracked
  <2>1. j \in Seen /\ j \in Inst /\ j # i
    BY <1>1, <1>2 DEF Seen, Shapes
  <2>2. Func(l) \in Slots(j) /\ l \in insts \cup {j}
    BY <1>1, <2>1, SlotsSame DEF FunctionsTracked
  <2>3. Present(j) /\ parked[j] = << >>
    BY <1>1, <2>1, TopIs, NothingParked DEF Seen, StoreTracks, Present
  <2>4. Func(l) \in InstRoots(j)
    BY <2>2, <2>3 DEF Slots, ToSet
  <2> QED
    BY <1>1, <1>3, <2>1, <2>2, <2>3, <2>4
<1> QED
  BY <1>4, <1>5, <1>6, <1>7, <1>8

\* The step LinkFails keeps the invariant.
LEMMA LinkFailsKeeps ==
  ASSUME InstancesInv, NEW m \in Module, NEW i \in Inst, LinkFails(m, i)
  PROVE  InstancesInv'
<1> USE DEF InstancesInv
<1>1. /\ InHost /\ state[i] = "unused" /\ state' = [state EXCEPT ![i] = "freed"] /\ ctx' = i
      /\ UNCHANGED <<mod, exporter, at, slots, view, stack, insts, heap>>
  BY DEF LinkFails
<1>2. \A j \in Inst : state'[j] = IF j = i THEN "freed" ELSE state[j]
  BY <1>1 DEF Shapes
<1>3. \A k \in DOMAIN stack : stack[k].inst # i
  BY <1>1 DEF StackNests, Present
<1>4. Shapes'
  <2>1. state' \in [Inst -> {"unused", "building", "live", "trapped", "freed"}]
    BY <1>1 DEF Shapes
  <2>2. \A j \in Inst : Present(j)' => mod'[j] \in Module
    BY <1>1, <1>2 DEF Shapes, Present
  <2> QED
    BY <1>1, <2>1, <2>2 DEF Shapes, slots
<1>5. StackNests'
  BY <1>1, <1>3, FreedKeepsNesting
<1>6. StoreTracks'
  <2>1. insts' \subseteq {j \in Inst : Present(j)'}
    BY <1>1, <1>2 DEF StoreTracks, Present
  <2>2. \A j \in Inst : Present(j)' /\ exporter'[j] # Nil => state'[exporter'[j]] = "live"
    <3> TAKE j \in Inst
    <3> HAVE Present(j)' /\ exporter'[j] # Nil
    <3>1. Present(j) /\ exporter[j] # Nil /\ exporter[j] \in Inst
      BY <1>1, <1>2 DEF Present, Shapes
    <3>2. state[exporter[j]] = "live"
      BY <3>1 DEF StoreTracks
    <3> QED
      BY <1>1, <1>2, <3>1, <3>2
  <2> QED
    BY <1>1, <1>2, <2>1, <2>2 DEF StoreTracks
<1>7. SlotsInTurn'
  <2>1. TablesInOrder'
    BY <1>1, <1>2 DEF SlotsInTurn, TablesInOrder, P, slots
  <2> QED
    BY <1>1, <1>2, <2>1 DEF SlotsInTurn, P, slots
<1>8. FunctionsTracked'
  <2>1. \A j \in Seen' : j \in Seen /\ j \in Inst
    BY <1>1, <1>2 DEF Seen, Shapes
  <2> QED
    BY <1>1, <2>1, SlotsSame, FunctionsStay
<1> QED
  BY <1>4, <1>5, <1>6, <1>7, <1>8
-----------------------------------------------------------------------------
\* The invariant holds before anything is instantiated.
LEMMA InstancesInit == Init => InstancesInv
<1> SUFFICES ASSUME Init PROVE InstancesInv
  OBVIOUS
<1> USE DEF Init
<1>1. Shapes
  <2>1. store = << >> /\ DOMAIN store = {} /\ store \in [DOMAIN store -> [1 .. 2 -> Val]]
    OBVIOUS
  <2> QED
    BY <2>1 DEF Shapes, Present
<1>2. StackNests
  BY DEF StackNests, Guest, Top
<1>3. StoreTracks
  BY DEF StoreTracks, Present
<1>4. SlotsInTurn
  BY DEF SlotsInTurn, TablesInOrder
<1>5. FunctionsTracked
  BY DEF FunctionsTracked, Seen
<1> QED
  BY <1>1, <1>2, <1>3, <1>4, <1>5 DEF InstancesInv

\* Slots are a function of the variables.
LEMMA SlotsStay ==
  ASSUME UNCHANGED vars
  PROVE  \A j : Slots(j)' = Slots(j)
BY SlotsSame DEF vars

\* Stuttering keeps the invariant.
LEMMA InstancesStutter ==
  ASSUME InstancesInv, UNCHANGED vars
  PROVE  InstancesInv'
<1> USE DEF InstancesInv, vars
<1>1. globals \in [Inst -> Seq(Val)] /\ heap \subseteq Obj /\ store \in [DOMAIN store -> [1 .. 2 -> Val]]
      /\ segs \in [Inst -> Seq([vals : Seq(Val), dropped : BOOLEAN])]
  BY DEF Shapes
<1> QED
  BY <1>1, SlotsStay, SlotStepKeeps DEF slots

\* Every step keeps the invariant.
LEMMA InstancesStep == InstancesInv /\ [Next]_vars => InstancesInv'
<1> SUFFICES ASSUME InstancesInv, [Next]_vars PROVE InstancesInv'
  OBVIOUS
<1>1. ASSUME NEW i \in Inst, NEW m \in Module, LinkFails(m, i) \/ \E e \in Inst \cup {Nil} : New(m, i, e)
      PROVE  InstancesInv'
  BY <1>1, LinkFailsKeeps, NewKeeps
<1>2. ASSUME NEW i \in Inst, Build(i) PROVE InstancesInv'
  <2>1. 0 .. 2 \subseteq Nat
    OBVIOUS
  <2> QED
    BY <1>2, <2>1, InitGlobalKeeps, InitTableKeeps, ElemItemKeeps, AllocationFailsKeeps, AllocModuleKeeps,
       KeepSegmentKeeps, ActiveSegmentKeeps, DataTrapsKeeps, CompleteKeeps, StartEndsKeeps DEF Build
<1>3. ASSUME NEW i \in Inst, GuestCall(i) \/ CallExport(i) \/ Delete(i) PROVE InstancesInv'
  BY <1>3, GuestCallKeeps, CallExportKeeps, DeleteKeeps
<1>4. ASSUME NEW o \in Obj, GuestAlloc(o) PROVE InstancesInv'
  BY <1>4, GuestAllocKeeps
<1>5. CASE GuestTableInit \/ GuestElemDrop
  BY <1>5, GuestTableInitKeeps, GuestElemDropKeeps
<1>6. CASE HostCallback \/ Return \/ HostAlloc
  BY <1>6, HostCallbackKeeps, ReturnKeeps, HostAllocKeeps
<1>7. CASE UNCHANGED vars
  BY <1>7, InstancesStutter
<1> QED
  BY <1>1, <1>2, <1>3, <1>4, <1>5, <1>6, <1>7 DEF Next

\* The inductive invariant, for every number of instances and objects and all
\* modules: the stack nests, the store tracks, and the slots come in turn.
THEOREM InstancesCorrect == Spec => []InstancesInv
<1>1. Init => InstancesInv
  BY InstancesInit
<1>2. InstancesInv /\ [Next]_vars => InstancesInv'
  BY InstancesStep
<1> QED
  BY <1>1, <1>2, PTL DEF Spec

\* Type correctness: instantiations nest, and the store tracks what was
\* allocated and not deleted (jav_instance.c: jav_instantiate, on_inst_alloc).
THEOREM InstancesTypeCorrect == Spec => []InstancesTypeOK
<1>1. InstancesInv => InstancesTypeOK
  <2> SUFFICES ASSUME InstancesInv PROVE InstancesTypeOK
    OBVIOUS
  <2> USE DEF InstancesInv
  <2>1. \A t \in DOMAIN store : ToSet(store[t]) \subseteq UNION {Value(i) : i \in Inst}
    <3> TAKE t \in DOMAIN store
    <3>1. store[t] \in [1 .. 2 -> Val] /\ t[1] \in Inst
      BY DEF Shapes
    <3>2. ToSet(store[t]) \subseteq Val
      BY <3>1 DEF ToSet
    <3>3. Val \subseteq UNION {Value(i) : i \in Inst}
      BY <3>1 DEF Val, Value
    <3> QED
      BY <3>2, <3>3
  <2> QED
    BY <2>1 DEF InstancesTypeOK, Shapes, StackNests, StoreTracks
<1> QED
  BY <1>1, InstancesCorrect, PTL

\* An instance in use is tracked or being built.
LEMMA InUseIsSeen ==
  ASSUME InstancesInv, NEW i \in InUse
  PROVE  i \in Seen
<1>1. ASSUME NEW l \in insts, Func(i) \in TableSlots(tabs[l]), i \in Inst
      PROVE  i \in insts
  <2>1. l \in Seen /\ Func(i) \in Slots(l)
    BY <1>1 DEF Seen, Slots, InstRoots
  <2>2. i \in insts \cup {l}
    BY <1>1, <2>1 DEF InstancesInv, FunctionsTracked
  <2> QED
    BY <2>2
<1> QED
  BY <1>1 DEF InUse, Seen, InstancesInv, StoreTracks

\* No function in a slot of an instance in use is one of an instance that was
\* freed, whatever failed, trapped or was deleted (wasm_instance_new,
\* wasm_instance_delete).
THEOREM NoFunctionDangles == Spec => []NoDanglingFunction
<1>1. InstancesInv => NoDanglingFunction
  <2> SUFFICES ASSUME InstancesInv, NEW i \in InUse, NEW j \in Inst, Func(j) \in InstRoots(i)
               PROVE  Present(j)
    BY DEF NoDanglingFunction
  <2> USE DEF InstancesInv
  <2>1. i \in Inst /\ i \in Seen
    BY InUseIsSeen DEF InUse
  <2>2. j \in insts \cup {i}
    BY <2>1 DEF FunctionsTracked, Slots
  <2> QED
    BY <2>1, <2>2 DEF StoreTracks, Seen, Present
<1> QED
  BY <1>1, InstancesCorrect, PTL
-----------------------------------------------------------------------------
(***************************************************************************)
(* Nothing is lost.                                                        *)
(***************************************************************************)

\* A collection that runs while ctx is bound keeps what tracked instances hold.
LEMMA TrackedSurvive ==
  ASSUME InstancesInv, SlotsKept, heap \cap Roots(ctx) \subseteq heap'
  PROVE  \A j \in insts : Managed(InstRoots(j)) \subseteq heap'
<1> TAKE j \in insts
<1>1. Managed(InstRoots(j)) \subseteq heap
  BY DEF SlotsKept, Seen, Slots, Managed
<1>2. Managed(InstRoots(j)) \subseteq Roots(ctx)
  BY DEF Roots, Managed
<1> QED
  BY <1>1, <1>2

\* A collection spares what every instance but the one being built holds.
LEMMA OthersSurvive ==
  ASSUME InstancesInv, SlotsKept, heap \cap Roots(ctx) \subseteq heap', NEW j \in Seen, ~ Building(j)
  PROVE  Managed(Slots(j)) \subseteq heap'
<1> USE DEF InstancesInv
<1>1. j \in Inst
  BY DEF Seen, Shapes
<1>2. parked[j] = << >>
  BY <1>1, NothingParked
<1>3. j \in insts
  BY <1>1, OthersHaveStarted DEF Seen, StoreTracks
<1>4. Slots(j) = InstRoots(j)
  BY <1>2 DEF Slots, ToSet
<1> QED
  BY <1>3, <1>4, TrackedSurvive

\* It also keeps what the instance holds that is being built: its globals,
\* since it is bound, and the tables of others; of its own tables none holds
\* an object yet.
LEMMA BuilderSurvives ==
  ASSUME InstancesInv, SlotsKept, TablesInTurn, heap \cap Roots(ctx) \subseteq heap',
         NEW i \in Inst, Building(i), at[i].stage = "globals",
         \A d \in DOMAIN P(i).tables : Len(P(i).globals) + d < at[i].n => P(i).tables[d] # "alloc"
  PROVE  Managed(Slots(i)) \subseteq heap'
<1> USE DEF InstancesInv
<1>1. ctx = i /\ state[i] = "building" /\ i \in Seen
  BY WhatIsBuilt
<1>2. segs[i] = << >> /\ parked[i] = << >>
  BY <1>1 DEF SlotsInTurn
<1>3. SegmentSlots(segs[i]) = {} /\ ToSet(parked[i]) = {}
  BY <1>2 DEF SegmentSlots, Live, ToSet
<1>4. Managed(ToSet(globals[i])) \subseteq Roots(ctx)
  BY <1>1, InstancesAssumption DEF Roots, Managed, BoundRoots
<1>5. Managed(ToSet(globals[i])) \subseteq heap
  BY <1>1 DEF SlotsKept, Slots, InstRoots, Managed
<1>6. ASSUME NEW t \in ToSet(tabs[i]) PROVE Managed(ToSet(store[t])) \subseteq heap'
  <2>1. CASE exporter[i] \in Inst /\ t \in ToSet(tabs[exporter[i]])
    <3>1. exporter[i] \in insts
      BY <1>1, <2>1, InstancesAssumption DEF StoreTracks, Present
    <3>2. Managed(ToSet(store[t])) \subseteq Managed(InstRoots(exporter[i]))
      BY <2>1 DEF InstRoots, TableSlots, Managed
    <3> QED
      BY <3>1, <3>2, TrackedSurvive
  <2>2. CASE Managed(ToSet(store[t])) = {}
    BY <2>2
  <2> QED
    BY <1>1, <1>6, <2>1, <2>2 DEF TablesInTurn
<1>7. Managed(TableSlots(tabs[i])) \subseteq heap'
  BY <1>6 DEF TableSlots, Managed
<1> QED
  BY <1>3, <1>4, <1>5, <1>7 DEF Slots, InstRoots, Managed

\* No instance is allocating its globals and tables unless it is what runs.
LEMMA NoneInGlobals ==
  ASSUME InstancesInv, \A i \in Inst : Building(i) => at[i].stage # "globals"
  PROVE  \A j \in Inst : state[j] = "building" => at[j].stage # "globals"
BY OthersHaveStarted DEF InstancesInv

\* A step outside the construction of tables and segment items, when what the slots hold is still in the heap.
LEMMA QuietStepKeeps ==
  ASSUME KeptInv,
         \A j \in Inst : state'[j] = "building" => at'[j].stage # "globals",
         \A j \in Inst : \/ parked'[j] = << >>
                         \/ parked'[j] = parked[j] /\ at'[j] = at[j] /\ mod'[j] = mod[j],
         \A j \in Seen' : Managed(Slots(j))' \subseteq heap'
  PROVE  TablesInTurn' /\ ItemsInTurn' /\ SlotsKept'
<1>1. TablesInTurn'
  BY DEF TablesInTurn
<1>2. ItemsInTurn'
  <2> SUFFICES ASSUME NEW j \in Inst, NEW k \in DOMAIN parked'[j], parked'[j][k] \in Obj
               PROVE  Plan[mod'[j]].elems[at'[j].n].items[k] = "alloc"
    BY DEF ItemsInTurn, P
  <2>1. parked'[j] = parked[j] /\ at'[j] = at[j] /\ mod'[j] = mod[j]
    OBVIOUS
  <2> QED
    BY <2>1 DEF KeptInv, ItemsInTurn, P
<1>3. SlotsKept'
  BY DEF SlotsKept
<1> QED
  BY <1>1, <1>2, <1>3

\* Without a collection it is enough that nothing new comes into sight.
LEMMA NothingNewKept ==
  ASSUME SlotsKept, heap' = heap,
         \A j \in Seen' : j \in Seen /\ \E c \in Seen : Slots(j)' \subseteq Slots(j) \cup Slots(c)
  PROVE  \A j \in Seen' : Managed(Slots(j))' \subseteq heap'
BY DEF SlotsKept, Managed

\* Steps of the guest and the embedder.
LEMMA GuestAllocKept ==
  ASSUME KeptInv, NEW o \in Obj, GuestAlloc(o)
  PROVE  TablesInTurn' /\ ItemsInTurn' /\ SlotsKept'
<1> USE DEF KeptInv
<1>1. Guest /\ UNCHANGED <<shape, parked, insts>> /\ o \in heap' /\ heap \cap Roots(ctx) \subseteq heap'
  BY GuestAllocEffect DEF GuestAlloc
<1>2. \A i : ~ Building(i)
  BY <1>1, TopIs DEF InstancesInv
<1>3. \A j \in Inst : Slots(j)' \subseteq Slots(j) \cup {o}
  BY GuestAllocEffect
<1>4. \A j \in Seen' : Managed(Slots(j))' \subseteq heap'
  <2> TAKE j \in Seen'
  <2>1. j \in Seen /\ j \in Inst
    BY <1>1 DEF Seen, shape, InstancesInv, Shapes
  <2>2. Managed(Slots(j)) \subseteq heap'
    BY <1>1, <1>2, <2>1, OthersSurvive
  <2> QED
    BY <1>1, <1>3, <2>1, <2>2 DEF Managed
<1>5. \A j \in Inst : state'[j] = "building" => at'[j].stage # "globals"
  BY <1>1, <1>2, NoneInGlobals DEF shape
<1> QED
  BY <1>1, <1>4, <1>5, QuietStepKeeps DEF shape

\* The step HostAlloc loses nothing an instance holds.
LEMMA HostAllocKept ==
  ASSUME KeptInv, HostAlloc
  PROVE  TablesInTurn' /\ ItemsInTurn' /\ SlotsKept'
<1> USE DEF KeptInv
<1>1. InHost /\ UNCHANGED <<shape, slots, insts>> /\ heap \cap Roots(ctx) \subseteq heap'
  BY DEF HostAlloc
<1>2. \A i : ~ Building(i)
  BY <1>1, TopIs DEF InstancesInv
<1>3. \A j \in Seen' : Managed(Slots(j))' \subseteq heap'
  <2> TAKE j \in Seen'
  <2>1. j \in Seen /\ Slots(j)' = Slots(j)
    BY <1>1, SlotsSame DEF Seen, shape
  <2>2. Managed(Slots(j)) \subseteq heap'
    BY <1>1, <1>2, <2>1, OthersSurvive
  <2> QED
    BY <2>1, <2>2 DEF Managed
<1>4. \A j \in Inst : state'[j] = "building" => at'[j].stage # "globals"
  BY <1>1, <1>2, NoneInGlobals DEF shape
<1> QED
  BY <1>1, <1>3, <1>4, QuietStepKeeps DEF shape, slots

\* Guest code moves references between slots.
LEMMA GuestSlotsKept ==
  ASSUME KeptInv, GuestTableInit \/ GuestElemDrop
  PROVE  TablesInTurn' /\ ItemsInTurn' /\ SlotsKept'
<1> USE DEF KeptInv
<1>1. Guest /\ UNCHANGED <<shape, parked, insts, heap>>
  BY DEF GuestTableInit, GuestElemDrop
<1>2. \A i : ~ Building(i)
  BY <1>1, TopIs DEF InstancesInv
<1>3. ctx \in Seen
  BY <1>1, GuestIsTracked
<1>4. \A j \in Inst : Slots(j)' \subseteq Slots(j) \cup Slots(ctx)
  BY GuestTableInitEffect, GuestElemDropEffect
<1>5. \A j \in Seen' : j \in Seen /\ j \in Inst
  BY <1>1 DEF Seen, shape, InstancesInv, Shapes
<1>6. \A j \in Seen' : Managed(Slots(j))' \subseteq heap'
  BY <1>1, <1>3, <1>4, <1>5, NothingNewKept
<1>7. \A j \in Inst : state'[j] = "building" => at'[j].stage # "globals"
  BY <1>1, <1>2, NoneInGlobals DEF shape
<1> QED
  BY <1>1, <1>6, <1>7, QuietStepKeeps DEF shape

\* No slot changes, and no more instances are seen.
LEMMA SameSlotsKept ==
  ASSUME KeptInv, UNCHANGED <<mod, at, slots, heap>>, insts' \subseteq insts,
         \A j \in Inst : state'[j] = "building" => state[j] = "building",
         \A i \in Inst : Building(i) => at[i].stage # "globals"
  PROVE  TablesInTurn' /\ ItemsInTurn' /\ SlotsKept'
<1> USE DEF KeptInv
<1>1. \A j \in Seen' : j \in Seen /\ Slots(j)' = Slots(j)
  BY SlotsSame DEF Seen
<1>2. \A j \in Seen' : Managed(Slots(j))' \subseteq heap'
  BY <1>1, NothingNewKept
<1>3. \A i : Building(i) => at[i].stage # "globals"
  BY TopIs DEF InstancesInv
<1>4. \A j \in Inst : state'[j] = "building" => at'[j].stage # "globals"
  BY <1>3, NoneInGlobals
<1> QED
  BY <1>2, <1>4, QuietStepKeeps DEF slots

\* Calls and returns write no slot.
LEMMA CallsKept ==
  ASSUME KeptInv, HostCallback \/ Return \/ \E i \in Inst : GuestCall(i) \/ CallExport(i)
  PROVE  TablesInTurn' /\ ItemsInTurn' /\ SlotsKept'
<1>1. UNCHANGED <<shape, slots, insts, heap>>
  BY DEF HostCallback, Return, GuestCall, CallExport, Push
<1>2. \A i \in Inst : ~ Building(i)
  BY TopIs DEF HostCallback, Return, GuestCall, CallExport, Building, KeptInv, InstancesInv
<1> QED
  BY <1>1, <1>2, SameSlotsKept DEF shape

\* Deletion and a failed link write no slot.
LEMMA FreedKept ==
  ASSUME KeptInv, NEW i \in Inst, Delete(i) \/ \E m \in Module : LinkFails(m, i)
  PROVE  TablesInTurn' /\ ItemsInTurn' /\ SlotsKept'
<1>1. InHost /\ state' = [state EXCEPT ![i] = "freed"] /\ insts' \subseteq insts /\ UNCHANGED <<mod, at, slots, heap>>
  BY DEF Delete, LinkFails
<1>2. \A j \in Inst : ~ Building(j)
  BY <1>1, TopIs DEF KeptInv, InstancesInv
<1>3. \A j \in Inst : state'[j] = "building" => state[j] = "building"
  BY <1>1 DEF KeptInv, InstancesInv, Shapes
<1> QED
  BY <1>1, <1>2, <1>3, SameSlotsKept

\* Steps of an instantiation.
LEMMA BuildEndsKept ==
  ASSUME KeptInv, NEW i \in Inst, DataTraps(i) \/ StartEnds(i)
  PROVE  TablesInTurn' /\ ItemsInTurn' /\ SlotsKept'
<1>1. /\ Building(i) /\ at[i].stage # "globals" /\ insts' = insts /\ UNCHANGED <<mod, at, slots, heap>>
      /\ \E s \in {"live", "trapped"} : state' = [state EXCEPT ![i] = s]
  BY DEF DataTraps, StartEnds, AfterSegments, Trapped
<1>2. \A j \in Inst : Building(j) => j = i
  BY <1>1 DEF Building
<1>3. \A j \in Inst : state'[j] = "building" => state[j] = "building"
  BY <1>1 DEF KeptInv, InstancesInv, Shapes
<1> QED
  BY <1>1, <1>2, <1>3, SameSlotsKept

\* The step Complete loses nothing an instance holds.
LEMMA CompleteKept ==
  ASSUME KeptInv, NEW i \in Inst, Complete(i)
  PROVE  TablesInTurn' /\ ItemsInTurn' /\ SlotsKept'
<1> USE DEF KeptInv
<1>1. /\ Building(i) /\ at[i].stage = "elems" /\ at[i].n = Len(P(i).elems) + 1
      /\ at' = [at EXCEPT ![i] = [stage |-> "start", n |-> 1]]
      /\ UNCHANGED <<mod, slots, insts, heap>>
      /\ state' = state \/ state' = [state EXCEPT ![i] = "live"]
  BY DEF Complete, AfterSegments, Goto
<1>2. \A j \in Inst : state'[j] = "building" => state[j] = "building"
  BY <1>1 DEF InstancesInv, Shapes
<1>3. parked[i] = << >>
  BY <1>1, WhatIsBuilt DEF InstancesInv, SlotsInTurn
<1>4. at'[i].stage = "start" /\ \A j \in Inst : j # i => at'[j] = at[j]
  BY <1>1 DEF InstancesInv, Shapes
<1>5. \A j \in Seen' : j \in Seen /\ Slots(j)' = Slots(j)
  BY <1>1, <1>2, SlotsSame DEF Seen
<1>6. \A j \in Seen' : Managed(Slots(j))' \subseteq heap'
  BY <1>1, <1>5, NothingNewKept
<1>7. \A j \in Inst : state'[j] = "building" => at'[j].stage # "globals"
  <2>1. \A j \in Inst : Building(j) => j = i
    BY <1>1 DEF Building
  <2>2. \A j \in Inst : state[j] = "building" => at[j].stage # "globals"
    BY <1>1, <2>1, OthersHaveStarted DEF InstancesInv
  <2> QED
    BY <1>2, <1>4, <2>2
<1> QED
  BY <1>1, <1>3, <1>4, <1>6, <1>7, QuietStepKeeps DEF slots

\* The step AllocModule loses nothing an instance holds.
LEMMA AllocModuleKept ==
  ASSUME KeptInv, NEW i \in Inst, AllocModule(i)
  PROVE  TablesInTurn' /\ ItemsInTurn' /\ SlotsKept'
<1> USE DEF KeptInv
<1>1. /\ Building(i) /\ at[i].stage = "globals" /\ insts' = insts \cup {i}
      /\ at' = [at EXCEPT ![i] = [stage |-> "elems", n |-> 1]]
      /\ UNCHANGED <<state, mod, slots, heap>>
  BY DEF AllocModule, Goto
<1>2. at'[i].stage = "elems" /\ \A j \in Inst : j # i => at'[j] = at[j]
  BY <1>1 DEF InstancesInv, Shapes
<1>3. parked[i] = << >>
  BY <1>1 DEF InstancesInv, SlotsInTurn
<1>4. \A j \in Seen' : j \in Seen /\ Slots(j)' = Slots(j)
  BY <1>1, WhatIsBuilt, SlotsSame DEF Seen
<1>5. \A j \in Seen' : Managed(Slots(j))' \subseteq heap'
  BY <1>1, <1>4, NothingNewKept
<1>6. \A j \in Inst : state'[j] = "building" => at'[j].stage # "globals"
  BY <1>1, <1>2, WhatIsBuilt
<1> QED
  BY <1>1, <1>2, <1>3, <1>5, <1>6, QuietStepKeeps DEF slots

\* The step AllocationFails loses nothing an instance holds.
LEMMA AllocationFailsKept ==
  ASSUME KeptInv, NEW i \in Inst, AllocationFails(i)
  PROVE  TablesInTurn' /\ ItemsInTurn' /\ SlotsKept'
<1> USE DEF KeptInv
<1>1. /\ Building(i) /\ at[i].stage = "globals" /\ insts' = insts
      /\ state' = [state EXCEPT ![i] = "trapped"] /\ UNCHANGED <<mod, at, slots>>
      /\ heap' = heap \/ heap' = heap \cap Roots(ctx)
  BY DEF AllocationFails, Trapped
<1>2. heap \cap Roots(ctx) \subseteq heap'
  BY <1>1
<1>3. \A j \in Inst : state'[j] = IF j = i THEN "trapped" ELSE state[j]
  BY <1>1 DEF InstancesInv, Shapes
<1>4. parked[i] = << >>
  BY <1>1 DEF InstancesInv, SlotsInTurn
<1>5. \A j \in Seen' : Managed(Slots(j))' \subseteq heap'
  <2> TAKE j \in Seen'
  <2>1. Slots(j)' = Slots(j)
    BY <1>1, SlotsSame
  <2>2. CASE j = i
    <3>1. j \in insts /\ Slots(j) = InstRoots(j)
      BY <1>1, <1>3, <1>4, <2>2 DEF Seen, Slots, ToSet
    <3> QED
      BY <1>2, <2>1, <3>1, TrackedSurvive DEF Managed
  <2>3. CASE j # i
    <3>1. j \in Seen /\ ~ Building(j)
      BY <1>1, <1>3, <2>3 DEF Building, Seen
    <3>2. Managed(Slots(j)) \subseteq heap'
      BY <1>2, <3>1, OthersSurvive
    <3> QED
      BY <2>1, <3>2 DEF Managed
  <2> QED
    BY <2>2, <2>3
<1>6. \A j \in Inst : state'[j] = "building" => at'[j].stage # "globals"
  BY <1>1, <1>3, WhatIsBuilt
<1> QED
  BY <1>1, <1>5, <1>6, QuietStepKeeps DEF slots

\* A segment is registered: its pooled values come under a root.
LEMMA SegmentKept ==
  ASSUME KeptInv, NEW i \in Inst, KeepSegment(i) \/ \E o \in Nat : ActiveSegment(i, o)
  PROVE  TablesInTurn' /\ ItemsInTurn' /\ SlotsKept'
<1> USE DEF KeptInv
<1>1. PICK d \in BOOLEAN : Register(i, d)
  BY DEF KeepSegment, ActiveSegment
<1>2. /\ Building(i) /\ at[i].stage = "elems" /\ UNCHANGED <<mod, globals, tabs, heap>>
      /\ insts' = insts
      /\ state' = state \/ state' = [state EXCEPT ![i] = "trapped"]
      /\ at' = at \/ at' = [at EXCEPT ![i] = [stage |-> "elems", n |-> at[i].n + 1]]
  BY DEF KeepSegment, ActiveSegment, Register, Trapped, Goto
<1>3. i \in Seen /\ i \in insts
  BY <1>2, WhatIsBuilt DEF InstancesInv, StoreTracks
<1>4. \A t \in DOMAIN store : ToSet(store'[t]) \subseteq ToSet(store[t]) \cup ToSet(parked[i])
  <2>1. CASE store' = store
    BY <2>1
  <2>2. CASE \E o \in Nat : ActiveSegment(i, o) /\ store' # store
    <3>1. PICK o \in Nat : ActiveSegment(i, o) /\ store' # store
      BY <2>2
    <3>2. store' = [store EXCEPT ![tabs[i][1]] = [k \in DOMAIN @ |->
                      IF k \in o + 1 .. o + Len(parked[i]) THEN parked[i][k - o] ELSE @[k]]]
      BY <3>1 DEF ActiveSegment
    <3> QED
      BY <3>2, SegmentWritten DEF InstancesInv
  <2> QED
    BY <2>1, <2>2 DEF KeepSegment
<1>5. \A j \in Inst : Slots(j)' \subseteq Slots(j) \cup ToSet(parked[i])
  BY <1>1, <1>2, <1>3, <1>4, RegisteredFunctions
<1>6. \A j \in Inst : state'[j] = "building" => state[j] = "building"
  BY <1>2 DEF InstancesInv, Shapes
<1>7. \A j \in Seen' : j \in Seen /\ j \in Inst
  BY <1>2, <1>6 DEF Seen, InstancesInv, Shapes
<1>8. \A j \in Seen' : Managed(Slots(j))' \subseteq heap'
  <2>1. ToSet(parked[i]) \subseteq Slots(i)
    BY DEF Slots
  <2> QED
    BY <1>2, <1>3, <1>5, <1>7, <2>1, NothingNewKept
<1>9. at'[i].stage = "elems" /\ \A j \in Inst : j # i => at'[j] = at[j]
  BY <1>2 DEF InstancesInv, Shapes
<1>10. \A j \in Inst : state'[j] = "building" => at'[j].stage # "globals"
  BY <1>2, <1>6, <1>9, WhatIsBuilt
<1>11. parked'[i] = << >> /\ \A j \in Inst : j # i => parked'[j] = parked[j]
  BY <1>1, RegisterEffect
<1> QED
  BY <1>2, <1>8, <1>9, <1>10, <1>11, QuietStepKeeps

\* The step ElemItem loses nothing an instance holds.
LEMMA ElemItemKept ==
  ASSUME KeptInv, PlansProtected, NEW i \in Inst, NEW v, ElemItem(i, v)
  PROVE  TablesInTurn' /\ ItemsInTurn' /\ SlotsKept'
<1> USE DEF KeptInv
<1> DEFINE items == P(i).elems[at[i].n].items
           n == Len(parked[i]) + 1
<1>1. /\ Building(i) /\ at[i].stage = "elems" /\ at[i].n \in DOMAIN P(i).elems
      /\ Len(parked[i]) < Len(items) /\ Eval(items[n], i, v)
      /\ parked' = [parked EXCEPT ![i] = Append(parked[i], v)]
      /\ UNCHANGED <<shape, globals, tabs, store, segs, view, ctx, stack, insts>>
  BY DEF ElemItem, InstancesInv, Shapes
<1>2. v \in Val /\ (v \in Obj => items[n] = "alloc" /\ v \in heap')
      /\ (items[n] # "alloc" => heap' = heap) /\ heap \cap Roots(ctx) \subseteq heap'
  BY <1>1, EvalEffect DEF InstancesInv
<1>3. /\ i \in Seen /\ i \in insts /\ mod[i] \in Module
      /\ parked[i] \in Seq(Val) /\ P(i).elems \in Seq(Segment)
  BY <1>1, WhatIsBuilt DEF InstancesInv, StoreTracks
<1>4. P(i).elems[at[i].n] \in Segment /\ items \in Seq(Expr)
  <2>1. P(i).elems[at[i].n] \in Segment
    BY <1>1, <1>3
  <2> QED
    BY <2>1 DEF Segment
<1>5. OneAllocation(items)
  BY <1>1, <1>3 DEF PlansProtected, P
<1>6. /\ DOMAIN parked[i] = 1 .. Len(parked[i]) /\ Len(parked[i]) \in Nat
      /\ DOMAIN items = 1 .. Len(items) /\ Len(items) \in Nat
  BY <1>3, <1>4
<1>7. n \in DOMAIN items /\ \A k \in DOMAIN parked[i] : k \in DOMAIN items /\ k # n
  BY <1>1, <1>6
<1>8. /\ parked'[i] = Append(parked[i], v) /\ DOMAIN Append(parked[i], v) = 1 .. n
      /\ Append(parked[i], v)[n] = v /\ \A k \in DOMAIN parked[i] : Append(parked[i], v)[k] = parked[i][k]
      /\ ToSet(Append(parked[i], v)) = ToSet(parked[i]) \cup {v}
      /\ \A j \in Inst : j # i => parked'[j] = parked[j]
  BY <1>1, <1>2, <1>3, SlotAdded DEF InstancesInv, Shapes
<1>9. \A k \in DOMAIN parked[i] : parked[i][k] \in Obj => items[k] = "alloc"
  BY DEF ItemsInTurn
<1> HIDE DEF n, items
<1>10. v \in Obj => \A k \in DOMAIN parked[i] : parked[i][k] \notin Obj
  BY <1>2, <1>5, <1>7, <1>9 DEF OneAllocation
<1>11. items[n] = "alloc" => \A k \in DOMAIN parked[i] : parked[i][k] \notin Obj
  BY <1>5, <1>7, <1>9 DEF OneAllocation
<1>12. Managed(Slots(i)) \subseteq heap'
  <2>1. CASE items[n] # "alloc"
    BY <1>2, <1>3, <2>1 DEF SlotsKept
  <2>2. CASE items[n] = "alloc"
    <3>1. Managed(ToSet(parked[i])) = {}
      BY <1>11, <2>2 DEF Managed, ToSet
    <3>2. Managed(InstRoots(i)) \subseteq heap'
      BY <1>2, <1>3, TrackedSurvive
    <3> QED
      BY <3>1, <3>2 DEF Slots, Managed
  <2> QED
    BY <2>1, <2>2
<1>13. SlotsKept'
  <2> SUFFICES ASSUME NEW j \in Seen' PROVE Managed(Slots(j))' \subseteq heap'
    BY DEF SlotsKept
  <2>1. j \in Seen /\ j \in Inst
    BY <1>1 DEF Seen, shape, InstancesInv, Shapes
  <2>2. Slots(i)' \subseteq Slots(i) \cup {v} /\ (j # i => Slots(j)' = Slots(j))
    BY <1>1, <1>8, <2>1, OwnSlotWritten
  <2>3. CASE j = i
    BY <1>2, <1>12, <2>2, <2>3 DEF Managed
  <2>4. CASE j # i
    <3>1. ~ Building(j)
      BY <1>1, <2>4 DEF Building
    <3>2. Managed(Slots(j)) \subseteq heap'
      BY <1>2, <2>1, <3>1, OthersSurvive
    <3> QED
      BY <2>2, <2>4, <3>2 DEF Managed
  <2> QED
    BY <2>3, <2>4
<1>14. ItemsInTurn'
  <2> SUFFICES ASSUME NEW j \in Inst, NEW k \in DOMAIN parked'[j], parked'[j][k] \in Obj
               PROVE  Plan[mod[j]].elems[at[j].n].items[k] = "alloc"
    BY <1>1 DEF ItemsInTurn, P, shape
  <2>1. CASE j # i
    BY <1>8, <2>1 DEF ItemsInTurn, P
  <2>2. CASE j = i
    <3>1. k = n => items[k] = "alloc"
      BY <1>2, <1>8, <2>2
    <3>2. k # n => k \in DOMAIN parked[i]
      BY <1>6, <1>8, <2>2 DEF n
    <3>3. items[k] = "alloc"
      BY <1>8, <1>9, <2>2, <3>1, <3>2
    <3> QED
      BY <2>2, <3>3 DEF items, P
  <2> QED
    BY <2>1, <2>2
<1>15. TablesInTurn'
  <2>1. \A j \in Inst : state[j] = "building" => at[j].stage # "globals"
    BY <1>1, WhatIsBuilt
  <2> QED
    BY <1>1, <2>1 DEF TablesInTurn, shape
<1> QED
  BY <1>13, <1>14, <1>15

\* The step InitGlobal loses nothing an instance holds.
LEMMA InitGlobalKept ==
  ASSUME KeptInv, NEW i \in Inst, NEW v, InitGlobal(i, v)
  PROVE  TablesInTurn' /\ ItemsInTurn' /\ SlotsKept'
<1> USE DEF KeptInv
<1>1. /\ Building(i) /\ at[i].stage = "globals" /\ at[i].n \in DOMAIN P(i).globals
      /\ Eval(P(i).globals[at[i].n], i, v)
      /\ globals' = [globals EXCEPT ![i][at[i].n] = v]
      /\ at' = [at EXCEPT ![i] = [stage |-> "globals", n |-> at[i].n + 1]]
      /\ UNCHANGED <<state, mod, exporter, tabs, store, segs, parked, view, ctx, stack, insts>>
  BY DEF InitGlobal, Goto
<1>2. v \in Val /\ (v \in Obj => v \in heap') /\ heap \cap Roots(ctx) \subseteq heap'
  BY <1>1, EvalEffect DEF InstancesInv
<1>3. /\ i \in Seen /\ P(i).globals \in Seq(Expr) /\ P(i).tables \in Seq(Expr) /\ at[i].n \in Nat
      /\ \A j \in Inst : j # i /\ state[j] = "building" => at[j].stage # "globals"
  BY <1>1, WhatIsBuilt
<1>4. /\ ToSet(globals'[i]) \subseteq ToSet(globals[i]) \cup {v}
      /\ \A j \in Inst : j # i => globals'[j] = globals[j]
  BY <1>1, <1>2, GlobalWritten DEF InstancesInv
<1>5. at'[i].n = at[i].n + 1 /\ \A j \in Inst : j # i => at'[j] = at[j]
  BY <1>1 DEF InstancesInv, Shapes
<1>6. \A d \in DOMAIN P(i).tables : d \in Nat /\ ~ (Len(P(i).globals) + d < at[i].n)
  BY <1>1, <1>3
<1>7. Managed(Slots(i)) \subseteq heap'
  BY <1>1, <1>2, <1>6, BuilderSurvives
<1>8. SlotsKept'
  <2> SUFFICES ASSUME NEW j \in Seen' PROVE Managed(Slots(j))' \subseteq heap'
    BY DEF SlotsKept
  <2>1. j \in Seen /\ j \in Inst
    BY <1>1 DEF Seen, InstancesInv, Shapes
  <2>2. Slots(i)' \subseteq Slots(i) \cup {v} /\ (j # i => Slots(j)' = Slots(j))
    BY <1>1, <1>4, <2>1, OwnSlotWritten
  <2>3. CASE j = i
    BY <1>2, <1>7, <2>2, <2>3 DEF Managed
  <2>4. CASE j # i
    <3>1. ~ Building(j)
      BY <1>1, <2>4 DEF Building
    <3>2. Managed(Slots(j)) \subseteq heap'
      BY <1>2, <2>1, <3>1, OthersSurvive
    <3> QED
      BY <2>2, <2>4, <3>2 DEF Managed
  <2> QED
    BY <2>3, <2>4
<1>9. ItemsInTurn'
  <2>1. parked[i] = << >>
    BY <1>1 DEF InstancesInv, SlotsInTurn
  <2> QED
    BY <1>1, <1>5, <2>1 DEF ItemsInTurn, P
<1>10. TablesInTurn'
  <2> SUFFICES ASSUME NEW j \in Inst, state[j] = "building", at'[j].stage = "globals", NEW t \in ToSet(tabs'[j])
               PROVE  exporter[j] \in Inst /\ t \in ToSet(tabs'[exporter[j]])
    BY <1>1 DEF TablesInTurn, P, Managed
  <2>1. j = i
    BY <1>3, <1>5
  <2> QED
    BY <1>1, <1>6, <2>1 DEF TablesInTurn
<1> QED
  BY <1>8, <1>9, <1>10

\* The step InitTable loses nothing an instance holds.
LEMMA InitTableKept ==
  ASSUME KeptInv, PlansProtected, NEW i \in Inst, NEW v, InitTable(i, v)
  PROVE  TablesInTurn' /\ ItemsInTurn' /\ SlotsKept'
<1> USE DEF KeptInv
<1> DEFINE d == at[i].n - Len(P(i).globals)
<1>1. /\ Building(i) /\ at[i].stage = "globals" /\ d \in DOMAIN P(i).tables
      /\ Eval(P(i).tables[d], i, v)
      /\ at' = [at EXCEPT ![i] = [stage |-> "globals", n |-> at[i].n + 1]]
      /\ UNCHANGED <<state, mod, exporter, globals, segs, parked, view, ctx, stack, insts>>
  BY DEF InitTable, Goto
<1>2. /\ v \in Val /\ (v \in Obj => P(i).tables[d] = "alloc" /\ v \in heap')
      /\ (P(i).tables[d] # "alloc" => heap' = heap) /\ heap \cap Roots(ctx) \subseteq heap'
  BY <1>1, EvalEffect DEF InstancesInv
<1>3. /\ i \in Seen /\ P(i).globals \in Seq(Expr) /\ P(i).tables \in Seq(Expr) /\ at[i].n \in Nat
      /\ mod[i] \in Module /\ state[i] = "building"
      /\ \A j \in Inst : j # i /\ state[j] = "building" => at[j].stage # "globals"
  BY <1>1, WhatIsBuilt
<1>4. /\ Table(i, d) \notin DOMAIN store
      /\ store'[Table(i, d)] = <<v, v>> /\ \A t \in DOMAIN store : store'[t] = store[t]
      /\ \A j \in Inst : j # i => tabs'[j] = tabs[j]
      /\ ToSet(tabs'[i]) = ToSet(tabs[i]) \cup {Table(i, d)}
      /\ \A j \in Inst : ToSet(tabs[j]) \subseteq DOMAIN store
  BY InitTableEffect
<1>5. at'[i].n = at[i].n + 1 /\ \A j \in Inst : j # i => at'[j] = at[j]
  BY <1>1 DEF InstancesInv, Shapes
<1>6. Len(P(i).globals) \in Nat /\ d \in Nat /\ Len(P(i).globals) + d < at[i].n + 1
  BY <1>1, <1>3
<1>7. \A c \in DOMAIN P(i).tables : c \in Nat /\ (Len(P(i).globals) + c < at[i].n => c # d)
  BY <1>1, <1>3
<1>8. OneAllocation(P(i).tables)
  BY <1>3 DEF PlansProtected, P
<1> HIDE DEF d
<1>9. Managed(Slots(i)) \subseteq heap'
  <2>1. CASE P(i).tables[d] # "alloc"
    BY <1>2, <1>3, <2>1 DEF SlotsKept
  <2>2. CASE P(i).tables[d] = "alloc"
    <3>1. \A c \in DOMAIN P(i).tables : Len(P(i).globals) + c < at[i].n => P(i).tables[c] # "alloc"
      BY <1>1, <1>7, <1>8, <2>2 DEF OneAllocation
    <3> QED
      BY <1>1, <1>2, <3>1, BuilderSurvives
  <2> QED
    BY <2>1, <2>2
<1>10. SlotsKept'
  <2> SUFFICES ASSUME NEW j \in Seen' PROVE Managed(Slots(j))' \subseteq heap'
    BY DEF SlotsKept
  <2>1. j \in Seen /\ j \in Inst
    BY <1>1 DEF Seen, InstancesInv, Shapes
  <2>2. Slots(i)' \subseteq Slots(i) \cup {v} /\ (j # i => Slots(j)' = Slots(j))
    BY <2>1, TableMade
  <2>3. CASE j = i
    BY <1>2, <1>9, <2>2, <2>3 DEF Managed
  <2>4. CASE j # i
    <3>1. ~ Building(j)
      BY <1>1, <2>4 DEF Building
    <3>2. Managed(Slots(j)) \subseteq heap'
      BY <1>2, <2>1, <3>1, OthersSurvive
    <3> QED
      BY <2>2, <2>4, <3>2 DEF Managed
  <2> QED
    BY <2>3, <2>4
<1>11. ItemsInTurn'
  <2>1. parked[i] = << >>
    BY <1>1 DEF InstancesInv, SlotsInTurn
  <2> QED
    BY <1>1, <1>5, <2>1 DEF ItemsInTurn, P
<1>12. TablesInTurn'
  <2> SUFFICES ASSUME NEW j \in Inst, state[j] = "building", at'[j].stage = "globals", NEW t \in ToSet(tabs'[j])
               PROVE  \/ exporter[j] \in Inst /\ t \in ToSet(tabs'[exporter[j]])
                      \/ \E c \in DOMAIN P(j).tables :
                           /\ t = Table(j, c) /\ Len(P(j).globals) + c < at'[j].n
                           /\ P(j).tables[c] = "alloc" \/ Managed(ToSet(store'[t])) = {}
    BY <1>1 DEF TablesInTurn, P, Managed
  <2>1. j = i
    BY <1>3, <1>5
  <2>2. CASE t = Table(i, d)
    <3>1. P(i).tables[d] = "alloc" \/ Managed(ToSet(store'[t])) = {}
      BY <1>2, <1>4, <2>2 DEF Managed, ToSet
    <3> QED
      BY <1>1, <1>5, <1>6, <2>1, <2>2, <3>1
  <2>3. CASE t # Table(i, d)
    <3>1. t \in ToSet(tabs[i]) /\ store'[t] = store[t]
      BY <1>4, <2>1, <2>3
    <3>2. CASE exporter[i] \in Inst /\ t \in ToSet(tabs[exporter[i]])
      <4>1. exporter[i] # i
        BY <1>3, <3>2, InstancesAssumption DEF InstancesInv, StoreTracks, Present
      <4> QED
        BY <1>4, <2>1, <3>2, <4>1
    <3>3. CASE \E c \in DOMAIN P(i).tables :
                 /\ t = Table(i, c) /\ Len(P(i).globals) + c < at[i].n
                 /\ P(i).tables[c] = "alloc" \/ Managed(ToSet(store[t])) = {}
      <4>1. PICK c \in DOMAIN P(i).tables :
                 /\ t = Table(i, c) /\ Len(P(i).globals) + c < at[i].n
                 /\ P(i).tables[c] = "alloc" \/ Managed(ToSet(store[t])) = {}
        BY <3>3
      <4>2. Len(P(i).globals) + c < at'[i].n
        BY <1>3, <1>5, <1>6, <1>7, <4>1
      <4> QED
        BY <2>1, <3>1, <4>1, <4>2
    <3> QED
      BY <1>1, <1>3, <3>1, <3>2, <3>3 DEF TablesInTurn
  <2> QED
    BY <2>2, <2>3
<1> QED
  BY <1>10, <1>11, <1>12

\* The step New loses nothing an instance holds.
LEMMA NewKept ==
  ASSUME KeptInv, NEW m \in Module, NEW i \in Inst, NEW e, New(m, i, e)
  PROVE  TablesInTurn' /\ ItemsInTurn' /\ SlotsKept'
<1> USE DEF KeptInv
<1>1. /\ InHost /\ state[i] = "unused"
      /\ state' = [state EXCEPT ![i] = "building"] /\ mod' = [mod EXCEPT ![i] = m]
      /\ exporter' = [exporter EXCEPT ![i] = e]
      /\ globals' = [globals EXCEPT ![i] = [g \in DOMAIN Plan[m].globals |-> Nil]]
      /\ tabs' = [tabs EXCEPT ![i] = IF Plan[m].imports THEN <<tabs[e][1]>> ELSE << >>]
      /\ UNCHANGED <<at, store, segs, parked, view, insts, heap>>
  BY DEF New
<1>2. \/ e \in Inst /\ state[e] = "live" /\ tabs[e] # << >> /\ tabs'[i] = <<tabs[e][1]>>
      \/ e = Nil /\ tabs'[i] = << >>
  BY <1>1 DEF New, InstancesInv, Shapes
<1>3. /\ mod'[i] = m /\ exporter'[i] = e /\ globals'[i] = [g \in DOMAIN Plan[m].globals |-> Nil]
      /\ \A j \in Inst : j # i => /\ state'[j] = state[j] /\ mod'[j] = mod[j] /\ exporter'[j] = exporter[j]
                                  /\ globals'[j] = globals[j] /\ tabs'[j] = tabs[j]
  BY <1>1 DEF InstancesInv, Shapes
<1>4. \A t \in ToSet(tabs'[i]) : e \in Inst /\ state[e] = "live" /\ e # i /\ t \in ToSet(tabs[e])
  <2>1. CASE e \in Inst /\ state[e] = "live" /\ tabs[e] # << >> /\ tabs'[i] = <<tabs[e][1]>>
    <3>1. tabs[e] \in Seq(DOMAIN store)
      BY <2>1 DEF InstancesInv, Shapes
    <3>2. 1 \in DOMAIN tabs[e]
      BY <2>1, <3>1
    <3>3. \A t \in ToSet(tabs'[i]) : t = tabs[e][1]
      BY <2>1 DEF ToSet
    <3> QED
      BY <1>1, <2>1, <3>2, <3>3 DEF ToSet
  <2>2. CASE tabs'[i] = << >>
    BY <2>2 DEF ToSet
  <2> QED
    BY <1>2, <2>1, <2>2
<1>5. segs[i] = << >> /\ parked[i] = << >>
  BY <1>1 DEF InstancesInv, SlotsInTurn
<1>6. \A j \in Inst : ~ Building(j)
  BY <1>1, TopIs DEF InstancesInv
<1>7. \A j \in Inst : state[j] = "building" => at[j].stage # "globals"
  BY <1>6, OthersHaveStarted DEF InstancesInv
<1>8. TablesInTurn'
  <2> SUFFICES ASSUME NEW j \in Inst, state'[j] = "building", at'[j].stage = "globals", NEW t \in ToSet(tabs'[j])
               PROVE  exporter'[j] \in Inst /\ t \in ToSet(tabs'[exporter'[j]])
    BY DEF TablesInTurn
  <2>1. j = i
    BY <1>1, <1>3, <1>7
  <2> QED
    BY <1>3, <1>4, <2>1
<1>9. ItemsInTurn'
  BY <1>1, <1>3, <1>5 DEF ItemsInTurn, P
<1>10. SlotsKept'
  <2> SUFFICES ASSUME NEW j \in Seen' PROVE Managed(Slots(j))' \subseteq heap'
    BY DEF SlotsKept
  <2>1. CASE j = i
    <3>1. ToSet(<< >>) = {} /\ SegmentSlots(segs[j])' = {} /\ ToSet(parked'[j]) = {}
      BY <1>1, <1>5, <2>1 DEF ToSet, SegmentSlots, Live
    <3>2. ToSet(globals'[j]) \subseteq {Nil}
      BY <1>3, <2>1 DEF ToSet
    <3>3. ASSUME NEW t \in ToSet(tabs'[i]) PROVE Managed(ToSet(store[t])) \subseteq heap
      <4>1. e \in Seen /\ t \in ToSet(tabs[e])
        BY <1>4 DEF InstancesInv, StoreTracks, Seen
      <4> QED
        BY <4>1 DEF SlotsKept, Slots, InstRoots, TableSlots, Managed
    <3>4. Managed(TableSlots(tabs[j])') \subseteq heap
      BY <1>1, <2>1, <3>3 DEF TableSlots, Managed
    <3> QED
      BY <1>1, <3>1, <3>2, <3>4, InstancesAssumption DEF Slots, InstRoots, Managed
  <2>2. CASE j # i
    <3>1. j \in Seen /\ j \in Inst
      BY <1>1, <1>3, <2>2 DEF Seen, InstancesInv, Shapes
    <3>2. Slots(j)' = Slots(j)
      BY <1>1, <1>3, <2>2, <3>1 DEF Slots, InstRoots, TableSlots, SegmentSlots, Live
    <3> QED
      BY <1>1, <3>1, <3>2 DEF SlotsKept, Managed
  <2> QED
    BY <2>1, <2>2
<1> QED
  BY <1>8, <1>9, <1>10
-----------------------------------------------------------------------------
\* Nothing is held before anything is instantiated.
LEMMA KeptInit == Init => KeptInv
<1> SUFFICES ASSUME Init PROVE KeptInv
  OBVIOUS
<1>1. TablesInTurn /\ ItemsInTurn /\ SlotsKept
  BY DEF Init, TablesInTurn, ItemsInTurn, SlotsKept, Seen
<1> QED
  BY <1>1, InstancesInit DEF KeptInv

\* Stuttering loses nothing.
LEMMA KeptStutter ==
  ASSUME KeptInv, UNCHANGED vars
  PROVE  TablesInTurn' /\ ItemsInTurn' /\ SlotsKept'
<1> USE DEF KeptInv, vars, shape, slots
<1>1. Seen' = Seen /\ \A j : Slots(j)' = Slots(j)
  BY SlotsStay DEF Seen
<1> QED
  BY <1>1 DEF TablesInTurn, ItemsInTurn, SlotsKept, P, Managed

\* No step loses what a slot in use holds.
LEMMA KeptStep ==
  ASSUME PlansProtected, KeptInv, [Next]_vars
  PROVE  KeptInv'
<1> SUFFICES TablesInTurn' /\ ItemsInTurn' /\ SlotsKept'
  BY InstancesStep DEF KeptInv
<1>1. ASSUME NEW i \in Inst, NEW m \in Module, LinkFails(m, i) \/ \E e \in Inst \cup {Nil} : New(m, i, e)
      PROVE  TablesInTurn' /\ ItemsInTurn' /\ SlotsKept'
  BY <1>1, FreedKept, NewKept
<1>2. ASSUME NEW i \in Inst, Build(i) PROVE TablesInTurn' /\ ItemsInTurn' /\ SlotsKept'
  <2>1. 0 .. 2 \subseteq Nat
    OBVIOUS
  <2> QED
    BY <1>2, <2>1, InitGlobalKept, InitTableKept, ElemItemKept, AllocationFailsKept, AllocModuleKept,
       SegmentKept, BuildEndsKept, CompleteKept DEF Build
<1>3. ASSUME NEW i \in Inst, GuestCall(i) \/ CallExport(i) \/ Delete(i)
      PROVE  TablesInTurn' /\ ItemsInTurn' /\ SlotsKept'
  BY <1>3, CallsKept, FreedKept
<1>4. ASSUME NEW o \in Obj, GuestAlloc(o) PROVE TablesInTurn' /\ ItemsInTurn' /\ SlotsKept'
  BY <1>4, GuestAllocKept
<1>5. CASE GuestTableInit \/ GuestElemDrop
  BY <1>5, GuestSlotsKept
<1>6. CASE HostCallback \/ Return \/ HostAlloc
  BY <1>6, CallsKept, HostAllocKept
<1>7. CASE UNCHANGED vars
  BY <1>7, KeptStutter
<1> QED
  BY <1>1, <1>2, <1>3, <1>4, <1>5, <1>6, <1>7 DEF Next

\* What a slot of an instance in use holds survives every collection, also one
\* in the middle of an instantiation, of this instance or of another, for
\* modules that have no two tables and no two items of a segment that allocate
\* (jav_instance.c: the values of elem_pool and of a table that is not yet in
\* the store's list are no roots).
THEOREM NothingIsLost ==
  ASSUME PlansProtected
  PROVE  Spec => []NothingLost
<1>1. Init => KeptInv
  BY KeptInit
<1>2. KeptInv /\ [Next]_vars => KeptInv'
  BY KeptStep
<1>3. KeptInv => NothingLost
  <2> SUFFICES ASSUME KeptInv, NEW i \in InUse PROVE Managed(Slots(i)) \subseteq heap
    BY DEF NothingLost
  <2>1. i \in Seen
    BY InUseIsSeen DEF KeptInv
  <2> QED
    BY <2>1 DEF KeptInv, SlotsKept
<1> QED
  BY <1>1, <1>2, <1>3, PTL DEF Spec
=============================================================================
