------------------------- MODULE ClosedTypes_proofs -------------------------
(***************************************************************************)
(* The numbers of the closed-type registry are iso-recursive equality, the *)
(* casts that compare them are declared subtyping, and what a cast accepts *)
(* fits the code behind it: for all type sections, host types and numbers  *)
(* of instances.                                                           *)
(***************************************************************************)
EXTENDS ClosedTypes, NaturalsInduction, WellFoundedInduction, TLAPS

HostHeads == {h \in HostTypes : \A ht \in Mentioned(HostSection(h)[1]) : ht <= 0}
Absorbable == ValidSections \cup {HostSection(h) : h \in HostHeads}

\* What a type in the group of t may refer to.
Scoped(A, t, h) == h \in Int /\ (h <= 0 \/ h \in Group(A, t) \/ h \in 1 .. A[t].start)

\* S says of the types before the groups of t and u whether their ids are equal.
Agree(A, t, ia, B, u, ib, S) ==
  \A h \in 1 .. A[t].start, k \in 1 .. B[u].start : ia[h] = ib[k] <=> S[<<h, k>>]

-----------------------------------------------------------------------------
(* Groups and scopes                                                       *)

\* A host's type is in scope of nothing and has no supertype.
LEMMA AbsorbableFacts ==
  ASSUME NEW A \in Absorbable
  PROVE /\ Len(A) \in Nat /\ DOMAIN A = 1 .. Len(A)
        /\ \A t \in DOMAIN A : A[t].start \in 0 .. t - 1 /\ A[t].super \in 0 .. t - 1 /\ A[t].kind \in Kind
        /\ \A t \in DOMAIN A : \A h \in Mentioned(A[t]) : Scoped(A, t, h)
<1>1. A \in Sections \cup {HostSection(h) : h \in HostTypes}
  BY DEF Absorbable, ValidSections, HostHeads
<1>2. /\ Len(A) \in Nat /\ DOMAIN A = 1 .. Len(A)
      /\ \A t \in DOMAIN A : /\ A[t].start \in 0 .. t - 1 /\ A[t].kind \in Kind
                             /\ Mentioned(A[t]) \subseteq Int
  BY <1>1, SectionsAssumption
<1>3. CASE A \in ValidSections
  <2>1. SupersEarlier(A) /\ RefsInScope(A)
    BY <1>3 DEF ValidSections
  <2>2. \A t \in DOMAIN A : A[t].super \in 0 .. t - 1
    BY <2>1 DEF SupersEarlier
  <2>3. ASSUME NEW t \in DOMAIN A, NEW h \in Mentioned(A[t])
        PROVE  Scoped(A, t, h)
    <3>1. h \in Int /\ A[t].start \in Nat
      BY <1>2, SMT
    <3>2. h <= A[t].start \/ h \in Group(A, t)
      BY <2>1 DEF RefsInScope
    <3> QED
      BY <3>1, <3>2, SMT DEF Scoped
  <2> QED
    BY <1>2, <2>2, <2>3
<1>4. CASE A \notin ValidSections
  <2>1. PICK h \in HostHeads : A = HostSection(h)
    BY <1>4 DEF Absorbable
  <2>2. Len(A) = 1 /\ A[1].super = 0 /\ A[1] = HostSection(h)[1]
    BY <2>1 DEF HostSection, Func
  <2>3. \A ht \in Mentioned(A[1]) : ht <= 0
    BY <2>1, <2>2 DEF HostHeads
  <2>4. DOMAIN A = {1}
    BY <1>2, <2>2, SMT
  <2>5. \A t \in DOMAIN A : \A ht \in Mentioned(A[t]) : Scoped(A, t, ht)
    BY <1>2, <2>3, <2>4 DEF Scoped
  <2>6. \A t \in DOMAIN A : A[t].super \in 0 .. t - 1
    BY <2>2, <2>4, SMT
  <2> QED
    BY <1>2, <2>5, <2>6
<1> QED
  BY <1>3, <1>4

\* The members of a group share its start, and what they refer to is in scope of t.
LEMMA GroupFacts ==
  ASSUME NEW A \in Absorbable, NEW t \in DOMAIN A, NEW p \in Places(A, t)
  PROVE /\ A[t].start + p \in DOMAIN A
        /\ \A h \in Mentioned(A[A[t].start + p]) : Scoped(A, t, h)
<1>1. PICK s \in Group(A, t) : p = s - A[t].start
  BY DEF Places
<1>2. s \in DOMAIN A /\ A[s].start = A[t].start
  BY DEF Group
<1>3. s \in Int /\ A[t].start \in Int
  BY <1>2, AbsorbableFacts, SMT
<1>4. A[t].start + p = s
  BY <1>1, <1>3, SMT
<1>5. Group(A, s) = Group(A, t)
  BY <1>2 DEF Group
<1>6. \A h \in Mentioned(A[s]) : Scoped(A, s, h)
  BY <1>2, AbsorbableFacts
<1> QED
  BY <1>2, <1>4, <1>5, <1>6 DEF Scoped

\* Types before the group of t are not in it.
LEMMA OuterTypes ==
  ASSUME NEW A \in Absorbable, NEW t \in DOMAIN A, NEW h \in 1 .. A[t].start
  PROVE  h \in DOMAIN A \ Group(A, t) /\ h > 0 /\ h < t
<1>1. /\ Len(A) \in Nat /\ DOMAIN A = 1 .. Len(A) /\ A[t].start \in 0 .. t - 1
  BY AbsorbableFacts
<1>2. h \in DOMAIN A /\ h < t /\ h > 0
  BY <1>1, SMT
<1>3. A[h].start \in 0 .. h - 1
  BY <1>2, AbsorbableFacts
<1>4. A[h].start # A[t].start
  BY <1>1, <1>3, SMT
<1> QED
  BY <1>2, <1>4 DEF Group

-----------------------------------------------------------------------------
(* The recursion of the definitions ends                                   *)

\* A set of natural numbers has a least element.
LEMMA LeastNumber ==
  ASSUME NEW S \in SUBSET Nat, S # {}
  PROVE  \E m \in S : \A k \in S : m <= k
<1>1. IsWellFoundedOn(OpToRel(<, Nat), Nat)
  BY NatLessThanWellFounded
<1>2. PICK m \in S : \A k \in S : <<k, m>> \notin OpToRel(<, Nat)
  BY <1>1, WFMin
<1>3. \A k \in S : ~ (k < m)
  BY <1>2 DEF OpToRel
<1> QED
  BY <1>3

\* What is like a type, in a relation on earlier types, depends on the relation there only.
LEMMA AlikeBefore ==
  ASSUME NEW A \in Absorbable, NEW t \in DOMAIN A, NEW B, NEW u \in DOMAIN B, NEW S, NEW R,
         \A h \in 1 .. A[t].start, k \in DOMAIN B : S[<<h, k>>] = R[<<h, k>>]
  PROVE  Alike(A, t, B, u, S) = Alike(A, t, B, u, R)
<1>1. ASSUME NEW h, NEW k, Scoped(A, t, h)
      PROVE  AlikeHt(A, t, B, u, S, h, k) <=> AlikeHt(A, t, B, u, R, h, k)
  <2>1. h \in DOMAIN A \ Group(A, t) => h \in 1 .. A[t].start
    <3>1. \A x \in DOMAIN A : ~ (x <= 0)
      BY AbsorbableFacts
    <3> QED
      BY <1>1, <3>1 DEF Scoped
  <2> QED
    BY <2>1 DEF AlikeHt
<1>2. ASSUME NEW v, NEW w, IsRef(v) => Scoped(A, t, v.ht)
      PROVE  AlikeVt(A, t, B, u, S, v, w) <=> AlikeVt(A, t, B, u, R, v, w)
  BY <1>1, <1>2 DEF AlikeVt
<1>3. ASSUME NEW m, NEW n, \A h \in Mentioned(m) : Scoped(A, t, h)
      PROVE  AlikeMember(A, t, B, u, S, m, n) <=> AlikeMember(A, t, B, u, R, m, n)
  <2>1. AlikeHt(A, t, B, u, S, m.super, n.super) <=> AlikeHt(A, t, B, u, R, m.super, n.super)
    <3>1. m.super = 0 \/ m.super \in Mentioned(m)
      BY DEF Mentioned
    <3>2. Scoped(A, t, m.super)
      BY <1>3, <3>1 DEF Scoped
    <3> QED
      BY <1>1, <3>2
  <2>2. \A i \in DOMAIN m.fields : AlikeVt(A, t, B, u, S, m.fields[i].vt, n.fields[i].vt)
                                     <=> AlikeVt(A, t, B, u, R, m.fields[i].vt, n.fields[i].vt)
    <3>1. \A i \in DOMAIN m.fields : IsRef(m.fields[i].vt) => Scoped(A, t, m.fields[i].vt.ht)
      BY <1>3 DEF Mentioned
    <3> QED
      BY <1>2, <3>1
  <2>3. \A i \in DOMAIN m.params : AlikeVt(A, t, B, u, S, m.params[i], n.params[i])
                                     <=> AlikeVt(A, t, B, u, R, m.params[i], n.params[i])
    <3>1. \A i \in DOMAIN m.params : IsRef(m.params[i]) => Scoped(A, t, m.params[i].ht)
      BY <1>3 DEF Mentioned
    <3> QED
      BY <1>2, <3>1
  <2>4. \A i \in DOMAIN m.results : AlikeVt(A, t, B, u, S, m.results[i], n.results[i])
                                      <=> AlikeVt(A, t, B, u, R, m.results[i], n.results[i])
    <3>1. \A i \in DOMAIN m.results : IsRef(m.results[i]) => Scoped(A, t, m.results[i].ht)
      BY <1>3 DEF Mentioned
    <3> QED
      BY <1>2, <3>1
  <2> QED
    BY <2>1, <2>2, <2>3, <2>4 DEF AlikeMember, AlikeVts
<1>4. \A p \in Places(A, t) : AlikeMember(A, t, B, u, S, A[A[t].start + p], B[B[u].start + p])
                                <=> AlikeMember(A, t, B, u, R, A[A[t].start + p], B[B[u].start + p])
  BY <1>3, GroupFacts
<1>5. Alike(A, t, B, u, S) <=> Alike(A, t, B, u, R)
  BY <1>4 DEF Alike
<1>6. Alike(A, t, B, u, S) \in BOOLEAN /\ Alike(A, t, B, u, R) \in BOOLEAN
  BY DEF Alike
<1> QED
  BY <1>5, <1>6

\* The recursion of SameTypes ends: a type's equality rests on that of types before its group.
LEMMA SameUnfolds ==
  ASSUME NEW A \in Absorbable, NEW B
  PROVE  \A t \in DOMAIN A, u \in DOMAIN B : SameType(A, t, B, u) <=> Alike(A, t, B, u, SameTypes(A, B))
<1> DEFINE Upto(n) == (1 .. n) \X DOMAIN B
           Holds(f, n) == f = [tu \in Upto(n) |-> Alike(A, tu[1], B, tu[2], f)]
           bad == {n \in 0 .. Len(A) : ~ \E f : Holds(f, n)}
<1>1. Len(A) \in Nat /\ DOMAIN A = 1 .. Len(A) /\ \A t \in DOMAIN A : A[t].start \in 0 .. t - 1
  BY AbsorbableFacts
<1>2. ASSUME NEW m \in bad, \A k \in bad : m <= k
      PROVE  FALSE
  <2>1. m \in 0 .. Len(A) /\ m \in Nat
    BY <1>1
  <2>2. m # 0
    <3>1. SUFFICES ASSUME m = 0 PROVE \E f : Holds(f, m)
      OBVIOUS
    <3>2. Upto(m) = {}
      BY <3>1
    <3>3. Holds([tu \in {} |-> 0], m)
      <4> HIDE DEF Upto
      <4> QED
        BY <3>2
    <3> QED
      BY <3>3
  <2>3. m - 1 \in 0 .. Len(A) /\ m - 1 \in Nat /\ m \in DOMAIN A
    BY <1>1, <2>1, <2>2
  <2>4. m - 1 \notin bad
    <3> HIDE DEF bad
    <3> QED
      BY <1>2, <2>1
  <2>5. PICK f : Holds(f, m - 1)
    BY <2>3, <2>4
  <2> DEFINE g == [tu \in Upto(m) |-> IF tu[1] = m THEN Alike(A, m, B, tu[2], f) ELSE f[tu]]
  <2>6. \A h \in 1 .. m - 1, k \in DOMAIN B : g[<<h, k>>] = f[<<h, k>>]
    BY <2>1
  <2>7. ASSUME NEW t \in 1 .. m, NEW u \in DOMAIN B
        PROVE  Alike(A, t, B, u, g) = Alike(A, t, B, u, f)
    <3>1. t \in DOMAIN A /\ A[t].start \in 0 .. t - 1
      BY <1>1, <2>1
    <3>2. \A h \in 1 .. A[t].start : h \in 1 .. m - 1
      BY <2>1, <3>1
    <3> HIDE DEF g
    <3> QED
      BY <2>6, <3>1, <3>2, AlikeBefore
  <2>8. ASSUME NEW t \in 1 .. m, NEW u \in DOMAIN B
        PROVE  g[<<t, u>>] = Alike(A, t, B, u, g)
    <3>1. CASE t = m
      <4>1. g[<<t, u>>] = Alike(A, t, B, u, f)
        BY <3>1, <2>8
      <4> HIDE DEF g
      <4> QED
        BY <2>7, <4>1
    <3>2. CASE t # m
      <4>1. t \in 1 .. m - 1
        BY <2>1, <3>2
      <4>2. g[<<t, u>>] = f[<<t, u>>]
        BY <2>6, <4>1
      <4>3. f[<<t, u>>] = Alike(A, t, B, u, f)
        BY <2>5, <4>1
      <4> HIDE DEF g
      <4> QED
        BY <2>7, <4>2, <4>3
    <3> QED
      BY <3>1, <3>2
  <2>9. Holds(g, m)
    <3>1. DOMAIN g = Upto(m) /\ g = [tu \in Upto(m) |-> g[tu]]
      OBVIOUS
    <3>2. \A tu \in Upto(m) : tu = <<tu[1], tu[2]>> /\ tu[1] \in 1 .. m /\ tu[2] \in DOMAIN B
      OBVIOUS
    <3> HIDE DEF g, Upto
    <3>3. \A tu \in Upto(m) : g[tu] = Alike(A, tu[1], B, tu[2], g)
      BY <2>8, <3>2
    <3> QED
      BY <3>1, <3>3
  <2> QED
    BY <2>9
<1>3. bad = {}
  <2>1. bad \in SUBSET Nat
    BY <1>1
  <2> HIDE DEF bad
  <2> QED
    BY <1>2, <2>1, LeastNumber
<1>4. PICK f : f = [tu \in (DOMAIN A) \X (DOMAIN B) |-> Alike(A, tu[1], B, tu[2], f)]
  <2>1. Len(A) \in 0 .. Len(A)
    BY <1>1
  <2>2. \E f : Holds(f, Len(A))
    BY <1>3, <2>1
  <2> QED
    BY <1>1, <2>2
<1>5. SameTypes(A, B) = [tu \in (DOMAIN A) \X (DOMAIN B) |-> Alike(A, tu[1], B, tu[2], SameTypes(A, B))]
  BY <1>4, Zenon DEF SameTypes
<1> QED
  BY <1>5 DEF SameType

-----------------------------------------------------------------------------
(* Two types have the same key exactly if they are alike                   *)

\* canon_ref
LEMMA RefsAlike ==
  ASSUME NEW A \in Absorbable, NEW t \in DOMAIN A, NEW ia, NEW h, Scoped(A, t, h),
         NEW B \in Absorbable, NEW u \in DOMAIN B, NEW ib, NEW k, Scoped(B, u, k),
         NEW S, Agree(A, t, ia, B, u, ib, S)
  PROVE  CanonRef(h, A, t, ia) = CanonRef(k, B, u, ib) <=> AlikeHt(A, t, B, u, S, h, k)
<1>1. h \in Int /\ k \in Int
  BY DEF Scoped
<1>2. \A x \in Group(A, t) : x \in Int /\ x > 0
  BY AbsorbableFacts, SMT DEF Group
<1>3. \A x \in Group(B, u) : x \in Int /\ x > 0
  BY AbsorbableFacts, SMT DEF Group
<1>4. \A x \in 1 .. A[t].start : x \in DOMAIN A \ Group(A, t) /\ x > 0
  BY OuterTypes
<1>5. \A x \in 1 .. B[u].start : x \in DOMAIN B \ Group(B, u) /\ x > 0
  BY OuterTypes
<1>6. CASE h <= 0
  <2>1. CanonRef(h, A, t, ia) = [how |-> "A", of |-> h]
    BY <1>6 DEF CanonRef
  <2>2. h \notin Group(A, t) /\ h \notin DOMAIN A
    <3>1. \A x \in DOMAIN A : x > 0
      BY AbsorbableFacts, SMT
    <3> QED
      BY <1>1, <1>2, <1>6, <3>1, SMT
  <2>3. AlikeHt(A, t, B, u, S, h, k) <=> h = k
    BY <1>6, <2>2 DEF AlikeHt
  <2>4. CASE k <= 0
    <3>1. CanonRef(k, B, u, ib) = [how |-> "A", of |-> k]
      BY <2>4 DEF CanonRef
    <3> QED
      BY <2>1, <2>3, <3>1
  <2>5. CASE ~(k <= 0)
    <3>1. CanonRef(k, B, u, ib).how # "A"
      BY <2>5 DEF CanonRef
    <3>2. h # k
      BY <1>6, <2>5
    <3> QED
      BY <2>1, <2>3, <3>1, <3>2
  <2> QED
    BY <2>4, <2>5
<1>7. CASE h \in Group(A, t)
  <2>1. ~(h <= 0)
    BY <1>1, <1>2, <1>7, SMT
  <2>2. CanonRef(h, A, t, ia) = [how |-> "R", of |-> h - A[t].start]
    BY <1>7, <2>1 DEF CanonRef
  <2>3. AlikeHt(A, t, B, u, S, h, k) <=> k \in Group(B, u) /\ h - A[t].start = k - B[u].start
    BY <1>7, <2>1 DEF AlikeHt
  <2>4. CASE k \in Group(B, u)
    <3>1. ~(k <= 0)
      BY <1>1, <1>3, <2>4, SMT
    <3>2. CanonRef(k, B, u, ib) = [how |-> "R", of |-> k - B[u].start]
      BY <2>4, <3>1 DEF CanonRef
    <3> QED
      BY <2>2, <2>3, <2>4, <3>2
  <2>5. CASE k \notin Group(B, u)
    <3>1. CanonRef(k, B, u, ib).how # "R"
      BY <2>5 DEF CanonRef
    <3> QED
      BY <2>2, <2>3, <2>5, <3>1
  <2> QED
    BY <2>4, <2>5
<1>8. CASE h \in 1 .. A[t].start
  <2>1. ~(h <= 0) /\ h \in DOMAIN A \ Group(A, t)
    BY <1>1, <1>4, <1>8, SMT
  <2>2. CanonRef(h, A, t, ia) = [how |-> "C", of |-> ia[h]]
    BY <2>1 DEF CanonRef
  <2>3. AlikeHt(A, t, B, u, S, h, k) <=> k \in DOMAIN B \ Group(B, u) /\ S[<<h, k>>]
    BY <2>1 DEF AlikeHt
  <2>4. CASE k \in 1 .. B[u].start
    <3>1. ~(k <= 0) /\ k \in DOMAIN B \ Group(B, u)
      BY <1>1, <1>5, <2>4, SMT
    <3>2. CanonRef(k, B, u, ib) = [how |-> "C", of |-> ib[k]]
      BY <3>1 DEF CanonRef
    <3>3. ia[h] = ib[k] <=> S[<<h, k>>]
      BY <1>8, <2>4 DEF Agree
    <3> QED
      BY <2>2, <2>3, <3>1, <3>2, <3>3
  <2>5. CASE k <= 0 \/ k \in Group(B, u)
    <3>1. CanonRef(k, B, u, ib).how # "C"
      BY <2>5 DEF CanonRef
    <3>2. k \notin DOMAIN B \ Group(B, u)
      <4>1. \A x \in DOMAIN B : x > 0 /\ x \in Int
        BY AbsorbableFacts, SMT
      <4> QED
        BY <1>1, <2>5, <4>1, SMT
    <3> QED
      BY <2>2, <2>3, <3>1, <3>2
  <2> QED
    BY <2>4, <2>5 DEF Scoped
<1> QED
  BY <1>6, <1>7, <1>8 DEF Scoped

\* canon_vt
LEMMA ValueTypesAlike ==
  ASSUME NEW A \in Absorbable, NEW t \in DOMAIN A, NEW ia, NEW v, IsRef(v) => Scoped(A, t, v.ht),
         NEW B \in Absorbable, NEW u \in DOMAIN B, NEW ib, NEW w, IsRef(w) => Scoped(B, u, w.ht),
         NEW S, Agree(A, t, ia, B, u, ib, S)
  PROVE  CanonVt(v, A, t, ia) = CanonVt(w, B, u, ib) <=> AlikeVt(A, t, B, u, S, v, w)
<1>1. CanonVt(v, A, t, ia).w = v.w /\ CanonVt(w, B, u, ib).w = w.w
  BY DEF CanonVt
<1>2. CASE v.w # w.w
  BY <1>1, <1>2 DEF AlikeVt
<1>3. CASE v.w = w.w /\ IsRef(v)
  <2>1. IsRef(w)
    BY <1>3 DEF IsRef
  <2>2. CanonRef(v.ht, A, t, ia) = CanonRef(w.ht, B, u, ib) <=> AlikeHt(A, t, B, u, S, v.ht, w.ht)
    BY <1>3, <2>1, RefsAlike
  <2> QED
    BY <1>3, <2>1, <2>2 DEF CanonVt, AlikeVt
<1>4. CASE v.w = w.w /\ ~IsRef(v)
  <2>1. ~IsRef(w)
    BY <1>4 DEF IsRef
  <2>2. CanonRef(0, A, t, ia) = CanonRef(0, B, u, ib)
    BY DEF CanonRef
  <2> QED
    BY <1>4, <2>1, <2>2 DEF CanonVt, AlikeVt
<1> QED
  BY <1>2, <1>3, <1>4

\* So do lists of value types, as parameters and results are.
LEMMA ValueTypeListsAlike ==
  ASSUME NEW A \in Absorbable, NEW t \in DOMAIN A, NEW ia,
         NEW vs, \A i \in DOMAIN vs : IsRef(vs[i]) => Scoped(A, t, vs[i].ht),
         NEW B \in Absorbable, NEW u \in DOMAIN B, NEW ib,
         NEW ws, \A i \in DOMAIN ws : IsRef(ws[i]) => Scoped(B, u, ws[i].ht),
         NEW S, Agree(A, t, ia, B, u, ib, S)
  PROVE  CanonVts(vs, A, t, ia) = CanonVts(ws, B, u, ib) <=> AlikeVts(A, t, B, u, S, vs, ws)
<1>1. \A i \in DOMAIN vs \cap DOMAIN ws :
        CanonVt(vs[i], A, t, ia) = CanonVt(ws[i], B, u, ib) <=> AlikeVt(A, t, B, u, S, vs[i], ws[i])
  BY ValueTypesAlike
<1>2. CanonVts(vs, A, t, ia) = CanonVts(ws, B, u, ib) <=>
        /\ DOMAIN vs = DOMAIN ws
        /\ \A i \in DOMAIN vs : CanonVt(vs[i], A, t, ia) = CanonVt(ws[i], B, u, ib)
  BY DEF CanonVts
<1> QED
  BY <1>1, <1>2 DEF AlikeVts

\* canon_member
LEMMA MembersAlike ==
  ASSUME NEW A \in Absorbable, NEW t \in DOMAIN A, NEW ia,
         NEW m, m.super = 0 \/ m.super \in Mentioned(m), \A h \in Mentioned(m) : Scoped(A, t, h),
         NEW B \in Absorbable, NEW u \in DOMAIN B, NEW ib,
         NEW n, n.super = 0 \/ n.super \in Mentioned(n), \A h \in Mentioned(n) : Scoped(B, u, h),
         NEW S, Agree(A, t, ia, B, u, ib, S)
  PROVE  CanonMember(m, A, t, ia) = CanonMember(n, B, u, ib) <=> AlikeMember(A, t, B, u, S, m, n)
<1> DEFINE CM == CanonMember(m, A, t, ia)
           CN == CanonMember(n, B, u, ib)
<1>1. /\ CM.kind = m.kind /\ CM.final = m.final /\ CN.kind = n.kind /\ CN.final = n.final
      /\ CM.super = CanonRef(m.super, A, t, ia) /\ CN.super = CanonRef(n.super, B, u, ib)
      /\ CM.params = CanonVts(m.params, A, t, ia) /\ CN.params = CanonVts(n.params, B, u, ib)
      /\ CM.results = CanonVts(m.results, A, t, ia) /\ CN.results = CanonVts(n.results, B, u, ib)
      /\ CM.fields = [i \in DOMAIN m.fields |->
                        [mut |-> m.fields[i].mut, vt |-> CanonVt(m.fields[i].vt, A, t, ia)]]
      /\ CN.fields = [i \in DOMAIN n.fields |->
                        [mut |-> n.fields[i].mut, vt |-> CanonVt(n.fields[i].vt, B, u, ib)]]
  BY DEF CanonMember
<1>2. CM = CN <=> /\ CM.kind = CN.kind /\ CM.final = CN.final /\ CM.super = CN.super
                  /\ CM.fields = CN.fields /\ CM.params = CN.params /\ CM.results = CN.results
  BY DEF CanonMember
<1>3. CM.super = CN.super <=> AlikeHt(A, t, B, u, S, m.super, n.super)
  <2>1. Scoped(A, t, m.super) /\ Scoped(B, u, n.super)
    BY SMT DEF Scoped
  <2> QED
    BY <1>1, <2>1, RefsAlike
<1>4. CM.params = CN.params <=> AlikeVts(A, t, B, u, S, m.params, n.params)
  <2>1. \A i \in DOMAIN m.params : IsRef(m.params[i]) => Scoped(A, t, m.params[i].ht)
    BY DEF Mentioned
  <2>2. \A i \in DOMAIN n.params : IsRef(n.params[i]) => Scoped(B, u, n.params[i].ht)
    BY DEF Mentioned
  <2> QED
    BY <1>1, <2>1, <2>2, ValueTypeListsAlike
<1>5. CM.results = CN.results <=> AlikeVts(A, t, B, u, S, m.results, n.results)
  <2>1. \A i \in DOMAIN m.results : IsRef(m.results[i]) => Scoped(A, t, m.results[i].ht)
    BY DEF Mentioned
  <2>2. \A i \in DOMAIN n.results : IsRef(n.results[i]) => Scoped(B, u, n.results[i].ht)
    BY DEF Mentioned
  <2> QED
    BY <1>1, <2>1, <2>2, ValueTypeListsAlike
<1>6. CM.fields = CN.fields <=>
        /\ DOMAIN m.fields = DOMAIN n.fields
        /\ \A i \in DOMAIN m.fields :
             m.fields[i].mut = n.fields[i].mut /\ AlikeVt(A, t, B, u, S, m.fields[i].vt, n.fields[i].vt)
  <2>1. \A i \in DOMAIN m.fields : IsRef(m.fields[i].vt) => Scoped(A, t, m.fields[i].vt.ht)
    BY DEF Mentioned
  <2>2. \A i \in DOMAIN n.fields : IsRef(n.fields[i].vt) => Scoped(B, u, n.fields[i].vt.ht)
    BY DEF Mentioned
  <2>3. \A i \in DOMAIN m.fields \cap DOMAIN n.fields :
          CanonVt(m.fields[i].vt, A, t, ia) = CanonVt(n.fields[i].vt, B, u, ib)
            <=> AlikeVt(A, t, B, u, S, m.fields[i].vt, n.fields[i].vt)
    BY <2>1, <2>2, ValueTypesAlike
  <2>4. CM.fields = CN.fields <=>
          /\ DOMAIN m.fields = DOMAIN n.fields
          /\ \A i \in DOMAIN m.fields :
               /\ m.fields[i].mut = n.fields[i].mut
               /\ CanonVt(m.fields[i].vt, A, t, ia) = CanonVt(n.fields[i].vt, B, u, ib)
    <3> DEFINE f(i) == [mut |-> m.fields[i].mut, vt |-> CanonVt(m.fields[i].vt, A, t, ia)]
               g(i) == [mut |-> n.fields[i].mut, vt |-> CanonVt(n.fields[i].vt, B, u, ib)]
    <3>1. CM.fields = [i \in DOMAIN m.fields |-> f(i)] /\ CN.fields = [i \in DOMAIN n.fields |-> g(i)]
      BY <1>1
    <3>2. \A i : f(i) = g(i) <=>
            /\ m.fields[i].mut = n.fields[i].mut
            /\ CanonVt(m.fields[i].vt, A, t, ia) = CanonVt(n.fields[i].vt, B, u, ib)
      OBVIOUS
    <3> HIDE DEF CM, CN, f, g
    <3>3. CM.fields = CN.fields <=> /\ DOMAIN m.fields = DOMAIN n.fields
                                    /\ \A i \in DOMAIN m.fields : f(i) = g(i)
      BY <3>1
    <3> QED
      BY <3>2, <3>3
  <2>5. DOMAIN m.fields = DOMAIN n.fields => DOMAIN m.fields = DOMAIN m.fields \cap DOMAIN n.fields
    OBVIOUS
  <2> HIDE DEF CM, CN
  <2> QED
    BY <2>3, <2>4, <2>5
<1> HIDE DEF CM, CN
<1>7. CM = CN <=> AlikeMember(A, t, B, u, S, m, n)
  BY <1>1, <1>2, <1>3, <1>4, <1>5, <1>6 DEF AlikeMember
<1> QED
  BY <1>7 DEF CM, CN

\* The key of a type says what the type is: the closure of the relation on earlier types.
LEMMA KeysAlike ==
  ASSUME NEW A \in Absorbable, NEW t \in DOMAIN A, NEW ia,
         NEW B \in Absorbable, NEW u \in DOMAIN B, NEW ib,
         NEW S, Agree(A, t, ia, B, u, ib, S)
  PROVE  KeyOf(A, t, ia) = KeyOf(B, u, ib) <=> Alike(A, t, B, u, S)
<1> DEFINE G == [p \in Places(A, t) |-> CanonMember(A[A[t].start + p], A, t, ia)]
           H == [p \in Places(B, u) |-> CanonMember(B[B[u].start + p], B, u, ib)]
<1>1. KeyOf(A, t, ia) = KeyOf(B, u, ib) <=> t - A[t].start = u - B[u].start /\ G = H
  BY DEF KeyOf
<1>2. G = H <=> /\ Places(A, t) = Places(B, u)
                /\ \A p \in Places(A, t) :
                     CanonMember(A[A[t].start + p], A, t, ia) = CanonMember(B[B[u].start + p], B, u, ib)
  OBVIOUS
<1>3. ASSUME NEW p \in Places(A, t) \cap Places(B, u)
      PROVE  CanonMember(A[A[t].start + p], A, t, ia) = CanonMember(B[B[u].start + p], B, u, ib)
               <=> AlikeMember(A, t, B, u, S, A[A[t].start + p], B[B[u].start + p])
  <2>1. \A h \in Mentioned(A[A[t].start + p]) : Scoped(A, t, h)
    BY <1>3, GroupFacts
  <2>2. \A h \in Mentioned(B[B[u].start + p]) : Scoped(B, u, h)
    BY <1>3, GroupFacts
  <2>3. \A m : m.super = 0 \/ m.super \in Mentioned(m)
    BY DEF Mentioned
  <2> QED
    BY <2>1, <2>2, <2>3, MembersAlike
<1> QED
  BY <1>1, <1>2, <1>3 DEF Alike

-----------------------------------------------------------------------------
(* A key depends on the ids of the types before its group only             *)

SameBefore(A, t, ia, ib) == \A h \in 1 .. A[t].start : ia[h] = ib[h]

\* Ids that agree before the group of a type give it the same key.
LEMMA KeyOfPrefix ==
  ASSUME NEW A \in Absorbable, NEW t \in DOMAIN A, NEW ia, NEW ib, SameBefore(A, t, ia, ib)
  PROVE  KeyOf(A, t, ia) = KeyOf(A, t, ib)
<1>1. ASSUME NEW h, Scoped(A, t, h)
      PROVE  CanonRef(h, A, t, ia) = CanonRef(h, A, t, ib)
  <2>1. h \in 1 .. A[t].start => ia[h] = ib[h]
    BY DEF SameBefore
  <2> QED
    BY <1>1, <2>1 DEF Scoped, CanonRef
<1>2. ASSUME NEW v, IsRef(v) => Scoped(A, t, v.ht)
      PROVE  CanonVt(v, A, t, ia) = CanonVt(v, A, t, ib)
  <2>1. CanonRef(0, A, t, ia) = CanonRef(0, A, t, ib)
    BY DEF CanonRef
  <2> QED
    BY <1>1, <1>2, <2>1 DEF CanonVt
<1>3. ASSUME NEW m, \A h \in Mentioned(m) : Scoped(A, t, h)
      PROVE  CanonMember(m, A, t, ia) = CanonMember(m, A, t, ib)
  <2>1. CanonRef(m.super, A, t, ia) = CanonRef(m.super, A, t, ib)
    <3>1. m.super = 0 \/ m.super \in Mentioned(m)
      BY DEF Mentioned
    <3>2. Scoped(A, t, m.super)
      BY <1>3, <3>1, SMT DEF Scoped
    <3> QED
      BY <1>1, <3>2
  <2>2. \A i \in DOMAIN m.fields : CanonVt(m.fields[i].vt, A, t, ia) = CanonVt(m.fields[i].vt, A, t, ib)
    <3>1. \A i \in DOMAIN m.fields : IsRef(m.fields[i].vt) => Scoped(A, t, m.fields[i].vt.ht)
      BY <1>3 DEF Mentioned
    <3> QED
      BY <1>2, <3>1
  <2>3. CanonVts(m.params, A, t, ia) = CanonVts(m.params, A, t, ib)
    <3>1. \A i \in DOMAIN m.params : IsRef(m.params[i]) => Scoped(A, t, m.params[i].ht)
      BY <1>3 DEF Mentioned
    <3>2. \A i \in DOMAIN m.params : CanonVt(m.params[i], A, t, ia) = CanonVt(m.params[i], A, t, ib)
      BY <1>2, <3>1
    <3> QED
      BY <3>2 DEF CanonVts
  <2>4. CanonVts(m.results, A, t, ia) = CanonVts(m.results, A, t, ib)
    <3>1. \A i \in DOMAIN m.results : IsRef(m.results[i]) => Scoped(A, t, m.results[i].ht)
      BY <1>3 DEF Mentioned
    <3>2. \A i \in DOMAIN m.results : CanonVt(m.results[i], A, t, ia) = CanonVt(m.results[i], A, t, ib)
      BY <1>2, <3>1
    <3> QED
      BY <3>2 DEF CanonVts
  <2>5. [i \in DOMAIN m.fields |-> [mut |-> m.fields[i].mut, vt |-> CanonVt(m.fields[i].vt, A, t, ia)]]
          = [i \in DOMAIN m.fields |-> [mut |-> m.fields[i].mut, vt |-> CanonVt(m.fields[i].vt, A, t, ib)]]
    BY <2>2
  <2> QED
    BY <2>1, <2>3, <2>4, <2>5 DEF CanonMember
<1>4. \A p \in Places(A, t) : CanonMember(A[A[t].start + p], A, t, ia) = CanonMember(A[A[t].start + p], A, t, ib)
  BY <1>3, GroupFacts
<1> QED
  BY <1>4 DEF KeyOf

-----------------------------------------------------------------------------
(* Interning one more type                                                 *)

KeySet == UNION {UNION {{KeyOf(A, t, ids) : ids \in Seq(Nat)} : t \in Nat} : A \in Absorbable}

\* canon_intern never stores a key twice.
Distinct(keys) == \A g, h \in DOMAIN keys : keys[g] = keys[h] => g = h

\* The ids of the first types of a section are those of their keys.
Numbered(keys, x) ==
  /\ x.sec \in Absorbable \cup {<< >>}
  /\ x.ids \in Seq(Nat) /\ Len(x.ids) <= Len(x.sec)
  /\ \A t \in DOMAIN x.ids : x.ids[t] \in DOMAIN keys /\ keys[x.ids[t]] = KeyOf(x.sec, t, x.ids)

\* Ids in x and in y are equal exactly where types are.
Faithful(x, y) ==
  \A t \in DOMAIN x.ids, u \in DOMAIN y.ids : x.ids[t] = y.ids[u] <=> SameType(x.sec, t, y.sec, u)

WithKey(keys, key) == IF Known(keys, key) THEN keys ELSE Append(keys, key)

\* The elements of a longer sequence.
LEMMA AppendFacts ==
  ASSUME NEW S, NEW s \in Seq(S), NEW e \in S
  PROVE /\ Append(s, e) \in Seq(S) /\ Len(Append(s, e)) = Len(s) + 1
        /\ DOMAIN Append(s, e) = 1 .. Len(s) + 1 /\ DOMAIN s = 1 .. Len(s) /\ Len(s) \in Nat
        /\ \A i \in 1 .. Len(s) : Append(s, e)[i] = s[i]
        /\ Append(s, e)[Len(s) + 1] = e
  BY SMT

\* A sequence is one of a larger set too.
LEMMA SeqWith ==
  ASSUME NEW S, NEW s \in Seq(S), NEW e
  PROVE  s \in Seq(S \cup {e}) /\ e \in S \cup {e}
<1>1. s = [i \in 1 .. Len(s) |-> s[i]] /\ Len(s) \in Nat /\ \A i \in 1 .. Len(s) : s[i] \in S
  OBVIOUS
<1> QED
  BY <1>1

\* canon_intern: the table still holds what it held, and the key at the id returned.
LEMMA InternFacts ==
  ASSUME NEW keys \in Seq(KeySet), Distinct(keys), NEW key \in KeySet
  PROVE /\ WithKey(keys, key) \in Seq(KeySet) /\ Distinct(WithKey(keys, key))
        /\ DOMAIN keys \subseteq DOMAIN WithKey(keys, key)
        /\ \A g \in DOMAIN keys : WithKey(keys, key)[g] = keys[g]
        /\ IdOf(keys, key) \in DOMAIN WithKey(keys, key) /\ IdOf(keys, key) \in Nat
        /\ WithKey(keys, key)[IdOf(keys, key)] = key
        /\ \A g \in DOMAIN keys : IdOf(keys, key) = g <=> keys[g] = key
<1>1. CASE Known(keys, key)
  <2>1. PICK g \in DOMAIN keys : keys[g] = key
    BY <1>1 DEF Known
  <2>2. IdOf(keys, key) = CHOOSE i \in DOMAIN keys : keys[i] = key
    BY <1>1 DEF IdOf
  <2>3. IdOf(keys, key) \in DOMAIN keys /\ keys[IdOf(keys, key)] = key
    BY <2>1, <2>2
  <2>4. IdOf(keys, key) \in Nat
    BY <2>3, SMT
  <2> QED
    BY <1>1, <2>3, <2>4 DEF WithKey, Distinct
<1>2. CASE ~Known(keys, key)
  <2>1. \A g \in DOMAIN keys : keys[g] # key
    BY <1>2 DEF Known
  <2>2. IdOf(keys, key) = Len(keys) + 1 /\ WithKey(keys, key) = Append(keys, key)
    BY <1>2 DEF IdOf, WithKey
  <2> DEFINE new == Append(keys, key)
  <2>3. /\ new \in Seq(KeySet) /\ DOMAIN new = 1 .. Len(keys) + 1
        /\ DOMAIN keys = 1 .. Len(keys) /\ Len(keys) \in Nat
        /\ \A i \in 1 .. Len(keys) : new[i] = keys[i]
        /\ new[Len(keys) + 1] = key
    BY AppendFacts
  <2> HIDE DEF new
  <2>4. Distinct(new)
    <3>1. ASSUME NEW g \in DOMAIN new, NEW h \in DOMAIN new, new[g] = new[h]
          PROVE  g = h
      <4>1. g \in DOMAIN keys \/ g = Len(keys) + 1
        BY <2>3, SMT
      <4>2. h \in DOMAIN keys \/ h = Len(keys) + 1
        BY <2>3, SMT
      <4> QED
        BY <2>1, <2>3, <3>1, <4>1, <4>2 DEF Distinct
    <3> QED
      BY <3>1 DEF Distinct
  <2>5. Len(keys) + 1 \in DOMAIN new /\ Len(keys) + 1 \in Nat /\ DOMAIN keys \subseteq DOMAIN new
    BY <2>3, SMT
  <2>6. \A g \in DOMAIN keys : g # Len(keys) + 1
    BY <2>3, SMT
  <2> QED
    BY <2>1, <2>2, <2>3, <2>4, <2>5, <2>6 DEF new
<1> QED
  BY <1>1, <1>2

\* Two types of which the keys are known and the ids of earlier types are faithful: their
\* keys are equal exactly if they are.
LEMMA KeysSame ==
  ASSUME NEW A \in Absorbable, NEW t \in DOMAIN A, NEW ia,
         NEW B \in Absorbable, NEW u \in DOMAIN B, NEW ib,
         \A h \in 1 .. A[t].start, k \in 1 .. B[u].start : ia[h] = ib[k] <=> SameType(A, h, B, k)
  PROVE  KeyOf(A, t, ia) = KeyOf(B, u, ib) <=> SameType(A, t, B, u)
<1>1. Agree(A, t, ia, B, u, ib, SameTypes(A, B))
  BY DEF Agree, SameType
<1>2. KeyOf(A, t, ia) = KeyOf(B, u, ib) <=> Alike(A, t, B, u, SameTypes(A, B))
  BY <1>1, KeysAlike
<1> QED
  BY <1>2, SameUnfolds

\* The next type of a section gets an id: what is numbered stays so, and the ids faithful.
LEMMA ExtendKeepsFaithful ==
  ASSUME NEW keys \in Seq(KeySet), Distinct(keys),
         NEW A \in Absorbable, NEW ids, Len(ids) < Len(A), Numbered(keys, [sec |-> A, ids |-> ids]),
         Faithful([sec |-> A, ids |-> ids], [sec |-> A, ids |-> ids]),
         NEW Y, \A y \in Y : /\ Numbered(keys, y)
                             /\ Faithful([sec |-> A, ids |-> ids], y)
                             /\ Faithful(y, [sec |-> A, ids |-> ids])
  PROVE  LET key == KeyOf(A, Len(ids) + 1, ids)
             more == WithKey(keys, key)
             z == [sec |-> A, ids |-> Append(ids, IdOf(keys, key))]
         IN /\ more \in Seq(KeySet) /\ Distinct(more)
            /\ IdOf(keys, key) \in DOMAIN more
            /\ Numbered(more, z) /\ Faithful(z, z)
            /\ \A y \in Y : Numbered(more, y) /\ Faithful(z, y) /\ Faithful(y, z)
<1> DEFINE t == Len(ids) + 1
           key == KeyOf(A, t, ids)
           id == IdOf(keys, key)
           more == WithKey(keys, key)
           new == Append(ids, id)
           x == [sec |-> A, ids |-> ids]
           z == [sec |-> A, ids |-> new]
<1>1. /\ ids \in Seq(Nat) /\ DOMAIN ids = 1 .. Len(ids) /\ Len(ids) \in Nat
      /\ \A v \in DOMAIN ids : ids[v] \in DOMAIN keys /\ keys[ids[v]] = KeyOf(A, v, ids)
  BY DEF Numbered
<1>2. Len(A) \in Nat /\ DOMAIN A = 1 .. Len(A) /\ \A v \in DOMAIN A : A[v].start \in 0 .. v - 1
  BY AbsorbableFacts
<1>3. t \in DOMAIN A /\ t \in Nat /\ 1 .. A[t].start \subseteq DOMAIN ids
  <2>1. t \in DOMAIN A /\ t \in Nat
    BY <1>1, <1>2, SMT
  <2>2. A[t].start \in 0 .. t - 1
    BY <1>2, <2>1
  <2> QED
    BY <1>1, <2>1, <2>2, SMT
<1>4. key \in KeySet
  <2> HIDE DEF t
  <2> QED
    BY <1>1, <1>3 DEF KeySet
<1>5. /\ more \in Seq(KeySet) /\ Distinct(more)
      /\ DOMAIN keys \subseteq DOMAIN more
      /\ \A g \in DOMAIN keys : more[g] = keys[g]
      /\ id \in DOMAIN more /\ id \in Nat /\ more[id] = key
      /\ \A g \in DOMAIN keys : id = g <=> keys[g] = key
  <2> HIDE DEF key, t, new, x, z
  <2>1. /\ WithKey(keys, key) \in Seq(KeySet) /\ Distinct(WithKey(keys, key))
        /\ DOMAIN keys \subseteq DOMAIN WithKey(keys, key)
        /\ \A g \in DOMAIN keys : WithKey(keys, key)[g] = keys[g]
        /\ IdOf(keys, key) \in DOMAIN WithKey(keys, key) /\ IdOf(keys, key) \in Nat
        /\ WithKey(keys, key)[IdOf(keys, key)] = key
        /\ \A g \in DOMAIN keys : IdOf(keys, key) = g <=> keys[g] = key
    <3>1. keys \in Seq(KeySet) /\ Distinct(keys) /\ key \in KeySet
      BY <1>4
    <3> HIDE DEF id, more
    <3> QED
      BY ONLY <3>1, InternFacts
  <2> QED
    BY <2>1
<1>6. /\ new \in Seq(Nat) /\ Len(new) = t /\ DOMAIN new = 1 .. t
      /\ \A v \in DOMAIN ids : new[v] = ids[v]
      /\ new[t] = id
  <2> HIDE DEF id
  <2> QED
    BY <1>1, <1>5, AppendFacts
<1>7. DOMAIN new = DOMAIN ids \cup {t} /\ t \notin DOMAIN ids /\ t <= Len(A)
  <2> HIDE DEF new
  <2> QED
    BY <1>1, <1>2, <1>3, <1>6, SMT
<1> HIDE DEF t, key, id, more, new
<1>8. \A v \in DOMAIN new : KeyOf(A, v, new) = KeyOf(A, v, ids)
  <2>1. ASSUME NEW v \in DOMAIN new
        PROVE  KeyOf(A, v, new) = KeyOf(A, v, ids)
    <3>1. v \in DOMAIN A /\ v <= t /\ v \in Nat
      BY <1>1, <1>2, <1>3, <1>6, <1>7, SMT
    <3>2. A[v].start \in 0 .. v - 1
      BY <1>2, <3>1
    <3>3. 1 .. A[v].start \subseteq DOMAIN ids
      BY <1>1, <3>1, <3>2, SMT DEF t
    <3>4. SameBefore(A, v, new, ids)
      BY <1>6, <3>3 DEF SameBefore
    <3> QED
      BY <3>1, <3>4, KeyOfPrefix
  <2> QED
    BY <2>1
<1>9. Numbered(more, z)
  <2>1. \A v \in DOMAIN new : new[v] \in DOMAIN more /\ more[new[v]] = KeyOf(A, v, new)
    <3>1. \A v \in DOMAIN ids : new[v] \in DOMAIN more /\ more[new[v]] = KeyOf(A, v, new)
      BY <1>1, <1>5, <1>6, <1>7, <1>8
    <3>2. new[t] \in DOMAIN more /\ more[new[t]] = KeyOf(A, t, new)
      BY <1>5, <1>6, <1>7, <1>8 DEF key
    <3> QED
      BY <1>7, <3>1, <3>2
  <2>2. Len(new) <= Len(A)
    BY <1>6, <1>7
  <2> QED
    BY <1>6, <2>1, <2>2 DEF Numbered
<1>10. ASSUME NEW y, Numbered(keys, y), Faithful(x, y), Faithful(y, x), NEW u \in DOMAIN y.ids
       PROVE  /\ id = y.ids[u] <=> SameType(A, t, y.sec, u)
              /\ y.ids[u] = id <=> SameType(y.sec, u, A, t)
  <2> DEFINE B == y.sec
             ib == y.ids
  <2>1. /\ ib \in Seq(Nat) /\ DOMAIN ib = 1 .. Len(ib) /\ Len(ib) \in Nat /\ Len(ib) <= Len(B)
        /\ ib[u] \in DOMAIN keys /\ keys[ib[u]] = KeyOf(B, u, ib)
    BY <1>10 DEF Numbered
  <2>2. B \in Absorbable
    <3>1. Len(<< >>) = 0
      OBVIOUS
    <3>2. B # << >>
      BY <1>10, <2>1, <3>1, SMT
    <3> QED
      BY <1>10, <3>2 DEF Numbered
  <2> HIDE DEF B, ib
  <2>3. Len(B) \in Nat /\ DOMAIN B = 1 .. Len(B) /\ \A v \in DOMAIN B : B[v].start \in 0 .. v - 1
    BY <2>2, AbsorbableFacts
  <2>4. u \in 1 .. Len(ib)
    BY <1>10, <2>1 DEF ib
  <2>5. u \in DOMAIN B
    BY <2>1, <2>3, <2>4, SMT
  <2>6. B[u].start \in 0 .. u - 1
    BY <2>3, <2>5
  <2>7. 1 .. B[u].start \subseteq DOMAIN ib
    BY <2>1, <2>4, <2>6, SMT
  <2>8. KeyOf(A, t, ids) = KeyOf(B, u, ib) <=> SameType(A, t, B, u)
    <3>1. \A h \in 1 .. A[t].start, k \in 1 .. B[u].start : ids[h] = ib[k] <=> SameType(A, h, B, k)
      BY <1>3, <1>10, <2>7 DEF Faithful, B, ib
    <3> QED
      BY <1>3, <2>2, <2>5, <3>1, KeysSame
  <2>9. KeyOf(B, u, ib) = KeyOf(A, t, ids) <=> SameType(B, u, A, t)
    <3>1. \A k \in 1 .. B[u].start, h \in 1 .. A[t].start : ib[k] = ids[h] <=> SameType(B, k, A, h)
      BY <1>3, <1>10, <2>7 DEF Faithful, B, ib
    <3> QED
      BY <1>3, <2>2, <2>5, <3>1, KeysSame
  <2>10. id = ib[u] <=> KeyOf(B, u, ib) = key
    BY <1>5, <2>1
  <2> QED
    BY <2>8, <2>9, <2>10 DEF key, B, ib
<1>11. ASSUME NEW y, Numbered(keys, y), Faithful(x, y), Faithful(y, x)
       PROVE  Numbered(more, y) /\ Faithful(z, y) /\ Faithful(y, z)
  <2>1. Numbered(more, y)
    BY <1>5, <1>11 DEF Numbered
  <2>2. ASSUME NEW v \in DOMAIN new, NEW u \in DOMAIN y.ids
        PROVE  /\ new[v] = y.ids[u] <=> SameType(A, v, y.sec, u)
               /\ y.ids[u] = new[v] <=> SameType(y.sec, u, A, v)
    <3>1. CASE v \in DOMAIN ids
      BY <1>6, <1>11, <2>2, <3>1 DEF Faithful
    <3>2. CASE v = t
      BY <1>6, <1>10, <1>11, <2>2, <3>2
    <3> QED
      BY <1>7, <2>2, <3>1, <3>2
  <2>3. Faithful(z, y) /\ Faithful(y, z)
    BY <2>2 DEF Faithful
  <2> QED
    BY <2>1, <2>2, <2>3
<1>12. Faithful(z, z)
  <2>1. Numbered(keys, x)
    OBVIOUS
  <2>2. \A v \in DOMAIN ids, w \in DOMAIN new : new[v] = new[w] <=> SameType(A, v, A, w)
    <3>1. Faithful(x, z)
      BY <1>11, <2>1
    <3> QED
      BY <1>6, <3>1 DEF Faithful
  <2>3. \A w \in DOMAIN ids : new[t] = new[w] <=> SameType(A, t, A, w)
    <3>1. Faithful(z, x)
      BY <1>11, <2>1
    <3>2. \A w \in DOMAIN ids : new[t] = ids[w] <=> SameType(A, t, A, w)
      BY <1>7, <3>1 DEF Faithful
    <3> QED
      BY <1>6, <3>2
  <2>4. SameType(A, t, A, t)
    <3>1. \A h \in 1 .. A[t].start, k \in 1 .. A[t].start : ids[h] = ids[k] <=> SameType(A, h, A, k)
      BY <1>3 DEF Faithful
    <3> QED
      BY <1>3, <3>1, KeysSame
  <2> QED
    BY <1>7, <2>2, <2>3, <2>4 DEF Faithful
<1> QED
  BY <1>5, <1>9, <1>11, <1>12 DEF t, key, id, more, new

-----------------------------------------------------------------------------
(* The invariant                                                           *)

LayoutSet ==
  {NoRtt} \cup [kind : Kind, gid : Int, cells : UNION {{Layout(A, t).cells : t \in Nat} : A \in Absorbable}]
InstSet ==
  [sec : ValidSections, canon : {Canon(sec) : sec \in ValidSections}, gcanon : Seq(Nat), rtts : Seq(LayoutSet)]

\* What has been absorbed: sections with the ids of their first types.
View(i) == [sec |-> insts[i].sec, ids |-> insts[i].gcanon]
HostView(h) == [sec |-> HostSection(h), ids |-> <<hosts[h]>>]
Absorbed == {View(i) : i \in DOMAIN insts} \cup {work} \cup {HostView(h) : h \in DOMAIN hosts}

RegistryOK ==
  /\ reg \in [keys : Seq(KeySet), kinds : Seq(Kind), supers : Seq(Nat), rtts : Seq(LayoutSet)]
  /\ Len(reg.kinds) = Len(reg.keys) /\ Len(reg.supers) = Len(reg.keys) /\ Len(reg.rtts) <= Len(reg.keys)
  /\ \A g \in DOMAIN reg.keys : reg.supers[g] \in 0 .. g - 1
  /\ Distinct(reg.keys)
UsersOK ==
  /\ insts \in Seq(InstSet)
  /\ \A i \in DOMAIN insts :
       DOMAIN insts[i].gcanon = DOMAIN insts[i].sec /\ DOMAIN insts[i].rtts = DOMAIN insts[i].sec
  /\ work \in [sec : ValidSections \cup {<< >>}, ids : Seq(Nat)]
  /\ hosts \in [DOMAIN hosts -> Nat] /\ DOMAIN hosts \subseteq HostHeads
IdsOK ==
  /\ \A x \in Absorbed : Numbered(reg.keys, x)
  /\ \A x, y \in Absorbed : Faithful(x, y)
TypesInv == RegistryOK /\ UsersOK /\ IdsOK

\* Of no section, nothing is numbered.
LEMMA NothingNumbered ==
  ASSUME NEW keys, NEW A \in Absorbable \cup {<< >>}
  PROVE /\ Numbered(keys, [sec |-> A, ids |-> << >>])
        /\ \A y : Faithful([sec |-> A, ids |-> << >>], y) /\ Faithful(y, [sec |-> A, ids |-> << >>])
<1>1. << >> \in Seq(Nat) /\ Len(<< >>) = 0 /\ DOMAIN << >> = {}
  OBVIOUS
<1>2. Len(A) \in Nat
  BY <1>1, AbsorbableFacts
<1>3. Numbered(keys, [sec |-> A, ids |-> << >>])
  BY <1>1, <1>2, SMT DEF Numbered
<1>4. \A y : Faithful([sec |-> A, ids |-> << >>], y) /\ Faithful(y, [sec |-> A, ids |-> << >>])
  BY <1>1 DEF Faithful
<1> QED
  BY <1>3, <1>4

\* An empty registry is right.
LEMMA InitTypesInv == Init => TypesInv
<1> SUFFICES ASSUME Init PROVE TypesInv
  OBVIOUS
<1>1. /\ reg = [keys |-> << >>, kinds |-> << >>, supers |-> << >>, rtts |-> << >>]
      /\ insts = << >> /\ work = [sec |-> << >>, ids |-> << >>] /\ hosts = << >>
  BY DEF Init, Idle
<1>2. DOMAIN << >> = {} /\ Len(<< >>) = 0 /\ \A S : << >> \in Seq(S)
  OBVIOUS
<1>3. RegistryOK
  BY <1>1, <1>2 DEF RegistryOK, Distinct
<1>4. UsersOK
  BY <1>1, <1>2 DEF UsersOK
<1>5. Absorbed = {[sec |-> << >>, ids |-> << >>]}
  BY <1>1, <1>2 DEF Absorbed
<1>6. IdsOK
  BY <1>5, NothingNumbered DEF IdsOK
<1> QED
  BY <1>3, <1>4, <1>6 DEF TypesInv

\* jav_instantiate: a module with no type absorbed yet has no ids.
LEMMA InstantiateKeepsInv == ASSUME TypesInv, NEW sec \in ValidSections, Instantiate(sec) PROVE TypesInv'
<1>1. /\ work' = [sec |-> sec, ids |-> << >>]
      /\ reg' = reg /\ insts' = insts /\ hosts' = hosts
  BY DEF Instantiate
<1>2. RegistryOK'
  BY <1>1 DEF TypesInv, RegistryOK
<1>3. UsersOK'
  <2>1. << >> \in Seq(Nat)
    OBVIOUS
  <2> QED
    BY <1>1, <2>1 DEF TypesInv, UsersOK
<1>4. Absorbed' \subseteq Absorbed \cup {work'}
  BY <1>1 DEF Absorbed, View, HostView
<1>5. IdsOK'
  <2>1. sec \in Absorbable
    BY DEF Absorbable
  <2>2. Numbered(reg.keys, work') /\ \A y : Faithful(work', y) /\ Faithful(y, work')
    BY <1>1, <2>1, NothingNumbered
  <2> QED
    BY <1>1, <1>4, <2>2 DEF TypesInv, IdsOK
<1> QED
  BY <1>2, <1>3, <1>5 DEF TypesInv

\* The ids of the module become those of the instance.
LEMMA AbsorbDoneKeepsInv == ASSUME TypesInv, AbsorbDone PROVE TypesInv'
<1> DEFINE inst == [sec |-> work.sec, canon |-> Canon(work.sec), gcanon |-> work.ids,
                    rtts |-> [t \in DOMAIN work.sec |-> TyperegRtt(work.ids[t])]]
<1>1. /\ insts' = Append(insts, inst) /\ work' = [sec |-> << >>, ids |-> << >>]
      /\ reg' = reg /\ hosts' = hosts /\ work # Idle /\ Len(work.ids) = Len(work.sec)
  BY DEF AbsorbDone, Idle
<1>2. /\ insts \in Seq(InstSet) /\ work \in [sec : ValidSections \cup {<< >>}, ids : Seq(Nat)]
      /\ reg.rtts \in Seq(LayoutSet)
  BY DEF TypesInv, UsersOK, RegistryOK
<1>3. work.sec \in ValidSections
  <2>1. ASSUME work.sec = << >> PROVE FALSE
    <3>1. Len(work.ids) = 0 /\ work.ids \in Seq(Nat)
      BY <1>1, <1>2, <2>1
    <3>2. work.ids = << >>
      BY <3>1, SMT
    <3> QED
      BY <1>1, <1>2, <2>1, <3>2 DEF Idle
  <2> QED
    BY <1>2, <2>1
<1>4. work.sec \in Absorbable
  BY <1>3 DEF Absorbable
<1>5. Len(work.sec) \in Nat /\ DOMAIN work.sec = 1 .. Len(work.sec)
  BY <1>4, AbsorbableFacts
<1>6. inst \in InstSet /\ DOMAIN inst.gcanon = DOMAIN inst.sec /\ DOMAIN inst.rtts = DOMAIN inst.sec
  <2>1. \A g : TyperegRtt(g) \in LayoutSet
    <3>1. NoRtt \in LayoutSet
      BY DEF LayoutSet
    <3>2. \A g \in DOMAIN reg.rtts : reg.rtts[g] \in LayoutSet
      BY <1>2, SMT
    <3> QED
      BY <3>1, <3>2 DEF TyperegRtt
  <2>2. [t \in DOMAIN work.sec |-> TyperegRtt(work.ids[t])] \in Seq(LayoutSet)
    BY <1>5, <2>1, SMT
  <2>3. DOMAIN work.ids = 1 .. Len(work.ids)
    BY <1>2, SMT
  <2>4. inst \in InstSet
    BY <1>2, <1>3, <2>2 DEF InstSet
  <2> QED
    BY <1>1, <1>5, <2>3, <2>4
<1> HIDE DEF inst
<1>7. /\ insts' \in Seq(InstSet) /\ DOMAIN insts' = 1 .. Len(insts) + 1 /\ DOMAIN insts = 1 .. Len(insts)
      /\ \A i \in 1 .. Len(insts) : insts'[i] = insts[i]
      /\ insts'[Len(insts) + 1] = inst /\ Len(insts) \in Nat
  BY <1>1, <1>2, <1>6, AppendFacts
<1>8. DOMAIN insts' = DOMAIN insts \cup {Len(insts) + 1}
  BY <1>7, SMT
<1>9. RegistryOK'
  BY <1>1 DEF TypesInv, RegistryOK
<1>10. UsersOK'
  <2>1. << >> \in Seq(Nat)
    OBVIOUS
  <2>2. \A i \in DOMAIN insts' :
          DOMAIN insts'[i].gcanon = DOMAIN insts'[i].sec /\ DOMAIN insts'[i].rtts = DOMAIN insts'[i].sec
    BY <1>6, <1>7, <1>8 DEF TypesInv, UsersOK
  <2> QED
    BY <1>1, <1>7, <2>1, <2>2 DEF TypesInv, UsersOK
<1>11. Absorbed' \subseteq Absorbed \cup {work'}
  <2>1. [sec |-> inst.sec, ids |-> inst.gcanon] = work
    BY <1>2 DEF inst
  <2>2. \A i \in DOMAIN insts' : View(i)' \in {View(j) : j \in DOMAIN insts} \cup {work}
    BY <1>7, <1>8, <2>1 DEF View
  <2>3. \A h \in DOMAIN hosts' : HostView(h)' = HostView(h)
    BY <1>1 DEF HostView
  <2> QED
    BY <1>1, <2>2, <2>3 DEF Absorbed
<1>12. IdsOK'
  <2>1. Numbered(reg.keys, work') /\ \A y : Faithful(work', y) /\ Faithful(y, work')
    BY <1>1, NothingNumbered
  <2> QED
    BY <1>1, <1>11, <2>1 DEF TypesInv, IdsOK
<1> QED
  BY <1>9, <1>10, <1>12 DEF TypesInv

\* jav_typereg_absorb: one more type of the module, at an old id or at a new one.
LEMMA AbsorbNextKeepsInv == ASSUME TypesInv, AbsorbNext PROVE TypesInv'
<1> DEFINE A == work.sec
           ids == work.ids
           t == Len(ids) + 1
           key == KeyOf(A, t, ids)
           id == IdOf(reg.keys, key)
           new == [sec |-> A, ids |-> Append(ids, id)]
<1>1. /\ Len(ids) < Len(A)
      /\ work' = [work EXCEPT !.ids = Append(ids, id)]
      /\ reg' = IF Known(reg.keys, key) THEN reg ELSE WithNew(key, A[t], Super(A[t], ids), Layout(A, t))
      /\ insts' = insts /\ hosts' = hosts
  BY DEF AbsorbNext, AbsorbType
<1>2. /\ work \in [sec : ValidSections \cup {<< >>}, ids : Seq(Nat)]
      /\ reg \in [keys : Seq(KeySet), kinds : Seq(Kind), supers : Seq(Nat), rtts : Seq(LayoutSet)]
      /\ Len(reg.kinds) = Len(reg.keys) /\ Len(reg.supers) = Len(reg.keys) /\ Len(reg.rtts) <= Len(reg.keys)
      /\ \A g \in DOMAIN reg.keys : reg.supers[g] \in 0 .. g - 1
      /\ Distinct(reg.keys)
      /\ \A x \in Absorbed : Numbered(reg.keys, x)
      /\ \A x, y \in Absorbed : Faithful(x, y)
  BY DEF TypesInv, RegistryOK, UsersOK, IdsOK
<1>3. A \in ValidSections /\ A \in Absorbable /\ Len(ids) \in Nat
  <2>1. Len(<< >>) = 0
    OBVIOUS
  <2>2. A # << >>
    BY <1>1, <1>2, <2>1, SMT
  <2> QED
    BY <1>2, <2>2 DEF Absorbable
<1>4. Len(A) \in Nat /\ DOMAIN A = 1 .. Len(A) /\ t \in DOMAIN A
  <2>1. Len(A) \in Nat /\ DOMAIN A = 1 .. Len(A)
    BY <1>3, AbsorbableFacts
  <2> QED
    BY <1>1, <1>3, <2>1, SMT
<1>5. work = [sec |-> A, ids |-> ids] /\ work \in Absorbed /\ work' = new
  <2>1. work = [sec |-> A, ids |-> ids]
    BY <1>2
  <2> QED
    BY <1>1, <2>1 DEF Absorbed
<1>6. /\ WithKey(reg.keys, key) \in Seq(KeySet) /\ Distinct(WithKey(reg.keys, key))
      /\ id \in DOMAIN WithKey(reg.keys, key)
      /\ Numbered(WithKey(reg.keys, key), new) /\ Faithful(new, new)
      /\ \A y \in Absorbed : /\ Numbered(WithKey(reg.keys, key), y)
                             /\ Faithful(new, y) /\ Faithful(y, new)
  <2>1. Numbered(reg.keys, [sec |-> A, ids |-> ids]) /\ Faithful([sec |-> A, ids |-> ids], [sec |-> A, ids |-> ids])
    BY <1>2, <1>5
  <2>2. \A y \in Absorbed : /\ Numbered(reg.keys, y)
                            /\ Faithful([sec |-> A, ids |-> ids], y)
                            /\ Faithful(y, [sec |-> A, ids |-> ids])
    BY <1>2, <1>5
  <2>3. reg.keys \in Seq(KeySet) /\ Distinct(reg.keys)
    BY <1>2
  <2> HIDE DEF A, ids
  <2> QED
    BY <1>1, <1>3, <2>1, <2>2, <2>3, ExtendKeepsFaithful
<1>7. reg'.keys = WithKey(reg.keys, key)
  BY <1>1 DEF WithKey, WithNew
<1>8. A[t].kind \in Kind /\ A[t].super \in 0 .. t - 1 /\ t \in Nat
  <2>1. A[t].kind \in Kind /\ A[t].super \in 0 .. t - 1
    <3> HIDE DEF A, t
    <3> QED
      BY <1>3, <1>4, AbsorbableFacts
  <2> QED
    BY <1>3, <2>1, SMT
<1> HIDE DEF A, t, key, id, new
<1>9. Super(A[t], ids) \in 0 .. Len(reg.keys)
  <2>1. CASE A[t].super = 0
    BY <1>2, <2>1, SMT DEF Super
  <2>2. CASE A[t].super # 0
    <3>1. A[t].super \in 1 .. Len(ids)
      BY <1>3, <1>8, <2>2, SMT DEF t
    <3>2. ids[A[t].super] \in DOMAIN reg.keys
      <4>1. DOMAIN ids = 1 .. Len(ids)
        BY <1>2, SMT
      <4> QED
        BY <1>2, <1>5, <3>1, <4>1 DEF Numbered
    <3>3. ids[A[t].super] \in 1 .. Len(reg.keys)
      BY <1>2, <3>2, SMT
    <3> QED
      BY <2>2, <3>3, SMT DEF Super
  <2> QED
    BY <2>1, <2>2
<1>10. Layout(A, t) \in LayoutSet /\ \A g \in Int : [Layout(A, t) EXCEPT !.gid = g] \in LayoutSet \/ Layout(A, t) = NoRtt
  <2>1. CASE A[t].kind = "func"
    BY <2>1 DEF Layout, LayoutSet
  <2>2. CASE A[t].kind # "func"
    <3> DEFINE c == Layout(A, t).cells
    <3>1. c \in UNION {{Layout(B, v).cells : v \in Nat} : B \in Absorbable}
      BY <1>3, <1>8
    <3>2. Layout(A, t) = [kind |-> A[t].kind, gid |-> -1, cells |-> c]
      BY <2>2 DEF Layout
    <3> HIDE DEF c
    <3> QED
      BY <1>8, <3>1, <3>2 DEF LayoutSet
  <2> QED
    BY <2>1, <2>2
<1>11. RegistryOK'
  <2>1. CASE Known(reg.keys, key)
    BY <1>1, <1>2, <2>1 DEF RegistryOK
  <2>2. CASE ~Known(reg.keys, key)
    <3> DEFINE n == Len(reg.keys)
               layout == IF Layout(A, t) = NoRtt THEN NoRtt ELSE [Layout(A, t) EXCEPT !.gid = n + 1]
    <3>1. reg' = [keys |-> WithKey(reg.keys, key), kinds |-> Append(reg.kinds, A[t].kind),
                  supers |-> Append(reg.supers, Super(A[t], ids)), rtts |-> Append(reg.rtts, layout)]
      BY <1>1, <2>2 DEF WithKey, WithNew
    <3>2. n \in Nat /\ n + 1 \in Int /\ DOMAIN reg.keys = 1 .. n
      BY <1>2, SMT
    <3>3. layout \in LayoutSet
      BY <1>10, <3>2 DEF LayoutSet
    <3> HIDE DEF layout
    <3>4. /\ Append(reg.kinds, A[t].kind) \in Seq(Kind) /\ Len(Append(reg.kinds, A[t].kind)) = n + 1
      BY <1>2, <1>8, AppendFacts
    <3>5. Super(A[t], ids) \in Nat
      BY <1>9, <3>2, SMT
    <3>6. /\ Append(reg.supers, Super(A[t], ids)) \in Seq(Nat) /\ Len(Append(reg.supers, Super(A[t], ids))) = n + 1
          /\ \A i \in 1 .. n : Append(reg.supers, Super(A[t], ids))[i] = reg.supers[i]
          /\ Append(reg.supers, Super(A[t], ids))[n + 1] = Super(A[t], ids)
      <4>1. reg.supers \in Seq(Nat) /\ Len(reg.supers) = n
        BY <1>2
      <4> HIDE DEF n
      <4> QED
        BY <3>5, <4>1, AppendFacts
    <3>7. /\ Append(reg.rtts, layout) \in Seq(LayoutSet) /\ Len(Append(reg.rtts, layout)) <= n + 1
      <4>1. Append(reg.rtts, layout) \in Seq(LayoutSet) /\ Len(Append(reg.rtts, layout)) = Len(reg.rtts) + 1
            /\ Len(reg.rtts) \in Nat
        BY <1>2, <3>3, AppendFacts
      <4> QED
        BY <1>2, <3>2, <4>1, SMT
    <3>8. key \in KeySet
      BY <1>2, <1>3, <1>8 DEF key, KeySet, ids
    <3>9. WithKey(reg.keys, key) = Append(reg.keys, key) /\ Len(Append(reg.keys, key)) = n + 1
          /\ DOMAIN Append(reg.keys, key) = 1 .. n + 1
      BY <1>2, <2>2, <3>8, AppendFacts DEF WithKey
    <3>10. \A g \in 1 .. n + 1 : Append(reg.supers, Super(A[t], ids))[g] \in 0 .. g - 1
      <4>1. ASSUME NEW g \in 1 .. n + 1
            PROVE  Append(reg.supers, Super(A[t], ids))[g] \in 0 .. g - 1
        <5>1. CASE g = n + 1
          BY <1>9, <3>2, <3>6, <5>1, SMT
        <5>2. CASE g \in 1 .. n
          BY <1>2, <3>2, <3>6, <5>2
        <5>3. g = n + 1 \/ g \in 1 .. n
          BY <3>2, SMT
        <5> QED
          BY <5>1, <5>2, <5>3
      <4> QED
        BY <4>1
    <3> HIDE DEF n
    <3>11. /\ reg'.keys = Append(reg.keys, key) /\ reg'.supers = Append(reg.supers, Super(A[t], ids))
           /\ reg'.kinds = Append(reg.kinds, A[t].kind) /\ reg'.rtts = Append(reg.rtts, layout)
      BY <3>1, <3>9
    <3>12. reg' \in [keys : Seq(KeySet), kinds : Seq(Kind), supers : Seq(Nat), rtts : Seq(LayoutSet)]
      BY <1>6, <3>1, <3>4, <3>6, <3>7
    <3> QED
      BY <1>6, <3>4, <3>6, <3>7, <3>9, <3>10, <3>11, <3>12 DEF RegistryOK
  <2> QED
    BY <2>1, <2>2
<1>12. UsersOK'
  <2>1. new.ids \in Seq(Nat) /\ new.sec \in ValidSections /\ new = [sec |-> new.sec, ids |-> new.ids]
    BY <1>3, <1>6 DEF Numbered, new
  <2>2. work' \in [sec : ValidSections \cup {<< >>}, ids : Seq(Nat)]
    BY <1>5, <2>1
  <2> QED
    BY <1>1, <2>2 DEF TypesInv, UsersOK
<1>13. Absorbed' \subseteq Absorbed \cup {new}
  BY <1>1, <1>5 DEF Absorbed, View, HostView
<1>14. IdsOK'
  BY <1>2, <1>6, <1>7, <1>13 DEF IdsOK
<1> QED
  BY <1>11, <1>12, <1>14 DEF TypesInv

\* jav_typereg_intern_functype: a bare function type, at an old id or at a new one.
LEMMA InternHostKeepsInv == ASSUME TypesInv, NEW h \in HostTypes, InternHost(h) PROVE TypesInv'
<1> DEFINE A == HostSection(h)
           key == HostKey(h)
           id == IdOf(reg.keys, key)
           new == [sec |-> A, ids |-> <<id>>]
           empty == [sec |-> A, ids |-> << >>]
<1>1. /\ h \notin DOMAIN hosts
      /\ \A ht \in Mentioned(A[1]) : ht <= 0
      /\ hosts' = [x \in DOMAIN hosts \cup {h} |-> IF x = h THEN id ELSE hosts[x]]
      /\ reg' = IF Known(reg.keys, key) THEN reg
                ELSE [reg EXCEPT !.keys = Append(@, key), !.kinds = Append(@, "func"), !.supers = Append(@, 0)]
      /\ insts' = insts /\ work' = work
  BY DEF InternHost
<1>2. /\ reg \in [keys : Seq(KeySet), kinds : Seq(Kind), supers : Seq(Nat), rtts : Seq(LayoutSet)]
      /\ Len(reg.kinds) = Len(reg.keys) /\ Len(reg.supers) = Len(reg.keys) /\ Len(reg.rtts) <= Len(reg.keys)
      /\ \A g \in DOMAIN reg.keys : reg.supers[g] \in 0 .. g - 1
      /\ Distinct(reg.keys)
      /\ hosts \in [DOMAIN hosts -> Nat] /\ DOMAIN hosts \subseteq HostHeads
      /\ \A x \in Absorbed : Numbered(reg.keys, x)
      /\ \A x, y \in Absorbed : Faithful(x, y)
  BY DEF TypesInv, RegistryOK, UsersOK, IdsOK
<1>3. h \in HostHeads /\ A \in Absorbable
  BY <1>1 DEF HostHeads, Absorbable
<1>4. Len(A) = 1 /\ 1 \in DOMAIN A
  <2>1. Len(A) = 1
    BY DEF HostSection
  <2>2. DOMAIN A = 1 .. Len(A)
    BY <1>3, AbsorbableFacts
  <2> HIDE DEF A
  <2> QED
    BY <2>1, <2>2, SMT
<1>5. << >> \in Seq(Nat) /\ Len(<< >>) = 0
  OBVIOUS
<1>6. key = KeyOf(A, Len(<< >>) + 1, << >>) /\ key = KeyOf(A, 1, << >>) /\ key \in KeySet
  <2>1. key = KeyOf(A, 1, << >>) /\ Len(<< >>) + 1 = 1
    BY <1>5 DEF HostKey
  <2> HIDE DEF A, key
  <2>2. PICK ids \in Seq(Nat) : key = KeyOf(A, 1, ids)
    BY <1>5, <2>1
  <2>3. key \in KeySet
    BY <1>3, <2>2 DEF KeySet
  <2> QED
    BY <2>1, <2>3
<1> HIDE DEF A, key
<1>7. Append(<< >>, id) = <<id>>
  BY SMT
<1>8. /\ WithKey(reg.keys, key) \in Seq(KeySet) /\ Distinct(WithKey(reg.keys, key))
      /\ id \in DOMAIN WithKey(reg.keys, key)
      /\ Numbered(WithKey(reg.keys, key), new) /\ Faithful(new, new)
      /\ \A y \in Absorbed : /\ Numbered(WithKey(reg.keys, key), y)
                             /\ Faithful(new, y) /\ Faithful(y, new)
  <2>1. Numbered(reg.keys, empty) /\ \A y : Faithful(empty, y) /\ Faithful(y, empty)
    BY <1>3, NothingNumbered
  <2>2. reg.keys \in Seq(KeySet) /\ Distinct(reg.keys)
    BY <1>2
  <2>3. Len(<< >>) < Len(A)
    BY <1>4, <1>5, SMT
  <2>4. /\ WithKey(reg.keys, key) \in Seq(KeySet) /\ Distinct(WithKey(reg.keys, key))
        /\ id \in DOMAIN WithKey(reg.keys, key)
        /\ LET z == [sec |-> A, ids |-> Append(<< >>, id)] IN
           /\ Numbered(WithKey(reg.keys, key), z) /\ Faithful(z, z)
           /\ \A y \in Absorbed : /\ Numbered(WithKey(reg.keys, key), y)
                                  /\ Faithful(z, y) /\ Faithful(y, z)
    BY <1>2, <1>3, <1>6, <2>1, <2>2, <2>3, ExtendKeepsFaithful
  <2> QED
    BY <1>7, <2>4
<1>9. reg'.keys = WithKey(reg.keys, key)
  BY <1>1, <1>2 DEF WithKey
<1>10. RegistryOK'
  <2>1. CASE Known(reg.keys, key)
    BY <1>1, <1>2, <2>1 DEF RegistryOK
  <2>2. CASE ~Known(reg.keys, key)
    <3> DEFINE n == Len(reg.keys)
    <3>1. reg' = [keys |-> Append(reg.keys, key), kinds |-> Append(reg.kinds, "func"),
                  supers |-> Append(reg.supers, 0), rtts |-> reg.rtts]
      BY <1>1, <1>2, <2>2
    <3>2. n \in Nat /\ DOMAIN reg.keys = 1 .. n
      BY <1>2, SMT
    <3>3. Append(reg.kinds, "func") \in Seq(Kind) /\ Len(Append(reg.kinds, "func")) = n + 1
      <4>1. "func" \in Kind /\ reg.kinds \in Seq(Kind) /\ Len(reg.kinds) = n
        BY <1>2 DEF Kind
      <4> HIDE DEF n
      <4> QED
        BY <4>1, AppendFacts
    <3>4. /\ Append(reg.supers, 0) \in Seq(Nat) /\ Len(Append(reg.supers, 0)) = n + 1
          /\ \A i \in 1 .. n : Append(reg.supers, 0)[i] = reg.supers[i]
          /\ Append(reg.supers, 0)[n + 1] = 0
      <4>1. reg.supers \in Seq(Nat) /\ Len(reg.supers) = n /\ 0 \in Nat
        BY <1>2
      <4> HIDE DEF n
      <4> QED
        BY <4>1, AppendFacts
    <3>5. /\ Append(reg.keys, key) \in Seq(KeySet) /\ Len(Append(reg.keys, key)) = n + 1
          /\ DOMAIN Append(reg.keys, key) = 1 .. n + 1
      BY <1>2, <1>6, AppendFacts
    <3>6. \A g \in 1 .. n + 1 : Append(reg.supers, 0)[g] \in 0 .. g - 1
      <4>1. ASSUME NEW g \in 1 .. n + 1
            PROVE  Append(reg.supers, 0)[g] \in 0 .. g - 1
        <5>1. CASE g = n + 1
          BY <3>2, <3>4, <5>1, SMT
        <5>2. CASE g \in 1 .. n
          BY <1>2, <3>2, <3>4, <5>2
        <5>3. g = n + 1 \/ g \in 1 .. n
          BY <3>2, SMT
        <5> QED
          BY <5>1, <5>2, <5>3
      <4> QED
        BY <4>1
    <3>7. Len(reg.rtts) <= n + 1
      <4>1. Len(reg.rtts) \in Nat
        BY <1>2, SMT
      <4> QED
        BY <1>2, <3>2, <4>1, SMT
    <3> HIDE DEF n
    <3>8. Distinct(reg'.keys)
      BY <1>8, <1>9
    <3>9. /\ reg'.keys = Append(reg.keys, key) /\ reg'.supers = Append(reg.supers, 0)
          /\ reg'.kinds = Append(reg.kinds, "func") /\ reg'.rtts = reg.rtts
      BY <3>1
    <3>10. reg' \in [keys : Seq(KeySet), kinds : Seq(Kind), supers : Seq(Nat), rtts : Seq(LayoutSet)]
      BY <1>2, <3>1, <3>3, <3>4, <3>5
    <3> QED
      BY <3>3, <3>4, <3>5, <3>6, <3>7, <3>8, <3>9, <3>10 DEF RegistryOK
  <2> QED
    BY <2>1, <2>2
<1>11. id \in Nat
  BY <1>8, SMT
<1>12. UsersOK'
  BY <1>1, <1>2, <1>3, <1>11 DEF TypesInv, UsersOK
<1>13. Absorbed' \subseteq Absorbed \cup {new}
  <2>1. ASSUME NEW x \in DOMAIN hosts'
        PROVE  HostView(x)' \in {HostView(k) : k \in DOMAIN hosts} \cup {new}
    <3>1. CASE x = h
      BY <1>1, <3>1 DEF HostView, A
    <3>2. CASE x # h
      BY <1>1, <2>1, <3>2 DEF HostView
    <3> QED
      BY <3>1, <3>2
  <2>2. \A i \in DOMAIN insts' : View(i)' = View(i)
    BY <1>1 DEF View
  <2> QED
    BY <1>1, <2>1, <2>2 DEF Absorbed
<1>14. IdsOK'
  BY <1>2, <1>8, <1>9, <1>13 DEF IdsOK
<1> QED
  BY <1>10, <1>12, <1>14 DEF TypesInv

\* Every step keeps the registry right.
LEMMA NextKeepsTypesInv == TypesInv /\ [Next]_vars => TypesInv'
<1> SUFFICES ASSUME TypesInv, [Next]_vars PROVE TypesInv'
  OBVIOUS
<1>1. ASSUME NEW sec \in ValidSections, Instantiate(sec) PROVE TypesInv'
  BY <1>1, InstantiateKeepsInv
<1>2. CASE AbsorbNext
  BY <1>2, AbsorbNextKeepsInv
<1>3. CASE AbsorbDone
  BY <1>3, AbsorbDoneKeepsInv
<1>4. ASSUME NEW h \in HostTypes, InternHost(h) PROVE TypesInv'
  BY <1>4, InternHostKeepsInv
<1>5. CASE UNCHANGED vars
  <2>1. reg' = reg /\ insts' = insts /\ work' = work /\ hosts' = hosts
    BY <1>5 DEF vars
  <2>2. Absorbed' = Absorbed
    BY <2>1 DEF Absorbed, View, HostView
  <2> QED
    BY <2>1, <2>2 DEF TypesInv, RegistryOK, UsersOK, IdsOK
<1> QED
  BY <1>1, <1>2, <1>3, <1>4, <1>5 DEF Next

-----------------------------------------------------------------------------
(* Subtyping, step by step                                                 *)

\* The recursion of DeclaredSub ends: a type's supertype is an earlier one.
LEMMA SubUnfolds ==
  ASSUME NEW A \in Absorbable, NEW B, NEW u, NEW t \in DOMAIN A
  PROVE  DeclaredSub(A, t, B, u) <=> \/ SameType(A, t, B, u)
                                     \/ A[t].super # 0 /\ DeclaredSub(A, A[t].super, B, u)
<1> DEFINE Above(f, x) == {x} \cup (IF A[x].super = 0 THEN {} ELSE f[A[x].super])
           Holds(f, n) == f = [x \in 1 .. n |-> Above(f, x)]
           bad == {n \in 0 .. Len(A) : ~ \E f : Holds(f, n)}
<1>1. Len(A) \in Nat /\ DOMAIN A = 1 .. Len(A) /\ \A x \in DOMAIN A : A[x].super \in 0 .. x - 1
  BY AbsorbableFacts
<1>2. ASSUME NEW m \in bad, \A k \in bad : m <= k
      PROVE  FALSE
  <2>1. m \in 0 .. Len(A) /\ m \in Nat
    BY <1>1
  <2>2. m # 0
    <3>1. SUFFICES ASSUME m = 0 PROVE \E f : Holds(f, m)
      OBVIOUS
    <3>2. 1 .. m = {}
      BY <3>1
    <3>3. Holds([x \in {} |-> {}], m)
      BY <3>2
    <3> QED
      BY <3>3
  <2>3. m - 1 \in 0 .. Len(A) /\ m - 1 \in Nat /\ m \in DOMAIN A
    BY <1>1, <2>1, <2>2
  <2>4. m - 1 \notin bad
    <3> HIDE DEF bad
    <3> QED
      BY <1>2, <2>1
  <2>5. PICK f : Holds(f, m - 1)
    BY <2>3, <2>4
  <2> DEFINE g == [x \in 1 .. m |-> IF x = m THEN Above(f, m) ELSE f[x]]
  <2>6. \A x \in 1 .. m - 1 : g[x] = f[x]
    BY <2>1
  <2>7. ASSUME NEW x \in 1 .. m
        PROVE  Above(g, x) = Above(f, x) /\ g[x] = Above(f, x)
    <3>1. x \in DOMAIN A /\ A[x].super \in 0 .. x - 1
      BY <1>1, <2>1
    <3>2. A[x].super # 0 => A[x].super \in 1 .. m - 1
      BY <2>1, <3>1
    <3>3. Above(g, x) = Above(f, x)
      <4> HIDE DEF g
      <4> QED
        BY <2>6, <3>2
    <3>4. x # m => f[x] = Above(f, x)
      <4>1. x # m => x \in 1 .. m - 1
        BY <2>1
      <4> QED
        BY <2>5, <4>1
    <3>5. g[x] = Above(f, x)
      <4> HIDE DEF Above
      <4> QED
        BY <3>4
    <3> QED
      BY <3>3, <3>5
  <2>8. Holds(g, m)
    <3>1. g = [x \in 1 .. m |-> g[x]]
      OBVIOUS
    <3> HIDE DEF g, Above
    <3> QED
      BY <2>7, <3>1
  <2> QED
    BY <2>8
<1>3. bad = {}
  <2>1. bad \in SUBSET Nat
    BY <1>1
  <2> HIDE DEF bad
  <2> QED
    BY <1>2, <2>1, LeastNumber
<1>4. \E f : f = [x \in DOMAIN A |-> {x} \cup (IF A[x].super = 0 THEN {} ELSE f[A[x].super])]
  <2>1. Len(A) \in 0 .. Len(A)
    BY <1>1
  <2>2. \E f : Holds(f, Len(A))
    BY <1>3, <2>1
  <2> QED
    BY <1>1, <2>2
<1> HIDE DEF bad, Holds, Above
<1> DEFINE up == CHOOSE f : f = [x \in DOMAIN A |-> {x} \cup (IF A[x].super = 0 THEN {} ELSE f[A[x].super])]
<1>5. up = [x \in DOMAIN A |-> {x} \cup (IF A[x].super = 0 THEN {} ELSE up[A[x].super])]
  BY <1>4, Zenon
<1>6. \A x : DeclaredSub(A, x, B, u) <=> \E y \in up[x] : SameType(A, y, B, u)
  BY Zenon DEF DeclaredSub
<1> HIDE DEF up
<1>7. up[t] = {t} \cup (IF A[t].super = 0 THEN {} ELSE up[A[t].super])
  BY <1>5
<1> QED
  BY <1>6, <1>7

\* What ConcreteSub looks for among the supertypes.
Hits(cx, t, b) == IF cx.canon # << >> THEN cx.canon[t] = cx.canon[b] ELSE t = b

\* The recursion of ConcreteSub ends, in a lattice whose supertypes are earlier types.
LEMMA ClimbUnfolds ==
  ASSUME NEW cx, Len(cx.supers) \in Nat, \A x \in 1 .. Len(cx.supers) : cx.supers[x] \in 0 .. x - 1, NEW b
  PROVE  /\ ~ ConcreteSub(cx, 0, b)
         /\ \A t \in 1 .. Len(cx.supers) :
              ConcreteSub(cx, t, b) <=> Hits(cx, t, b) \/ ConcreteSub(cx, cx.supers[t], b)
<1> DEFINE len == Len(cx.supers)
           Climbs(f, x) == x # 0 /\ (Hits(cx, x, b) \/ f[cx.supers[x]])
           Holds(f, n) == f = [x \in 0 .. n |-> Climbs(f, x)]
           bad == {n \in 0 .. len : ~ \E f : Holds(f, n)}
<1>1. len \in Nat /\ \A x \in 1 .. len : cx.supers[x] \in 0 .. x - 1
  OBVIOUS
<1> HIDE DEF len
<1>2. ASSUME NEW m \in bad, \A k \in bad : m <= k
      PROVE  FALSE
  <2>1. m \in 0 .. len /\ m \in Nat
    BY <1>1
  <2>2. m # 0
    <3>1. SUFFICES ASSUME m = 0 PROVE \E f : Holds(f, m)
      OBVIOUS
    <3>2. \A x \in 0 .. m : x = 0
      BY <3>1
    <3>3. Holds([x \in 0 .. m |-> FALSE], m)
      BY <3>2
    <3> QED
      BY <3>3
  <2>3. m - 1 \in 0 .. len /\ m - 1 \in Nat
    BY <1>1, <2>1, <2>2
  <2>4. m - 1 \notin bad
    <3> HIDE DEF bad
    <3> QED
      BY <1>2, <2>1
  <2>5. PICK f : Holds(f, m - 1)
    BY <2>3, <2>4
  <2> DEFINE g == [x \in 0 .. m |-> IF x = m THEN Climbs(f, m) ELSE f[x]]
  <2>6. \A x \in 0 .. m - 1 : g[x] = f[x]
    BY <2>1
  <2>7. ASSUME NEW x \in 0 .. m
        PROVE  Climbs(g, x) = Climbs(f, x) /\ g[x] = Climbs(f, x)
    <3>1. x # 0 => cx.supers[x] \in 0 .. m - 1
      <4>1. x # 0 => x \in 1 .. len /\ cx.supers[x] \in 0 .. x - 1
        BY <1>1, <2>1
      <4> QED
        BY <2>1, <4>1
    <3>2. Climbs(g, x) = Climbs(f, x)
      <4> HIDE DEF g
      <4> QED
        BY <2>6, <3>1
    <3>3. x # m => f[x] = Climbs(f, x)
      <4>1. x # m => x \in 0 .. m - 1
        BY <2>1
      <4> QED
        BY <2>5, <4>1
    <3>4. g[x] = Climbs(f, x)
      <4> HIDE DEF Climbs
      <4> QED
        BY <3>3
    <3> QED
      BY <3>2, <3>4
  <2>8. Holds(g, m)
    <3>1. g = [x \in 0 .. m |-> g[x]]
      OBVIOUS
    <3> HIDE DEF g, Climbs
    <3> QED
      BY <2>7, <3>1
  <2> QED
    BY <2>8
<1>3. bad = {}
  <2>1. bad \in SUBSET Nat
    BY <1>1
  <2> HIDE DEF bad
  <2> QED
    BY <1>2, <2>1, LeastNumber
<1>4. \E f : f = [t \in 0 .. Len(cx.supers) |->
                   /\ t # 0
                   /\ (IF cx.canon # << >> THEN cx.canon[t] = cx.canon[b] ELSE t = b) \/ f[cx.supers[t]]]
  <2>1. len \in 0 .. len
    BY <1>1
  <2>2. \E f : Holds(f, len)
    BY <1>3, <2>1
  <2> QED
    BY <2>2 DEF len, Hits
<1> HIDE DEF bad, Holds, Climbs
<1> DEFINE climb == CHOOSE f : f = [t \in 0 .. Len(cx.supers) |->
                      /\ t # 0
                      /\ (IF cx.canon # << >> THEN cx.canon[t] = cx.canon[b] ELSE t = b) \/ f[cx.supers[t]]]
<1>5. climb = [t \in 0 .. Len(cx.supers) |->
                 /\ t # 0
                 /\ (IF cx.canon # << >> THEN cx.canon[t] = cx.canon[b] ELSE t = b) \/ climb[cx.supers[t]]]
  BY <1>4, Zenon
<1>6. \A x : ConcreteSub(cx, x, b) <=> climb[x]
  BY DEF ConcreteSub
<1> HIDE DEF climb
<1>7. \A x \in 0 .. len : climb[x] <=> x # 0 /\ (Hits(cx, x, b) \/ climb[cx.supers[x]])
  BY <1>5 DEF Hits, len
<1> QED
  BY <1>1, <1>6, <1>7 DEF len

-----------------------------------------------------------------------------
(* The numbers of a module                                                 *)

\* compute_canon: the ids of a module's own table are equal exactly where its types are.
LEMMA CanonIsFaithful ==
  ASSUME NEW A \in Absorbable
  PROVE  /\ Canon(A) \in Seq(Nat) /\ Len(Canon(A)) = Len(A) /\ DOMAIN Canon(A) = DOMAIN A
         /\ \A t, u \in DOMAIN A : Canon(A)[t] = Canon(A)[u] <=> SameType(A, t, A, u)
<1> DEFINE None == [keys |-> << >>, ids |-> << >>]
           More(r, n) == [keys |-> WithKey(r.keys, KeyOf(A, n, r.ids)),
                          ids |-> Append(r.ids, IdOf(r.keys, KeyOf(A, n, r.ids)))]
           Step(f, n) == IF n = 0 THEN None ELSE More(f[n - 1], n)
           Holds(f, n) == f = [x \in 0 .. n |-> Step(f, x)]
           bad == {n \in 0 .. Len(A) : ~ \E f : Holds(f, n)}
<1>1. Len(A) \in Nat /\ DOMAIN A = 1 .. Len(A)
  BY AbsorbableFacts
<1>2. ASSUME NEW m \in bad, \A k \in bad : m <= k
      PROVE  FALSE
  <2>1. m \in 0 .. Len(A) /\ m \in Nat
    BY <1>1
  <2> HIDE DEF More, None
  <2>2. m # 0
    <3>1. SUFFICES ASSUME m = 0 PROVE \E f : Holds(f, m)
      OBVIOUS
    <3>2. \A x \in 0 .. m : x = 0
      BY <3>1
    <3>3. Holds([x \in 0 .. m |-> None], m)
      BY <3>2
    <3> QED
      BY <3>3
  <2>3. m - 1 \in 0 .. Len(A) /\ m - 1 \in Nat
    BY <1>1, <2>1, <2>2
  <2>4. m - 1 \notin bad
    <3> HIDE DEF bad
    <3> QED
      BY <1>2, <2>1
  <2>5. PICK f : Holds(f, m - 1)
    BY <2>3, <2>4
  <2> DEFINE g == [x \in 0 .. m |-> IF x = m THEN Step(f, m) ELSE f[x]]
  <2>6. \A x \in 0 .. m - 1 : g[x] = f[x]
    BY <2>1
  <2>7. ASSUME NEW x \in 0 .. m
        PROVE  Step(g, x) = Step(f, x) /\ g[x] = Step(f, x)
    <3>1. x # 0 => x - 1 \in 0 .. m - 1
      BY <2>1
    <3>2. Step(g, x) = Step(f, x)
      <4> HIDE DEF g
      <4> QED
        BY <2>6, <3>1
    <3>3. x # m => f[x] = Step(f, x)
      <4>1. x # m => x \in 0 .. m - 1
        BY <2>1
      <4> QED
        BY <2>5, <4>1
    <3>4. g[x] = Step(f, x)
      <4> HIDE DEF Step
      <4> QED
        BY <3>3
    <3> QED
      BY <3>2, <3>4
  <2>8. Holds(g, m)
    <3>1. g = [x \in 0 .. m |-> g[x]]
      OBVIOUS
    <3> HIDE DEF g, Step
    <3> QED
      BY <2>7, <3>1
  <2> QED
    BY <2>8
<1>3. bad = {}
  <2>1. bad \in SUBSET Nat
    BY <1>1
  <2> HIDE DEF bad
  <2> QED
    BY <1>2, <2>1, LeastNumber
<1> DEFINE Table(f) ==
      f = [t \in 0 .. Len(A) |->
             IF t = 0 THEN [keys |-> << >>, ids |-> << >>]
             ELSE LET before == f[t - 1]
                      key == KeyOf(A, t, before.ids)
                  IN [keys |-> IF Known(before.keys, key) THEN before.keys ELSE Append(before.keys, key),
                      ids |-> Append(before.ids, IdOf(before.keys, key))]]
<1>4. \E f : Table(f)
  <2>1. Len(A) \in 0 .. Len(A)
    BY <1>1
  <2>2. PICK f : Holds(f, Len(A))
    BY <1>3, <2>1
  <2>3. Table(f)
    BY <2>2 DEF WithKey
  <2> QED
    BY <2>3
<1> DEFINE after == CHOOSE f : Table(f)
<1>5. Table(after)
  BY <1>4, Zenon
<1>6. Canon(A) = after[Len(A)].ids
  BY Zenon DEF Canon
<1> HIDE DEF bad, after
<1>7. after[0] = None /\ \A n \in 1 .. Len(A) : after[n] = More(after[n - 1], n)
  <2>1. after = [n \in 0 .. Len(A) |-> Step(after, n)]
    BY <1>5 DEF WithKey
  <2>2. 0 \in 0 .. Len(A) /\ \A n \in 1 .. Len(A) : n \in 0 .. Len(A) /\ n # 0
    BY <1>1
  <2> HIDE DEF More, None, Table
  <2> QED
    BY <2>1, <2>2
<1> HIDE DEF Holds, Step, Table, More
<1> DEFINE View1(n) == [sec |-> A, ids |-> after[n].ids]
           Good(n) == /\ after[n].keys \in Seq(KeySet) /\ Distinct(after[n].keys)
                      /\ after[n].ids \in Seq(Nat) /\ Len(after[n].ids) = n
                      /\ Numbered(after[n].keys, View1(n)) /\ Faithful(View1(n), View1(n))
           off == {n \in 0 .. Len(A) : ~ Good(n)}
<1>8. Good(0)
  <2>1. after[0].keys = << >> /\ after[0].ids = << >>
    BY <1>7
  <2>2. << >> \in Seq(KeySet) /\ Distinct(<< >>) /\ << >> \in Seq(Nat) /\ Len(<< >>) = 0
    BY DEF Distinct
  <2> QED
    BY <2>1, <2>2, NothingNumbered
<1>9. ASSUME NEW m \in 1 .. Len(A), Good(m - 1)
      PROVE  Good(m)
  <2>1. PICK ids : ids = after[m - 1].ids
    OBVIOUS
  <2>2. PICK keys : keys = after[m - 1].keys
    OBVIOUS
  <2>3. /\ keys \in Seq(KeySet) /\ Distinct(keys) /\ ids \in Seq(Nat) /\ Len(ids) + 1 = m /\ Len(ids) < Len(A)
        /\ Numbered(keys, [sec |-> A, ids |-> ids])
        /\ Faithful([sec |-> A, ids |-> ids], [sec |-> A, ids |-> ids])
    BY <1>1, <1>9, <2>1, <2>2
  <2>4. PICK key : key = KeyOf(A, m, ids)
    OBVIOUS
  <2>5. PICK new : new = Append(ids, IdOf(keys, key))
    OBVIOUS
  <2>6. /\ WithKey(keys, key) \in Seq(KeySet) /\ Distinct(WithKey(keys, key))
        /\ IdOf(keys, key) \in DOMAIN WithKey(keys, key)
        /\ Numbered(WithKey(keys, key), [sec |-> A, ids |-> new])
        /\ Faithful([sec |-> A, ids |-> new], [sec |-> A, ids |-> new])
    <3>1. /\ WithKey(keys, KeyOf(A, Len(ids) + 1, ids)) \in Seq(KeySet) /\ Distinct(WithKey(keys, KeyOf(A, Len(ids) + 1, ids)))
          /\ IdOf(keys, KeyOf(A, Len(ids) + 1, ids)) \in DOMAIN WithKey(keys, KeyOf(A, Len(ids) + 1, ids))
          /\ LET z == [sec |-> A, ids |-> Append(ids, IdOf(keys, KeyOf(A, Len(ids) + 1, ids)))]
             IN Numbered(WithKey(keys, KeyOf(A, Len(ids) + 1, ids)), z) /\ Faithful(z, z)
      <4>1. PICK Y : Y = {}
        OBVIOUS
      <4>2. \A y \in Y : /\ Numbered(keys, y)
                         /\ Faithful([sec |-> A, ids |-> ids], y)
                         /\ Faithful(y, [sec |-> A, ids |-> ids])
        BY <4>1
      <4> QED
        BY ONLY <2>3, <4>2, A \in Absorbable, ExtendKeepsFaithful
    <3> QED
      BY <2>3, <2>4, <2>5, <3>1
  <2>7. after[m].keys = WithKey(keys, key) /\ after[m].ids = new
    <3>1. after[m] = More(after[m - 1], m)
      BY <1>7
    <3>2. /\ after[m].keys = WithKey(after[m - 1].keys, KeyOf(A, m, after[m - 1].ids))
          /\ after[m].ids = Append(after[m - 1].ids, IdOf(after[m - 1].keys, KeyOf(A, m, after[m - 1].ids)))
      BY ONLY <3>1 DEF More
    <3> QED
      BY ONLY <3>2, <2>1, <2>2, <2>4, <2>5
  <2>8. IdOf(keys, key) \in Nat
    BY <2>6
  <2>9. new \in Seq(Nat) /\ Len(new) = m
    BY <2>3, <2>5, <2>8, AppendFacts
  <2> QED
    BY <2>6, <2>7, <2>9
<1> HIDE DEF Good
<1>10. ASSUME NEW m \in off, \A k \in off : m <= k
       PROVE  FALSE
  <2>1. m \in 0 .. Len(A) /\ ~ Good(m)
    OBVIOUS
  <2>2. m # 0
    BY <1>8, <2>1
  <2>3. m - 1 \in 0 .. Len(A) /\ m \in 1 .. Len(A) /\ ~ (m <= m - 1)
    BY <1>1, <2>1, <2>2
  <2>4. m - 1 \notin off
    <3> HIDE DEF off
    <3> QED
      BY <1>10, <2>3
  <2> QED
    BY <1>9, <2>1, <2>3, <2>4
<1>11. Good(Len(A))
  <2>1. off \in SUBSET Nat
    BY <1>1
  <2>2. off = {}
    <3> HIDE DEF off
    <3> QED
      BY <1>10, <2>1, LeastNumber
  <2> QED
    BY <1>1, <2>2
<1>12. /\ Canon(A) \in Seq(Nat) /\ Len(Canon(A)) = Len(A)
       /\ Faithful([sec |-> A, ids |-> Canon(A)], [sec |-> A, ids |-> Canon(A)])
  BY <1>6, <1>11 DEF Good
<1>13. DOMAIN Canon(A) = DOMAIN A
  BY <1>1, <1>12
<1> QED
  BY <1>12, <1>13 DEF Faithful

-----------------------------------------------------------------------------
(* Equal types are recorded alike                                          *)

\* Equal types are alike, in equality itself, and so are the types at equal places of their groups.
LEMMA SameMembers ==
  ASSUME NEW A \in Absorbable, NEW t \in DOMAIN A, NEW B \in Absorbable, NEW u \in DOMAIN B, SameType(A, t, B, u)
  PROVE  /\ A[t].kind = B[u].kind
         /\ AlikeMember(A, t, B, u, SameTypes(A, B), A[t], B[u])
         /\ \A h \in Group(A, t), k \in Group(B, u) : h - A[t].start = k - B[u].start => A[h].kind = B[k].kind
<1>1. Alike(A, t, B, u, SameTypes(A, B))
  BY SameUnfolds
<1>2. /\ t - A[t].start = u - B[u].start
      /\ \A p \in Places(A, t) :
           AlikeMember(A, t, B, u, SameTypes(A, B), A[A[t].start + p], B[B[u].start + p])
  BY <1>1 DEF Alike
<1>3. \A x \in DOMAIN A : x \in Int /\ A[x].start \in Int
  BY AbsorbableFacts
<1>4. \A x \in DOMAIN B : x \in Int /\ B[x].start \in Int
  BY AbsorbableFacts
<1>5. ASSUME NEW h \in Group(A, t), NEW k \in Group(B, u), h - A[t].start = k - B[u].start
      PROVE  AlikeMember(A, t, B, u, SameTypes(A, B), A[h], B[k])
  <2>1. h \in DOMAIN A /\ k \in DOMAIN B
    BY DEF Group
  <2>2. h - A[t].start \in Places(A, t)
    BY DEF Places
  <2>3. A[t].start + (h - A[t].start) = h /\ B[u].start + (h - A[t].start) = k
    BY <1>3, <1>4, <1>5, <2>1
  <2> QED
    BY <1>2, <2>2, <2>3
<1>6. t \in Group(A, t) /\ u \in Group(B, u)
  BY DEF Group
<1>7. AlikeMember(A, t, B, u, SameTypes(A, B), A[t], B[u])
  BY <1>2, <1>5, <1>6
<1> QED
  BY <1>5, <1>7 DEF AlikeMember

\* Equal types have the same layout (build_rtts).
LEMMA SameLayouts ==
  ASSUME NEW A \in Absorbable, NEW t \in DOMAIN A, NEW B \in Absorbable, NEW u \in DOMAIN B, SameType(A, t, B, u)
  PROVE  Layout(A, t) = Layout(B, u)
<1>1. /\ A[t].kind = B[u].kind
      /\ DOMAIN A[t].fields = DOMAIN B[u].fields
      /\ \A i \in DOMAIN A[t].fields :
           AlikeVt(A, t, B, u, SameTypes(A, B), A[t].fields[i].vt, B[u].fields[i].vt)
  BY SameMembers DEF AlikeMember
<1>2. ASSUME NEW v, NEW w, IsRef(v) => v.ht \in Int, AlikeVt(A, t, B, u, SameTypes(A, B), v, w)
      PROVE  FieldIsRef(A, v) <=> FieldIsRef(B, w)
  <2>1. v.w = w.w /\ (IsRef(v) => AlikeHt(A, t, B, u, SameTypes(A, B), v.ht, w.ht)) /\ (IsRef(v) <=> IsRef(w))
    BY <1>2 DEF AlikeVt, IsRef
  <2>2. CASE ~ IsRef(v)
    BY <2>1, <2>2 DEF FieldIsRef
  <2>3. CASE IsRef(v) /\ v.ht <= 0 /\ v.ht = w.ht
    <3>1. ~ (v.ht > 0) /\ ~ (w.ht > 0)
      BY <1>2, <2>3
    <3>2. FieldIsRef(A, v) <=> v.ht \in {ANY, EQ, STRUCT, ARRAY}
      BY <2>3, <3>1 DEF FieldIsRef
    <3>3. FieldIsRef(B, w) <=> w.ht \in {ANY, EQ, STRUCT, ARRAY}
      BY <2>1, <2>3, <3>1 DEF FieldIsRef
    <3> QED
      BY <2>3, <3>2, <3>3
  <2>4. ASSUME IsRef(v), v.ht \in DOMAIN A, w.ht \in DOMAIN B, A[v.ht].kind = B[w.ht].kind
        PROVE  FieldIsRef(A, v) <=> FieldIsRef(B, w)
    <3>1. v.ht > 0 /\ w.ht > 0
      BY <2>4, AbsorbableFacts
    <3> QED
      BY <2>1, <2>4, <3>1 DEF FieldIsRef
  <2>5. CASE IsRef(v) /\ v.ht \in Group(A, t) /\ w.ht \in Group(B, u) /\ v.ht - A[t].start = w.ht - B[u].start
    <3>1. A[v.ht].kind = B[w.ht].kind
      BY <2>5, SameMembers
    <3> QED
      BY <2>4, <2>5, <3>1 DEF Group
  <2>6. CASE /\ IsRef(v) /\ v.ht \in DOMAIN A \ Group(A, t) /\ w.ht \in DOMAIN B \ Group(B, u)
             /\ SameTypes(A, B)[<<v.ht, w.ht>>]
    <3>1. SameType(A, v.ht, B, w.ht)
      BY <2>6 DEF SameType
    <3>2. A[v.ht].kind = B[w.ht].kind
      BY <2>6, <3>1, SameMembers
    <3> QED
      BY <2>4, <2>6, <3>2
  <2> QED
    BY <2>1, <2>2, <2>3, <2>5, <2>6 DEF AlikeHt
<1>3. CASE A[t].kind = "func"
  BY <1>1, <1>3 DEF Layout
<1>4. CASE A[t].kind # "func"
  <2>1. \A i \in DOMAIN A[t].fields :
          /\ FieldIsRef(A, A[t].fields[i].vt) = FieldIsRef(B, B[u].fields[i].vt)
          /\ (A[t].fields[i].vt.w = "v128") = (B[u].fields[i].vt.w = "v128")
    <3> TAKE i \in DOMAIN A[t].fields
    <3>1. AlikeVt(A, t, B, u, SameTypes(A, B), A[t].fields[i].vt, B[u].fields[i].vt)
      BY <1>1
    <3>2. FieldIsRef(A, A[t].fields[i].vt) <=> FieldIsRef(B, B[u].fields[i].vt)
      <4>1. IsRef(A[t].fields[i].vt) => A[t].fields[i].vt.ht \in Mentioned(A[t])
        BY DEF Mentioned
      <4>2. \A h \in Mentioned(A[t]) : h \in Int
        BY AbsorbableFacts DEF Scoped
      <4> QED
        BY <1>2, <3>1, <4>1, <4>2
    <3>3. FieldIsRef(A, A[t].fields[i].vt) \in BOOLEAN /\ FieldIsRef(B, B[u].fields[i].vt) \in BOOLEAN
      BY DEF FieldIsRef
    <3>4. A[t].fields[i].vt.w = B[u].fields[i].vt.w
      BY <3>1 DEF AlikeVt
    <3> QED
      BY <3>2, <3>3, <3>4
  <2> DEFINE cells(C, x) == [f \in DOMAIN C[x].fields |->
                               [ref |-> FieldIsRef(C, C[x].fields[f].vt), wide |-> C[x].fields[f].vt.w = "v128"]]
  <2>2. cells(A, t) = cells(B, u)
    BY <1>1, <2>1
  <2>3. Layout(A, t) = [kind |-> A[t].kind, gid |-> -1, cells |-> cells(A, t)]
    BY <1>4 DEF Layout
  <2>4. Layout(B, u) = [kind |-> B[u].kind, gid |-> -1, cells |-> cells(B, u)]
    BY <1>1, <1>4 DEF Layout
  <2> HIDE DEF cells
  <2> QED
    BY <1>1, <2>2, <2>3, <2>4
<1> QED
  BY <1>3, <1>4

\* What the registry records of a new id, of whatever type has it: the same kind, and the
\* same id of the declared supertype.
LEMMA SameSupers ==
  ASSUME NEW keys, NEW A \in Absorbable, NEW B \in Absorbable, NEW ia, NEW ib, Distinct(keys),
         Numbered(keys, [sec |-> A, ids |-> ia]), Numbered(keys, [sec |-> B, ids |-> ib]),
         NEW t \in DOMAIN ia, NEW u \in DOMAIN ib, ia[t] = ib[u]
  PROVE  A[t].kind = B[u].kind /\ Super(A[t], ia) = Super(B[u], ib)
<1>1. ASSUME NEW C \in Absorbable, NEW ic, Numbered(keys, [sec |-> C, ids |-> ic]), NEW x \in DOMAIN ic
      PROVE  /\ x \in DOMAIN C /\ x \in Int /\ C[x].start \in Int /\ C[x].super \in Int /\ C[x].super >= 0
             /\ ic[x] \in DOMAIN keys /\ keys[ic[x]] = KeyOf(C, x, ic)
             /\ C[x].super > 0 => C[x].super \in DOMAIN ic
             /\ x - C[x].start \in Places(C, x) /\ C[x].start + (x - C[x].start) = x
  <2>1. ic \in Seq(Nat) /\ Len(ic) <= Len(C) /\ ic[x] \in DOMAIN keys /\ keys[ic[x]] = KeyOf(C, x, ic)
    BY <1>1 DEF Numbered
  <2>2. DOMAIN ic = 1 .. Len(ic) /\ Len(ic) \in Nat /\ Len(C) \in Nat /\ DOMAIN C = 1 .. Len(C)
    BY <2>1, AbsorbableFacts
  <2>3. x \in DOMAIN C /\ x \in Int /\ x <= Len(ic)
    BY <2>1, <2>2
  <2>4. C[x].start \in 0 .. x - 1 /\ C[x].super \in 0 .. x - 1
    BY <2>3, AbsorbableFacts
  <2>5. x - C[x].start \in Places(C, x)
    BY <2>3 DEF Places, Group
  <2>6. C[x].super > 0 => C[x].super \in 1 .. Len(ic)
    BY <2>2, <2>3, <2>4
  <2> QED
    BY <2>1, <2>2, <2>3, <2>4, <2>5, <2>6
<1>2. KeyOf(A, t, ia) = KeyOf(B, u, ib)
  BY <1>1
<1> DEFINE GA == [p \in Places(A, t) |-> CanonMember(A[A[t].start + p], A, t, ia)]
           GB == [p \in Places(B, u) |-> CanonMember(B[B[u].start + p], B, u, ib)]
<1>3. GA = GB /\ t - A[t].start = u - B[u].start
  BY <1>2 DEF KeyOf
<1>4. CanonMember(A[t], A, t, ia) = CanonMember(B[u], B, u, ib)
  <2>1. t - A[t].start \in Places(A, t) /\ A[t].start + (t - A[t].start) = t
        /\ u - B[u].start \in Places(B, u) /\ B[u].start + (u - B[u].start) = u
    BY <1>1
  <2>2. GA[t - A[t].start] = CanonMember(A[t], A, t, ia)
    BY <2>1
  <2>3. GB[u - B[u].start] = CanonMember(B[u], B, u, ib)
    BY <2>1
  <2> HIDE DEF GA, GB
  <2> QED
    BY <1>3, <2>2, <2>3
<1>5. A[t].kind = B[u].kind /\ CanonRef(A[t].super, A, t, ia) = CanonRef(B[u].super, B, u, ib)
  BY <1>4 DEF CanonMember
<1>6. Super(A[t], ia) = Super(B[u], ib)
  <2> DEFINE h == A[t].super
             k == B[u].super
  <2>1. h \in Int /\ k \in Int /\ h >= 0 /\ k >= 0
    BY <1>1
  <2>2. CASE h <= 0 \/ k <= 0
    <3>1. h = 0 \/ k = 0
      BY <2>1, <2>2
    <3>2. h <= 0 <=> k <= 0
      BY <1>5, <2>1 DEF CanonRef
    <3>3. h = 0 /\ k = 0
      BY <2>1, <3>1, <3>2
    <3> QED
      BY <3>3 DEF Super
  <2>3. CASE h > 0 /\ k > 0
    <3>1. h \in DOMAIN ia /\ k \in DOMAIN ib
      BY <1>1, <2>3
    <3>2. CASE h \in Group(A, t)
      <4>1. k \in Group(B, u) /\ h - A[t].start = k - B[u].start
        BY <1>5, <2>1, <2>3, <3>2 DEF CanonRef
      <4>2. /\ A[h].start = A[t].start /\ Group(A, h) = Group(A, t) /\ Places(A, h) = Places(A, t)
            /\ B[k].start = B[u].start /\ Group(B, k) = Group(B, u) /\ Places(B, k) = Places(B, u)
        BY <3>2, <4>1 DEF Group, Places
      <4>3. \A m : CanonMember(m, A, h, ia) = CanonMember(m, A, t, ia)
        BY <4>2 DEF CanonMember, CanonVts, CanonVt, CanonRef
      <4>4. \A m : CanonMember(m, B, k, ib) = CanonMember(m, B, u, ib)
        BY <4>2 DEF CanonMember, CanonVts, CanonVt, CanonRef
      <4>5. [p \in Places(A, h) |-> CanonMember(A[A[h].start + p], A, h, ia)] = GA
        BY <4>2, <4>3
      <4>6. [p \in Places(B, k) |-> CanonMember(B[B[k].start + p], B, k, ib)] = GB
        BY <4>2, <4>4
      <4>7. KeyOf(A, h, ia) = [group |-> GA, place |-> h - A[h].start]
        BY <4>5 DEF KeyOf
      <4>8. KeyOf(B, k, ib) = [group |-> GB, place |-> k - B[k].start]
        BY <4>6 DEF KeyOf
      <4>9. KeyOf(A, h, ia) = KeyOf(B, k, ib)
        <5> HIDE DEF GA, GB, h, k
        <5> QED
          BY <1>3, <4>1, <4>2, <4>7, <4>8
      <4>10. ia[h] = ib[k]
        <5>1. ia[h] \in DOMAIN keys /\ keys[ia[h]] = KeyOf(A, h, ia)
          BY <1>1, <3>1
        <5>2. ib[k] \in DOMAIN keys /\ keys[ib[k]] = KeyOf(B, k, ib)
          BY <1>1, <3>1
        <5> HIDE DEF h, k
        <5> QED
          BY <4>9, <5>1, <5>2 DEF Distinct
      <4> QED
        BY <2>3, <4>10 DEF Super
    <3>3. CASE h \notin Group(A, t)
      <4>1. ia[h] = ib[k]
        BY <1>5, <2>1, <2>3, <3>3 DEF CanonRef
      <4> QED
        BY <2>3, <4>1 DEF Super
    <3> QED
      BY <3>2, <3>3
  <2> QED
    BY <2>1, <2>2, <2>3
<1> QED
  BY <1>5, <1>6

-----------------------------------------------------------------------------
(* What the registry records of an id                                      *)

\* The registry's entries for an id are those of the types that have it, and each id has one.
RttOf(A, t, g) == IF Layout(A, t) = NoRtt THEN NoRtt ELSE [Layout(A, t) EXCEPT !.gid = g]
Recorded(x) ==
  \A t \in DOMAIN x.ids : reg.kinds[x.ids[t]] = x.sec[t].kind /\ reg.supers[x.ids[t]] = Super(x.sec[t], x.ids)
Laid(x) ==
  \A t \in DOMAIN x.ids : x.ids[t] \in DOMAIN reg.rtts => reg.rtts[x.ids[t]] = RttOf(x.sec, t, x.ids[t])
Full == Len(reg.rtts) = Len(reg.keys) \/ (work = Idle /\ Len(insts) = MaxInsts)

OriginsOK == \A g \in DOMAIN reg.keys : \E x \in Absorbed : \E t \in DOMAIN x.ids : x.ids[t] = g
RecordsOK == \A x \in Absorbed : Recorded(x)
LayoutsOK == ~ HostMayBeNew =>
  /\ \A x \in Absorbed : Laid(x)
  /\ Full
  /\ \A i \in DOMAIN insts : \A t \in DOMAIN insts[i].sec :
       insts[i].rtts[t] = RttOf(insts[i].sec, t, insts[i].gcanon[t])
CanonsOK == \A i \in DOMAIN insts : insts[i].canon = Canon(insts[i].sec)
CastsInv == TypesInv /\ OriginsOK /\ RecordsOK /\ LayoutsOK /\ CanonsOK

\* The first n types of A have ids; with one more, the view of them is new.
OneMore(A, ids, n, id, x, new) ==
  n = Len(ids) /\ x = [sec |-> A, ids |-> ids] /\ new = [sec |-> A, ids |-> Append(ids, id)]

\* One more type of a section is absorbed: at an id of an equal type, or at a new one.
LEMMA OneMoreType ==
  ASSUME CastsInv, TypesInv',
         NEW A \in Absorbable, NEW ids, NEW n, NEW id, NEW x, NEW new, OneMore(A, ids, n, id, x, new),
         Numbered(reg.keys, x), Recorded(x), ~ HostMayBeNew => Laid(x),
         new \in Absorbed', Absorbed' \subseteq Absorbed \cup {new}, \A y \in Absorbed : y \in Absorbed' \/ y = x,
         DOMAIN reg'.keys = DOMAIN reg.keys \cup {id},
         \A g \in DOMAIN reg.keys : reg'.kinds[g] = reg.kinds[g] /\ reg'.supers[g] = reg.supers[g],
         id \notin DOMAIN reg.keys =>
           /\ reg'.kinds[id] = A[n + 1].kind /\ reg'.supers[id] = Super(A[n + 1], ids),
         ~ HostMayBeNew =>
           \A g \in DOMAIN reg'.rtts :
             \/ g \in DOMAIN reg.rtts /\ reg'.rtts[g] = reg.rtts[g]
             \/ g = id /\ id \notin DOMAIN reg.keys /\ reg'.rtts[g] = RttOf(A, n + 1, id),
         \A g \in DOMAIN reg.rtts : g \in DOMAIN reg.keys
  PROVE  OriginsOK' /\ RecordsOK' /\ (~ HostMayBeNew => \A y \in Absorbed' : Laid(y)')
<1>0. n = Len(ids) /\ x = [sec |-> A, ids |-> ids] /\ new = [sec |-> A, ids |-> Append(ids, id)]
  BY DEF OneMore
<1>1. /\ \A y \in Absorbed' : Numbered(reg'.keys, y)
      /\ \A y, z \in Absorbed' : Faithful(y, z)
      /\ Distinct(reg'.keys)
  BY DEF TypesInv, IdsOK, RegistryOK
<1>2. /\ \A y \in Absorbed : Numbered(reg.keys, y)
      /\ \A g \in DOMAIN reg.keys : \E y \in Absorbed : \E t \in DOMAIN y.ids : y.ids[t] = g
      /\ \A y \in Absorbed : Recorded(y)
      /\ ~ HostMayBeNew => \A y \in Absorbed : Laid(y)
  BY DEF CastsInv, TypesInv, IdsOK, OriginsOK, RecordsOK, LayoutsOK
<1> DEFINE many == Append(ids, id)
<1>3. /\ DOMAIN many = DOMAIN ids \cup {n + 1} /\ DOMAIN ids = 1 .. n /\ n \in Nat
      /\ many[n + 1] = id /\ \A t \in DOMAIN ids : many[t] = ids[t]
      /\ many \in Seq(Nat) /\ ids \in Seq(Nat) /\ Len(many) <= Len(A) /\ n + 1 \in DOMAIN A
  <2>1. new.ids = many /\ new.sec = A /\ x.ids = ids
    BY <1>0
  <2>2. many \in Seq(Nat) /\ ids \in Seq(Nat) /\ Len(many) <= Len(A)
    BY <1>1, <2>1 DEF Numbered
  <2>3. Len(many) = n + 1 /\ n \in Nat /\ DOMAIN ids = 1 .. n
    BY <1>0, <2>2
  <2>4. many[n + 1] = id /\ \A t \in 1 .. n : many[t] = ids[t]
    BY <1>0, <2>2
  <2> HIDE DEF many
  <2>5. DOMAIN many = 1 .. n + 1
    BY <2>2, <2>3
  <2>6. Len(A) \in Nat /\ DOMAIN A = 1 .. Len(A)
    BY AbsorbableFacts
  <2> QED
    BY <2>2, <2>3, <2>4, <2>5, <2>6
<1>4. new.ids = many /\ new.sec = A /\ x.ids = ids /\ x.sec = A
  BY <1>0
<1> HIDE DEF many
\* Ids that were there are there, with what is recorded of them.
<1>5. \A t \in DOMAIN A : A[t].super \in 0 .. t - 1
  BY AbsorbableFacts
<1>6. ASSUME NEW t \in 1 .. n + 1
      PROVE  Super(A[t], many) = Super(A[t], ids)
  <2>1. t \in DOMAIN A
    BY <1>3, AbsorbableFacts
  <2>2. A[t].super \in 0 .. t - 1
    BY <1>5, <2>1
  <2>3. A[t].super = 0 \/ A[t].super \in DOMAIN ids
    BY <1>3, <2>2
  <2> QED
    BY <1>3, <2>3 DEF Super
<1>7. OriginsOK'
  <2>1. ASSUME NEW g \in DOMAIN reg'.keys
        PROVE  \E y \in Absorbed' : \E t \in DOMAIN y.ids : y.ids[t] = g
    <3>1. CASE g = id
      <4>1. n + 1 \in DOMAIN new.ids /\ new.ids[n + 1] = g
        BY <1>3, <1>4, <3>1
      <4> QED
        BY <4>1
    <3>2. CASE g \in DOMAIN reg.keys
      <4>1. PICK y \in Absorbed : \E t \in DOMAIN y.ids : y.ids[t] = g
        BY <1>2, <3>2
      <4>2. CASE y \in Absorbed'
        BY <4>1, <4>2
      <4>3. CASE y = x
        <5>1. PICK t \in DOMAIN ids : ids[t] = g
          BY <1>4, <4>1, <4>3
        <5>2. t \in DOMAIN new.ids /\ new.ids[t] = g
          BY <1>3, <1>4, <5>1
        <5> QED
          BY <5>2
      <4> QED
        BY <4>2, <4>3
    <3> QED
      BY <3>1, <3>2
  <2> QED
    BY <2>1 DEF OriginsOK
<1>8. ASSUME NEW y \in Absorbed
      PROVE  Recorded(y)' /\ (~ HostMayBeNew => Laid(y)')
  <2>1. Numbered(reg.keys, y) /\ Recorded(y) /\ (~ HostMayBeNew => Laid(y))
    BY <1>2
  <2>2. \A t \in DOMAIN y.ids : y.ids[t] \in DOMAIN reg.keys
    BY <2>1 DEF Numbered
  <2> QED
    BY <2>1, <2>2 DEF Recorded, Laid
<1>9. Recorded(x)' /\ (~ HostMayBeNew => Laid(x)')
  <2>2. \A t \in DOMAIN x.ids : x.ids[t] \in DOMAIN reg.keys
    BY DEF Numbered
  <2> QED
    BY <2>2 DEF Recorded, Laid
<1>10. CASE id \notin DOMAIN reg.keys
  <2>1. ASSUME NEW t \in DOMAIN many
        PROVE  reg'.kinds[many[t]] = A[t].kind /\ reg'.supers[many[t]] = Super(A[t], many)
    <3>1. CASE t = n + 1
      BY <1>3, <1>6, <1>10, <3>1
    <3>2. CASE t \in DOMAIN ids
      <4>1. t \in 1 .. n + 1
        BY <1>3, <3>2
      <4> QED
        BY <1>3, <1>4, <1>6, <1>9, <3>2, <4>1 DEF Recorded
    <3> QED
      BY <1>3, <3>1, <3>2
  <2>2. ASSUME ~ HostMayBeNew, NEW t \in DOMAIN many, many[t] \in DOMAIN reg'.rtts
        PROVE  reg'.rtts[many[t]] = RttOf(A, t, many[t])
    <3>1. CASE t = n + 1
      BY <1>3, <1>10, <2>2, <3>1
    <3>2. CASE t \in DOMAIN ids
      BY <1>3, <1>4, <1>9, <2>2, <3>2 DEF Laid
    <3> QED
      BY <1>3, <3>1, <3>2
  <2>3. Recorded(new)' /\ (~ HostMayBeNew => Laid(new)')
    BY <1>4, <2>1, <2>2 DEF Recorded, Laid
  <2> QED
    BY <1>7, <1>8, <2>3 DEF RecordsOK
<1>11. CASE id \in DOMAIN reg.keys
  <2>0. PICK y \in Absorbed : \E u \in DOMAIN y.ids : y.ids[u] = id
    BY <1>2, <1>11
  <2>1. PICK u \in DOMAIN y.ids : y.ids[u] = id
    BY <2>0
  <2>2. PICK B : B = y.sec
    OBVIOUS
  <2>3. PICK ib : ib = y.ids
    OBVIOUS
  <2>4. u \in DOMAIN ib /\ ib[u] = id /\ Numbered(reg'.keys, [sec |-> B, ids |-> ib]) /\ B \in Absorbable /\ u \in DOMAIN B
    <3>1. Numbered(reg'.keys, y)
      <4>1. y \in Absorbed' \/ y = x
        OBVIOUS
      <4>2. y = x => Numbered(reg'.keys, y)
        <5>1. Numbered(reg'.keys, new)
          BY <1>1
        <5>2. \A t \in DOMAIN ids : many[t] \in DOMAIN reg'.keys /\ reg'.keys[many[t]] = KeyOf(A, t, many)
          <6>1. \A t \in DOMAIN new.ids : new.ids[t] \in DOMAIN reg'.keys
                                        /\ reg'.keys[new.ids[t]] = KeyOf(new.sec, t, new.ids)
            BY <5>1 DEF Numbered
          <6> QED
            BY ONLY <1>3, <1>4, <6>1
        <5>3. \A t \in DOMAIN ids : KeyOf(A, t, many) = KeyOf(A, t, ids)
          <6>1. ASSUME NEW t \in DOMAIN ids
                PROVE  KeyOf(A, t, many) = KeyOf(A, t, ids)
            <7>1. t \in DOMAIN A /\ t \in 1 .. n
              BY <1>3, AbsorbableFacts
            <7>2. A[t].start \in 0 .. t - 1
              BY <7>1, AbsorbableFacts
            <7>3. \A h \in 1 .. A[t].start : h \in 1 .. n
              BY <1>3, <7>1, <7>2
            <7>4. SameBefore(A, t, many, ids)
              BY <1>3, <7>3 DEF SameBefore
            <7> QED
              BY <7>1, <7>4, KeyOfPrefix
          <6> QED
            BY <6>1
        <5>4. x.sec \in Absorbable \cup {<< >>} /\ ids \in Seq(Nat) /\ Len(ids) <= Len(A)
          BY <1>4 DEF Numbered
        <5>5. \A t \in DOMAIN ids : ids[t] \in DOMAIN reg'.keys /\ reg'.keys[ids[t]] = KeyOf(A, t, ids)
          BY ONLY <1>3, <5>2, <5>3
        <5>6. Numbered(reg'.keys, x)
          BY ONLY <1>4, <5>4, <5>5 DEF Numbered
        <5> QED
          BY <5>6
      <4> QED
        BY <1>1, <4>1, <4>2
    <3>2. y.sec \in Absorbable \cup {<< >>} /\ ib \in Seq(Nat) /\ Len(ib) <= Len(B)
          /\ \A t \in DOMAIN ib : ib[t] \in DOMAIN reg'.keys /\ reg'.keys[ib[t]] = KeyOf(B, t, ib)
      BY <2>2, <2>3, <3>1 DEF Numbered
    <3>3. u \in 1 .. Len(ib) /\ Len(ib) \in Nat
      BY <2>1, <2>3, <3>2
    <3>4. Len(<< >>) = 0
      OBVIOUS
    <3>5. B \in Absorbable
      BY <2>2, <3>2, <3>3, <3>4
    <3>6. Len(B) \in Nat /\ DOMAIN B = 1 .. Len(B)
      BY <3>5, AbsorbableFacts
    <3>7. u \in DOMAIN B
      BY <3>2, <3>3, <3>6
    <3>8. Numbered(reg'.keys, [sec |-> B, ids |-> ib])
      BY <2>2, <3>2 DEF Numbered
    <3> QED
      BY <2>1, <2>3, <3>5, <3>7, <3>8
  <2>5. Numbered(reg'.keys, [sec |-> A, ids |-> many]) /\ n + 1 \in DOMAIN many /\ many[n + 1] = ib[u]
    <3>1. [sec |-> A, ids |-> many] = new
      BY <1>0 DEF many
    <3> QED
      BY <1>1, <1>3, <2>4, <3>1
  <2>6. A[n + 1].kind = B[u].kind /\ Super(A[n + 1], many) = Super(B[u], ib)
    <3>1. PICK keys : keys = reg'.keys
      OBVIOUS
    <3>2. Distinct(keys) /\ Numbered(keys, [sec |-> B, ids |-> ib]) /\ Numbered(keys, [sec |-> A, ids |-> many])
      BY <1>1, <2>4, <2>5, <3>1
    <3> QED
      BY ONLY <2>4, <2>5, <3>2, A \in Absorbable, SameSupers
  <2>7. reg'.kinds[id] = B[u].kind /\ reg'.supers[id] = Super(B[u], ib)
    BY <1>8, <2>1, <2>2, <2>3 DEF Recorded
  <2>8. SameType(A, n + 1, B, u)
    <3>1. CASE y \in Absorbed'
      <4>1. Faithful(new, y)
        BY <1>1, <3>1
      <4> QED
        BY <1>4, <2>2, <2>3, <2>4, <2>5, <4>1 DEF Faithful
    <3>2. CASE y = x
      <4>1. Faithful(new, new)
        BY <1>1
      <4>2. B = A /\ ib = ids /\ u \in DOMAIN many /\ many[u] = ib[u]
        BY <1>3, <1>4, <2>2, <2>3, <2>4, <3>2
      <4> QED
        BY <1>4, <2>5, <4>1, <4>2 DEF Faithful
    <3> QED
      BY <3>1, <3>2
  <2>9. Layout(A, n + 1) = Layout(B, u)
    BY <1>3, <2>4, <2>8, SameLayouts
  <2>10. ASSUME NEW t \in DOMAIN many
         PROVE  reg'.kinds[many[t]] = A[t].kind /\ reg'.supers[many[t]] = Super(A[t], many)
    <3>1. CASE t = n + 1
      BY <1>3, <2>6, <2>7, <3>1
    <3>2. CASE t \in DOMAIN ids
      <4>1. t \in 1 .. n + 1
        BY <1>3, <3>2
      <4> QED
        BY <1>3, <1>4, <1>6, <1>9, <3>2, <4>1 DEF Recorded
    <3> QED
      BY <1>3, <3>1, <3>2
  <2>11. ASSUME ~ HostMayBeNew, NEW t \in DOMAIN many, many[t] \in DOMAIN reg'.rtts
         PROVE  reg'.rtts[many[t]] = RttOf(A, t, many[t])
    <3>1. CASE t = n + 1
      <4>1. reg'.rtts[id] = RttOf(B, u, id)
        BY <1>3, <1>8, <2>1, <2>2, <2>3, <2>11, <3>1 DEF Laid
      <4> QED
        BY <1>3, <2>9, <3>1, <4>1 DEF RttOf
    <3>2. CASE t \in DOMAIN ids
      BY <1>3, <1>4, <1>9, <2>11, <3>2 DEF Laid
    <3> QED
      BY <1>3, <3>1, <3>2
  <2>12. Recorded(new)' /\ (~ HostMayBeNew => Laid(new)')
    BY <1>4, <2>10, <2>11 DEF Recorded, Laid
  <2> QED
    BY <1>7, <1>8, <2>12 DEF RecordsOK
<1> QED
  BY <1>10, <1>11

\* An empty registry records nothing.
LEMMA InitCastsInv == Init => CastsInv
<1> SUFFICES ASSUME Init PROVE CastsInv
  OBVIOUS
<1>1. /\ reg = [keys |-> << >>, kinds |-> << >>, supers |-> << >>, rtts |-> << >>]
      /\ insts = << >> /\ work = [sec |-> << >>, ids |-> << >>] /\ hosts = << >>
  BY DEF Init, Idle
<1>2. DOMAIN << >> = {} /\ Len(<< >>) = 0
  OBVIOUS
<1>3. OriginsOK
  BY <1>1, <1>2 DEF OriginsOK
<1>4. Absorbed = {[sec |-> << >>, ids |-> << >>]}
  BY <1>1, <1>2 DEF Absorbed
<1>5. RecordsOK
  BY <1>2, <1>4 DEF RecordsOK, Recorded
<1>6. LayoutsOK
  BY <1>1, <1>2, <1>4 DEF LayoutsOK, Laid, Full
<1>7. CanonsOK
  BY <1>1, <1>2 DEF CanonsOK
<1> QED
  BY <1>3, <1>5, <1>6, <1>7, InitTypesInv DEF CastsInv

\* jav_instantiate records nothing yet.
LEMMA InstantiateKeepsCasts == ASSUME CastsInv, NEW sec \in ValidSections, Instantiate(sec) PROVE CastsInv'
<1>1. /\ work = [sec |-> << >>, ids |-> << >>] /\ work' = [sec |-> sec, ids |-> << >>]
      /\ reg' = reg /\ insts' = insts /\ hosts' = hosts /\ Len(insts) < MaxInsts
  BY DEF Instantiate, Idle
<1>2. TypesInv'
  BY InstantiateKeepsInv DEF CastsInv
<1>3. DOMAIN << >> = {} /\ work.ids = << >> /\ work'.ids = << >>
  BY <1>1
<1>4. \A x \in Absorbed' : x \in Absorbed \/ x.ids = << >>
  BY <1>1, <1>3 DEF Absorbed, View, HostView
<1>5. \A x \in Absorbed : x \in Absorbed' \/ x.ids = << >>
  BY <1>1, <1>3 DEF Absorbed, View, HostView
<1>6. OriginsOK'
  BY <1>1, <1>3, <1>5 DEF CastsInv, OriginsOK
<1>7. RecordsOK'
  BY <1>1, <1>3, <1>4 DEF CastsInv, RecordsOK, Recorded
<1>8. LayoutsOK'
  <2>1. ~ HostMayBeNew => \A x \in Absorbed' : Laid(x)'
    BY <1>1, <1>3, <1>4 DEF CastsInv, LayoutsOK, Laid
  <2>2. Full => Full'
    <3>1. Len(insts) \in Nat
      BY DEF CastsInv, TypesInv, UsersOK
    <3>2. Len(insts) # MaxInsts
      BY <1>1, <3>1
    <3> QED
      BY <1>1, <3>2 DEF Full
  <2> QED
    BY <1>1, <2>1, <2>2 DEF CastsInv, LayoutsOK, RttOf
<1>9. CanonsOK'
  BY <1>1 DEF CastsInv, CanonsOK
<1> QED
  BY <1>2, <1>6, <1>7, <1>8, <1>9 DEF CastsInv

\* The finished instance keeps, per type, a copy of what the registry has at its id.
LEMMA AbsorbDoneKeepsCasts == ASSUME CastsInv, AbsorbDone PROVE CastsInv'
<1> DEFINE inst == [sec |-> work.sec, canon |-> Canon(work.sec), gcanon |-> work.ids,
                    rtts |-> [t \in DOMAIN work.sec |-> TyperegRtt(work.ids[t])]]
<1>1. /\ insts' = Append(insts, inst) /\ work' = [sec |-> << >>, ids |-> << >>]
      /\ reg' = reg /\ hosts' = hosts /\ work # Idle /\ Len(work.ids) = Len(work.sec)
  BY DEF AbsorbDone, Idle
<1>2. TypesInv /\ TypesInv'
  BY AbsorbDoneKeepsInv DEF CastsInv
<1>3. /\ insts \in Seq(InstSet) /\ work \in [sec : ValidSections \cup {<< >>}, ids : Seq(Nat)]
      /\ insts' \in Seq(InstSet)
  BY <1>2 DEF TypesInv, UsersOK
<1>4. inst.sec = work.sec /\ inst.gcanon = work.ids /\ inst.canon = Canon(work.sec)
      /\ inst.rtts = [t \in DOMAIN work.sec |-> TyperegRtt(work.ids[t])]
  OBVIOUS
<1> HIDE DEF inst
<1> PICK n : n = Len(insts)
  OBVIOUS
<1>5. /\ DOMAIN insts' = DOMAIN insts \cup {n + 1}
      /\ \A i \in DOMAIN insts : insts'[i] = insts[i]
      /\ insts'[n + 1] = inst /\ n \in Nat
  <2>1. Len(insts') = n + 1 /\ n \in Nat /\ DOMAIN insts = 1 .. n
    BY <1>1, <1>3
  <2>2. DOMAIN insts' = 1 .. n + 1
    BY <1>3, <2>1
  <2>3. \A i \in 1 .. n : insts'[i] = insts[i]
    BY <1>1, <1>3
  <2>4. insts'[n + 1] = inst
    BY <1>1, <1>3
  <2> QED
    BY <2>1, <2>2, <2>3, <2>4
<1>6. View(n + 1)' = work /\ \A i \in DOMAIN insts : View(i)' = View(i)
  <2>1. View(n + 1)' = [sec |-> inst.sec, ids |-> inst.gcanon]
    BY <1>5 DEF View
  <2>2. \A i \in DOMAIN insts : View(i)' = View(i)
    BY <1>5 DEF View
  <2> QED
    BY <1>3, <1>4, <2>1, <2>2
<1>7. \A h : HostView(h)' = HostView(h)
  BY <1>1 DEF HostView
<1>8. DOMAIN << >> = {} /\ work'.ids = << >>
  BY <1>1
<1>9. \A x \in Absorbed' : x \in Absorbed \/ x.ids = << >>
  <2>1. \A i \in DOMAIN insts' : View(i)' \in Absorbed
    BY <1>5, <1>6 DEF Absorbed
  <2>2. \A h \in DOMAIN hosts' : HostView(h)' \in Absorbed
    BY <1>1, <1>7 DEF Absorbed
  <2> QED
    BY <1>8, <2>1, <2>2 DEF Absorbed
<1>10. \A x \in Absorbed : x \in Absorbed'
  <2>1. work \in Absorbed'
    BY <1>5, <1>6 DEF Absorbed
  <2>2. \A i \in DOMAIN insts : View(i) \in Absorbed'
    <3>1. \A i \in DOMAIN insts' : View(i)' \in Absorbed'
      BY DEF Absorbed
    <3> QED
      BY <1>5, <1>6, <3>1
  <2>3. \A h \in DOMAIN hosts : HostView(h) \in Absorbed'
    <3>1. \A h \in DOMAIN hosts' : HostView(h)' \in Absorbed'
      BY DEF Absorbed
    <3> QED
      BY <1>1, <1>7, <3>1
  <2> QED
    BY <2>1, <2>2, <2>3 DEF Absorbed
<1>11. OriginsOK'
  BY <1>1, <1>10 DEF CastsInv, OriginsOK
<1>12. RecordsOK'
  BY <1>1, <1>8, <1>9 DEF CastsInv, RecordsOK, Recorded
<1>13. LayoutsOK'
  <2>1. SUFFICES ASSUME ~ HostMayBeNew PROVE LayoutsOK'
    BY DEF LayoutsOK
  <2>2. \A x \in Absorbed' : Laid(x)'
    BY <1>1, <1>8, <1>9, <2>1 DEF CastsInv, LayoutsOK, Laid
  <2>3. Len(reg.rtts) = Len(reg.keys)
    BY <1>1, <2>1 DEF CastsInv, LayoutsOK, Full
  <2>4. \A t \in DOMAIN work.sec : t \in DOMAIN work.ids
    <3>1. work.sec \in Absorbable
      <4>1. ASSUME work.sec = << >> PROVE FALSE
        <5>1. work.ids = << >>
          BY <1>1, <1>3, <4>1
        <5> QED
          BY <1>1, <1>3, <4>1, <5>1 DEF Idle
      <4> QED
        BY <1>3, <4>1 DEF Absorbable
    <3>2. DOMAIN work.sec = 1 .. Len(work.sec)
      BY <3>1, AbsorbableFacts
    <3> QED
      BY <1>1, <1>3, <3>2
  <2>5. ASSUME NEW t \in DOMAIN work.sec
        PROVE  inst.rtts[t] = RttOf(work.sec, t, work.ids[t])
    <3>1. work.ids[t] \in DOMAIN reg.keys
      <4>1. Numbered(reg.keys, work)
        BY <1>2 DEF TypesInv, IdsOK, Absorbed
      <4> QED
        BY <2>4, <4>1 DEF Numbered
    <3>2. work.ids[t] \in DOMAIN reg.rtts
      <4>1. reg.keys \in Seq(KeySet) /\ reg.rtts \in Seq(LayoutSet)
        BY <1>2 DEF TypesInv, RegistryOK
      <4> QED
        BY <2>3, <3>1, <4>1
    <3>3. Laid(work)
      BY <2>1 DEF CastsInv, LayoutsOK, Absorbed
    <3>4. reg.rtts[work.ids[t]] = RttOf(work.sec, t, work.ids[t])
      BY <2>4, <3>2, <3>3 DEF Laid
    <3> QED
      BY <1>4, <3>2, <3>4 DEF TyperegRtt
  <2>6. ASSUME NEW i \in DOMAIN insts', NEW t \in DOMAIN insts'[i].sec
        PROVE  insts'[i].rtts[t] = RttOf(insts'[i].sec, t, insts'[i].gcanon[t])
    <3>1. CASE i \in DOMAIN insts
      BY <1>5, <2>1, <3>1 DEF CastsInv, LayoutsOK
    <3>2. CASE i = n + 1
      BY <1>4, <1>5, <2>5, <3>2
    <3> QED
      BY <1>5, <3>1, <3>2
  <2>7. Full'
    BY <1>1, <2>3 DEF Full
  <2> QED
    BY <2>2, <2>6, <2>7 DEF LayoutsOK, RttOf
<1>14. CanonsOK'
  BY <1>4, <1>5 DEF CastsInv, CanonsOK
<1> QED
  BY <1>2, <1>11, <1>12, <1>13, <1>14 DEF CastsInv

\* jav_typereg_absorb records the kind, supertype and layout of a new id only.
LEMMA AbsorbNextKeepsCasts == ASSUME CastsInv, AbsorbNext PROVE CastsInv'
<1> DEFINE A == work.sec
           ids == work.ids
           n == Len(ids)
           key == KeyOf(A, n + 1, ids)
           id == IdOf(reg.keys, key)
           new == [sec |-> A, ids |-> Append(ids, id)]
<1>1. /\ n < Len(A)
      /\ work' = [work EXCEPT !.ids = Append(ids, id)]
      /\ reg' = IF Known(reg.keys, key) THEN reg ELSE WithNew(key, A[n + 1], Super(A[n + 1], ids), Layout(A, n + 1))
      /\ insts' = insts /\ hosts' = hosts
  BY DEF AbsorbNext, AbsorbType
<1>2. TypesInv /\ TypesInv'
  BY AbsorbNextKeepsInv DEF CastsInv
<1>3. /\ work \in [sec : ValidSections \cup {<< >>}, ids : Seq(Nat)]
      /\ reg \in [keys : Seq(KeySet), kinds : Seq(Kind), supers : Seq(Nat), rtts : Seq(LayoutSet)]
      /\ Len(reg.kinds) = Len(reg.keys) /\ Len(reg.supers) = Len(reg.keys) /\ Len(reg.rtts) <= Len(reg.keys)
      /\ Distinct(reg.keys) /\ Numbered(reg.keys, work)
  BY <1>2 DEF TypesInv, RegistryOK, UsersOK, IdsOK, Absorbed
<1>4. A \in Absorbable /\ n \in Nat /\ n + 1 \in DOMAIN A /\ n + 1 \in Nat
  <2>1. Len(<< >>) = 0 /\ n \in Nat
    BY <1>3
  <2>2. A # << >>
    BY <1>1, <2>1
  <2>3. A \in Absorbable
    BY <1>3, <2>2 DEF Absorbable
  <2>4. Len(A) \in Nat /\ DOMAIN A = 1 .. Len(A)
    BY <2>3, AbsorbableFacts
  <2> QED
    BY <1>1, <2>1, <2>3, <2>4
<1>5. work = [sec |-> A, ids |-> ids] /\ work \in Absorbed /\ work' = new /\ new \in Absorbed'
  <2>1. work = [sec |-> A, ids |-> ids]
    BY <1>3
  <2> QED
    BY <1>1, <2>1 DEF Absorbed
<1>6. Absorbed' \subseteq Absorbed \cup {new} /\ \A y \in Absorbed : y \in Absorbed' \/ y = work
  BY <1>1, <1>5 DEF Absorbed, View, HostView
<1>7. key \in KeySet
  <2>1. ids \in Seq(Nat)
    BY <1>3
  <2> HIDE DEF A, ids, n
  <2> QED
    BY <1>4, <2>1 DEF KeySet
<1>8. A[n + 1].kind \in Kind
  <2> HIDE DEF A, n
  <2> QED
    BY <1>4, AbsorbableFacts
<1>9. \A g \in DOMAIN reg.rtts : g \in DOMAIN reg.keys
  BY <1>3
<1>10. /\ DOMAIN reg'.keys = DOMAIN reg.keys \cup {id}
       /\ \A g \in DOMAIN reg.keys : reg'.kinds[g] = reg.kinds[g] /\ reg'.supers[g] = reg.supers[g]
       /\ id \notin DOMAIN reg.keys =>
            /\ reg'.kinds[id] = A[n + 1].kind /\ reg'.supers[id] = Super(A[n + 1], ids)
       /\ ~ HostMayBeNew =>
            \A g \in DOMAIN reg'.rtts :
              \/ g \in DOMAIN reg.rtts /\ reg'.rtts[g] = reg.rtts[g]
              \/ g = id /\ id \notin DOMAIN reg.keys /\ reg'.rtts[g] = RttOf(A, n + 1, id)
       /\ Len(reg.rtts) = Len(reg.keys) => Len(reg'.rtts) = Len(reg'.keys)
  <2>1. CASE Known(reg.keys, key)
    <3> HIDE DEF A, ids, n, key, new
    <3>1. id \in DOMAIN reg.keys
      BY <2>1 DEF IdOf, Known
    <3> HIDE DEF id
    <3>2. reg' = reg
      BY <1>1, <2>1
    <3> QED
      BY <3>1, <3>2
  <2>2. CASE ~ Known(reg.keys, key)
    <3> PICK m : m = Len(reg.keys)
      OBVIOUS
    <3>1. id = m + 1
      BY <2>2 DEF IdOf
    <3> DEFINE rtt == RttOf(A, n + 1, m + 1)
               super == Super(A[n + 1], ids)
               kind == A[n + 1].kind
    <3>2. reg'.keys = Append(reg.keys, key) /\ reg'.kinds = Append(reg.kinds, kind)
          /\ reg'.supers = Append(reg.supers, super) /\ reg'.rtts = Append(reg.rtts, rtt)
      BY <1>1, <2>2 DEF WithNew, RttOf
    <3> DEFINE L == LayoutSet \cup {rtt}
               N == Nat \cup {super}
    <3>3. reg.supers \in Seq(N) /\ reg.rtts \in Seq(L) /\ rtt \in L /\ super \in N
      <4> HIDE DEF A, ids, n, key, new, id, rtt, super, kind
      <4>1. reg.supers \in Seq(Nat) /\ reg.rtts \in Seq(LayoutSet)
        BY <1>3
      <4> QED
        BY <4>1, SeqWith
    <3> HIDE DEF A, ids, n, key, new, id, rtt, super, kind
    <3>4. kind \in Kind
      BY <1>8 DEF kind
    <3> HIDE DEF L, N
    <3>5. /\ m \in Nat /\ m + 1 \notin DOMAIN reg.keys
          /\ DOMAIN Append(reg.keys, key) = DOMAIN reg.keys \cup {m + 1}
          /\ \A g \in DOMAIN reg.keys : /\ Append(reg.kinds, kind)[g] = reg.kinds[g]
                                        /\ Append(reg.supers, super)[g] = reg.supers[g]
          /\ Append(reg.kinds, kind)[m + 1] = kind /\ Append(reg.supers, super)[m + 1] = super
      <4>1. /\ reg.keys \in Seq(KeySet) /\ reg.kinds \in Seq(Kind) /\ Len(reg.kinds) = m /\ Len(reg.supers) = m
        BY <1>3
      <4>2. m \in Nat /\ DOMAIN reg.keys = 1 .. m /\ DOMAIN Append(reg.keys, key) = 1 .. m + 1
        BY <1>7, <4>1, AppendFacts
      <4>3. (\A g \in 1 .. m : Append(reg.kinds, kind)[g] = reg.kinds[g]) /\ Append(reg.kinds, kind)[m + 1] = kind
        BY <3>4, <4>1, AppendFacts
      <4>4. (\A g \in 1 .. m : Append(reg.supers, super)[g] = reg.supers[g]) /\ Append(reg.supers, super)[m + 1] = super
        BY <3>3, <4>1, AppendFacts
      <4>5. m + 1 \notin 1 .. m /\ 1 .. m + 1 = 1 .. m \cup {m + 1}
        BY <4>2
      <4> QED
        BY <4>2, <4>3, <4>4, <4>5, Zenon
    <3>6. /\ Len(Append(reg.rtts, rtt)) = Len(reg.rtts) + 1 /\ Len(reg.rtts) \in Nat
          /\ DOMAIN Append(reg.rtts, rtt) = 1 .. Len(reg.rtts) + 1 /\ DOMAIN reg.rtts = 1 .. Len(reg.rtts)
          /\ \A i \in 1 .. Len(reg.rtts) : Append(reg.rtts, rtt)[i] = reg.rtts[i]
          /\ Append(reg.rtts, rtt)[Len(reg.rtts) + 1] = rtt
      BY <3>3, AppendFacts
    <3>7. Len(Append(reg.keys, key)) = m + 1
      BY <1>3, <1>7, AppendFacts
    <3>8. ~ HostMayBeNew => Len(reg.rtts) = m
      <4>1. Len(<< >>) = 0
        OBVIOUS
      <4>2. work # Idle
        BY <1>1, <1>4, <4>1 DEF Idle, A, ids, n
      <4> QED
        BY <4>2 DEF CastsInv, LayoutsOK, Full
    <3>9. \A g \in DOMAIN reg'.rtts : \/ g \in DOMAIN reg.rtts /\ reg'.rtts[g] = reg.rtts[g]
                                      \/ g = Len(reg.rtts) + 1 /\ reg'.rtts[g] = rtt
      BY <3>2, <3>6
    <3> QED
      BY <3>1, <3>2, <3>5, <3>6, <3>7, <3>8, <3>9 DEF rtt, super, kind
  <2> QED
    BY <2>1, <2>2
<1>11. Recorded(work) /\ (~ HostMayBeNew => Laid(work))
  BY <1>5 DEF CastsInv, RecordsOK, LayoutsOK
<1> HIDE DEF key, id
<1>12. OriginsOK' /\ RecordsOK' /\ (~ HostMayBeNew => \A y \in Absorbed' : Laid(y)')
  <2> PICK ty, is, x, nw, k : ty = A /\ is = ids /\ x = work /\ nw = new /\ k = n
    OBVIOUS
  <2>1. /\ ty \in Absorbable /\ OneMore(ty, is, k, id, x, nw)
        /\ Numbered(reg.keys, x) /\ Recorded(x) /\ (~ HostMayBeNew => Laid(x))
        /\ nw \in Absorbed' /\ Absorbed' \subseteq Absorbed \cup {nw} /\ \A y \in Absorbed : y \in Absorbed' \/ y = x
    BY <1>3, <1>4, <1>5, <1>6, <1>11 DEF OneMore
  <2>2. /\ id \notin DOMAIN reg.keys => /\ reg'.kinds[id] = ty[k + 1].kind /\ reg'.supers[id] = Super(ty[k + 1], is)
        /\ ~ HostMayBeNew =>
             \A g \in DOMAIN reg'.rtts :
               \/ g \in DOMAIN reg.rtts /\ reg'.rtts[g] = reg.rtts[g]
               \/ g = id /\ id \notin DOMAIN reg.keys /\ reg'.rtts[g] = RttOf(ty, k + 1, id)
    BY <1>10
  <2> HIDE DEF A, ids, n, new
  <2> QED
    BY <1>2, <1>9, <1>10, <2>1, <2>2, OneMoreType
<1>13. LayoutsOK'
  <2>1. SUFFICES ASSUME ~ HostMayBeNew PROVE LayoutsOK'
    BY DEF LayoutsOK
  <2>2. Len(reg.rtts) = Len(reg.keys)
    <3>1. Len(<< >>) = 0
      OBVIOUS
    <3>2. work # Idle
      BY <1>1, <1>4, <3>1 DEF Idle
    <3> QED
      BY <2>1, <3>2 DEF CastsInv, LayoutsOK, Full
  <2>3. Full'
    BY <1>10, <2>2 DEF Full
  <2>4. \A i \in DOMAIN insts' : \A t \in DOMAIN insts'[i].sec :
          insts'[i].rtts[t] = RttOf(insts'[i].sec, t, insts'[i].gcanon[t])
    BY <1>1, <2>1 DEF CastsInv, LayoutsOK
  <2> QED
    BY <1>12, <2>1, <2>3, <2>4 DEF LayoutsOK, RttOf
<1>14. CanonsOK'
  BY <1>1 DEF CastsInv, CanonsOK
<1> QED
  BY <1>2, <1>12, <1>13, <1>14 DEF CastsInv

\* jav_typereg_intern_functype records a kind and no layout, after the last module has come.
LEMMA InternHostKeepsCasts == ASSUME CastsInv, NEW h \in HostTypes, InternHost(h) PROVE CastsInv'
<1> DEFINE A == HostSection(h)
           key == HostKey(h)
           id == IdOf(reg.keys, key)
           new == [sec |-> A, ids |-> Append(<< >>, id)]
           empty == [sec |-> A, ids |-> << >>]
<1>1. /\ work = Idle /\ h \notin DOMAIN hosts
      /\ HostMayBeNew \/ Known(reg.keys, key) \/ Len(insts) = MaxInsts
      /\ hosts' = [x \in DOMAIN hosts \cup {h} |-> IF x = h THEN id ELSE hosts[x]]
      /\ reg' = IF Known(reg.keys, key) THEN reg
                ELSE [reg EXCEPT !.keys = Append(@, key), !.kinds = Append(@, "func"), !.supers = Append(@, 0)]
      /\ insts' = insts /\ work' = work
  BY DEF InternHost
<1>2. TypesInv /\ TypesInv'
  BY InternHostKeepsInv DEF CastsInv
<1>3. /\ reg \in [keys : Seq(KeySet), kinds : Seq(Kind), supers : Seq(Nat), rtts : Seq(LayoutSet)]
      /\ Len(reg.kinds) = Len(reg.keys) /\ Len(reg.supers) = Len(reg.keys) /\ Len(reg.rtts) <= Len(reg.keys)
  BY <1>2 DEF TypesInv, RegistryOK
<1>4. A \in Absorbable
  BY <1>1 DEF InternHost, HostHeads, Absorbable
<1>5. A[1].kind = "func" /\ A[1].super = 0
  BY DEF HostSection, Func
<1>6. Len(<< >>) = 0 /\ Append(<< >>, id) = <<id>> /\ DOMAIN << >> = {}
  BY SMT
<1>7. HostView(h)' = new /\ \A k \in DOMAIN hosts : HostView(k)' = HostView(k)
  BY <1>1, <1>6 DEF HostView
<1>8. DOMAIN hosts' = DOMAIN hosts \cup {h}
  BY <1>1
<1> HIDE DEF A, new, key, id
<1>9. /\ new \in Absorbed' /\ Absorbed' \subseteq Absorbed \cup {new}
      /\ \A y \in Absorbed : y \in Absorbed'
  <2>1. \A i \in DOMAIN insts : View(i)' = View(i)
    BY <1>1 DEF View
  <2>2. new \in Absorbed'
    <3>1. HostView(h)' \in Absorbed'
      BY <1>8 DEF Absorbed
    <3> QED
      BY <1>7, <3>1
  <2>3. \A y \in Absorbed' : y \in Absorbed \/ y = new
    <3>1. \A k \in DOMAIN hosts' : HostView(k)' \in Absorbed \cup {new}
      BY <1>7, <1>8 DEF Absorbed
    <3> QED
      BY <1>1, <2>1, <3>1 DEF Absorbed
  <2>4. \A y \in Absorbed : y \in Absorbed'
    <3>1. \A k \in DOMAIN hosts : HostView(k) \in Absorbed'
      <4>1. \A k \in DOMAIN hosts' : HostView(k)' \in Absorbed'
        BY DEF Absorbed
      <4> QED
        BY <1>7, <1>8, <4>1
    <3>2. \A i \in DOMAIN insts : View(i) \in Absorbed'
      <4>1. \A i \in DOMAIN insts' : View(i)' \in Absorbed'
        BY DEF Absorbed
      <4> QED
        BY <1>1, <2>1, <4>1
    <3>3. work \in Absorbed'
      BY <1>1 DEF Absorbed
    <3> QED
      BY <3>1, <3>2, <3>3 DEF Absorbed
  <2> QED
    BY <2>2, <2>3, <2>4
<1>10. key \in KeySet
  <2>1. << >> \in Seq(Nat) /\ 1 \in Nat
    OBVIOUS
  <2>2. key = KeyOf(A, 1, << >>)
    BY DEF key, A, HostKey
  <2>3. PICK ids \in Seq(Nat) : key = KeyOf(A, 1, ids)
    BY <2>1, <2>2
  <2> QED
    BY <1>4, <2>1, <2>3 DEF KeySet
<1>11. Super(A[1], << >>) = 0 /\ Layout(A, 1) = NoRtt
  BY <1>5 DEF Super, Layout
<1>12. /\ DOMAIN reg'.keys = DOMAIN reg.keys \cup {id}
       /\ \A g \in DOMAIN reg.keys : reg'.kinds[g] = reg.kinds[g] /\ reg'.supers[g] = reg.supers[g]
       /\ id \notin DOMAIN reg.keys => reg'.kinds[id] = A[1].kind /\ reg'.supers[id] = Super(A[1], << >>)
       /\ reg'.rtts = reg.rtts
  <2>1. CASE Known(reg.keys, key)
    <3>1. id \in DOMAIN reg.keys
      BY <2>1 DEF IdOf, Known, id
    <3>2. reg' = reg
      BY <1>1, <2>1 DEF key
    <3> QED
      BY <3>1, <3>2
  <2>2. CASE ~ Known(reg.keys, key)
    <3> PICK m : m = Len(reg.keys)
      OBVIOUS
    <3>1. id = m + 1
      BY <2>2 DEF IdOf, id
    <3>2. reg'.keys = Append(reg.keys, key) /\ reg'.kinds = Append(reg.kinds, "func")
          /\ reg'.supers = Append(reg.supers, 0) /\ reg'.rtts = reg.rtts
      BY <1>1, <1>3, <2>2
    <3>3. /\ reg.keys \in Seq(KeySet) /\ reg.kinds \in Seq(Kind) /\ Len(reg.kinds) = m
          /\ reg.supers \in Seq(Nat) /\ Len(reg.supers) = m /\ "func" \in Kind /\ 0 \in Nat
      BY <1>3 DEF Kind
    <3>4. m \in Nat /\ DOMAIN reg.keys = 1 .. m /\ DOMAIN Append(reg.keys, key) = 1 .. m + 1
      BY <1>10, <3>3, AppendFacts
    <3>5. (\A g \in 1 .. m : Append(reg.kinds, "func")[g] = reg.kinds[g]) /\ Append(reg.kinds, "func")[m + 1] = "func"
      BY <3>3, AppendFacts
    <3>6. (\A g \in 1 .. m : Append(reg.supers, 0)[g] = reg.supers[g]) /\ Append(reg.supers, 0)[m + 1] = 0
      BY <3>3, AppendFacts
    <3>7. m + 1 \notin 1 .. m /\ 1 .. m + 1 = 1 .. m \cup {m + 1}
      BY <3>4
    <3>8. DOMAIN reg'.keys = DOMAIN reg.keys \cup {id}
      BY <3>1, <3>2, <3>4, <3>7
    <3>9. \A g \in DOMAIN reg.keys : reg'.kinds[g] = reg.kinds[g] /\ reg'.supers[g] = reg.supers[g]
      BY <3>2, <3>4, <3>5, <3>6
    <3>10. reg'.kinds[id] = "func" /\ reg'.supers[id] = 0
      BY <3>1, <3>2, <3>5, <3>6
    <3> QED
      BY <1>5, <1>11, <3>2, <3>8, <3>9, <3>10
  <2> QED
    BY <2>1, <2>2
<1>13. OriginsOK' /\ RecordsOK' /\ (~ HostMayBeNew => \A y \in Absorbed' : Laid(y)')
  <2> PICK is, k : is = << >> /\ k = 0
    OBVIOUS
  <2>1. OneMore(A, is, k, id, empty, new) /\ k + 1 = 1
    BY <1>6 DEF OneMore, new
  <2>2. Numbered(reg.keys, empty)
    BY <1>4, NothingNumbered
  <2>3. Recorded(empty) /\ Laid(empty)
    BY <1>6 DEF Recorded, Laid
  <2>4. \A g \in DOMAIN reg.rtts : g \in DOMAIN reg.keys
    BY <1>3
  <2>5. /\ id \notin DOMAIN reg.keys => /\ reg'.kinds[id] = A[k + 1].kind /\ reg'.supers[id] = Super(A[k + 1], is)
        /\ ~ HostMayBeNew =>
             \A g \in DOMAIN reg'.rtts :
               \/ g \in DOMAIN reg.rtts /\ reg'.rtts[g] = reg.rtts[g]
               \/ g = id /\ id \notin DOMAIN reg.keys /\ reg'.rtts[g] = RttOf(A, k + 1, id)
    BY <1>12, <2>1
  <2> HIDE DEF empty
  <2>6. \A y \in Absorbed : y \in Absorbed' \/ y = empty
    BY <1>9
  <2> QED
    BY <1>2, <1>4, <1>9, <1>12, <2>1, <2>2, <2>3, <2>4, <2>5, <2>6, OneMoreType
<1>14. LayoutsOK'
  <2>1. SUFFICES ASSUME ~ HostMayBeNew PROVE LayoutsOK'
    BY DEF LayoutsOK
  <2>2. Full
    BY <2>1 DEF CastsInv, LayoutsOK
  <2>3. Full'
    <3>1. Known(reg.keys, key) => reg' = reg
      BY <1>1 DEF key
    <3>2. ~ Known(reg.keys, key) => Len(insts) = MaxInsts
      BY <1>1, <2>1 DEF key
    <3> QED
      BY <1>1, <2>2, <3>1, <3>2 DEF Full, Idle
  <2>4. \A i \in DOMAIN insts' : \A t \in DOMAIN insts'[i].sec :
          insts'[i].rtts[t] = RttOf(insts'[i].sec, t, insts'[i].gcanon[t])
    BY <1>1, <2>1 DEF CastsInv, LayoutsOK
  <2> QED
    BY <1>13, <2>1, <2>3, <2>4 DEF LayoutsOK, RttOf
<1>15. CanonsOK'
  BY <1>1 DEF CastsInv, CanonsOK
<1> QED
  BY <1>2, <1>13, <1>14, <1>15 DEF CastsInv

\* Every step keeps the records right.
LEMMA NextKeepsCastsInv == CastsInv /\ [Next]_vars => CastsInv'
<1> SUFFICES ASSUME CastsInv, [Next]_vars PROVE CastsInv'
  OBVIOUS
<1>1. ASSUME NEW sec \in ValidSections, Instantiate(sec) PROVE CastsInv'
  BY <1>1, InstantiateKeepsCasts
<1>2. CASE AbsorbNext
  BY <1>2, AbsorbNextKeepsCasts
<1>3. CASE AbsorbDone
  BY <1>3, AbsorbDoneKeepsCasts
<1>4. ASSUME NEW h \in HostTypes, InternHost(h) PROVE CastsInv'
  BY <1>4, InternHostKeepsCasts
<1>5. CASE UNCHANGED vars
  <2>1. reg' = reg /\ insts' = insts /\ work' = work /\ hosts' = hosts
    BY <1>5 DEF vars
  <2>2. Absorbed' = Absorbed
    BY <2>1 DEF Absorbed, View, HostView
  <2>3. TypesInv'
    BY NextKeepsTypesInv DEF CastsInv
  <2> QED
    BY <2>1, <2>2, <2>3
    DEF CastsInv, OriginsOK, RecordsOK, Recorded, LayoutsOK, Laid, Full, RttOf, CanonsOK
<1> QED
  BY <1>1, <1>2, <1>3, <1>4, <1>5 DEF Next

-----------------------------------------------------------------------------
(* Numbers, declarations and run-time matches                              *)

\* A type that has an id is one of its section, and so has its supertype.
LEMMA AbsorbedFacts ==
  ASSUME TypesInv, NEW x \in Absorbed, NEW t \in DOMAIN x.ids
  PROVE  /\ x.sec \in Absorbable /\ t \in DOMAIN x.sec /\ x.ids[t] \in DOMAIN reg.keys /\ t \in Nat
         /\ x.sec[t].super \in 0 .. t - 1
         /\ x.sec[t].super # 0 => x.sec[t].super \in DOMAIN x.ids
<1>1. Numbered(reg.keys, x)
  BY DEF TypesInv, IdsOK
<1>2. /\ x.sec \in Absorbable \cup {<< >>} /\ x.ids \in Seq(Nat) /\ Len(x.ids) <= Len(x.sec)
      /\ x.ids[t] \in DOMAIN reg.keys
  BY <1>1 DEF Numbered
<1>3. t \in 1 .. Len(x.ids) /\ Len(x.ids) \in Nat /\ DOMAIN x.ids = 1 .. Len(x.ids)
  BY <1>2
<1>4. Len(<< >>) = 0
  OBVIOUS
<1>5. x.sec \in Absorbable
  BY <1>2, <1>3, <1>4
<1>6. Len(x.sec) \in Nat /\ DOMAIN x.sec = 1 .. Len(x.sec)
  BY <1>5, AbsorbableFacts
<1>7. t \in DOMAIN x.sec
  BY <1>2, <1>3, <1>6
<1>8. x.sec[t].super \in 0 .. t - 1
  BY <1>5, <1>7, AbsorbableFacts
<1> QED
  BY <1>2, <1>3, <1>5, <1>7, <1>8

\* In the registry, ids climb to an id exactly if the types are declared subtypes.
LEMMA RegistrySub ==
  ASSUME TypesInv, RecordsOK, NEW x \in Absorbed, NEW y \in Absorbed, NEW t \in DOMAIN x.ids, NEW u \in DOMAIN y.ids
  PROVE  HtSub(RegLattice, x.ids[t], y.ids[u]) <=> DeclaredSub(x.sec, t, y.sec, u)
<1> DEFINE b == y.ids[u]
           Right(v) == ConcreteSub(RegLattice, x.ids[v], b) <=> DeclaredSub(x.sec, v, y.sec, u)
           bad == {v \in DOMAIN x.ids : ~ Right(v)}
<1>1. /\ RegLattice.supers = reg.supers /\ RegLattice.canon = << >>
      /\ reg.keys \in Seq(KeySet) /\ reg.supers \in Seq(Nat) /\ Len(reg.supers) = Len(reg.keys)
      /\ \A g \in DOMAIN reg.keys : reg.supers[g] \in 0 .. g - 1
  BY DEF RegLattice, TypesInv, RegistryOK
<1>2. DOMAIN reg.keys = 1 .. Len(RegLattice.supers) /\ Len(RegLattice.supers) \in Nat
      /\ \A g \in 1 .. Len(RegLattice.supers) : RegLattice.supers[g] \in 0 .. g - 1
  BY <1>1
<1>3. ~ ConcreteSub(RegLattice, 0, b)
      /\ \A g \in DOMAIN reg.keys : ConcreteSub(RegLattice, g, b) <=> g = b \/ ConcreteSub(RegLattice, reg.supers[g], b)
  <2>1. \A g : Hits(RegLattice, g, b) <=> g = b
    BY <1>1 DEF Hits
  <2>2. ~ ConcreteSub(RegLattice, 0, b)
        /\ \A g \in 1 .. Len(RegLattice.supers) :
             ConcreteSub(RegLattice, g, b) <=> Hits(RegLattice, g, b) \/ ConcreteSub(RegLattice, RegLattice.supers[g], b)
    <3> PICK cx, c : cx = RegLattice /\ c = b
      OBVIOUS
    <3>1. Len(cx.supers) \in Nat /\ \A g \in 1 .. Len(cx.supers) : cx.supers[g] \in 0 .. g - 1
      BY <1>2
    <3>2. ~ ConcreteSub(cx, 0, c)
          /\ \A g \in 1 .. Len(cx.supers) :
               ConcreteSub(cx, g, c) <=> Hits(cx, g, c) \/ ConcreteSub(cx, cx.supers[g], c)
      BY ONLY <3>1, ClimbUnfolds
    <3> QED
      BY <3>2
  <2> HIDE DEF b
  <2> QED
    BY <1>1, <1>2, <2>1, <2>2
<1> HIDE DEF b
<1>4. ASSUME NEW m \in bad, \A k \in bad : m <= k
      PROVE  FALSE
  <2>1. m \in DOMAIN x.ids /\ ~ Right(m)
    OBVIOUS
  <2>2. /\ x.sec \in Absorbable /\ m \in DOMAIN x.sec /\ x.ids[m] \in DOMAIN reg.keys /\ m \in Nat
        /\ x.sec[m].super \in 0 .. m - 1
        /\ x.sec[m].super # 0 => x.sec[m].super \in DOMAIN x.ids
    BY <2>1, AbsorbedFacts
  <2>3. reg.supers[x.ids[m]] = Super(x.sec[m], x.ids)
    BY <2>1 DEF RecordsOK, Recorded
  <2>4. x.ids[m] = b <=> SameType(x.sec, m, y.sec, u)
    BY <2>1 DEF TypesInv, IdsOK, Faithful, b
  <2>5. ConcreteSub(RegLattice, x.ids[m], b) <=> x.ids[m] = b \/ ConcreteSub(RegLattice, Super(x.sec[m], x.ids), b)
    BY <1>3, <2>2, <2>3
  <2>6. DeclaredSub(x.sec, m, y.sec, u) <=> \/ SameType(x.sec, m, y.sec, u)
                                            \/ x.sec[m].super # 0 /\ DeclaredSub(x.sec, x.sec[m].super, y.sec, u)
    BY <2>2, SubUnfolds
  <2>7. CASE x.sec[m].super = 0
    BY <1>3, <2>1, <2>4, <2>5, <2>6, <2>7 DEF Super
  <2>8. CASE x.sec[m].super # 0
    <3>1. x.sec[m].super \in DOMAIN x.ids /\ ~ (m <= x.sec[m].super)
      BY <2>2, <2>8
    <3>2. Right(x.sec[m].super)
      <4> HIDE DEF Right
      <4> QED
        BY <1>4, <3>1
    <3>3. Super(x.sec[m], x.ids) = x.ids[x.sec[m].super]
      BY <2>8 DEF Super
    <3> QED
      BY <2>1, <2>4, <2>5, <2>6, <2>8, <3>2, <3>3
  <2> QED
    BY <2>7, <2>8
<1>5. Right(t)
  <2>1. bad \in SUBSET Nat
    BY AbsorbedFacts
  <2>2. bad = {}
    <3> HIDE DEF bad
    <3> QED
      BY <1>4, <2>1, LeastNumber
  <2> QED
    BY <2>2
<1>6. HtSub(RegLattice, x.ids[t], b) <=> ConcreteSub(RegLattice, x.ids[t], b)
  <2>1. x.ids[t] \in DOMAIN reg.keys /\ b \in DOMAIN reg.keys
    BY AbsorbedFacts DEF b
  <2>2. x.ids[t] \in Nat /\ b \in Nat /\ x.ids[t] > 0 /\ b > 0
    BY <1>2, <2>1
  <2> PICK a : a = x.ids[t]
    OBVIOUS
  <2>3. a = b => ConcreteSub(RegLattice, a, b)
    BY <1>3, <2>1
  <2>4. HtSub(RegLattice, a, b) <=> a = b \/ ConcreteSub(RegLattice, a, b)
    BY <2>2 DEF HtSub, NONE, NOFUNC
  <2> QED
    BY <2>3, <2>4
<1> QED
  BY <1>5, <1>6 DEF b

\* In a module's own numbering, the lattice is that of the declarations.
LEMMA ModuleSub ==
  ASSUME NEW A \in Absorbable, NEW t \in DOMAIN A, NEW u \in DOMAIN A
  PROVE  HtSub(Lattice(A, Canon(A)), t, u) <=> DeclaredSub(A, t, A, u)
<1> PICK cx : cx = Lattice(A, Canon(A))
  OBVIOUS
<1> DEFINE Right(v) == ConcreteSub(cx, v, u) <=> DeclaredSub(A, v, A, u)
           bad == {v \in DOMAIN A : ~ Right(v)}
<1>1. /\ Len(A) \in Nat /\ DOMAIN A = 1 .. Len(A) /\ \A x \in DOMAIN A : A[x].super \in 0 .. x - 1
  BY AbsorbableFacts
<1>2. DOMAIN Canon(A) = DOMAIN A /\ \A x, y \in DOMAIN A : Canon(A)[x] = Canon(A)[y] <=> SameType(A, x, A, y)
  BY CanonIsFaithful
<1>3. /\ cx.canon = Canon(A) /\ DOMAIN cx.supers = DOMAIN A /\ \A x \in DOMAIN A : cx.supers[x] = A[x].super
  BY DEF Lattice
<1>4. Len(cx.supers) = Len(A)
  <2>1. cx.supers = [x \in 1 .. Len(A) |-> A[x].super]
    BY <1>1 DEF Lattice
  <2>2. \A x \in 1 .. Len(A) : A[x].super \in Int
    BY <1>1
  <2>3. cx.supers \in Seq(Int)
    BY <1>1, <2>1, <2>2
  <2> QED
    BY <1>1, <1>3, <2>3
<1>5. cx.canon # << >>
  <2>1. DOMAIN << >> = {}
    OBVIOUS
  <2> QED
    BY <1>2, <1>3, <2>1
<1>6. ~ ConcreteSub(cx, 0, u)
      /\ \A x \in DOMAIN A : ConcreteSub(cx, x, u) <=> SameType(A, x, A, u) \/ ConcreteSub(cx, A[x].super, u)
  <2>1. Len(cx.supers) \in Nat /\ \A x \in 1 .. Len(cx.supers) : cx.supers[x] \in 0 .. x - 1
    BY <1>1, <1>3, <1>4
  <2>2. ~ ConcreteSub(cx, 0, u)
        /\ \A x \in 1 .. Len(cx.supers) : ConcreteSub(cx, x, u) <=> Hits(cx, x, u) \/ ConcreteSub(cx, cx.supers[x], u)
    BY <2>1, ClimbUnfolds
  <2>3. \A x \in DOMAIN A : Hits(cx, x, u) <=> SameType(A, x, A, u)
    BY <1>2, <1>3, <1>5 DEF Hits
  <2> QED
    BY <1>1, <1>3, <1>4, <2>2, <2>3
<1>7. ASSUME NEW m \in bad, \A k \in bad : m <= k
      PROVE  FALSE
  <2>1. m \in DOMAIN A /\ ~ Right(m) /\ A[m].super \in 0 .. m - 1 /\ m \in Nat
    BY <1>1
  <2>2. ConcreteSub(cx, m, u) <=> SameType(A, m, A, u) \/ ConcreteSub(cx, A[m].super, u)
    BY <1>6, <2>1
  <2>3. DeclaredSub(A, m, A, u) <=> SameType(A, m, A, u) \/ (A[m].super # 0 /\ DeclaredSub(A, A[m].super, A, u))
    BY <2>1, SubUnfolds
  <2>4. CASE A[m].super = 0
    BY <1>6, <2>1, <2>2, <2>3, <2>4
  <2>5. CASE A[m].super # 0
    <3>1. A[m].super \in DOMAIN A /\ ~ (m <= A[m].super)
      BY <1>1, <2>1, <2>5
    <3>2. Right(A[m].super)
      <4> HIDE DEF Right
      <4> QED
        BY <1>7, <3>1
    <3> QED
      BY <2>1, <2>2, <2>3, <2>5, <3>2
  <2> QED
    BY <2>4, <2>5
<1>8. Right(t)
  <2>1. bad \in SUBSET Nat
    BY <1>1
  <2>2. bad = {}
    <3> HIDE DEF bad
    <3> QED
      BY <1>7, <2>1, LeastNumber
  <2> QED
    BY <2>2
<1>9. HtSub(cx, t, u) <=> ConcreteSub(cx, t, u)
  <2>1. t \in Nat /\ u \in Nat /\ t > 0 /\ u > 0
    BY <1>1
  <2>2. t = u => ConcreteSub(cx, t, u)
    BY <1>2, <1>6
  <2>3. HtSub(cx, t, u) <=> t = u \/ ConcreteSub(cx, t, u)
    BY <2>1 DEF HtSub, NONE, NOFUNC
  <2> QED
    BY <2>2, <2>3
<1> QED
  BY <1>8, <1>9

\* Abstract targets: what is above the kind of an object.
LEMMA KindSub ==
  ASSUME NEW cx, NEW a \in {ANY, EQ, I31, STRUCT, ARRAY, NONE}, NEW kind \in {"struct", "array"}
  PROVE  /\ \A t : t \in Nat /\ t > 0 /\ cx.kinds[t] = kind => (HtSub(cx, t, a) <=> a \in AboveKind(kind))
         /\ HtSub(cx, IF kind = "array" THEN ARRAY ELSE STRUCT, a) <=> a \in AboveKind(kind)
<1>1. \A b \in {STRUCT, ARRAY} : AbstractSub(b, a) <=> a \in {b, EQ, ANY}
  BY DEF AbstractSub, AbstractParent, ANY, EQ, I31, STRUCT, ARRAY, NONE, FUNC, NOFUNC
<1>2. /\ AboveKind("struct") = {STRUCT, EQ, ANY} /\ AboveKind("array") = {ARRAY, EQ, ANY}
  BY DEF AboveKind
<1>3. a \in Int /\ a < 0
  BY DEF ANY, EQ, I31, STRUCT, ARRAY, NONE
<1>4. ASSUME NEW t \in Nat, t > 0, cx.kinds[t] = kind
      PROVE  HtSub(cx, t, a) <=> a \in AboveKind(kind)
  <2>1. HtSub(cx, t, a) <=> AbstractSub(IF kind = "array" THEN ARRAY ELSE STRUCT, a)
    BY <1>3, <1>4 DEF HtSub, NONE, NOFUNC
  <2> QED
    BY <1>1, <1>2, <2>1
<1>5. ASSUME NEW b \in {STRUCT, ARRAY}
      PROVE  HtSub(cx, b, a) <=> a \in {b, EQ, ANY}
  <2>1. b \in Int /\ b < 0 /\ b # NONE /\ b # NOFUNC
    BY DEF STRUCT, ARRAY, NONE, NOFUNC
  <2>2. HtSub(cx, b, a) <=> a = b \/ AbstractSub(b, a)
    BY <1>3, <2>1 DEF HtSub
  <2> QED
    BY <1>1, <2>2
<1> QED
  BY <1>2, <1>4, <1>5

\* An instance is a view of its section with an id for each type.
LEMMA InstanceFacts ==
  ASSUME TypesInv, NEW i \in DOMAIN insts
  PROVE  /\ View(i) \in Absorbed /\ View(i).sec = insts[i].sec /\ View(i).ids = insts[i].gcanon
         /\ insts[i].sec \in ValidSections /\ insts[i].sec \in Absorbable
         /\ DOMAIN insts[i].gcanon = DOMAIN insts[i].sec
         /\ \A t \in DOMAIN insts[i].sec : t \in Nat /\ t > 0 /\ insts[i].sec[t].kind \in Kind
<1>1. insts \in Seq(InstSet) /\ DOMAIN insts[i].gcanon = DOMAIN insts[i].sec
  BY DEF TypesInv, UsersOK
<1>2. insts[i] \in InstSet
  BY <1>1
<1>3. insts[i].sec \in ValidSections
  BY <1>2 DEF InstSet
<1>4. insts[i].sec \in Absorbable
  BY <1>3 DEF Absorbable
<1>5. \A t \in DOMAIN insts[i].sec : t \in Nat /\ t > 0 /\ insts[i].sec[t].kind \in Kind
  BY <1>4, AbsorbableFacts
<1> QED
  BY <1>1, <1>3, <1>4, <1>5 DEF View, Absorbed

\* Ids of two instances match exactly where the types do.
LEMMA RegistryMatch ==
  ASSUME CastsInv, NEW i \in DOMAIN insts, NEW j \in DOMAIN insts,
         NEW t \in DOMAIN insts[j].sec, NEW u \in DOMAIN insts[i].sec
  PROVE  HtSub(RegLattice, insts[j].gcanon[t], insts[i].gcanon[u]) <=> Subtype(j, t, i, u)
<1>1. TypesInv /\ RecordsOK
  BY DEF CastsInv
<1>2. HtSub(RegLattice, View(j).ids[t], View(i).ids[u]) <=> DeclaredSub(View(j).sec, t, View(i).sec, u)
  <2>1. /\ View(i) \in Absorbed /\ View(j) \in Absorbed /\ t \in DOMAIN View(j).ids /\ u \in DOMAIN View(i).ids
    BY <1>1, InstanceFacts
  <2> QED
    BY <1>1, <2>1, RegistrySub
<1> QED
  BY <1>1, <1>2, InstanceFacts DEF Subtype

\* So do the numbers of one module.
LEMMA LocalMatch ==
  ASSUME CastsInv, NEW i \in DOMAIN insts, NEW t \in DOMAIN insts[i].sec, NEW u \in DOMAIN insts[i].sec
  PROVE  HtSub(Local(i), t, u) <=> Subtype(i, t, i, u)
<1>1. Local(i) = Lattice(insts[i].sec, Canon(insts[i].sec))
  BY DEF CastsInv, CanonsOK, Local
<1>2. insts[i].sec \in Absorbable
  BY InstanceFacts DEF CastsInv
<1> QED
  BY <1>1, <1>2, ModuleSub DEF Subtype

\* A host's type has no supertype, so that it matches what it equals.
LEMMA HostMatch ==
  ASSUME CastsInv, NEW i \in DOMAIN insts, NEW h \in DOMAIN hosts, NEW u \in DOMAIN insts[i].sec
  PROVE  HostMatches(i, h, u) <=> SameType(HostSection(h), 1, insts[i].sec, u)
<1>1. TypesInv /\ RecordsOK
  BY DEF CastsInv
<1>2. /\ HostView(h) \in Absorbed /\ HostView(h).sec = HostSection(h)
      /\ 1 \in DOMAIN HostView(h).ids /\ HostView(h).ids[1] = hosts[h]
  BY DEF Absorbed, HostView
<1>3. View(i) \in Absorbed /\ View(i).sec = insts[i].sec /\ View(i).ids = insts[i].gcanon /\ u \in DOMAIN View(i).ids
  BY <1>1, InstanceFacts
<1>4. HtSub(RegLattice, HostView(h).ids[1], View(i).ids[u]) <=> DeclaredSub(HostView(h).sec, 1, View(i).sec, u)
  BY <1>1, <1>2, <1>3, RegistrySub
<1>5. HostSection(h) \in Absorbable
  BY <1>1 DEF TypesInv, UsersOK, Absorbable
<1>6. HostSection(h)[1].super = 0 /\ 1 \in DOMAIN HostSection(h)
  BY DEF HostSection, Func
<1>7. DeclaredSub(HostSection(h), 1, insts[i].sec, u) <=> SameType(HostSection(h), 1, insts[i].sec, u)
  BY <1>5, <1>6, SubUnfolds
<1> QED
  BY <1>2, <1>3, <1>4, <1>7 DEF HostMatches

\* An object's layout is that of its type, stamped with the type's id, by which it is known.
LEMMA ObjectFacts ==
  ASSUME CastsInv, ~ HostMayBeNew, NEW j \in DOMAIN insts, NEW t \in DOMAIN insts[j].sec, KindOf(j, t) # "func"
  PROVE  /\ RttAt(j, t).kind = KindOf(j, t) /\ KindOf(j, t) \in {"struct", "array"}
         /\ RttAt(j, t).gid = insts[j].gcanon[t]
         /\ RttAt(j, t).cells = Layout(insts[j].sec, t).cells
         /\ \A i \in DOMAIN insts : \A u \in DOMAIN insts[i].sec :
              RttAt(i, u) = RttAt(j, t) => /\ insts[i].gcanon[u] = insts[j].gcanon[t]
                                           /\ KindOf(i, u) = KindOf(j, t)
<1>1. TypesInv /\ \A i \in DOMAIN insts : \A u \in DOMAIN insts[i].sec :
        RttAt(i, u) = RttOf(insts[i].sec, u, insts[i].gcanon[u])
  BY DEF CastsInv, LayoutsOK, RttAt
<1>2. \A i \in DOMAIN insts : \A u \in DOMAIN insts[i].sec : KindOf(i, u) \in Kind
  BY <1>1, InstanceFacts DEF KindOf
<1>3. ASSUME NEW i \in DOMAIN insts, NEW u \in DOMAIN insts[i].sec, KindOf(i, u) # "func"
      PROVE  /\ RttAt(i, u).kind = KindOf(i, u) /\ RttAt(i, u).kind # "none"
             /\ RttAt(i, u).gid = insts[i].gcanon[u]
             /\ RttAt(i, u).cells = Layout(insts[i].sec, u).cells
  <2>1. PICK c : Layout(insts[i].sec, u) = [kind |-> KindOf(i, u), gid |-> -1, cells |-> c]
    BY <1>3 DEF Layout, KindOf
  <2>2. KindOf(i, u) # "none"
    BY <1>2 DEF Kind
  <2>3. Layout(insts[i].sec, u) # NoRtt
    BY <2>1, <2>2 DEF NoRtt
  <2>4. RttAt(i, u) = [kind |-> KindOf(i, u), gid |-> insts[i].gcanon[u], cells |-> c]
    BY <1>1, <2>1, <2>3 DEF RttOf
  <2> QED
    BY <2>1, <2>2, <2>4
<1>4. ASSUME NEW i \in DOMAIN insts, NEW u \in DOMAIN insts[i].sec, KindOf(i, u) = "func"
      PROVE  RttAt(i, u).kind = "none"
  <2>1. Layout(insts[i].sec, u) = NoRtt
    BY <1>4 DEF Layout, KindOf
  <2>2. RttAt(i, u) = NoRtt
    BY <1>1, <2>1 DEF RttOf
  <2> QED
    BY <2>2 DEF NoRtt
<1> QED
  BY <1>2, <1>3, <1>4 DEF Kind

\* jav_ref_matches of an object: of a type of the running instance that has its layout, or by its id.
LEMMA ObjectMatch ==
  ASSUME CastsInv, ~ HostMayBeNew, NEW i \in DOMAIN insts, NEW j \in DOMAIN insts,
         NEW t \in DOMAIN insts[j].sec, KindOf(j, t) # "func"
  PROVE  /\ \A u \in DOMAIN insts[i].sec : ObjectMatches(i, RttAt(j, t), u) <=> Subtype(j, t, i, u)
         /\ \A a \in {ANY, EQ, I31, STRUCT, ARRAY, NONE} :
              ObjectMatches(i, RttAt(j, t), a) <=> a \in AboveKind(KindOf(j, t))
<1> DEFINE rtt == RttAt(j, t)
           m == Min(TypeIdxOf(i, rtt))
<1>1. /\ rtt.kind = KindOf(j, t) /\ KindOf(j, t) \in {"struct", "array"} /\ rtt.gid = insts[j].gcanon[t]
      /\ \A u \in DOMAIN insts[i].sec :
           RttAt(i, u) = rtt => insts[i].gcanon[u] = insts[j].gcanon[t] /\ KindOf(i, u) = KindOf(j, t)
  BY ObjectFacts
<1>2. \A u \in DOMAIN insts[i].sec : u \in Nat /\ u > 0
  BY InstanceFacts DEF CastsInv
<1>3. CASE TypeIdxOf(i, rtt) = {}
  <2>1. \A u \in DOMAIN insts[i].sec : ObjectMatches(i, rtt, u) <=> HtSub(RegLattice, rtt.gid, insts[i].gcanon[u])
    BY <1>2, <1>3 DEF ObjectMatches, GcRefClosedMatches
  <2>2. \A u \in DOMAIN insts[i].sec : ObjectMatches(i, rtt, u) <=> Subtype(j, t, i, u)
    BY <1>1, <2>1, RegistryMatch
  <2>3. ASSUME NEW a \in {ANY, EQ, I31, STRUCT, ARRAY, NONE}
        PROVE  ObjectMatches(i, rtt, a) <=> a \in AboveKind(KindOf(j, t))
    <3>1. ~ (a > 0)
      BY DEF ANY, EQ, I31, STRUCT, ARRAY, NONE
    <3>2. ObjectMatches(i, rtt, a) <=> HtSub(Local(i), IF KindOf(j, t) = "array" THEN ARRAY ELSE STRUCT, a)
      BY <1>1, <1>3, <3>1 DEF ObjectMatches, ValueHeapType
    <3> QED
      BY <1>1, <3>2, KindSub
  <2> QED
    BY <2>2, <2>3
<1>4. CASE TypeIdxOf(i, rtt) # {}
  <2>1. m \in TypeIdxOf(i, rtt)
    <3>1. TypeIdxOf(i, rtt) \in SUBSET Nat
      BY <1>2 DEF TypeIdxOf
    <3>2. PICK k \in TypeIdxOf(i, rtt) : \A x \in TypeIdxOf(i, rtt) : k <= x
      BY <1>4, <3>1, LeastNumber
    <3> QED
      BY <3>2 DEF Min
  <2>2. m \in DOMAIN insts[i].sec /\ insts[i].gcanon[m] = insts[j].gcanon[t] /\ KindOf(i, m) = KindOf(j, t)
    BY <1>1, <2>1 DEF TypeIdxOf
  <2>3. \A b : ObjectMatches(i, rtt, b) <=> HtSub(Local(i), m, b)
    BY <1>4 DEF ObjectMatches, ValueHeapType
  <2> HIDE DEF m, rtt
  <2>4. ASSUME NEW u \in DOMAIN insts[i].sec
        PROVE  ObjectMatches(i, rtt, u) <=> Subtype(j, t, i, u)
    <3>1. HtSub(Local(i), m, u) <=> Subtype(i, m, i, u)
      BY <2>2, LocalMatch
    <3>2. HtSub(RegLattice, insts[i].gcanon[m], insts[i].gcanon[u]) <=> Subtype(i, m, i, u)
      BY <2>2, RegistryMatch
    <3>3. HtSub(RegLattice, insts[j].gcanon[t], insts[i].gcanon[u]) <=> Subtype(j, t, i, u)
      BY RegistryMatch
    <3> QED
      BY <2>2, <2>3, <3>1, <3>2, <3>3
  <2>5. ASSUME NEW a \in {ANY, EQ, I31, STRUCT, ARRAY, NONE}
        PROVE  ObjectMatches(i, rtt, a) <=> a \in AboveKind(KindOf(j, t))
    <3>1. m \in Nat /\ m > 0 /\ Local(i).kinds[m] = KindOf(j, t)
      BY <1>2, <2>2 DEF Local, Lattice, KindOf
    <3> QED
      BY <1>1, <2>3, <3>1, KindSub
  <2> QED
    BY <2>4, <2>5 DEF rtt
<1> QED
  BY <1>3, <1>4

-----------------------------------------------------------------------------
(* What a declared subtype promises                                        *)

\* What code compiled for type u of B relies on in a value of type t of A.
Fits(A, t, B, u) ==
  /\ A[t].kind = B[u].kind
  /\ Len(A[t].params) = Len(B[u].params) /\ Len(A[t].results) = Len(B[u].results)
  /\ A[t].kind # "func" =>
       \A f \in DOMAIN Layout(B, u).cells :
         /\ f \in DOMAIN Layout(A, t).cells
         /\ Layout(A, t).cells[f].wide = Layout(B, u).cells[f].wide
         /\ Layout(A, t).cells[f].ref => Layout(B, u).cells[f].ref

\* The operand lists of a type are sequences.
LEMMA ListFacts ==
  ASSUME NEW A \in Absorbable, NEW t \in DOMAIN A
  PROVE  \A s \in {A[t].fields, A[t].params, A[t].results} : Len(s) \in Nat /\ DOMAIN s = 1 .. Len(s)
<1>1. A \in Sections \cup {HostSection(h) : h \in HostTypes}
  BY DEF Absorbable, ValidSections, HostHeads
<1> QED
  BY <1>1, SectionsAssumption

\* Equal types fit each other.
LEMMA SameFits ==
  ASSUME NEW A \in Absorbable, NEW t \in DOMAIN A, NEW B \in Absorbable, NEW u \in DOMAIN B, SameType(A, t, B, u)
  PROVE  Fits(A, t, B, u)
<1>1. Layout(A, t) = Layout(B, u)
  BY SameLayouts
<1>2. /\ A[t].kind = B[u].kind
      /\ DOMAIN A[t].params = DOMAIN B[u].params /\ DOMAIN A[t].results = DOMAIN B[u].results
  BY SameMembers DEF AlikeMember, AlikeVts
<1>3. \A n, k \in Nat : 1 .. n = 1 .. k => n = k
  <2> SUFFICES ASSUME NEW n \in Nat, NEW k \in Nat, 1 .. n = 1 .. k PROVE n = k
    OBVIOUS
  <2>1. (n > 0 => n \in 1 .. k) /\ (k > 0 => k \in 1 .. n)
    OBVIOUS
  <2> QED
    BY <2>1
<1>4. Len(A[t].params) = Len(B[u].params)
  BY <1>2, <1>3, ListFacts
<1>5. Len(A[t].results) = Len(B[u].results)
  BY <1>2, <1>3, ListFacts
<1> QED
  BY <1>1, <1>2, <1>4, <1>5 DEF Fits

\* A declared subtype of a valid section is of the kind of the type (types_err).
LEMMA SubKind ==
  ASSUME NEW A \in ValidSections, NEW B \in Absorbable, NEW u \in DOMAIN B, NEW t \in DOMAIN A, DeclaredSub(A, t, B, u)
  PROVE  A[t].kind = B[u].kind
<1> DEFINE Right(x) == DeclaredSub(A, x, B, u) => A[x].kind = B[u].kind
           bad == {x \in DOMAIN A : ~ Right(x)}
<1>1. A \in Absorbable
  BY DEF Absorbable
<1>2. \A x \in DOMAIN A : x \in Nat /\ A[x].super \in 0 .. x - 1 /\ (A[x].super # 0 => A[x].super \in DOMAIN A)
  BY <1>1, AbsorbableFacts
<1>3. \A x \in DOMAIN A : A[x].super # 0 => A[x].kind = A[A[x].super].kind
  BY DEF ValidSections, TypesOk
<1>4. ASSUME NEW m \in bad, \A k \in bad : m <= k
      PROVE  FALSE
  <2>1. m \in DOMAIN A /\ DeclaredSub(A, m, B, u) /\ A[m].kind # B[u].kind
    OBVIOUS
  <2>2. CASE SameType(A, m, B, u)
    BY <1>1, <2>1, <2>2, SameMembers
  <2>3. CASE A[m].super # 0 /\ DeclaredSub(A, A[m].super, B, u)
    <3>1. A[m].super \in DOMAIN A /\ ~ (m <= A[m].super)
      BY <1>2, <2>1, <2>3
    <3>2. Right(A[m].super)
      <4> HIDE DEF Right
      <4> QED
        BY <1>4, <3>1
    <3> QED
      BY <1>3, <2>1, <2>3, <3>2
  <2> QED
    BY <1>1, <2>1, <2>2, <2>3, SubUnfolds
<1>5. bad = {}
  <2>1. bad \in SUBSET Nat
    BY <1>2
  <2> HIDE DEF bad
  <2> QED
    BY <1>4, <2>1, LeastNumber
<1> QED
  BY <1>5

\* A value that a subtype's field holds is of the width, and traced only if it is traced, as the field of
\* the type (comptype_sub, rtt_field_is_ref).
LEMMA FieldFits ==
  ASSUME NEW A \in ValidSections, NEW v, NEW w, IsRef(v) => v.ht \in Int, IsRef(w) => w.ht \in Int,
         IsRef(v) /\ v.ht > 0 => v.ht \in DOMAIN A, IsRef(w) /\ w.ht > 0 => w.ht \in DOMAIN A,
         VtSub(Lattice(A, Canon(A)), v, w)
  PROVE  (v.w = "v128" <=> w.w = "v128") /\ (FieldIsRef(A, v) => FieldIsRef(A, w))
<1> DEFINE cx == Lattice(A, Canon(A))
<1>1. CASE ~ (IsRef(v) /\ IsRef(w))
  <2>1. v.w = w.w
    BY <1>1 DEF VtSub
  <2>2. ~ IsRef(v)
    BY <1>1, <2>1 DEF IsRef
  <2> QED
    BY <2>1, <2>2 DEF FieldIsRef
<1>2. CASE IsRef(v) /\ IsRef(w)
  <2>1. HtSub(cx, v.ht, w.ht)
    BY <1>2 DEF VtSub, RtSub
  <2>2. v.w # "v128" /\ w.w # "v128"
    BY <1>2 DEF IsRef
  <2>3. ASSUME FieldIsRef(A, v)
        PROVE  FieldIsRef(A, w)
    <3> PICK a, b : a = v.ht /\ b = w.ht
      OBVIOUS
    <3>1. a \in Int /\ b \in Int /\ (a > 0 => a \in DOMAIN A) /\ (b > 0 => b \in DOMAIN A)
      BY <1>2
    <3>2. IF a > 0 THEN A[a].kind # "func" ELSE a \in {ANY, EQ, STRUCT, ARRAY}
      BY <2>3 DEF FieldIsRef
    <3>3. a # NONE /\ a # NOFUNC
      BY <3>2 DEF ANY, EQ, STRUCT, ARRAY, NONE, NOFUNC
    <3> SUFFICES IF b > 0 THEN A[b].kind # "func" ELSE b \in {ANY, EQ, STRUCT, ARRAY}
      BY <1>2 DEF FieldIsRef
    <3>4. CASE a > 0 /\ b > 0
      <4>1. A \in Absorbable
        BY DEF Absorbable
      <4>2. DeclaredSub(A, a, A, b)
        BY <2>1, <3>1, <3>4, <4>1, ModuleSub
      <4>3. A[a].kind = A[b].kind
        BY <3>1, <3>4, <4>1, <4>2, SubKind
      <4> QED
        BY <3>2, <3>4, <4>3
    <3>5. CASE a > 0 /\ b <= 0
      <4>1. cx.kinds[a] = A[a].kind /\ A[a].kind \in {"struct", "array"}
        <5>1. A \in Absorbable
          BY DEF Absorbable
        <5>2. A[a].kind \in Kind
          BY <3>1, <3>5, <5>1, AbsorbableFacts
        <5> QED
          BY <3>1, <3>2, <3>5, <5>2 DEF Lattice, Kind
      <4>2. AbstractSub(STRUCT, b) \/ AbstractSub(ARRAY, b)
        <5>1. HtSub(cx, a, b)
          BY <2>1
        <5> HIDE DEF cx
        <5> QED
          BY <3>1, <3>3, <3>5, <4>1, <5>1 DEF HtSub
      <4>3. b \in {STRUCT, ARRAY, EQ, ANY}
        BY <4>2 DEF AbstractSub, AbstractParent, ANY, EQ, I31, STRUCT, ARRAY, NONE, FUNC, NOFUNC
      <4> QED
        BY <3>1, <3>5, <4>3
    <3>6. CASE a <= 0
      <4>1. a = b \/ (AbstractSub(a, b) /\ b < 0)
        <5>1. HtSub(cx, a, b)
          BY <2>1
        <5> HIDE DEF cx
        <5> QED
          BY <3>1, <3>3, <3>6, <5>1 DEF HtSub
      <4>2. a \in {ANY, EQ, STRUCT, ARRAY}
        BY <3>1, <3>2, <3>6
      <4>3. AbstractSub(a, b) => b \in {STRUCT, ARRAY, EQ, ANY}
        BY <4>2 DEF AbstractSub, AbstractParent, ANY, EQ, I31, STRUCT, ARRAY, NONE, FUNC, NOFUNC
      <4>4. b \in {STRUCT, ARRAY, EQ, ANY}
        BY <4>1, <4>2, <4>3
      <4>5. ~ (b > 0)
        BY <3>6, <4>1, <3>1
      <4> QED
        BY <4>4, <4>5
    <3> QED
      BY <3>1, <3>4, <3>5, <3>6
  <2> QED
    BY <2>2, <2>3
<1> QED
  BY <1>1, <1>2

\* A type fits the supertype it declares: the validator's pass makes that trust sound (types_err).
LEMMA SuperFits ==
  ASSUME NEW A \in ValidSections, NEW t \in DOMAIN A, A[t].super # 0
  PROVE  Fits(A, t, A, A[t].super)
<1> DEFINE p == A[t].super
           cx == Lattice(A, Canon(A))
<1>1. A \in Absorbable
  BY DEF Absorbable
<1>2. p \in DOMAIN A
  BY <1>1, AbsorbableFacts
<1>3. A[t].kind = A[p].kind /\ CompTypeSub(cx, A[t], A[p])
  BY DEF ValidSections, TypesOk
<1>4. Len(A[t].params) = Len(A[p].params) /\ Len(A[t].results) = Len(A[p].results)
  BY <1>3 DEF CompTypeSub
<1>5. Len(A[p].fields) <= Len(A[t].fields) /\ \A f \in DOMAIN A[p].fields : FieldSub(cx, A[t].fields[f], A[p].fields[f])
  BY <1>3 DEF CompTypeSub, FieldsSub
<1>6. \A f \in DOMAIN A[p].fields : f \in DOMAIN A[t].fields
  BY <1>1, <1>2, <1>5, ListFacts
<1>7. \A x \in DOMAIN A : \A f \in DOMAIN A[x].fields :
        IsRef(A[x].fields[f].vt) =>
          /\ A[x].fields[f].vt.ht \in Int
          /\ A[x].fields[f].vt.ht > 0 => A[x].fields[f].vt.ht \in DOMAIN A
  <2> SUFFICES ASSUME NEW x \in DOMAIN A, NEW f \in DOMAIN A[x].fields, IsRef(A[x].fields[f].vt)
               PROVE  /\ A[x].fields[f].vt.ht \in Int
                      /\ A[x].fields[f].vt.ht > 0 => A[x].fields[f].vt.ht \in DOMAIN A
    OBVIOUS
  <2>1. A[x].fields[f].vt.ht \in Mentioned(A[x])
    BY DEF Mentioned
  <2>2. Scoped(A, x, A[x].fields[f].vt.ht)
    BY <1>1, <2>1, AbsorbableFacts
  <2>3. A[x].start \in 0 .. x - 1 /\ DOMAIN A = 1 .. Len(A) /\ Len(A) \in Nat
    BY <1>1, AbsorbableFacts
  <2> QED
    BY <2>2, <2>3 DEF Scoped, Group
<1>8. ASSUME NEW f \in DOMAIN A[p].fields
      PROVE  /\ A[t].fields[f].vt.w = "v128" <=> A[p].fields[f].vt.w = "v128"
             /\ FieldIsRef(A, A[t].fields[f].vt) => FieldIsRef(A, A[p].fields[f].vt)
  <2>1. VtSub(cx, A[t].fields[f].vt, A[p].fields[f].vt)
    BY <1>5 DEF FieldSub
  <2> QED
    BY <1>2, <1>6, <1>7, <2>1, FieldFits
<1>9. ASSUME A[t].kind # "func", NEW f \in DOMAIN Layout(A, p).cells
      PROVE  /\ f \in DOMAIN Layout(A, t).cells
             /\ Layout(A, t).cells[f].wide = Layout(A, p).cells[f].wide
             /\ Layout(A, t).cells[f].ref => Layout(A, p).cells[f].ref
  <2> DEFINE cells(x) == [g \in DOMAIN A[x].fields |->
                            [ref |-> FieldIsRef(A, A[x].fields[g].vt), wide |-> A[x].fields[g].vt.w = "v128"]]
  <2>1. Layout(A, t).cells = cells(t) /\ Layout(A, p).cells = cells(p)
    BY <1>3, <1>9 DEF Layout
  <2>2. f \in DOMAIN A[p].fields /\ f \in DOMAIN A[t].fields
    BY <1>6, <1>9, <2>1
  <2>3. /\ cells(t)[f].wide = (A[t].fields[f].vt.w = "v128") /\ cells(p)[f].wide = (A[p].fields[f].vt.w = "v128")
        /\ cells(t)[f].ref = FieldIsRef(A, A[t].fields[f].vt) /\ cells(p)[f].ref = FieldIsRef(A, A[p].fields[f].vt)
    BY <2>2
  <2>4. DOMAIN cells(t) = DOMAIN A[t].fields
    OBVIOUS
  <2> HIDE DEF cells, p
  <2> QED
    BY <1>8, <2>1, <2>2, <2>3, <2>4
<1> QED
  BY <1>3, <1>4, <1>9 DEF Fits

\* So a declared subtype fits, however many steps it took.
LEMMA SubFits ==
  ASSUME NEW A \in ValidSections, NEW B \in Absorbable, NEW u \in DOMAIN B, NEW t \in DOMAIN A, DeclaredSub(A, t, B, u)
  PROVE  Fits(A, t, B, u)
<1> DEFINE Right(x) == DeclaredSub(A, x, B, u) => Fits(A, x, B, u)
           bad == {x \in DOMAIN A : ~ Right(x)}
<1>1. A \in Absorbable
  BY DEF Absorbable
<1>2. \A x \in DOMAIN A : x \in Nat /\ A[x].super \in 0 .. x - 1 /\ (A[x].super # 0 => A[x].super \in DOMAIN A)
  BY <1>1, AbsorbableFacts
<1>3. ASSUME NEW m \in bad, \A k \in bad : m <= k
      PROVE  FALSE
  <2>1. m \in DOMAIN A /\ DeclaredSub(A, m, B, u) /\ ~ Fits(A, m, B, u)
    OBVIOUS
  <2>2. CASE SameType(A, m, B, u)
    BY <1>1, <2>1, <2>2, SameFits
  <2>3. CASE A[m].super # 0 /\ DeclaredSub(A, A[m].super, B, u)
    <3>1. A[m].super \in DOMAIN A /\ ~ (m <= A[m].super)
      BY <1>2, <2>1, <2>3
    <3>2. Right(A[m].super)
      <4> HIDE DEF Right
      <4> QED
        BY <1>3, <3>1
    <3>3. Fits(A, A[m].super, B, u) /\ Fits(A, m, A, A[m].super)
      BY <2>1, <2>3, <3>2, SuperFits
    <3>4. Fits(A, m, B, u)
      BY <3>3 DEF Fits
    <3> QED
      BY <2>1, <3>4
  <2> QED
    BY <1>1, <2>1, <2>2, <2>3, SubUnfolds
<1>4. bad = {}
  <2>1. bad \in SUBSET Nat
    BY <1>2
  <2> HIDE DEF bad
  <2> QED
    BY <1>3, <2>1, LeastNumber
<1> QED
  BY <1>4

-----------------------------------------------------------------------------
(* Theorems                                                                *)

\* The invariant of the proof holds: every id in use is that of its type's key, and equal
\* ids mean equal types among all that was ever absorbed (jav_typereg_absorb).
THEOREM RegistryCorrect == Spec => []TypesInv
<1>1. Init => TypesInv
  BY InitTypesInv
<1>2. TypesInv /\ [Next]_vars => TypesInv'
  BY NextKeepsTypesInv
<1> QED
  BY <1>1, <1>2, PTL DEF Spec

\* What the registry records of an id is what every type with that id declares, and the
\* layouts of an instance are those of its types (jav_typereg_absorb, jav_typereg_rtt).
THEOREM RecordsCorrect == Spec => []CastsInv
<1>1. Init => CastsInv
  BY InitCastsInv
<1>2. CastsInv /\ [Next]_vars => CastsInv'
  BY NextKeepsCastsInv
<1> QED
  BY <1>1, <1>2, PTL DEF Spec

\* The registry's tables stay parallel where they must, and every id in use indexes them.
THEOREM ClosedTypesTypeCorrect == Spec => []ClosedTypesOK
<1>1. TypesInv => ClosedTypesOK
  <2> SUFFICES ASSUME TypesInv PROVE ClosedTypesOK
    OBVIOUS
  <2>1. /\ reg \in [keys : Seq(KeySet), kinds : Seq(Kind), supers : Seq(Nat), rtts : Seq(LayoutSet)]
        /\ Len(reg.kinds) = Len(reg.keys) /\ Len(reg.supers) = Len(reg.keys) /\ Len(reg.rtts) <= Len(reg.keys)
        /\ \A g \in DOMAIN reg.keys : reg.supers[g] \in 0 .. g - 1
        /\ Distinct(reg.keys)
        /\ insts \in Seq(InstSet)
        /\ \A i \in DOMAIN insts :
             DOMAIN insts[i].gcanon = DOMAIN insts[i].sec /\ DOMAIN insts[i].rtts = DOMAIN insts[i].sec
        /\ hosts \in [DOMAIN hosts -> Nat] /\ DOMAIN hosts \subseteq HostHeads
        /\ \A x \in Absorbed : Numbered(reg.keys, x)
    BY DEF TypesInv, RegistryOK, UsersOK, IdsOK
  <2>2. \A g \in DOMAIN reg.keys : reg.kinds[g] \in Kind
    <3>1. DOMAIN reg.keys = 1 .. Len(reg.keys) /\ \A g \in 1 .. Len(reg.kinds) : reg.kinds[g] \in Kind
      BY <2>1, SMT
    <3> QED
      BY <2>1, <3>1
  <2>3. ASSUME NEW i \in DOMAIN insts
        PROVE  insts[i].sec \in ValidSections /\ insts[i].gcanon \in [TypesOf(i) -> DOMAIN reg.keys]
    <3>1. insts[i] \in InstSet
      BY <2>1, SMT
    <3>2. insts[i].sec \in ValidSections /\ insts[i].gcanon \in Seq(Nat)
      BY <3>1 DEF InstSet
    <3>3. Numbered(reg.keys, View(i))
      BY <2>1 DEF Absorbed
    <3>4. \A t \in DOMAIN insts[i].gcanon : insts[i].gcanon[t] \in DOMAIN reg.keys
      BY <3>3 DEF Numbered, View
    <3>5. insts[i].gcanon = [t \in DOMAIN insts[i].gcanon |-> insts[i].gcanon[t]]
      BY <3>2, SMT
    <3> QED
      BY <2>1, <3>2, <3>4, <3>5 DEF TypesOf
  <2>4. ASSUME NEW h \in DOMAIN hosts
        PROVE  hosts[h] \in DOMAIN reg.keys
    <3>1. Numbered(reg.keys, HostView(h))
      BY <2>1 DEF Absorbed
    <3>2. 1 \in DOMAIN <<hosts[h]>> /\ <<hosts[h]>>[1] = hosts[h]
      OBVIOUS
    <3> QED
      BY <3>1, <3>2 DEF Numbered, HostView
  <2>5. hosts \in [DOMAIN hosts -> DOMAIN reg.keys] /\ DOMAIN hosts \subseteq HostTypes
    BY <2>1, <2>4 DEF HostHeads
  <2> QED
    BY <2>1, <2>2, <2>3, <2>5 DEF ClosedTypesOK, Inst, TypesOf, Distinct
<1> QED
  BY <1>1, RegistryCorrect, PTL

\* Two types of the store have the same number exactly if they are equal, by the definition
\* of iso-recursive equality that knows no numbers (canon_member, canon_intern).
THEOREM IdsAreIsoRecursive == Spec => []IdsAreClosures
<1>1. TypesInv => IdsAreClosures
  <2> SUFFICES ASSUME TypesInv PROVE IdsAreClosures
    OBVIOUS
  <2>1. /\ \A i \in DOMAIN insts : DOMAIN insts[i].gcanon = DOMAIN insts[i].sec
        /\ \A x, y \in Absorbed : Faithful(x, y)
    BY DEF TypesInv, UsersOK, IdsOK
  <2>2. \A i \in DOMAIN insts : View(i) \in Absorbed
    BY DEF Absorbed
  <2>3. \A h \in DOMAIN hosts : HostView(h) \in Absorbed
    BY DEF Absorbed
  <2>4. ASSUME NEW i \in DOMAIN insts, NEW j \in DOMAIN insts, NEW t \in TypesOf(i), NEW u \in TypesOf(j)
        PROVE  insts[i].gcanon[t] = insts[j].gcanon[u] <=> Same(i, t, j, u)
    <3>1. Faithful(View(i), View(j))
      BY <2>1, <2>2
    <3> QED
      BY <2>1, <3>1 DEF Faithful, View, TypesOf, Same
  <2>5. ASSUME NEW h \in DOMAIN hosts, NEW i \in DOMAIN insts, NEW t \in TypesOf(i)
        PROVE  hosts[h] = insts[i].gcanon[t] <=> SameType(HostSection(h), 1, insts[i].sec, t)
    <3>1. Faithful(HostView(h), View(i))
      BY <2>1, <2>2, <2>3
    <3>2. 1 \in DOMAIN <<hosts[h]>> /\ <<hosts[h]>>[1] = hosts[h]
      OBVIOUS
    <3> QED
      BY <2>1, <3>1, <3>2 DEF Faithful, View, HostView, TypesOf
  <2> QED
    BY <2>4, <2>5 DEF IdsAreClosures, Inst
<1> QED
  BY <1>1, RegistryCorrect, PTL

\* A cast, an indirect call and an import accept a value exactly if its type, as its own module
\* declares it, is a subtype of the target (jav_ref_matches, link_imports), if no host's type
\* was interned where a module's type would have come.
THEOREM CastsCorrect ==
  ASSUME ~ HostMayBeNew
  PROVE  Spec => []CastsAreRight
<1>1. CastsInv => CastsAreRight
  <2> SUFFICES ASSUME CastsInv, NEW i \in DOMAIN insts, NEW j \in DOMAIN insts, NEW t \in DOMAIN insts[j].sec
               PROVE  IF KindOf(j, t) = "func"
                      THEN \A u \in TypesOf(i) : KindOf(i, u) = "func" =>
                             /\ \A share \in {x \in BOOLEAN : (x => insts[i].sec = insts[j].sec) /\ (i = j => x)} :
                                  FuncMatches(i, j, t, u, share) <=> Subtype(j, t, i, u)
                             /\ LinkMatches(i, j, t, u) <=> Subtype(j, t, i, u)
                             /\ \A h \in DOMAIN hosts :
                                  HostMatches(i, h, u) <=> SameType(HostSection(h), 1, insts[i].sec, u)
                      ELSE /\ \A u \in TypesOf(i) : KindOf(i, u) # "func" =>
                                (ObjectMatches(i, RttAt(j, t), u) <=> Subtype(j, t, i, u))
                           /\ \A a \in {ANY, EQ, I31, STRUCT, ARRAY, NONE} :
                                ObjectMatches(i, RttAt(j, t), a) <=> a \in AboveKind(KindOf(j, t))
    BY DEF CastsAreRight, Inst, TypesOf
  <2>1. ASSUME NEW u \in DOMAIN insts[i].sec, NEW share \in BOOLEAN, share => insts[i].sec = insts[j].sec
        PROVE  FuncMatches(i, j, t, u, share) <=> Subtype(j, t, i, u)
    <3>1. CASE ~ share
      <4>1. u > 0
        BY InstanceFacts DEF CastsInv
      <4>2. FuncMatches(i, j, t, u, share) <=> HtSub(RegLattice, insts[j].gcanon[t], insts[i].gcanon[u])
        BY <3>1, <4>1 DEF FuncMatches
      <4> QED
        BY <4>2, RegistryMatch
    <3>2. CASE share
      <4>1. FuncMatches(i, j, t, u, share) <=> HtSub(Local(i), t, u)
        BY <3>2 DEF FuncMatches
      <4>2. insts[i].sec = insts[j].sec
        BY <2>1, <3>2
      <4>3. HtSub(Local(i), t, u) <=> Subtype(i, t, i, u)
        BY <4>2, LocalMatch
      <4> QED
        BY <4>1, <4>2, <4>3 DEF Subtype
    <3> QED
      BY <3>1, <3>2
  <2>2. \A u \in DOMAIN insts[i].sec : LinkMatches(i, j, t, u) <=> Subtype(j, t, i, u)
    BY RegistryMatch DEF LinkMatches
  <2>3. \A u \in DOMAIN insts[i].sec, h \in DOMAIN hosts :
          HostMatches(i, h, u) <=> SameType(HostSection(h), 1, insts[i].sec, u)
    BY HostMatch
  <2>4. CASE KindOf(j, t) = "func"
    BY <2>1, <2>2, <2>3, <2>4 DEF TypesOf
  <2>5. CASE KindOf(j, t) # "func"
    BY <2>5, ObjectMatch DEF TypesOf
  <2> QED
    BY <2>4, <2>5
<1> QED
  BY <1>1, RecordsCorrect, PTL

\* An object that a cast accepts has every field of the target where the code compiled for it
\* reads it, and a function that is accepted takes and leaves as many operands (build_rtts,
\* comptype_sub: "this pass is what makes that trust sound").
THEOREM ValuesFit ==
  ASSUME ~ HostMayBeNew
  PROVE  Spec => []AcceptedValuesFit
<1>1. CastsInv /\ CastsAreRight => AcceptedValuesFit
  <2> SUFFICES ASSUME CastsInv, CastsAreRight, work = Idle,
                      NEW i \in DOMAIN insts, NEW j \in DOMAIN insts, NEW t \in DOMAIN insts[j].sec
               PROVE  IF KindOf(j, t) = "func"
                      THEN \A u \in TypesOf(i) :
                             KindOf(i, u) = "func" /\ FuncMatches(i, j, t, u, i = j) =>
                               LET f == insts[j].sec[t]
                                   g == insts[i].sec[u]
                               IN Len(f.params) = Len(g.params) /\ Len(f.results) = Len(g.results)
                      ELSE /\ RttAt(j, t).cells = Layout(insts[j].sec, t).cells /\ RttAt(j, t).kind = KindOf(j, t)
                           /\ \A u \in TypesOf(i) :
                                KindOf(i, u) # "func" /\ ObjectMatches(i, RttAt(j, t), u) =>
                                  LET want == Layout(insts[i].sec, u) IN
                                  /\ RttAt(j, t).kind = want.kind
                                  /\ \A f \in DOMAIN want.cells :
                                       /\ f \in DOMAIN RttAt(j, t).cells
                                       /\ RttAt(j, t).cells[f].wide = want.cells[f].wide
                                       /\ RttAt(j, t).cells[f].ref => want.cells[f].ref
    BY DEF AcceptedValuesFit, Inst, TypesOf
  <2>1. ASSUME NEW u \in DOMAIN insts[i].sec, Subtype(j, t, i, u)
        PROVE  Fits(insts[j].sec, t, insts[i].sec, u)
    <3>1. insts[j].sec \in ValidSections /\ insts[i].sec \in Absorbable
      BY InstanceFacts DEF CastsInv
    <3> QED
      BY <2>1, <3>1, SubFits DEF Subtype
  <2>2. CASE KindOf(j, t) = "func"
    <3>1. ASSUME NEW u \in DOMAIN insts[i].sec, KindOf(i, u) = "func", FuncMatches(i, j, t, u, i = j)
          PROVE  Subtype(j, t, i, u)
      <4>1. (i = j) \in {x \in BOOLEAN : (x => insts[i].sec = insts[j].sec) /\ (i = j => x)}
        OBVIOUS
      <4>2. FuncMatches(i, j, t, u, i = j) <=> Subtype(j, t, i, u)
        BY <2>2, <3>1, <4>1 DEF CastsAreRight, Inst, TypesOf
      <4> QED
        BY <3>1, <4>2
    <3> QED
      BY <2>1, <2>2, <3>1 DEF Fits, TypesOf
  <2>3. CASE KindOf(j, t) # "func"
    <3>1. RttAt(j, t).kind = KindOf(j, t) /\ RttAt(j, t).cells = Layout(insts[j].sec, t).cells
      BY <2>3, ObjectFacts
    <3>2. ASSUME NEW u \in DOMAIN insts[i].sec, KindOf(i, u) # "func", ObjectMatches(i, RttAt(j, t), u)
          PROVE  Fits(insts[j].sec, t, insts[i].sec, u)
      BY <2>1, <2>3, <3>2, ObjectMatch
    <3>3. \A u \in DOMAIN insts[i].sec : KindOf(i, u) # "func" => Layout(insts[i].sec, u).kind = KindOf(i, u)
      BY DEF Layout, KindOf
    <3> QED
      BY <2>3, <3>1, <3>2, <3>3 DEF Fits, TypesOf, KindOf
  <2> QED
    BY <2>2, <2>3
<1> QED
  BY <1>1, RecordsCorrect, CastsCorrect, PTL
=============================================================================
