---------------------------- MODULE TypeSections ----------------------------
(***************************************************************************)
(* The type section of a module: defined types in recursive groups, which  *)
(* refer to each other by number and to the abstract heap types by         *)
(* negative codes.  And what equality and subtyping of such types mean,    *)
(* without canonical numbers: the reference for ClosedTypes.               *)
(***************************************************************************)
EXTENDS Integers, Sequences

\* HT_*
ANY == -1
EQ == -2
I31 == -3
STRUCT == -4
ARRAY == -5
NONE == -6
FUNC == -7
NOFUNC == -8

Kind == {"struct", "array", "func"}

\* jav_valtype_t with its heap type; a packed storage type is a type of its own.
Number(w) == [w |-> w, ht |-> 0]
RefNull(ht) == [w |-> "ref", ht |-> ht]
RefNonNull(ht) == [w |-> "ref_nn", ht |-> ht]
IsRef(vt) == vt.w \in {"ref", "ref_nn"}
Field(vt, mut) == [vt |-> vt, mut |-> mut]

\* typemember: a section is a sequence of these.  super is the number of the declared
\* supertype or 0, start the number of types before the type's group; a struct and an array
\* have fields, a function parameters and results.
Struct(final, super, fields) ==
  [kind |-> "struct", final |-> final, super |-> super, start |-> 0,
   fields |-> fields, params |-> << >>, results |-> << >>]
Array(final, super, elem) ==
  [kind |-> "array", final |-> final, super |-> super, start |-> 0,
   fields |-> <<elem>>, params |-> << >>, results |-> << >>]
Func(final, super, params, results) ==
  [kind |-> "func", final |-> final, super |-> super, start |-> 0,
   fields |-> << >>, params |-> params, results |-> results]

\* The types of a section in the same group as t.
Group(sec, t) == {u \in DOMAIN sec : sec[u].start = sec[t].start}
Places(sec, t) == {u - sec[t].start : u \in Group(sec, t)}

\* The heap types a member names.
Mentioned(m) ==
  (IF m.super = 0 THEN {} ELSE {m.super})
    \cup {m.fields[i].vt.ht : i \in {j \in DOMAIN m.fields : IsRef(m.fields[j].vt)}}
    \cup {m.params[i].ht : i \in {j \in DOMAIN m.params : IsRef(m.params[j])}}
    \cup {m.results[i].ht : i \in {j \in DOMAIN m.results : IsRef(m.results[j])}}

-----------------------------------------------------------------------------
(* Equality and subtyping                                                  *)

\* Type t of A is like type u of B if their groups are, and they have the same place in
\* them: references inside a group agree in place, references out of it in S.
AlikeHt(A, t, B, u, S, h, k) ==
  \/ h <= 0 /\ h = k
  \/ h \in Group(A, t) /\ k \in Group(B, u) /\ h - A[t].start = k - B[u].start
  \/ h \in DOMAIN A \ Group(A, t) /\ k \in DOMAIN B \ Group(B, u) /\ S[<<h, k>>]
AlikeVt(A, t, B, u, S, v, w) == v.w = w.w /\ (IsRef(v) => AlikeHt(A, t, B, u, S, v.ht, w.ht))
AlikeVts(A, t, B, u, S, vs, ws) ==
  DOMAIN vs = DOMAIN ws /\ \A i \in DOMAIN vs : AlikeVt(A, t, B, u, S, vs[i], ws[i])
AlikeMember(A, t, B, u, S, m, n) ==
  /\ m.kind = n.kind /\ m.final = n.final
  /\ AlikeHt(A, t, B, u, S, m.super, n.super)
  /\ DOMAIN m.fields = DOMAIN n.fields
  /\ \A i \in DOMAIN m.fields :
       m.fields[i].mut = n.fields[i].mut /\ AlikeVt(A, t, B, u, S, m.fields[i].vt, n.fields[i].vt)
  /\ AlikeVts(A, t, B, u, S, m.params, n.params)
  /\ AlikeVts(A, t, B, u, S, m.results, n.results)
Alike(A, t, B, u, S) ==
  /\ t - A[t].start = u - B[u].start
  /\ Places(A, t) = Places(B, u)
  /\ \A p \in Places(A, t) : AlikeMember(A, t, B, u, S, A[A[t].start + p], B[B[u].start + p])

\* Which types of A and B are equal: those that are alike up to equality of the types they
\* refer to, in groups before theirs.
SameTypes(A, B) ==
  LET Same[tu \in (DOMAIN A) \X (DOMAIN B)] == Alike(A, tu[1], B, tu[2], Same) IN Same
SameType(A, t, B, u) == SameTypes(A, B)[<<t, u>>]

\* t is declared, through any number of steps, to be a subtype of a type that u is.
DeclaredSub(A, t, B, u) ==
  LET Up[x \in DOMAIN A] == {x} \cup (IF A[x].super = 0 THEN {} ELSE Up[A[x].super])
  IN \E x \in Up[t] : SameType(A, x, B, u)

\* The abstract types above the types of a kind.
AboveKind(kind) == CASE kind = "struct" -> {STRUCT, EQ, ANY}
                     [] kind = "array" -> {ARRAY, EQ, ANY}
                     [] kind = "func" -> {FUNC}

-----------------------------------------------------------------------------
(* Layouts                                                                 *)

\* rtt_field_is_ref
FieldIsRef(sec, vt) ==
  /\ IsRef(vt)
  /\ IF vt.ht > 0 THEN sec[vt.ht].kind # "func" ELSE vt.ht \in {ANY, EQ, STRUCT, ARRAY}

\* build_rtts: of a field what its offset and its tracing depend on.  gid is stamped later.
NoRtt == [kind |-> "none", gid |-> 0, cells |-> << >>]
Layout(sec, t) ==
  IF sec[t].kind = "func" THEN NoRtt
  ELSE [kind |-> sec[t].kind, gid |-> -1,
        cells |-> [f \in DOMAIN sec[t].fields |->
                     [ref |-> FieldIsRef(sec, sec[t].fields[f].vt),
                      wide |-> sec[t].fields[f].vt.w = "v128"]]]
=============================================================================
