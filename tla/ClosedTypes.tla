----------------------------- MODULE ClosedTypes -----------------------------
(***************************************************************************)
(* The closed-type registry of a store.  Instantiating a module interns    *)
(* its types: each gets the number of the first type whose closed form was *)
(* the same, from whatever module, and the registry keeps per number the   *)
(* kind, the declared supertype and the layout that objects point at.      *)
(* Casts, indirect calls and the matching of imports compare numbers; in   *)
(* one instance, they use the module's own numbering instead.              *)
(*                                                                         *)
(* Type sections are chosen from a set and have to pass the validator.     *)
(***************************************************************************)
EXTENDS TypeSections, FiniteSetsExt

CONSTANTS
  Sections,       \* the type sections that modules may have
  HostTypes,      \* the types of host functions and tags: parameters and results
  MaxInsts,       \* bound on the instances of the store
  HostMayBeNew    \* a host's type may be interned before a module declared it

HostSection(h) == <<Func(TRUE, 0, h.params, h.results)>>

\* collect_types: the types of a group stand next to each other, and bear its start.
ASSUME SectionsAssumption ==
  \A sec \in Sections \cup {HostSection(h) : h \in HostTypes} :
    /\ Len(sec) \in Nat /\ DOMAIN sec = 1 .. Len(sec)
    /\ \A t \in DOMAIN sec :
         /\ sec[t].start \in 0 .. t - 1
         /\ \A u \in sec[t].start + 1 .. t : sec[u].start = sec[t].start
         /\ sec[t].kind \in Kind /\ sec[t].super \in Int
         /\ Mentioned(sec[t]) \subseteq Int
         /\ \A s \in {sec[t].fields, sec[t].params, sec[t].results} :
              Len(s) \in Nat /\ DOMAIN s = 1 .. Len(s)

VARIABLES
  reg,     \* jav_typereg: keys, kinds, supers and rtts, by global id
  insts,   \* the instances: [sec, canon, gcanon, rtts]
  work,    \* the absorption under way: [sec, ids], ids of the types so far
  hosts    \* host type -> its global id, once it was compared with something

vars == <<reg, insts, work, hosts>>

Idle == [sec |-> << >>, ids |-> << >>]

-----------------------------------------------------------------------------
(* Closed forms                                                            *)

\* canon_ref, in the group of type t.  Mutant: the types of the group by number.
CanonRefByNumber(ht, sec, t, ids) ==
  IF ht <= 0 THEN [how |-> "A", of |-> ht]
  ELSE IF ht \in Group(sec, t) THEN [how |-> "R", of |-> ht]
  ELSE [how |-> "C", of |-> ids[ht]]
CanonRef(ht, sec, t, ids) ==
  IF ht <= 0 THEN [how |-> "A", of |-> ht]
  ELSE IF ht \in Group(sec, t) THEN [how |-> "R", of |-> ht - sec[t].start]
  ELSE [how |-> "C", of |-> ids[ht]]

CanonVt(vt, sec, t, ids) ==
  [w |-> vt.w, of |-> IF IsRef(vt) THEN CanonRef(vt.ht, sec, t, ids) ELSE CanonRef(0, sec, t, ids)]
CanonVts(vs, sec, t, ids) == [i \in DOMAIN vs |-> CanonVt(vs[i], sec, t, ids)]
CanonMember(m, sec, t, ids) ==
  [kind |-> m.kind, final |-> m.final, super |-> CanonRef(m.super, sec, t, ids),
   fields |-> [i \in DOMAIN m.fields |->
                 [mut |-> m.fields[i].mut, vt |-> CanonVt(m.fields[i].vt, sec, t, ids)]],
   params |-> CanonVts(m.params, sec, t, ids),
   results |-> CanonVts(m.results, sec, t, ids)]

\* The key of a type: its group rolled up, and its place in it.
KeyOf(sec, t, ids) ==
  [group |-> [p \in Places(sec, t) |-> CanonMember(sec[sec[t].start + p], sec, t, ids)],
   place |-> t - sec[t].start]

\* canon_intern: the id of a key, which is the next one if the key is new.
Known(keys, key) == \E i \in DOMAIN keys : keys[i] = key
IdOf(keys, key) == IF Known(keys, key) THEN CHOOSE i \in DOMAIN keys : keys[i] = key ELSE Len(keys) + 1

\* compute_canon: the ids in a table of the module's own.
Canon(sec) ==
  LET After[t \in 0 .. Len(sec)] ==
        IF t = 0 THEN [keys |-> << >>, ids |-> << >>]
        ELSE LET before == After[t - 1]
                 key == KeyOf(sec, t, before.ids)
             IN [keys |-> IF Known(before.keys, key) THEN before.keys ELSE Append(before.keys, key),
                 ids |-> Append(before.ids, IdOf(before.keys, key))]
  IN After[Len(sec)].ids

-----------------------------------------------------------------------------
(* The lattice: a context is the kinds and supertypes of some numbering,   *)
(* and the canonical number of each type, or none if ids are canonical     *)

AbstractParent(h) ==
  CASE h \in {I31, STRUCT, ARRAY} -> EQ [] h \in {EQ, NONE} -> ANY [] h = NOFUNC -> FUNC [] OTHER -> 0
AbstractSub(a, b) ==
  LET p == AbstractParent(a)
      pp == IF p = 0 THEN 0 ELSE AbstractParent(p)
  IN b \in {a, p, pp} \ {0}

InAnyHierarchy(cx, b) ==
  IF b > 0 THEN cx.kinds[b] \in {"struct", "array"} ELSE b \in {ANY, EQ, I31, STRUCT, ARRAY, NONE}
InFuncHierarchy(cx, b) == IF b > 0 THEN cx.kinds[b] = "func" ELSE b \in {FUNC, NOFUNC}

\* Concrete types: some declared supertype of a is equal to b.
ConcreteSub(cx, a, b) ==
  LET Climb[t \in 0 .. Len(cx.supers)] ==
        /\ t # 0
        /\ (IF cx.canon # << >> THEN cx.canon[t] = cx.canon[b] ELSE t = b) \/ Climb[cx.supers[t]]
  IN Climb[a]

\* jav_ht_sub
HtSub(cx, a, b) ==
  \/ a = b
  \/ a = NONE /\ InAnyHierarchy(cx, b)
  \/ a = NOFUNC /\ InFuncHierarchy(cx, b)
  \/ a > 0 /\ b > 0 /\ ConcreteSub(cx, a, b)
  \/ a > 0 /\ b < 0 /\ AbstractSub(CASE cx.kinds[a] = "struct" -> STRUCT
                                     [] cx.kinds[a] = "array" -> ARRAY
                                     [] cx.kinds[a] = "func" -> FUNC, b)
  \/ a < 0 /\ b < 0 /\ a \notin {NONE, NOFUNC} /\ AbstractSub(a, b)
\* jav_rt_sub
RtSub(cx, v, w) == HtSub(cx, v.ht, w.ht) /\ (v.w = "ref" => w.w = "ref")

\* A module's own lattice, and the registry's, whose ids are canonical.
Lattice(sec, canon) ==
  [kinds |-> [t \in DOMAIN sec |-> sec[t].kind], supers |-> [t \in DOMAIN sec |-> sec[t].super],
   canon |-> canon]
RegLattice == [kinds |-> reg.kinds, supers |-> reg.supers, canon |-> << >>]

-----------------------------------------------------------------------------
(* Validation of a type section                                            *)

\* type_refs_in_scope: a type refers to no group after its own.
RefsInScope(sec) ==
  \A t \in DOMAIN sec : \A h \in Mentioned(sec[t]) :
    h <= sec[t].start \/ h \in Group(sec, t)

VtSub(cx, v, w) == IF IsRef(v) /\ IsRef(w) THEN RtSub(cx, v, w) ELSE v.w = w.w
FieldSub(cx, f, h) ==
  f.mut = h.mut /\ VtSub(cx, f.vt, h.vt) /\ (f.mut => VtSub(cx, h.vt, f.vt))
\* comptype_sub; types of the same kind.  Mutant: only the fields both have are compared.
FieldsSubAnyWidth(cx, m, n) ==
  \A i \in DOMAIN m.fields \cap DOMAIN n.fields : FieldSub(cx, m.fields[i], n.fields[i])
FieldsSub(cx, m, n) ==
  /\ Len(n.fields) <= Len(m.fields)
  /\ \A i \in DOMAIN n.fields : FieldSub(cx, m.fields[i], n.fields[i])
CompTypeSub(cx, m, n) ==
  /\ FieldsSub(cx, m, n)
  /\ Len(m.params) = Len(n.params) /\ Len(m.results) = Len(n.results)
  /\ \A i \in DOMAIN m.params : VtSub(cx, n.params[i], m.params[i])
  /\ \A i \in DOMAIN m.results : VtSub(cx, m.results[i], n.results[i])

\* types_err.  A supertype is an earlier type; that comes first here, since without it a
\* closed form has no meaning.
SupersEarlier(sec) == \A t \in DOMAIN sec : sec[t].super \in 0 .. t - 1
TypesOk(sec) ==
  LET cx == Lattice(sec, Canon(sec)) IN
  \A t \in DOMAIN sec :
    LET sup == sec[t].super IN
    sup # 0 => ~sec[sup].final /\ sec[t].kind = sec[sup].kind /\ CompTypeSub(cx, sec[t], sec[sup])
ValidSections == {sec \in Sections : SupersEarlier(sec) /\ RefsInScope(sec) /\ TypesOk(sec)}

-----------------------------------------------------------------------------
(* Run-time matches                                                        *)

RttAt(i, t) == insts[i].rtts[t]
Local(i) == Lattice(insts[i].sec, insts[i].canon)

\* rtt_typeidx: an object's layout is looked for among those of the running instance.
TypeIdxOf(i, rtt) == {t \in DOMAIN insts[i].sec : RttAt(i, t) = rtt}
ValueHeapType(i, rtt) ==
  IF TypeIdxOf(i, rtt) # {} THEN Min(TypeIdxOf(i, rtt))
  ELSE IF rtt.kind = "array" THEN ARRAY ELSE STRUCT
\* gcref_closed_matches
GcRefClosedMatches(i, rtt, ht) == HtSub(RegLattice, rtt.gid, insts[i].gcanon[ht])
\* jav_ref_matches in instance i, of an object.
ObjectMatches(i, rtt, ht) ==
  IF ht > 0 /\ TypeIdxOf(i, rtt) = {} THEN GcRefClosedMatches(i, rtt, ht)
  ELSE HtSub(Local(i), ValueHeapType(i, rtt), ht)

\* jav_ref_matches and jav_funcref_typematch in instance i, of function type t of instance j;
\* the two share their lattice if they are of one module.
FuncMatches(i, j, t, ht, share) ==
  IF ht > 0 /\ ~share THEN HtSub(RegLattice, insts[j].gcanon[t], insts[i].gcanon[ht])
  ELSE HtSub(Local(i), t, ht)
\* funcref_closed_matches of a host function; link_imports, of functions and, both ways, of tags.
HostMatches(i, h, ht) == HtSub(RegLattice, hosts[h], insts[i].gcanon[ht])
LinkMatches(i, j, t, ht) == HtSub(RegLattice, insts[j].gcanon[t], insts[i].gcanon[ht])

-----------------------------------------------------------------------------

Init ==
  /\ reg = [keys |-> << >>, kinds |-> << >>, supers |-> << >>, rtts |-> << >>]
  /\ insts = << >> /\ work = Idle /\ hosts = << >>

\* jav_typereg_rtt
TyperegRtt(gid) == IF gid \in DOMAIN reg.rtts THEN reg.rtts[gid] ELSE NoRtt

\* jav_instantiate begins to absorb a module's types; whether its imports will match
\* changes none of them.
Instantiate(sec) ==
  /\ work = Idle /\ Len(insts) < MaxInsts
  /\ work' = [sec |-> sec, ids |-> << >>]
  /\ UNCHANGED <<reg, insts, hosts>>

\* jav_typereg_absorb, of the next type: a new id gets a kind, a supertype and a stamped
\* copy of the layout.  Mutants: the table is not searched; the supertype is recorded by its
\* number in the module.
WithNew(key, m, super, layout) ==
  [keys |-> Append(reg.keys, key), kinds |-> Append(reg.kinds, m.kind),
   supers |-> Append(reg.supers, super),
   rtts |-> Append(reg.rtts, IF layout = NoRtt THEN NoRtt ELSE [layout EXCEPT !.gid = Len(reg.keys) + 1])]
Super(m, ids) == IF m.super = 0 THEN 0 ELSE ids[m.super]
AbsorbTypeAgain(sec, t, key) ==
  /\ work' = [work EXCEPT !.ids = Append(@, Len(reg.keys) + 1)]
  /\ reg' = WithNew(key, sec[t], Super(sec[t], work.ids), Layout(sec, t))
AbsorbTypeLocalSuper(sec, t, key) ==
  /\ work' = [work EXCEPT !.ids = Append(@, IdOf(reg.keys, key))]
  /\ reg' = IF Known(reg.keys, key) THEN reg ELSE WithNew(key, sec[t], sec[t].super, Layout(sec, t))
AbsorbType(sec, t, key) ==
  /\ work' = [work EXCEPT !.ids = Append(@, IdOf(reg.keys, key))]
  /\ reg' = IF Known(reg.keys, key) THEN reg ELSE WithNew(key, sec[t], Super(sec[t], work.ids), Layout(sec, t))
AbsorbNext ==
  /\ Len(work.ids) < Len(work.sec)
  /\ AbsorbType(work.sec, Len(work.ids) + 1, KeyOf(work.sec, Len(work.ids) + 1, work.ids))
  /\ UNCHANGED <<insts, hosts>>

\* The instance gets its ids and the layouts its objects will point at.
AbsorbDone ==
  /\ work # Idle /\ Len(work.ids) = Len(work.sec)
  /\ insts' = Append(insts,
       [sec |-> work.sec, canon |-> Canon(work.sec), gcanon |-> work.ids,
        rtts |-> [t \in DOMAIN work.sec |-> TyperegRtt(work.ids[t])]])
  /\ work' = Idle
  /\ UNCHANGED <<reg, hosts>>

\* jav_typereg_intern_functype, when an instance imports a host function or tag, calls one
\* through a table or casts one: the key of a bare function type.  A new id gets a kind and a
\* supertype and no entry in rtts.
HostKey(h) == KeyOf(HostSection(h), 1, << >>)
InternHost(h) ==
  /\ work = Idle /\ insts # << >> /\ h \notin DOMAIN hosts
  /\ HostMayBeNew \/ Known(reg.keys, HostKey(h)) \/ Len(insts) = MaxInsts
  /\ \A ht \in Mentioned(HostSection(h)[1]) : ht <= 0
  /\ hosts' = [x \in DOMAIN hosts \cup {h} |-> IF x = h THEN IdOf(reg.keys, HostKey(h)) ELSE hosts[x]]
  /\ reg' = IF Known(reg.keys, HostKey(h)) THEN reg
            ELSE [reg EXCEPT !.keys = Append(@, HostKey(h)), !.kinds = Append(@, "func"), !.supers = Append(@, 0)]
  /\ UNCHANGED <<insts, work>>

Next ==
  \/ \E sec \in ValidSections : Instantiate(sec)
  \/ AbsorbNext
  \/ AbsorbDone
  \/ \E h \in HostTypes : InternHost(h)

Spec == Init /\ [][Next]_vars

-----------------------------------------------------------------------------
(* Properties                                                              *)

Inst == DOMAIN insts
TypesOf(i) == DOMAIN insts[i].sec
KindOf(i, t) == insts[i].sec[t].kind
Same(i, t, j, u) == SameType(insts[i].sec, t, insts[j].sec, u)
Subtype(i, t, j, u) == DeclaredSub(insts[i].sec, t, insts[j].sec, u)

\* Type invariant: ids index the registry, no closed form is there twice, a supertype comes
\* before its subtypes, and each instance has an id and a layout per type.
ClosedTypesOK ==
  /\ Len(reg.kinds) = Len(reg.keys) /\ Len(reg.supers) = Len(reg.keys) /\ Len(reg.rtts) <= Len(reg.keys)
  /\ \A g, h \in DOMAIN reg.keys : reg.keys[g] = reg.keys[h] => g = h
  /\ \A g \in DOMAIN reg.keys : reg.kinds[g] \in Kind /\ reg.supers[g] \in 0 .. g - 1
  /\ \A i \in Inst :
       /\ insts[i].sec \in ValidSections
       /\ insts[i].gcanon \in [TypesOf(i) -> DOMAIN reg.keys]
       /\ DOMAIN insts[i].rtts = TypesOf(i)
  /\ hosts \in [DOMAIN hosts -> DOMAIN reg.keys] /\ DOMAIN hosts \subseteq HostTypes

\* Two types have the same number exactly if they are equal: in the store, whatever module
\* declared them, at whatever place, before or after the other; and for the type of a host
\* function (canon[a] == canon[b] <=> clos(a) = clos(b)).
IdsAreClosures ==
  /\ \A i, j \in Inst : \A t \in TypesOf(i), u \in TypesOf(j) :
       insts[i].gcanon[t] = insts[j].gcanon[u] <=> Same(i, t, j, u)
  /\ \A h \in DOMAIN hosts, i \in Inst : \A t \in TypesOf(i) :
       hosts[h] = insts[i].gcanon[t] <=> SameType(HostSection(h), 1, insts[i].sec, t)

\* A cast, an indirect call and an import accept a value exactly if its type, as its own
\* module declares it, is a subtype of the target: objects and functions of the instance
\* itself, of another one, of another instance of the same module, and of the host.  Nothing
\* runs while types are absorbed.
CastsAreRight ==
  work = Idle => \A i, j \in Inst : \A t \in TypesOf(j) :
    IF KindOf(j, t) = "func"
    THEN \A u \in TypesOf(i) : KindOf(i, u) = "func" =>
           /\ \A share \in {x \in BOOLEAN : (x => insts[i].sec = insts[j].sec) /\ (i = j => x)} :
                FuncMatches(i, j, t, u, share) <=> Subtype(j, t, i, u)
           /\ LinkMatches(i, j, t, u) <=> Subtype(j, t, i, u)
           /\ \A h \in DOMAIN hosts : HostMatches(i, h, u) <=> SameType(HostSection(h), 1, insts[i].sec, u)
    ELSE /\ \A u \in TypesOf(i) : KindOf(i, u) # "func" =>
              (ObjectMatches(i, RttAt(j, t), u) <=> Subtype(j, t, i, u))
         /\ \A a \in {ANY, EQ, I31, STRUCT, ARRAY, NONE} :
              ObjectMatches(i, RttAt(j, t), a) <=> a \in AboveKind(KindOf(j, t))

\* An object has the layout of the type it was allocated at, and one that a cast to some
\* type accepts has every field of that type where the code compiled for the type reads it;
\* a function that is accepted takes and leaves as many operands (interned_rtts,
\* comptype_sub: "this pass is what makes that trust sound").
AcceptedValuesFit ==
  work = Idle => \A i, j \in Inst : \A t \in TypesOf(j) :
    IF KindOf(j, t) = "func"
    THEN \A u \in TypesOf(i) :
           KindOf(i, u) = "func" /\ FuncMatches(i, j, t, u, i = j) =>
             LET f == insts[j].sec[t]
                 g == insts[i].sec[u]
             IN Len(f.params) = Len(g.params) /\ Len(f.results) = Len(g.results)
    ELSE /\ RttAt(j, t).cells = Layout(insts[j].sec, t).cells /\ RttAt(j, t).kind = KindOf(j, t)
         /\ \A u \in TypesOf(i) :
              KindOf(i, u) # "func" /\ ObjectMatches(i, RttAt(j, t), u) =>
                LET want == Layout(insts[i].sec, u) IN
                /\ RttAt(j, t).kind = want.kind
                /\ \A f \in DOMAIN want.cells :
                     /\ f \in DOMAIN RttAt(j, t).cells
                     /\ RttAt(j, t).cells[f].wide = want.cells[f].wide
                     /\ RttAt(j, t).cells[f].ref => want.cells[f].ref
=============================================================================
