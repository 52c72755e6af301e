------------------------- MODULE SideTable_proofs -------------------------
(***************************************************************************)
(* Proofs about SideTable: the inductive invariant of the validation, what *)
(* it leaves for an accepted body, and the machine that runs the body.     *)
(***************************************************************************)
EXTENDS SideTable, FiniteSetTheorems, SequenceTheorems, WellFoundedInduction, TLAPS

(***************************************************************************)
(* The invariant of the validation: what the history records.              *)
(***************************************************************************)

\* The locals that are written at entry, and those the pass knows to be.
Preset == {x \in DOMAIN LocalType : x <= NParams \/ LocalType[x] \in Defaultable}
Known(s) == Preset \cup {s.inits[k] : k \in DOMAIN s.inits}

\* The frames of a record of the history: the innermost, and the one a label names.
TopOf(s) == s.ctrls[Len(s.ctrls)]
LabelAt(s, l) == s.ctrls[Len(s.ctrls) - l]
Alive(s) == \A j \in DOMAIN s.ctrls : ~s.ctrls[j].dead

FuncBt == [in |-> <<>>, out |-> Results]
FrameTypes == {FuncBt} \cup {i.bt : i \in {x \in Instr : Opens(x)}}
FrameSet == [op : {"block", "loop", "if", "else", "try_table"}, bt : FrameTypes, height : Nat,
             inits : Nat, dead : BOOLEAN, start : Nat, fixups : SUBSET Nat, else : Nat, try : Nat]
HeldSet == [vals : Seq(Type), ctrls : Seq(FrameSet), inits : Seq(DOMAIN LocalType), next : Nat]

\* The construct a frame stands for: an else arm is one of an if.
Construct(f) == IF f.op = "else" THEN "if" ELSE f.op

\* Frame j of record s at position p, opened by the instruction before its start.
FrameOK(s, j, p) ==
  LET f == s.ctrls[j] IN
  /\ f.height <= Len(s.vals) /\ f.inits <= Len(s.inits)
  /\ j = 1 => f.start = 1 /\ f.bt = FuncBt /\ f.op = "block" /\ f.height = 0 /\ f.inits = 0
  /\ j > 1 => /\ f.start \in 2 .. p
              /\ Opens(code[f.start - 1]) /\ f.bt = code[f.start - 1].bt
              /\ Construct(f) = code[f.start - 1].op
              /\ Len(seen[f.start].ctrls) = j /\ seen[f.start].ctrls[j].start = f.start
Ordered(s) ==
  \A j, k \in DOMAIN s.ctrls :
    j < k => /\ s.ctrls[j].start < s.ctrls[k].start
             /\ s.ctrls[j].height <= s.ctrls[k].height
             /\ s.ctrls[j].inits <= s.ctrls[k].inits
OncePerLocal(s) ==
  /\ \A k \in DOMAIN s.inits : s.inits[k] \notin Preset
  /\ \A k, l \in DOMAIN s.inits : s.inits[k] = s.inits[l] => k = l
HeldOK(s, p) ==
  /\ s.ctrls = <<>> => p > 1 /\ s.vals = Results
  /\ \A j \in DOMAIN s.ctrls : FrameOK(s, j, p)
  /\ Ordered(s) /\ OncePerLocal(s)

\* The parts of a frame that stay while it is open.
SameFrame(f, g) ==
  /\ f.start = g.start /\ f.bt = g.bt /\ f.height = g.height /\ f.inits = g.inits
  /\ Construct(f) = Construct(g)
OpenIn(s, j, b) == j \in DOMAIN s.ctrls /\ s.ctrls[j].start = b
Agree(a, b, n) == n <= Len(a) /\ n <= Len(b) /\ \A k \in 1 .. n : a[k] = b[k]
\* Record r has the first n frames of record s.
Keeps(s, r, n) ==
  /\ n <= Len(s.ctrls) /\ n <= Len(r.ctrls)
  /\ \A j \in 1 .. n : SameFrame(s.ctrls[j], r.ctrls[j]) /\ s.ctrls[j].dead = r.ctrls[j].dead
\* Frame j of record s is one of record r, and so is all below it.
Frozen(s, r, j) ==
  /\ j \in DOMAIN s.ctrls /\ j \in DOMAIN r.ctrls
  /\ Keeps(s, r, j - 1) /\ SameFrame(s.ctrls[j], r.ctrls[j])
  /\ Agree(s.vals, r.vals, s.ctrls[j].height)
  /\ Agree(s.inits, r.inits, s.ctrls[j].inits)

\* While a frame is open what is below it does not change, and a frame open at two
\* positions is open between them.
FrozenWhileOpen ==
  \A p, q \in DOMAIN seen : \A j \in DOMAIN seen[p].ctrls :
    p <= q /\ OpenIn(seen[q], j, seen[p].ctrls[j].start) =>
      /\ Frozen(seen[p], seen[q], j)
      /\ \A k \in p .. q : OpenIn(seen[k], j, seen[p].ctrls[j].start)

\* How many entries an instruction leaves in the side table.
Slots(i) ==
  IF i.op \in {"br", "br_if", "if", "else"} THEN 1
  ELSE IF i.op = "br_table" THEN Len(i.labels)
  ELSE IF i.op = "try_table" THEN Len(i.catches) ELSE 0

\* What an instruction does to the record before it, by kind.
Plain(s, r) == r.inits = s.inits /\ Len(r.ctrls) = Len(s.ctrls) /\ Keeps(s, r, Len(s.ctrls))
Stops(s, r) ==
  /\ r.vals = FirstN(s.vals, TopOf(s).height) /\ r.inits = s.inits
  /\ Len(r.ctrls) = Len(s.ctrls) /\ Keeps(s, r, Len(s.ctrls) - 1)
  /\ SameFrame(TopOf(s), TopOf(r)) /\ TopOf(r).dead
Enters(s, r, i, p, ts) ==
  /\ CanPop(TopOf(s), s.vals, ts)
  /\ r.vals = Pop(TopOf(s), s.vals, ts) \o i.bt.in
  /\ r.inits = s.inits
  /\ Len(r.ctrls) = Len(s.ctrls) + 1 /\ Keeps(s, r, Len(s.ctrls))
  /\ TopOf(r).start = p + 1 /\ TopOf(r).bt = i.bt /\ TopOf(r).op = i.op /\ ~TopOf(r).dead
  /\ TopOf(r).height = Len(Pop(TopOf(s), s.vals, ts)) /\ TopOf(r).inits = Len(s.inits)
\* The arm of the innermost frame ends, leaving operands ts.
EndsArm(s, r, ts) ==
  /\ CanPop(TopOf(s), s.vals, TopOf(s).bt.out)
  /\ Len(Pop(TopOf(s), s.vals, TopOf(s).bt.out)) = TopOf(s).height
  /\ r.vals = Pop(TopOf(s), s.vals, TopOf(s).bt.out) \o ts
  /\ r.inits = FirstN(s.inits, TopOf(s).inits)
ClauseFitsAt(s, c) ==
  /\ c.label < Len(s.ctrls)
  /\ Len(ClauseTypes(c)) = Len(LabelTypes(LabelAt(s, c.label)))
  /\ \A k \in DOMAIN LabelTypes(LabelAt(s, c.label)) :
       Matches(ClauseTypes(c)[k], LabelTypes(LabelAt(s, c.label))[k])

ConstEffect(s, r, i) == r.vals = Append(s.vals, i.type) /\ Plain(s, r)
DropEffect(s, r) ==
  /\ Len(s.vals) > TopOf(s).height \/ TopOf(s).dead
  /\ r.vals = FirstN(s.vals, IF Len(s.vals) > TopOf(s).height THEN Len(s.vals) - 1 ELSE TopOf(s).height)
  /\ Plain(s, r)
LocalGetEffect(s, r, i) ==
  i.local \in Known(s) /\ r.vals = Append(s.vals, LocalType[i.local]) /\ Plain(s, r)
LocalSetEffect(s, r, i) ==
  /\ CanPop(TopOf(s), s.vals, <<LocalType[i.local]>>)
  /\ r.vals = Pop(TopOf(s), s.vals, <<LocalType[i.local]>>)
  /\ r.inits = IF i.local \in Known(s) THEN s.inits ELSE Append(s.inits, i.local)
  /\ Len(r.ctrls) = Len(s.ctrls) /\ Keeps(s, r, Len(s.ctrls))
TryTableEffect(s, r, i, p) ==
  /\ Enters(s, r, i, p, i.bt.in)
  /\ \A k \in DOMAIN i.catches : ClauseFitsAt(s, i.catches[k])
  /\ TryInLoop \/ \A j \in DOMAIN s.ctrls : s.ctrls[j].op # "loop"
ElseEffect(s, r) ==
  /\ TopOf(s).op = "if" /\ EndsArm(s, r, TopOf(s).bt.in)
  /\ Len(r.ctrls) = Len(s.ctrls) /\ Keeps(s, r, Len(s.ctrls) - 1)
  /\ SameFrame(TopOf(s), TopOf(r)) /\ ~TopOf(r).dead
EndEffect(s, r) ==
  /\ EndsArm(s, r, TopOf(s).bt.out) /\ NoElseAllowed(TopOf(s))
  /\ Len(r.ctrls) = Len(s.ctrls) - 1 /\ Keeps(s, r, Len(s.ctrls) - 1)
BrEffect(s, r, i) ==
  i.label < Len(s.ctrls) /\ CanPop(TopOf(s), s.vals, LabelTypes(LabelAt(s, i.label))) /\ Stops(s, r)
BrIfEffect(s, r, i) ==
  /\ i.label < Len(s.ctrls) /\ CanPop(TopOf(s), s.vals, <<Condition>>)
  /\ LET vs == Pop(TopOf(s), s.vals, <<Condition>>)
         ts == LabelTypes(LabelAt(s, i.label))
     IN CanPop(TopOf(s), vs, ts) /\ r.vals = Pop(TopOf(s), vs, ts) \o ts
  /\ Plain(s, r)
BrTableEffect(s, r, i) ==
  /\ CanPop(TopOf(s), s.vals, <<Condition>>)
  /\ LET vs == Pop(TopOf(s), s.vals, <<Condition>>) IN
     /\ \A k \in DOMAIN i.labels :
          /\ i.labels[k] < Len(s.ctrls)
          /\ Len(LabelTypes(LabelAt(s, i.labels[k]))) = Len(LabelTypes(LabelAt(s, i.labels[1])))
          /\ CanPop([TopOf(s) EXCEPT !.dead = TRUE], vs, LabelTypes(LabelAt(s, i.labels[k])))
     /\ CanPop(TopOf(s), vs, LabelTypes(LabelAt(s, i.labels[1])))
  /\ Stops(s, r)

\* Instruction i at position p takes record s to record r.
Effect(s, r, i, p) ==
  /\ s.ctrls # <<>>
  /\ r.next = s.next + Slots(i)
  /\ i.op = "const" => ConstEffect(s, r, i)
  /\ i.op = "drop" => DropEffect(s, r)
  /\ i.op = "local_get" => LocalGetEffect(s, r, i)
  /\ i.op = "local_set" => LocalSetEffect(s, r, i)
  /\ i.op \in {"block", "loop"} => Enters(s, r, i, p, i.bt.in)
  /\ i.op = "try_table" => TryTableEffect(s, r, i, p)
  /\ i.op = "if" => Enters(s, r, i, p, i.bt.in \o <<Condition>>)
  /\ i.op = "else" => ElseEffect(s, r)
  /\ i.op = "end" => EndEffect(s, r)
  /\ i.op = "br" => BrEffect(s, r, i)
  /\ i.op = "br_if" => BrIfEffect(s, r, i)
  /\ i.op = "br_table" => BrTableEffect(s, r, i)
  /\ i.op = "return" => CanPop(TopOf(s), s.vals, Results) /\ Stops(s, r)
  /\ i.op = "throw" => CanPop(TopOf(s), s.vals, TagType[i.tag]) /\ Stops(s, r)
  /\ i.op = "unreachable" => Stops(s, r)
  /\ i.op \in {"const", "drop", "local_get", "local_set", "block", "loop", "try_table", "if", "else",
               "end", "br", "br_if", "br_table", "return", "throw", "unreachable"}

FirstRecord(s) ==
  /\ Len(s.ctrls) = 1 /\ Alive(s) /\ s.vals = <<>> /\ s.next = 1 /\ Known(s) = Preset
HistoryOK ==
  /\ code \in Seq(Instr) /\ seen \in Seq(HeldSet) /\ Len(seen) = Len(code) + 1
  /\ FirstRecord(seen[1])
  /\ \A p \in DOMAIN seen : HeldOK(seen[p], p)
  /\ \A p \in DOMAIN code : Effect(seen[p], seen[p + 1], code[p], p)
  /\ \A p, q \in DOMAIN seen : p <= q => seen[p].next <= seen[q].next
  /\ FrozenWhileOpen

(***************************************************************************)
(* The entries of the side table                                           *)
(***************************************************************************)
LabelOf(i, k) ==
  IF i.op = "br_table" THEN i.labels[k] ELSE IF i.op = "try_table" THEN i.catches[k].label ELSE i.label
\* The frame that entry k of instruction i branches out of, or to the start of, when
\* the instruction was read in record s.
HomeAt(s, i, k) ==
  IF i.op = "if" THEN Len(s.ctrls) + 1
  ELSE IF i.op = "else" THEN Len(s.ctrls) ELSE Len(s.ctrls) - LabelOf(i, k)
LoopAt(s, i, k) == i.op # "if" /\ s.ctrls[HomeAt(s, i, k)].op = "loop"
StartAt(s, i, p, k) == IF i.op = "if" THEN p + 1 ELSE s.ctrls[HomeAt(s, i, k)].start
\* The operands the branch starts from, those it carries and those it pops.
Operands(s, i) ==
  IF i.op \in {"br_if", "br_table"} THEN Len(Pop(TopOf(s), s.vals, <<Condition>>))
  ELSE IF i.op = "try_table" THEN Len(Pop(TopOf(s), s.vals, i.bt.in)) ELSE Len(s.vals)
CarriesAt(s, i, k) ==
  IF i.op = "if" THEN 0
  ELSE IF i.op = "else" THEN Len(TopOf(s).bt.out) ELSE Len(LabelTypes(s.ctrls[HomeAt(s, i, k)]))
PopsAt(s, i, k) ==
  IF i.op \in {"if", "else"} THEN 0
  ELSE LET h == s.ctrls[HomeAt(s, i, k)].height
           n == Operands(s, i) - h - (IF i.op = "try_table" THEN 0 ELSE CarriesAt(s, i, k))
       IN IF n > 0 THEN n ELSE 0
HomeIdx(p, k) == HomeAt(seen[p], code[p], k)
HomeLoop(p, k) == LoopAt(seen[p], code[p], k)
HomeStart(p, k) == StartAt(seen[p], code[p], p, k)
Carries(p, k) == CarriesAt(seen[p], code[p], k)
Pops(p, k) == PopsAt(seen[p], code[p], k)

\* The instruction before q is the end, or the else, of the frame j that begins at b.
ClosedBy(o, q, j, b) ==
  q - 1 \in DOMAIN code /\ code[q - 1].op = o /\ Len(seen[q - 1].ctrls) = j /\ OpenIn(seen[q - 1], j, b)

Source(e) == st[e].from - 1
Nth(e) == e - seen[Source(e)].next + 1
\* Entry e waits in frames cs, for the end or the else of its home.
PendingIn(cs, e) ==
  LET p == Source(e)  k == Nth(e)  j == HomeIdx(p, k) IN
  /\ j \in DOMAIN cs /\ cs[j].start = HomeStart(p, k)
  /\ IF code[p].op = "if" THEN cs[j].else = e ELSE e \in cs[j].fixups
Landing(p, k, to, skip) ==
  LET j == HomeIdx(p, k)  b == HomeStart(p, k) IN
  \/ HomeLoop(p, k) /\ to = b /\ skip = 0
  \/ /\ ~HomeLoop(p, k) /\ ClosedBy("end", to, j, b) /\ skip = 0 /\ to > p + 1
     /\ code[p].op = "if" => seen[to - 1].ctrls[j].op = "if"
  \/ code[p].op = "if" /\ ClosedBy("else", to, j, b) /\ skip = 1 /\ to > p + 1
EntryOK(cs, e) ==
  LET p == Source(e)  k == Nth(e) IN
  /\ p \in DOMAIN code /\ k \in 1 .. Slots(code[p])
  /\ st[e].vals = Carries(p, k) /\ st[e].pop = Pops(p, k)
  /\ \/ ~HomeLoop(p, k) /\ PendingIn(cs, e) /\ st[e].to = 0 /\ st[e].skip = 0
     \/ Landing(p, k, st[e].to, st[e].skip)
\* What a frame waits for belongs to it.
WaitsFor(f, j, e) ==
  /\ e \in DOMAIN st
  /\ HomeIdx(Source(e), Nth(e)) = j /\ HomeStart(Source(e), Nth(e)) = f.start
  /\ ~HomeLoop(Source(e), Nth(e))
WaitsOK(cs, j) ==
  /\ cs[j].op = "if" <=> cs[j].else # 0
  /\ \A e \in cs[j].fixups : WaitsFor(cs[j], j, e) /\ code[Source(e)].op # "if"
  /\ cs[j].else # 0 => /\ WaitsFor(cs[j], j, cs[j].else) /\ code[Source(cs[j].else)].op = "if"
                       /\ st[cs[j].else].skip = 0
EntrySet == [from : Nat, to : Nat, vals : Nat, pop : Nat, skip : {0, 1}]
EntriesOK(cs) ==
  /\ st \in Seq(EntrySet)
  /\ Len(st) + 1 = seen[Len(seen)].next
  /\ \A e \in DOMAIN st : EntryOK(cs, e)
  /\ \A j \in DOMAIN cs : WaitsOK(cs, j)

TrySet == [at : Nat, stp : Nat, end : Nat]
TryOK(cs, t) ==
  LET p == trys[t].at - 1  b == trys[t].at  j == Len(seen[b].ctrls) IN
  /\ p \in DOMAIN code /\ code[p].op = "try_table" /\ trys[t].stp = seen[p].next
  /\ \/ j \in DOMAIN cs /\ cs[j].start = b /\ cs[j].try = t
     \/ ClosedBy("end", trys[t].end, j, b)
TrysOK(cs) ==
  /\ trys \in Seq(TrySet)
  /\ \A t \in DOMAIN trys : TryOK(cs, t)
  /\ \A p \in DOMAIN code : code[p].op = "try_table" => \E t \in DOMAIN trys : trys[t].at = p + 1
  /\ \A t, u \in DOMAIN trys : trys[t].at = trys[u].at => t = u
  /\ \A j \in DOMAIN cs : cs[j].try # 0 => cs[j].try \in DOMAIN trys /\ trys[cs[j].try].at = cs[j].start

ValidatorInv ==
  phase = "validate" =>
    /\ HistoryOK /\ EntriesOK(ctrls) /\ TrysOK(ctrls)
    /\ seen[Len(seen)] = Held
    /\ set = Known(Held)

(***************************************************************************)
(* The accepted body and the machine                                       *)
(***************************************************************************)
EntryTo(p, k) == p + 1 + table[seen[p].next + k - 1].ip
EntryFits(p, k, e, q) ==
  /\ table[e].vals = Carries(p, k) /\ table[e].pop = Pops(p, k)
  /\ q \in DOMAIN seen /\ e + table[e].stp = seen[q].next
  /\ \E skip \in {0, 1} : Landing(p, k, q, skip)
TableOK ==
  /\ DOMAIN table = 1 .. (seen[Len(seen)].next - 1) /\ Len(table) = seen[Len(seen)].next - 1
  /\ \A p \in DOMAIN code : \A k \in 1 .. Slots(code[p]) : EntryFits(p, k, seen[p].next + k - 1, EntryTo(p, k))
AcceptedOK == HistoryOK /\ TableOK /\ TrysOK(<<>>) /\ code # <<>> /\ seen[Len(seen)].ctrls = <<>>

\* An if that was closed without an else, whose parameters fit its results.
ElselessIfsFit ==
  \A p \in DOMAIN code : code[p].op = "end" /\ TopOf(seen[p]).op = "if" =>
    \A k \in DOMAIN TopOf(seen[p]).bt.in : Matches(TopOf(seen[p]).bt.in[k], TopOf(seen[p]).bt.out[k])

ValueSet == [type : Type, from : Nat]
\* Numbers of operands agree in any case, types if such ifs fit.
Typed(v, t) == ElselessIfsFit => Matches(v.type, t)
FitsTypes(vs, ts) == Len(vs) = Len(ts) /\ \A k \in DOMAIN ts : Typed(vs[k], ts[k])
\* Operands vs and cursor c are those the pass had at position p; behind the code the
\* topmost operands are the results (return leaves others below them).
OperandsOK(vs, p, c) ==
  /\ vs \in Seq(ValueSet) /\ p \in DOMAIN seen /\ c \in 1 .. (Len(table) + 1)
  /\ p <= Len(code) => Alive(seen[p]) /\ FitsTypes(vs, seen[p].vals) /\ c = seen[p].next
  /\ p > Len(code) => Len(vs) >= Len(Results) /\ FitsTypes(LastN(vs, Len(Results)), Results)
\* What the pass knows to be written at position p is.
LocalsOK(ls, p) ==
  /\ DOMAIN ls = DOMAIN LocalType
  /\ \A x \in DOMAIN LocalType : /\ Typed(ls[x], LocalType[x])
                                 /\ ls[x] \in ValueSet \/ ls[x] = NeverSet(LocalType[x])
  /\ p <= Len(code) => \A x \in Known(seen[p]) : ls[x] \in ValueSet
\* Handler h was pushed at a try_table before position p; prune_handlers may not have
\* dropped it yet.
HandlerOK(h, p) ==
  LET q == h.at - 1 IN
  /\ h.at \in Nat /\ h.end \in Nat
  /\ q \in DOMAIN code /\ code[q].op = "try_table" /\ h.at <= p
  /\ h.stp = seen[q].next /\ h.catches = code[q].catches
  /\ h.sp = TopOf(seen[h.at]).height /\ ClosedBy("end", h.end, Len(seen[h.at].ctrls), h.at)
\* A handler's construct lies inside those of the handlers below it.
Nested(hs) == \A k, l \in DOMAIN hs : k < l => hs[k].at < hs[l].at /\ hs[l].end < hs[k].end
HandlerSet == [sp : Nat, stp : Nat, at : Nat, end : Nat, catches : {i.catches : i \in {x \in Instr : x.op = "try_table"}}]
HandlersOK(hs, p) ==
  /\ hs \in Seq(HandlerSet)
  /\ \A k \in DOMAIN hs : HandlerOK(hs[k], p)
  /\ Nested(hs)
FrameGood(vs, p, c, ls, hs) == OperandsOK(vs, p, c) /\ LocalsOK(ls, p) /\ HandlersOK(hs, p)
MachineInv ==
  /\ phase = "run" => AcceptedOK /\ FrameGood(stack, pc, stp, locals, handlers)
  /\ phase \in {"validate", "rejected"} =>
       pc = 1 /\ stp = 1 /\ stack = <<>> /\ handlers = <<>> /\ locals = FirstLocals
  /\ outcome.kind # "none" => phase = "done"
  /\ outcome.kind = "return" => FitsTypes(outcome.vals, Results)

(***************************************************************************)
(* Numbers and sequences                                                   *)
(***************************************************************************)

\* A set of natural numbers has a least element.
LEMMA LeastNumber ==
  ASSUME NEW S \in SUBSET Nat, S # {}
  PROVE  \E m \in S : \A k \in S : m <= k
<1>1. IsWellFoundedOn(OpToRel(<, Nat), Nat)
  BY NatLessThanWellFounded
<1>2. PICK m \in S : \A k \in S : <<k, m>> \notin OpToRel(<, Nat)
  BY <1>1, WFMin
<1>3. \A k \in S : ~ (k < m)
  BY <1>2 DEF OpToRel
<1> QED
  BY <1>3

\* A bounded set of natural numbers has a greatest.
LEMMA GreatestNumber ==
  ASSUME NEW n \in Nat, NEW S \in SUBSET (0 .. n), S # {}
  PROVE  \E m \in S : \A k \in S : k <= m
<1> DEFINE U == {u \in 0 .. n : n - u \in S}
<1>1. PICK k \in S : TRUE
  OBVIOUS
<1>2. n - k \in 0 .. n /\ n - (n - k) = k /\ k \in S
  BY <1>1
<1>3. n - k \in U
  BY <1>2, Zenon
<1>4. U \in SUBSET Nat /\ U # {}
  <2>1. U \subseteq 0 .. n
    OBVIOUS
  <2>2. U \in SUBSET Nat
    BY <2>1
  <2> QED
    BY <2>2, <1>3
<1>5. PICK u \in U : \A w \in U : u <= w
  BY <1>4, LeastNumber
<1>6. ASSUME NEW w \in S
      PROVE  n - u >= w
  <2>1. n - w \in U
    OBVIOUS
  <2>2. u <= n - w /\ w \in 0 .. n /\ u \in 0 .. n
    BY <2>1, <1>5
  <2> QED
    BY <2>2
<1> QED
  BY <1>5, <1>6

\* The first and the last elements of a sequence.
LEMMA FirstNEffect ==
  ASSUME NEW S, NEW s \in Seq(S), NEW n \in 0 .. Len(s)
  PROVE  /\ FirstN(s, n) \in Seq(S) /\ Len(FirstN(s, n)) = n
         /\ \A i \in 1 .. n : FirstN(s, n)[i] = s[i]
<1>1. Len(s) \in Nat /\ DOMAIN s = 1 .. Len(s)
  BY LenProperties
<1>2. \A i \in 1 .. n : s[i] \in S
  BY <1>1, ElementOfSeq
<1>3. FirstN(s, n) \in Seq(S) /\ Len(FirstN(s, n)) = n /\ \A i \in 1 .. n : FirstN(s, n)[i] = s[i]
  BY <1>2, SubSeqProperties DEF FirstN
<1> QED
  BY <1>3, LenProperties

LEMMA LastNEffect ==
  ASSUME NEW S, NEW s \in Seq(S), NEW n \in 0 .. Len(s)
  PROVE  /\ LastN(s, n) \in Seq(S) /\ Len(LastN(s, n)) = n
         /\ \A i \in 1 .. n : LastN(s, n)[i] = s[Len(s) - n + i]
<1>1. Len(s) \in Nat /\ DOMAIN s = 1 .. Len(s)
  BY LenProperties
<1>2. \A i \in (Len(s) - n + 1) .. Len(s) : s[i] \in S
  BY <1>1, ElementOfSeq
<1>3. /\ LastN(s, n) \in Seq(S) /\ Len(LastN(s, n)) = n
      /\ \A i \in 1 .. n : LastN(s, n)[i] = s[(Len(s) - n + 1) + i - 1]
  BY <1>1, <1>2, SubSeqProperties DEF LastN
<1>4. \A i \in 1 .. n : (Len(s) - n + 1) + i - 1 = Len(s) - n + i
  BY <1>1
<1> QED
  BY <1>3, <1>4, LenProperties

\* A sequence behind another.
LEMMA BehindEffect ==
  ASSUME NEW S, NEW s \in Seq(S), NEW t \in Seq(S)
  PROVE  /\ s \o t \in Seq(S) /\ Len(s \o t) = Len(s) + Len(t)
         /\ \A i \in 1 .. Len(s) : (s \o t)[i] = s[i]
         /\ \A i \in 1 .. Len(t) : (s \o t)[Len(s) + i] = t[i]
<1>1. Len(s) \in Nat /\ Len(t) \in Nat
  BY LenProperties
<1>2. /\ s \o t \in Seq(S) /\ Len(s \o t) = Len(s) + Len(t)
      /\ \A i \in 1 .. Len(s) + Len(t) : (s \o t)[i] = IF i <= Len(s) THEN s[i] ELSE t[i - Len(s)]
  BY ConcatProperties
<1>3. \A i \in 1 .. Len(t) : Len(s) + i \in 1 .. Len(s) + Len(t) /\ ~(Len(s) + i <= Len(s)) /\ Len(s) + i - Len(s) = i
  BY <1>1
<1> QED
  BY <1>1, <1>2, <1>3, LenProperties

LEMMA BehindTypes ==
  ASSUME NEW a \in Seq(Type), NEW b \in Seq(Type)
  PROVE  /\ a \o b \in Seq(Type) /\ Len(a \o b) = Len(a) + Len(b)
         /\ (\A k \in 1 .. Len(a) : (a \o b)[k] = a[k]) /\ (\A k \in 1 .. Len(b) : (a \o b)[Len(a) + k] = b[k])
BY BehindEffect

LEMMA AppendEffect ==
  ASSUME NEW S, NEW s \in Seq(S), NEW x \in S
  PROVE  /\ Append(s, x) \in Seq(S) /\ Len(Append(s, x)) = Len(s) + 1 /\ Len(s) \in Nat
         /\ \A i \in 1 .. Len(s) : Append(s, x)[i] = s[i]
         /\ Append(s, x)[Len(s) + 1] = x
BY AppendProperties, LenProperties

LEMMA ValuesAppend ==
  ASSUME NEW S, NEW s \in Seq(S), NEW x \in S
  PROVE  {Append(s, x)[k] : k \in DOMAIN Append(s, x)} = {s[k] : k \in DOMAIN s} \cup {x}
<1>1. /\ Append(s, x) \in Seq(S) /\ Len(Append(s, x)) = Len(s) + 1 /\ Len(s) \in Nat
      /\ \A i \in 1 .. Len(s) : Append(s, x)[i] = s[i]
      /\ Append(s, x)[Len(s) + 1] = x
  BY AppendEffect
<1>2. DOMAIN Append(s, x) = 1 .. (Len(s) + 1) /\ DOMAIN s = 1 .. Len(s)
  BY <1>1, LenProperties
<1>3. 1 .. (Len(s) + 1) = (1 .. Len(s)) \cup {Len(s) + 1}
  BY <1>1
<1>4. {Append(s, x)[k] : k \in 1 .. (Len(s) + 1)} = {Append(s, x)[k] : k \in 1 .. Len(s)} \cup {x}
  BY <1>1, <1>3
<1>5. {Append(s, x)[k] : k \in 1 .. Len(s)} = {s[k] : k \in 1 .. Len(s)}
  BY <1>1
<1> QED
  BY <1>2, <1>4, <1>5

\* What popping types ts leaves, and what it took of a frame that is not dead.
LEMMA PopEffect ==
  ASSUME NEW f, f.height \in Nat, NEW vs \in Seq(Type), f.height <= Len(vs), NEW ts \in Seq(Type)
  PROVE  /\ Pop(f, vs, ts) \in Seq(Type) /\ Len(Pop(f, vs, ts)) \in Nat
         /\ f.height <= Len(Pop(f, vs, ts)) /\ Len(Pop(f, vs, ts)) <= Len(vs)
         /\ \A k \in 1 .. Len(Pop(f, vs, ts)) : Pop(f, vs, ts)[k] = vs[k]
         /\ CanPop(f, vs, ts) /\ ~f.dead =>
              /\ Len(Pop(f, vs, ts)) + Len(ts) = Len(vs)
              /\ \A k \in 1 .. Len(ts) : Matches(vs[Len(Pop(f, vs, ts)) + k], ts[k])
<1>1. Len(vs) \in Nat /\ DOMAIN vs = 1 .. Len(vs) /\ Len(ts) \in Nat /\ DOMAIN ts = 1 .. Len(ts)
  BY LenProperties
<1> DEFINE n == IF Len(vs) - Len(ts) >= f.height THEN Len(vs) - Len(ts) ELSE f.height
<1>2. n \in 0 .. Len(vs) /\ f.height <= n /\ Pop(f, vs, ts) = FirstN(vs, n)
  BY <1>1 DEF Pop
<1>3. /\ FirstN(vs, n) \in Seq(Type) /\ Len(FirstN(vs, n)) = n
      /\ \A i \in 1 .. n : FirstN(vs, n)[i] = vs[i]
  BY <1>2, FirstNEffect
<1>4. ASSUME CanPop(f, vs, ts), ~f.dead
      PROVE  n + Len(ts) = Len(vs) /\ \A k \in 1 .. Len(ts) : Matches(vs[n + k], ts[k])
  <2> PICK a : a = Len(vs)
    OBVIOUS
  <2> PICK b : b = Len(ts)
    OBVIOUS
  <2> PICK h : h = f.height
    OBVIOUS
  <2>1. a \in Nat /\ b \in Nat /\ h \in Nat /\ h <= a
    BY <1>1
  <2>2. \A i \in 1 .. b : IF b - i < a - h THEN Matches(vs[a - (b - i)], ts[i]) ELSE f.dead
    BY <1>1, <1>4 DEF CanPop
  <2>3. \A i \in 1 .. b : b - i < a - h /\ Matches(vs[a - (b - i)], ts[i])
    BY <1>4, <2>2
  <2>4. b <= a - h
    <3>1. CASE b = 0
      BY <2>1, <3>1
    <3>2. CASE b # 0
      <4>1. 1 \in 1 .. b
        BY <2>1, <3>2
      <4>2. b - 1 < a - h
        BY <2>3, <4>1
      <4> QED
        BY <2>1, <4>2
    <3> QED
      BY <3>1, <3>2
  <2>5. n = a - b
    BY <2>1, <2>4
  <2>6. \A k \in 1 .. b : a - (b - k) = (a - b) + k
    BY <2>1
  <2>7. \A k \in 1 .. b : Matches(vs[(a - b) + k], ts[k])
    BY <2>3, <2>6
  <2> QED
    BY <2>1, <2>5, <2>7
<1> HIDE DEF n
<1> QED
  BY <1>2, <1>3, <1>4

(***************************************************************************)
(* Frames and records                                                      *)
(***************************************************************************)
LEMMA TypesOfBlock ==
  ASSUME NEW i \in Instr
  PROVE  Decoded(i) /\ (Opens(i) => i.bt \in FrameTypes /\ i.bt.in \in Seq(Type) /\ i.bt.out \in Seq(Type))
<1>1. Decoded(i)
  BY SideTableAssumption
<1> QED
  BY <1>1 DEF Decoded, FrameTypes

LEMMA FrameFields ==
  ASSUME NEW f \in FrameSet
  PROVE  /\ f.op \in {"block", "loop", "if", "else", "try_table"} /\ f.bt \in FrameTypes
         /\ f.height \in Nat /\ f.inits \in Nat /\ f.dead \in BOOLEAN /\ f.start \in Nat
         /\ f.fixups \in SUBSET Nat /\ f.else \in Nat /\ f.try \in Nat
         /\ f.bt.in \in Seq(Type) /\ f.bt.out \in Seq(Type)
         /\ LabelTypes(f) \in Seq(Type) /\ Len(LabelTypes(f)) \in Nat
<1>1. /\ f.op \in {"block", "loop", "if", "else", "try_table"} /\ f.bt \in FrameTypes
      /\ f.height \in Nat /\ f.inits \in Nat /\ f.dead \in BOOLEAN /\ f.start \in Nat
      /\ f.fixups \in SUBSET Nat /\ f.else \in Nat /\ f.try \in Nat
  BY DEF FrameSet
<1>2. f.bt.in \in Seq(Type) /\ f.bt.out \in Seq(Type)
  <2>1. CASE f.bt = FuncBt
    BY <2>1, SideTableAssumption, EmptySeq DEF FuncBt
  <2>2. ASSUME NEW x \in Instr, Opens(x), f.bt = x.bt
        PROVE  f.bt.in \in Seq(Type) /\ f.bt.out \in Seq(Type)
    BY <2>2, TypesOfBlock
  <2> QED
    BY <1>1, <2>1, <2>2 DEF FrameTypes
<1> QED
  BY <1>1, <1>2, LenProperties DEF LabelTypes

\* The parts of a record of the history.
LEMMA RecordParts ==
  ASSUME NEW s \in HeldSet
  PROVE  /\ s.vals \in Seq(Type) /\ Len(s.vals) \in Nat /\ (\A j : j \in DOMAIN s.vals <=> j \in 1 .. Len(s.vals))
         /\ s.ctrls \in Seq(FrameSet) /\ Len(s.ctrls) \in Nat /\ (\A j : j \in DOMAIN s.ctrls <=> j \in 1 .. Len(s.ctrls))
         /\ s.inits \in Seq(DOMAIN LocalType) /\ Len(s.inits) \in Nat
         /\ (\A j : j \in DOMAIN s.inits <=> j \in 1 .. Len(s.inits))
         /\ s.next \in Nat /\ (\A j \in 1 .. Len(s.ctrls) : s.ctrls[j] \in FrameSet)
         /\ (s.ctrls = <<>> <=> Len(s.ctrls) = 0)
<1>1. s.vals \in Seq(Type) /\ s.ctrls \in Seq(FrameSet) /\ s.inits \in Seq(DOMAIN LocalType) /\ s.next \in Nat
  BY DEF HeldSet
<1>2. Len(s.vals) \in Nat /\ (\A j : j \in DOMAIN s.vals <=> j \in 1 .. Len(s.vals))
  BY <1>1, LenProperties
<1>3. Len(s.ctrls) \in Nat /\ (\A j : j \in DOMAIN s.ctrls <=> j \in 1 .. Len(s.ctrls))
  BY <1>1, LenProperties
<1>4. Len(s.inits) \in Nat /\ (\A j : j \in DOMAIN s.inits <=> j \in 1 .. Len(s.inits))
  BY <1>1, LenProperties
<1>5. \A j \in 1 .. Len(s.ctrls) : s.ctrls[j] \in FrameSet
  BY <1>1, ElementOfSeq
<1>6. s.ctrls = <<>> <=> Len(s.ctrls) = 0
  BY <1>1, EmptySeq
<1> QED
  BY <1>1, <1>2, <1>3, <1>4, <1>5, <1>6

LEMMA RecordTop ==
  ASSUME NEW s \in HeldSet, NEW p, HeldOK(s, p), s.ctrls # <<>>
  PROVE  /\ Len(s.ctrls) \in Nat /\ Len(s.ctrls) >= 1 /\ Len(s.ctrls) \in 1 .. Len(s.ctrls)
         /\ TopOf(s) = s.ctrls[Len(s.ctrls)] /\ TopOf(s) \in FrameSet
         /\ TopOf(s).height \in Nat /\ TopOf(s).height <= Len(s.vals)
         /\ TopOf(s).inits \in Nat /\ TopOf(s).inits <= Len(s.inits)
         /\ TopOf(s).bt.in \in Seq(Type) /\ TopOf(s).bt.out \in Seq(Type) /\ TopOf(s).dead \in BOOLEAN
         /\ \A j \in 1 .. Len(s.ctrls) : /\ s.ctrls[j].height \in Nat /\ s.ctrls[j].inits \in Nat
                                         /\ s.ctrls[j].height <= TopOf(s).height
                                         /\ s.ctrls[j].inits <= TopOf(s).inits
<1>1. /\ Len(s.ctrls) \in Nat /\ Len(s.ctrls) # 0 /\ (\A j : j \in DOMAIN s.ctrls <=> j \in 1 .. Len(s.ctrls))
      /\ \A j \in 1 .. Len(s.ctrls) : s.ctrls[j] \in FrameSet
  BY RecordParts
<1> PICK n : n = Len(s.ctrls)
  OBVIOUS
<1>2. n \in 1 .. n /\ n \in Nat /\ n >= 1
  BY <1>1
<1> PICK t : t = TopOf(s)
  OBVIOUS
<1>3. t = s.ctrls[n] /\ t \in FrameSet
  BY <1>1, <1>2 DEF TopOf
<1>4. FrameOK(s, n, p)
  BY <1>1, <1>2 DEF HeldOK
<1>5. t.height <= Len(s.vals) /\ t.inits <= Len(s.inits)
  BY <1>3, <1>4 DEF FrameOK
<1>6. /\ t.height \in Nat /\ t.inits \in Nat /\ t.bt.in \in Seq(Type) /\ t.bt.out \in Seq(Type) /\ t.dead \in BOOLEAN
  BY <1>3, FrameFields
<1>7. ASSUME NEW j \in 1 .. n
      PROVE  /\ s.ctrls[j].height \in Nat /\ s.ctrls[j].inits \in Nat
             /\ s.ctrls[j].height <= t.height /\ s.ctrls[j].inits <= t.inits
  <2>1. s.ctrls[j].height \in Nat /\ s.ctrls[j].inits \in Nat
    BY <1>1, FrameFields
  <2>2. CASE j = n
    BY <1>3, <2>1, <2>2
  <2>3. CASE j # n
    <3>1. j < n /\ j \in DOMAIN s.ctrls /\ n \in DOMAIN s.ctrls
      BY <1>1, <1>2, <2>3
    <3>2. s.ctrls[j].height <= s.ctrls[n].height /\ s.ctrls[j].inits <= s.ctrls[n].inits
      BY <3>1 DEF HeldOK, Ordered
    <3> QED
      BY <1>3, <2>1, <3>2
  <2> QED
    BY <2>2, <2>3
<1> QED
  BY <1>2, <1>3, <1>5, <1>6, <1>7

(***************************************************************************)
(* What the validator's helpers do to the frames                           *)
(***************************************************************************)

\* Frames that differ at most in what waits for their end and in being dead.
Like(f, g) ==
  /\ f.op = g.op /\ f.bt = g.bt /\ f.height = g.height /\ f.inits = g.inits
  /\ f.start = g.start /\ f.else = g.else /\ f.try = g.try
\* Frame g is f with the entries E waiting for its end besides.
Grown(f, g, E) ==
  /\ g \in FrameSet /\ Like(f, g) /\ g.dead = f.dead
  /\ g.fixups = IF f.op = "loop" THEN f.fixups ELSE f.fixups \cup E
GrownFrame(f, E) == [f EXCEPT !.fixups = IF f.op = "loop" THEN @ ELSE @ \cup E]
DeadFrame(f) == [f EXCEPT !.dead = TRUE]
ElseFrame(f, e) ==
  [f EXCEPT !.op = "else", !.else = 0, !.dead = FALSE, !.fixups = f.fixups \cup {e}]

LEMMA GrownFrameIs ==
  ASSUME NEW f \in FrameSet, NEW E \in SUBSET Nat
  PROVE  Grown(f, GrownFrame(f, E), E)
<1>1. GrownFrame(f, E) \in FrameSet
  BY DEF GrownFrame, FrameSet
<1>2. Like(f, GrownFrame(f, E)) /\ GrownFrame(f, E).dead = f.dead
  BY DEF GrownFrame, FrameSet, Like
<1>3. GrownFrame(f, E).fixups = IF f.op = "loop" THEN f.fixups ELSE f.fixups \cup E
  BY DEF GrownFrame, FrameSet
<1> QED
  BY <1>1, <1>2, <1>3 DEF Grown

LEMMA DeadFrameIs ==
  ASSUME NEW f \in FrameSet
  PROVE  /\ DeadFrame(f) \in FrameSet /\ Like(f, DeadFrame(f)) /\ DeadFrame(f).dead = TRUE
         /\ DeadFrame(f).fixups = f.fixups
<1>1. DeadFrame(f) \in FrameSet
  BY DEF DeadFrame, FrameSet
<1>2. Like(f, DeadFrame(f)) /\ DeadFrame(f).fixups = f.fixups
  BY DEF DeadFrame, FrameSet, Like
<1>3. DeadFrame(f).dead = TRUE
  BY DEF DeadFrame, FrameSet
<1> QED
  BY <1>1, <1>2, <1>3

LEMMA ElseFrameIs ==
  ASSUME NEW f \in FrameSet, NEW e \in Nat
  PROVE  /\ ElseFrame(f, e) \in FrameSet
         /\ ElseFrame(f, e).op = "else" /\ ElseFrame(f, e).else = 0 /\ ElseFrame(f, e).dead = FALSE
         /\ ElseFrame(f, e).fixups = f.fixups \cup {e}
         /\ ElseFrame(f, e).bt = f.bt /\ ElseFrame(f, e).height = f.height
         /\ ElseFrame(f, e).inits = f.inits /\ ElseFrame(f, e).start = f.start
         /\ ElseFrame(f, e).try = f.try
<1>1. ElseFrame(f, e) \in FrameSet
  BY DEF ElseFrame, FrameSet
<1>2. /\ ElseFrame(f, e).op = "else" /\ ElseFrame(f, e).else = 0
      /\ ElseFrame(f, e).fixups = f.fixups \cup {e}
  BY DEF ElseFrame, FrameSet
<1>3. ElseFrame(f, e).dead = FALSE
  BY DEF ElseFrame, FrameSet
<1>4. /\ ElseFrame(f, e).bt = f.bt /\ ElseFrame(f, e).height = f.height
      /\ ElseFrame(f, e).inits = f.inits /\ ElseFrame(f, e).start = f.start
      /\ ElseFrame(f, e).try = f.try
  BY DEF ElseFrame, FrameSet
<1> QED
  BY <1>1, <1>2, <1>3, <1>4

\* tc_unreachable marks the innermost frame.
LEMMA DeadEffect ==
  ASSUME NEW cs \in Seq(FrameSet), cs # <<>>
  PROVE  /\ Dead(cs) \in Seq(FrameSet) /\ Len(Dead(cs)) = Len(cs)
         /\ \A j \in 1 .. Len(cs) : j # Len(cs) => Dead(cs)[j] = cs[j]
         /\ Dead(cs)[Len(cs)].dead = TRUE /\ Dead(cs)[Len(cs)].fixups = cs[Len(cs)].fixups
         /\ Like(cs[Len(cs)], Dead(cs)[Len(cs)])
<1>1. Len(cs) \in 1 .. Len(cs)
  BY EmptySeq, LenProperties
<1>2. cs[Len(cs)] \in FrameSet
  BY <1>1, ElementOfSeq
<1> DEFINE x == DeadFrame(cs[Len(cs)])
<1>3. Dead(cs) = [cs EXCEPT ![Len(cs)] = x]
  BY DEF Dead, DeadFrame
<1>4. /\ x \in FrameSet /\ Like(cs[Len(cs)], x) /\ x.dead = TRUE /\ x.fixups = cs[Len(cs)].fixups
  BY <1>2, DeadFrameIs
<1> HIDE DEF x
<1>5. /\ [cs EXCEPT ![Len(cs)] = x] \in Seq(FrameSet) /\ Len([cs EXCEPT ![Len(cs)] = x]) = Len(cs)
      /\ \A j \in 1 .. Len(cs) : [cs EXCEPT ![Len(cs)] = x][j] = IF j = Len(cs) THEN x ELSE cs[j]
  BY <1>1, <1>4, ExceptSeq
<1> QED
  BY <1>1, <1>3, <1>4, <1>5

\* The entries E come to wait for the end of one frame.
LEMMA WaitingEffect ==
  ASSUME NEW cs \in Seq(FrameSet), NEW l \in Nat, l < Len(cs), NEW E \in SUBSET Nat
  PROVE  /\ Waiting(cs, l, E) \in Seq(FrameSet) /\ Len(Waiting(cs, l, E)) = Len(cs)
         /\ \A j \in 1 .. Len(cs) : Grown(cs[j], Waiting(cs, l, E)[j], IF j = Len(cs) - l THEN E ELSE {})
<1>1. Len(cs) \in Nat /\ Len(cs) - l \in 1 .. Len(cs)
  BY LenProperties
<1> PICK n : n = Len(cs) - l
  OBVIOUS
<1>2. cs[n] \in FrameSet /\ n \in 1 .. Len(cs) /\ n \in DOMAIN cs
  BY <1>1, ElementOfSeq, LenProperties
<1> DEFINE x == GrownFrame(cs[n], E)
<1>3. Waiting(cs, l, E) = [cs EXCEPT ![n] = x]
  BY DEF Waiting, GrownFrame
<1>4. Grown(cs[n], x, E)
  BY <1>2, GrownFrameIs
<1>5. x \in FrameSet
  BY <1>4 DEF Grown
<1> HIDE DEF x
<1>6. /\ [cs EXCEPT ![n] = x] \in Seq(FrameSet) /\ Len([cs EXCEPT ![n] = x]) = Len(cs)
      /\ \A j \in 1 .. Len(cs) : [cs EXCEPT ![n] = x][j] = IF j = n THEN x ELSE cs[j]
  BY <1>2, <1>5, ExceptSeq
<1>7. ASSUME NEW j \in 1 .. Len(cs)
      PROVE  Grown(cs[j], Waiting(cs, l, E)[j], IF j = n THEN E ELSE {})
  <2>1. CASE j = n
    BY <1>3, <1>4, <1>6, <2>1
  <2>2. CASE j # n
    <3>1. cs[j] \in FrameSet
      BY ElementOfSeq
    <3>2. Grown(cs[j], cs[j], {})
      BY <3>1 DEF Grown, Like
    <3> QED
      BY <1>3, <1>6, <2>2, <3>2
  <2> QED
    BY <2>1, <2>2
<1> QED
  BY <1>3, <1>6, <1>7

\* The frames with the entries of several labels waiting.
LEMMA WidenEffect ==
  ASSUME NEW cs \in Seq(FrameSet), NEW ds, DOMAIN ds = DOMAIN cs,
         NEW W, \A j \in DOMAIN cs : W[j] \in SUBSET Nat,
         ds = [j \in DOMAIN cs |-> GrownFrame(cs[j], W[j])]
  PROVE  /\ ds \in Seq(FrameSet) /\ Len(ds) = Len(cs)
         /\ \A j \in 1 .. Len(cs) : Grown(cs[j], ds[j], W[j])
<1>1. DOMAIN cs = 1 .. Len(cs) /\ Len(cs) \in Nat
  BY LenProperties
<1>2. ASSUME NEW j \in 1 .. Len(cs)
      PROVE  Grown(cs[j], ds[j], W[j])
  <2>1. cs[j] \in FrameSet
    BY ElementOfSeq
  <2>2. ds[j] = GrownFrame(cs[j], W[j])
    BY <1>1
  <2> QED
    BY <1>1, <2>1, <2>2, GrownFrameIs
<1>3. \A j \in 1 .. Len(cs) : ds[j] \in FrameSet
  BY <1>2 DEF Grown
<1>4. ds \in [1 .. Len(cs) -> FrameSet]
  BY <1>1, <1>3
<1>5. ds \in Seq(FrameSet)
  BY <1>1, <1>4, SeqDef
<1>6. Len(ds) = Len(cs)
  BY <1>1, <1>5, LenProperties
<1> QED
  BY <1>2, <1>5, <1>6

LEMMA LikeSame ==
  ASSUME NEW f, NEW g, Like(f, g)
  PROVE  SameFrame(f, g)
BY DEF Like, SameFrame, Construct

(***************************************************************************)
(* One instruction read: the frames and the entries                        *)
(***************************************************************************)

\* The entries instruction i leaves for frame j of record s.
Joins(s, i, j) == {e \in s.next .. (s.next + Slots(i) - 1) : HomeAt(s, i, e - s.next + 1) = j}
\* What becomes of frame j, which stays open.
FrameStep(s, r, i, j) ==
  /\ r.ctrls[j].try = s.ctrls[j].try
  /\ IF i.op = "else" /\ j = Len(s.ctrls)
       THEN r.ctrls[j].op = "else" /\ r.ctrls[j].else = 0
       ELSE r.ctrls[j].op = s.ctrls[j].op /\ r.ctrls[j].else = s.ctrls[j].else
  /\ r.ctrls[j].fixups = IF s.ctrls[j].op = "loop" THEN s.ctrls[j].fixups
                         ELSE s.ctrls[j].fixups \cup Joins(s, i, j)
NewFrame(s, r, i, t) ==
  /\ TopOf(r).fixups = {}
  /\ TopOf(r).else = IF i.op = "if" THEN s.next ELSE 0
  /\ TopOf(r).try = IF i.op = "try_table" THEN t ELSE 0
FramesStep(s, r, i, t) ==
  /\ \A j \in 1 .. Len(s.ctrls) : j <= Len(r.ctrls) => FrameStep(s, r, i, j)
  /\ Opens(i) => NewFrame(s, r, i, t)
\* Entry k of instruction i at position p.
NewEntry(s, i, p, k) ==
  [from |-> p + 1, to |-> IF LoopAt(s, i, k) THEN StartAt(s, i, p, k) ELSE 0,
   vals |-> CarriesAt(s, i, k), pop |-> PopsAt(s, i, k), skip |-> 0]
\* What instruction i makes of the entries es.
Landed(s, i) ==
  IF i.op = "end" THEN TopOf(s).fixups \cup {TopOf(s).else}
  ELSE IF i.op = "else" THEN {TopOf(s).else} ELSE {}
EntryStep(s, i, p, es, fs) ==
  /\ fs \in Seq(EntrySet) /\ Len(fs) = Len(es) + Slots(i)
  /\ \A k \in 1 .. Slots(i) : fs[Len(es) + k] = NewEntry(s, i, p, k)
  /\ \A e \in 1 .. Len(es) :
       /\ fs[e].from = es[e].from /\ fs[e].vals = es[e].vals /\ fs[e].pop = es[e].pop
       /\ IF e \in Landed(s, i)
            THEN fs[e].to = p + 1 /\ fs[e].skip = IF i.op = "else" THEN 1 ELSE es[e].skip
            ELSE fs[e].to = es[e].to /\ fs[e].skip = es[e].skip

LEMMA JoinsNone ==
  ASSUME NEW s, s.next \in Nat, NEW i, Slots(i) = 0, NEW j
  PROVE  Joins(s, i, j) = {}
BY DEF Joins

LEMMA JoinsOne ==
  ASSUME NEW s, s.next \in Nat, NEW i, Slots(i) = 1, NEW j
  PROVE  Joins(s, i, j) = IF HomeAt(s, i, 1) = j THEN {s.next} ELSE {}
<1>1. \A e : e \in s.next .. (s.next + 1 - 1) <=> e = s.next
  OBVIOUS
<1>2. s.next - s.next + 1 = 1
  OBVIOUS
<1>3. \A e : e \in Joins(s, i, j) <=> e = s.next /\ HomeAt(s, i, 1) = j
  BY <1>1, <1>2 DEF Joins
<1> QED
  BY <1>3

LEMMA JoinsNumbers ==
  ASSUME NEW s, s.next \in Nat, NEW i, Slots(i) \in Nat, NEW j
  PROVE  Joins(s, i, j) \in SUBSET Nat
BY DEF Joins

LEMMA GrownNone ==
  ASSUME NEW f \in FrameSet, NEW E, E = {}
  PROVE  Grown(f, f, E)
BY DEF Grown, Like

\* Frames ds are those of record s with the entries of instruction i waiting.
Joined(s, i, ds) ==
  /\ ds \in Seq(FrameSet) /\ Len(ds) = Len(s.ctrls)
  /\ \A j \in 1 .. Len(s.ctrls) : Grown(s.ctrls[j], ds[j], Joins(s, i, j))

LEMMA JoinedNone ==
  ASSUME NEW s \in HeldSet, NEW i, Slots(i) = 0
  PROVE  Joined(s, i, s.ctrls)
<1>1. s.ctrls \in Seq(FrameSet) /\ s.next \in Nat /\ \A j \in 1 .. Len(s.ctrls) : s.ctrls[j] \in FrameSet
  BY RecordParts
<1>2. \A j : Joins(s, i, j) = {}
  BY <1>1, JoinsNone
<1>3. \A j \in 1 .. Len(s.ctrls) : Grown(s.ctrls[j], s.ctrls[j], Joins(s, i, j))
  BY <1>1, <1>2, GrownNone
<1> QED
  BY <1>1, <1>3 DEF Joined

LEMMA JoinedOne ==
  ASSUME NEW s \in HeldSet, NEW i, Slots(i) = 1, NEW l \in Nat, l < Len(s.ctrls),
         HomeAt(s, i, 1) = Len(s.ctrls) - l
  PROVE  Joined(s, i, Waiting(s.ctrls, l, {s.next}))
<1>1. s.ctrls \in Seq(FrameSet) /\ s.next \in Nat
  BY RecordParts
<1>2. \A j : Joins(s, i, j) = IF Len(s.ctrls) - l = j THEN {s.next} ELSE {}
  BY <1>1, JoinsOne
<1>3. {s.next} \in SUBSET Nat
  BY <1>1
<1>4. /\ Waiting(s.ctrls, l, {s.next}) \in Seq(FrameSet)
      /\ Len(Waiting(s.ctrls, l, {s.next})) = Len(s.ctrls)
      /\ \A j \in 1 .. Len(s.ctrls) :
           Grown(s.ctrls[j], Waiting(s.ctrls, l, {s.next})[j], IF j = Len(s.ctrls) - l THEN {s.next} ELSE {})
  BY <1>1, <1>3, WaitingEffect
<1>5. \A j : Joins(s, i, j) = IF j = Len(s.ctrls) - l THEN {s.next} ELSE {}
  BY <1>2
<1> QED
  BY <1>4, <1>5 DEF Joined

LEMMA JoinedMany ==
  ASSUME NEW s \in HeldSet, NEW i, Slots(i) \in Nat, NEW ds, NEW W,
         \A j \in DOMAIN s.ctrls : W[j] = Joins(s, i, j),
         ds = [j \in DOMAIN s.ctrls |-> GrownFrame(s.ctrls[j], W[j])]
  PROVE  Joined(s, i, ds)
<1>1. s.ctrls \in Seq(FrameSet) /\ s.next \in Nat /\ \A j : j \in DOMAIN s.ctrls <=> j \in 1 .. Len(s.ctrls)
  BY RecordParts
<1>2. \A j \in DOMAIN s.ctrls : W[j] \in SUBSET Nat
  BY <1>1, JoinsNumbers
<1>3. DOMAIN ds = DOMAIN s.ctrls
  OBVIOUS
<1>4. /\ ds \in Seq(FrameSet) /\ Len(ds) = Len(s.ctrls)
      /\ \A j \in 1 .. Len(s.ctrls) : Grown(s.ctrls[j], ds[j], W[j])
  BY <1>1, <1>2, <1>3, WidenEffect
<1> QED
  BY <1>1, <1>4 DEF Joined

\* The frame step of the three shapes: all stay, the innermost dies, one is opened.
LEMMA StepPlain ==
  ASSUME NEW s \in HeldSet, NEW i, i.op # "else", ~Opens(i), NEW t,
         NEW r, Joined(s, i, r.ctrls)
  PROVE  /\ Len(r.ctrls) = Len(s.ctrls) /\ Keeps(s, r, Len(s.ctrls))
         /\ FramesStep(s, r, i, t)
<1>1. Len(r.ctrls) = Len(s.ctrls) /\ Len(s.ctrls) \in Nat
  BY RecordParts DEF Joined
<1>2. ASSUME NEW j \in 1 .. Len(s.ctrls)
      PROVE  /\ FrameStep(s, r, i, j)
             /\ SameFrame(s.ctrls[j], r.ctrls[j]) /\ s.ctrls[j].dead = r.ctrls[j].dead
  <2>1. Grown(s.ctrls[j], r.ctrls[j], Joins(s, i, j))
    BY DEF Joined
  <2>2. SameFrame(s.ctrls[j], r.ctrls[j])
    BY <2>1, LikeSame DEF Grown
  <2>3. FrameStep(s, r, i, j)
    BY <2>1 DEF Grown, Like, FrameStep
  <2> QED
    BY <2>1, <2>2, <2>3 DEF Grown
<1> QED
  BY <1>1, <1>2 DEF Keeps, FramesStep

LEMMA StepStops ==
  ASSUME NEW s \in HeldSet, s.ctrls # <<>>, NEW i, i.op # "else", ~Opens(i), NEW t,
         NEW ds, Joined(s, i, ds), NEW r, r.ctrls = Dead(ds),
         r.vals = FirstN(s.vals, TopOf(s).height), r.inits = s.inits
  PROVE  r.ctrls \in Seq(FrameSet) /\ Stops(s, r) /\ FramesStep(s, r, i, t)
<1> PICK n : n = Len(s.ctrls)
  OBVIOUS
<1>1. Len(ds) = n /\ n \in Nat /\ n >= 1 /\ ds \in Seq(FrameSet)
  BY RecordParts DEF Joined
<1>2. ds # <<>>
  BY <1>1, EmptySeq
<1>3. /\ r.ctrls \in Seq(FrameSet) /\ Len(r.ctrls) = n
      /\ \A j \in 1 .. n : j # n => r.ctrls[j] = ds[j]
      /\ r.ctrls[n].dead = TRUE /\ r.ctrls[n].fixups = ds[n].fixups
      /\ Like(ds[n], r.ctrls[n])
  BY <1>1, <1>2, DeadEffect, ZenonT(60)
<1>4. \A j \in 1 .. n : Grown(s.ctrls[j], ds[j], Joins(s, i, j))
  BY DEF Joined
<1>5. ASSUME NEW j \in 1 .. n
      PROVE  FrameStep(s, r, i, j) /\ SameFrame(s.ctrls[j], r.ctrls[j])
  <2>1. Like(s.ctrls[j], r.ctrls[j]) /\ r.ctrls[j].fixups = ds[j].fixups
    BY <1>3, <1>4, ZenonT(60) DEF Grown, Like
  <2>2. SameFrame(s.ctrls[j], r.ctrls[j])
    BY <2>1, LikeSame
  <2>3. FrameStep(s, r, i, j)
    BY <2>1, <1>4 DEF Grown, Like, FrameStep
  <2> QED
    BY <2>2, <2>3
<1>6. n - 1 <= n /\ \A j \in 1 .. (n - 1) : j \in 1 .. n /\ j # n
  BY <1>1
<1>7. \A j \in 1 .. (n - 1) : SameFrame(s.ctrls[j], r.ctrls[j]) /\ s.ctrls[j].dead = r.ctrls[j].dead
  BY <1>3, <1>4, <1>5, <1>6 DEF Grown
<1>8. Keeps(s, r, n - 1)
  BY <1>3, <1>6, <1>7 DEF Keeps
<1>9. SameFrame(TopOf(s), TopOf(r)) /\ TopOf(r).dead
  BY <1>1, <1>3, <1>5 DEF TopOf
<1>10. Stops(s, r)
  BY <1>3, <1>8, <1>9 DEF Stops
<1> QED
  BY <1>3, <1>5, <1>10 DEF FramesStep

LEMMA StepOpens ==
  ASSUME NEW s \in HeldSet, NEW i, i.op # "else", NEW t,
         NEW ds, Joined(s, i, ds), NEW g \in FrameSet, NEW r, r.ctrls = Append(ds, g),
         Opens(i) => NewFrame(s, r, i, t)
  PROVE  /\ r.ctrls \in Seq(FrameSet) /\ Len(r.ctrls) = Len(s.ctrls) + 1
         /\ Keeps(s, r, Len(s.ctrls)) /\ TopOf(r) = g /\ FramesStep(s, r, i, t)
<1> PICK n : n = Len(s.ctrls)
  OBVIOUS
<1>1. Len(ds) = n /\ n \in Nat /\ ds \in Seq(FrameSet)
  BY RecordParts DEF Joined
<1>2. /\ r.ctrls \in Seq(FrameSet) /\ Len(r.ctrls) = n + 1
      /\ \A j \in 1 .. n : r.ctrls[j] = ds[j]
      /\ r.ctrls[n + 1] = g
  BY <1>1, AppendEffect
<1>3. ASSUME NEW j \in 1 .. n
      PROVE  /\ FrameStep(s, r, i, j)
             /\ SameFrame(s.ctrls[j], r.ctrls[j]) /\ s.ctrls[j].dead = r.ctrls[j].dead
  <2>1. Grown(s.ctrls[j], r.ctrls[j], Joins(s, i, j))
    BY <1>2 DEF Joined
  <2>2. SameFrame(s.ctrls[j], r.ctrls[j])
    BY <2>1, LikeSame DEF Grown
  <2>3. FrameStep(s, r, i, j)
    BY <2>1 DEF Grown, Like, FrameStep
  <2> QED
    BY <2>1, <2>2, <2>3 DEF Grown
<1>4. n <= n + 1
  BY <1>1
<1>5. Keeps(s, r, n)
  BY <1>1, <1>2, <1>3, <1>4 DEF Keeps
<1>6. TopOf(r) = g
  BY <1>2 DEF TopOf
<1> QED
  BY <1>2, <1>3, <1>5, <1>6 DEF FramesStep

(***************************************************************************)
(* Reading one instruction                                                 *)
(***************************************************************************)
LEMMA HeldFields ==
  ASSUME NEW s, s = Held
  PROVE  s.vals = vals /\ s.ctrls = ctrls /\ s.inits = inits /\ s.next = Len(st) + 1
BY DEF Held

LEMMA HeldNext ==
  ASSUME NEW r, r = Held'
  PROVE  /\ r.vals = vals' /\ r.ctrls = ctrls' /\ r.inits = inits' /\ r.next = Len(st') + 1
         /\ r = [vals |-> vals', ctrls |-> ctrls', inits |-> inits', next |-> Len(st') + 1]
BY DEF Held

\* What holds when an instruction is read.
Reads(s, i, p) ==
  /\ i \in Instr /\ Decoded(i) /\ Slots(i) \in Nat
  /\ s \in HeldSet /\ HeldOK(s, p) /\ s.ctrls # <<>>
  /\ p = Len(code) + 1 /\ p \in Nat /\ Len(code) \in Nat /\ seen[p] = s
  /\ s.vals = vals /\ s.ctrls = ctrls /\ s.inits = inits /\ s.next = Len(st) + 1
  /\ st \in Seq(EntrySet) /\ Len(st) \in Nat /\ set = Known(s) /\ Top = TopOf(s)
  /\ Behind = p + 1

LEMMA SlotsNumber ==
  ASSUME NEW i \in Instr
  PROVE  Slots(i) \in Nat
<1>1. Decoded(i)
  BY SideTableAssumption
<1>2. CASE i.op = "br_table"
  BY <1>1, <1>2, LenProperties DEF Decoded, Slots
<1>3. CASE i.op = "try_table"
  BY <1>1, <1>3 DEF Decoded, Slots
<1> QED
  BY <1>2, <1>3 DEF Slots

LEMMA Reader ==
  ASSUME ValidatorInv, NEW i, Reading(i), NEW s, s = Held, NEW p, p = Len(code) + 1
  PROVE  Reads(s, i, p)
<1>1. i \in Instr /\ phase = "validate" /\ ctrls # <<>>
  BY DEF Reading
<1>2. HistoryOK /\ EntriesOK(ctrls) /\ seen[Len(seen)] = s /\ set = Known(s)
  BY <1>1 DEF ValidatorInv
<1>3. Decoded(i) /\ Slots(i) \in Nat
  BY <1>1, SlotsNumber, SideTableAssumption
<1>4. /\ code \in Seq(Instr) /\ seen \in Seq(HeldSet) /\ Len(seen) = Len(code) + 1
      /\ \A q \in DOMAIN seen : HeldOK(seen[q], q)
  BY <1>2 DEF HistoryOK
<1>5. Len(code) \in Nat /\ DOMAIN seen = 1 .. Len(seen)
  BY <1>4, LenProperties
<1>6. p \in Nat /\ p \in 1 .. Len(seen) /\ p = Len(seen)
  BY <1>4, <1>5
<1>7. s \in HeldSet
  BY <1>2, <1>4, <1>6, ElementOfSeq
<1>8. HeldOK(s, p)
  BY <1>2, <1>4, <1>5, <1>6
<1>9. s.vals = vals /\ s.ctrls = ctrls /\ s.inits = inits /\ s.next = Len(st) + 1
  BY HeldFields
<1>10. st \in Seq(EntrySet) /\ Len(st) \in Nat
  BY <1>2, LenProperties DEF EntriesOK
<1>11. Top = TopOf(s)
  BY <1>9 DEF Top, TopOf
<1>12. Behind = p + 1
  <2>1. Len(code) + 2 = Len(code) + 1 + 1
    BY <1>5
  <2> QED
    BY <2>1 DEF Behind
<1> QED
  BY <1>1, <1>2, <1>3, <1>5, <1>6, <1>7, <1>8, <1>9, <1>10, <1>11, <1>12 DEF Reads

\* What every instruction does: the record, the frames, the entries.
Did(s, r, i, p) ==
  /\ r \in HeldSet /\ Effect(s, r, i, p)
  /\ FramesStep(s, r, i, Len(trys) + 1)
Wrote(s, i, p) == EntryStep(s, i, p, st, st')

LEMMA RecordIs ==
  ASSUME NEW r, r = Held', vals' \in Seq(Type), ctrls' \in Seq(FrameSet),
         inits' \in Seq(DOMAIN LocalType), Len(st') \in Nat
  PROVE  r \in HeldSet
BY HeldNext DEF HeldSet

LEMMA KnownSame ==
  ASSUME NEW s, NEW r, r.inits = s.inits
  PROVE  Known(r) = Known(s)
BY DEF Known

\* An instruction without entries.
LEMMA NoEntries ==
  ASSUME NEW s, NEW i, NEW p, Reads(s, i, p), Slots(i) = 0, i.op \notin {"else", "end"}, st' = st
  PROVE  Wrote(s, i, p) /\ Len(st') + 1 = s.next + Slots(i)
<1>1. st \in Seq(EntrySet) /\ Len(st) \in Nat /\ s.next = Len(st) + 1
  BY DEF Reads
<1>2. Landed(s, i) = {}
  BY DEF Landed
<1>3. EntryStep(s, i, p, st, st)
  BY <1>1, <1>2 DEF EntryStep
<1> QED
  BY <1>1, <1>3 DEF Wrote

\* An instruction that leaves the frames and the locals as they are.
LEMMA QuietRead ==
  ASSUME NEW s, NEW i, NEW p, Reads(s, i, p), Slots(i) = 0, i.op \notin {"else", "end"}, ~Opens(i),
         st' = st, ctrls' = ctrls, inits' = inits, set' = set, vals' \in Seq(Type),
         NEW r, r = Held'
  PROVE  /\ r \in HeldSet /\ r.vals = vals' /\ Plain(s, r) /\ r.next = s.next + Slots(i)
         /\ FramesStep(s, r, i, Len(trys) + 1) /\ Wrote(s, i, p) /\ set' = Known(r)
<1>1. /\ s \in HeldSet /\ s.ctrls = ctrls /\ s.inits = inits /\ set = Known(s) /\ Len(st) \in Nat
  BY DEF Reads
<1>2. r.vals = vals' /\ r.ctrls = s.ctrls /\ r.inits = s.inits /\ r.next = Len(st') + 1
  BY <1>1, HeldNext
<1>3. Wrote(s, i, p) /\ r.next = s.next + Slots(i)
  BY <1>2, NoEntries
<1>4. r \in HeldSet
  <2>1. s.ctrls \in Seq(FrameSet) /\ s.inits \in Seq(DOMAIN LocalType)
    BY <1>1, RecordParts
  <2> QED
    BY <1>1, <2>1, RecordIs
<1>5. Joined(s, i, r.ctrls)
  BY <1>1, <1>2, JoinedNone
<1>6. /\ Len(r.ctrls) = Len(s.ctrls) /\ Keeps(s, r, Len(s.ctrls))
      /\ FramesStep(s, r, i, Len(trys) + 1)
  BY <1>1, <1>5, StepPlain
<1>7. Plain(s, r)
  BY <1>2, <1>6 DEF Plain
<1>8. Known(r) = Known(s)
  BY <1>2, KnownSame
<1> QED
  BY <1>1, <1>2, <1>3, <1>4, <1>6, <1>7, <1>8

LEMMA ConstRead ==
  ASSUME NEW s, NEW i, NEW p, Reads(s, i, p), ReadConst(i), NEW r, r = Held'
  PROVE  Did(s, r, i, p) /\ Wrote(s, i, p) /\ set' = Known(r)
<1>1. /\ i.op = "const" /\ vals' = Append(vals, i.type)
      /\ ctrls' = ctrls /\ set' = set /\ inits' = inits /\ st' = st
  BY DEF ReadConst
<1>2. s.vals = vals /\ s \in HeldSet /\ s.ctrls # <<>> /\ Decoded(i)
  BY DEF Reads
<1>3. i.type \in Type /\ vals \in Seq(Type)
  BY <1>1, <1>2, RecordParts DEF Decoded
<1>4. vals' \in Seq(Type)
  BY <1>1, <1>3, AppendEffect
<1>5. Slots(i) = 0 /\ i.op \notin {"else", "end"} /\ ~Opens(i)
  BY <1>1 DEF Slots, Opens
<1>6. /\ r \in HeldSet /\ r.vals = vals' /\ Plain(s, r) /\ r.next = s.next + Slots(i)
      /\ FramesStep(s, r, i, Len(trys) + 1) /\ Wrote(s, i, p) /\ set' = Known(r)
  BY <1>1, <1>4, <1>5, QuietRead
<1>7. ConstEffect(s, r, i)
  BY <1>1, <1>2, <1>6 DEF ConstEffect
<1>8. Effect(s, r, i, p)
  BY <1>1, <1>2, <1>6, <1>7 DEF Effect
<1> QED
  BY <1>6, <1>8 DEF Did

LEMMA LocalGetRead ==
  ASSUME NEW s, NEW i, NEW p, Reads(s, i, p), ReadLocalGet(i), NEW r, r = Held'
  PROVE  Did(s, r, i, p) /\ Wrote(s, i, p) /\ set' = Known(r)
<1>1. /\ i.op = "local_get" /\ i.local \in set /\ vals' = Append(vals, LocalType[i.local])
      /\ ctrls' = ctrls /\ set' = set /\ inits' = inits /\ st' = st
  BY DEF ReadLocalGet
<1>2. s.vals = vals /\ s \in HeldSet /\ s.ctrls # <<>> /\ Decoded(i) /\ set = Known(s)
  BY DEF Reads
<1>3. LocalType[i.local] \in Type /\ vals \in Seq(Type)
  <2>1. i.local \in DOMAIN LocalType
    BY <1>1, <1>2 DEF Decoded
  <2>2. LocalType[i.local] \in Type
    BY <2>1, SideTableAssumption, ElementOfSeq, LenProperties
  <2> QED
    BY <2>2, <1>2, RecordParts
<1>4. vals' \in Seq(Type)
  BY <1>1, <1>3, AppendEffect
<1>5. Slots(i) = 0 /\ i.op \notin {"else", "end"} /\ ~Opens(i)
  BY <1>1 DEF Slots, Opens
<1>6. /\ r \in HeldSet /\ r.vals = vals' /\ Plain(s, r) /\ r.next = s.next + Slots(i)
      /\ FramesStep(s, r, i, Len(trys) + 1) /\ Wrote(s, i, p) /\ set' = Known(r)
  BY <1>1, <1>4, <1>5, QuietRead
<1>7. LocalGetEffect(s, r, i)
  BY <1>1, <1>2, <1>6 DEF LocalGetEffect
<1>8. Effect(s, r, i, p)
  BY <1>1, <1>2, <1>6, <1>7 DEF Effect
<1> QED
  BY <1>6, <1>8 DEF Did

LEMMA DropRead ==
  ASSUME NEW s, NEW i, NEW p, Reads(s, i, p), ReadDrop(i), NEW r, r = Held'
  PROVE  Did(s, r, i, p) /\ Wrote(s, i, p) /\ set' = Known(r)
<1> PICK n : n = IF Len(vals) > Top.height THEN Len(vals) - 1 ELSE Top.height
  OBVIOUS
<1>1. /\ i.op = "drop" /\ (Len(vals) > Top.height \/ Top.dead) /\ vals' = FirstN(vals, n)
      /\ ctrls' = ctrls /\ set' = set /\ inits' = inits /\ st' = st
  BY DEF ReadDrop
<1>2. s.vals = vals /\ s \in HeldSet /\ s.ctrls # <<>> /\ HeldOK(s, p) /\ Top = TopOf(s)
  BY DEF Reads
<1>3. Top.height \in Nat /\ Top.height <= Len(vals) /\ vals \in Seq(Type) /\ Len(vals) \in Nat
  BY <1>2, RecordTop, RecordParts
<1>4. n \in 0 .. Len(vals)
  BY <1>3
<1>5. vals' \in Seq(Type)
  BY <1>1, <1>3, <1>4, FirstNEffect
<1>6. Slots(i) = 0 /\ i.op \notin {"else", "end"} /\ ~Opens(i)
  BY <1>1 DEF Slots, Opens
<1>7. /\ r \in HeldSet /\ r.vals = vals' /\ Plain(s, r) /\ r.next = s.next + Slots(i)
      /\ FramesStep(s, r, i, Len(trys) + 1) /\ Wrote(s, i, p) /\ set' = Known(r)
  BY <1>1, <1>5, <1>6, QuietRead
<1>8. n = IF Len(s.vals) > TopOf(s).height THEN Len(s.vals) - 1 ELSE TopOf(s).height
  BY <1>2
<1>9. DropEffect(s, r)
  <2>1. Len(s.vals) > TopOf(s).height \/ TopOf(s).dead
    BY <1>1, <1>2
  <2>2. r.vals = FirstN(s.vals, n)
    BY <1>1, <1>2, <1>7
  <2> QED
    BY <1>7, <1>8, <2>1, <2>2, Zenon DEF DropEffect
<1>10. Effect(s, r, i, p)
  BY <1>1, <1>2, <1>7, <1>9 DEF Effect
<1> QED
  BY <1>7, <1>10 DEF Did

\* The instructions behind which nothing is reachable and which leave no entry.
LEMMA StopRead ==
  ASSUME NEW s, NEW i, NEW p, Reads(s, i, p), Slots(i) = 0, i.op \notin {"else", "end"}, ~Opens(i),
         vals' = FirstN(vals, Top.height), ctrls' = Dead(ctrls),
         st' = st, inits' = inits, set' = set, NEW r, r = Held'
  PROVE  /\ r \in HeldSet /\ Stops(s, r) /\ r.next = s.next + Slots(i)
         /\ FramesStep(s, r, i, Len(trys) + 1) /\ Wrote(s, i, p) /\ set' = Known(r)
<1>1. /\ s \in HeldSet /\ HeldOK(s, p) /\ s.ctrls # <<>> /\ s.ctrls = ctrls /\ s.inits = inits
      /\ s.vals = vals /\ set = Known(s) /\ Len(st) \in Nat /\ Top = TopOf(s)
  BY DEF Reads
<1>2. /\ r.vals = FirstN(s.vals, TopOf(s).height) /\ r.ctrls = Dead(s.ctrls) /\ r.inits = s.inits
      /\ r.next = Len(st') + 1 /\ r.vals = vals' /\ r.ctrls = ctrls'
  BY <1>1, HeldNext
<1>3. Wrote(s, i, p) /\ r.next = s.next + Slots(i)
  BY <1>2, NoEntries
<1>4. Joined(s, i, s.ctrls)
  BY <1>1, JoinedNone
<1>5. r.ctrls \in Seq(FrameSet) /\ Stops(s, r) /\ FramesStep(s, r, i, Len(trys) + 1)
  BY <1>1, <1>2, <1>4, StepStops
<1>6. r \in HeldSet
  <2>1. s.vals \in Seq(Type) /\ s.inits \in Seq(DOMAIN LocalType)
    BY <1>1, RecordParts
  <2>2. Len(s.vals) \in Nat /\ TopOf(s).height \in 0 .. Len(s.vals)
    BY <1>1, RecordTop, RecordParts
  <2>3. FirstN(s.vals, TopOf(s).height) \in Seq(Type)
    BY <2>1, <2>2, FirstNEffect
  <2> QED
    BY <1>1, <1>2, <1>5, <2>1, <2>3, RecordIs
<1>7. Known(r) = Known(s)
  BY <1>2, KnownSame
<1> QED
  BY <1>1, <1>3, <1>5, <1>6, <1>7

LEMMA StopsRead ==
  ASSUME NEW s, NEW i, NEW p, Reads(s, i, p), ReadUnreachable(i) \/ ReadThrow(i) \/ ReadReturn(i),
         NEW r, r = Held'
  PROVE  Did(s, r, i, p) /\ Wrote(s, i, p) /\ set' = Known(r)
<1>1. /\ i.op \in {"unreachable", "throw", "return"}
      /\ i.op = "throw" => CanPop(Top, vals, TagType[i.tag])
      /\ i.op = "return" => CanPop(Top, vals, Results)
      /\ vals' = FirstN(vals, Top.height) /\ ctrls' = Dead(ctrls)
      /\ set' = set /\ inits' = inits /\ st' = st
  BY DEF ReadUnreachable, ReadThrow, ReadReturn
<1>2. s.vals = vals /\ s.ctrls # <<>> /\ Top = TopOf(s)
  BY DEF Reads
<1>3. Slots(i) = 0 /\ i.op \notin {"else", "end"} /\ ~Opens(i)
  BY <1>1 DEF Slots, Opens
<1>4. /\ r \in HeldSet /\ Stops(s, r) /\ r.next = s.next + Slots(i)
      /\ FramesStep(s, r, i, Len(trys) + 1) /\ Wrote(s, i, p) /\ set' = Known(r)
  BY <1>1, <1>3, StopRead
<1>5. Effect(s, r, i, p)
  BY <1>1, <1>2, <1>4 DEF Effect
<1> QED
  BY <1>4, <1>5 DEF Did

\* Writing a local marks it.
LEMMA LocalSetRead ==
  ASSUME NEW s, NEW i, NEW p, Reads(s, i, p), ReadLocalSet(i), NEW r, r = Held'
  PROVE  Did(s, r, i, p) /\ Wrote(s, i, p) /\ set' = Known(r)
<1>1. /\ i.op = "local_set" /\ CanPop(Top, vals, <<LocalType[i.local]>>)
      /\ vals' = Pop(Top, vals, <<LocalType[i.local]>>)
      /\ set' = set \cup {i.local}
      /\ inits' = (IF i.local \in set THEN inits ELSE Append(inits, i.local))
      /\ ctrls' = ctrls /\ st' = st
  BY DEF ReadLocalSet
<1>2. /\ s.vals = vals /\ s.ctrls = ctrls /\ s.inits = inits /\ s \in HeldSet /\ s.ctrls # <<>>
      /\ HeldOK(s, p) /\ Top = TopOf(s) /\ Decoded(i) /\ set = Known(s) /\ Len(st) \in Nat
  BY DEF Reads
<1>3. i.local \in DOMAIN LocalType /\ <<LocalType[i.local]>> \in Seq(Type)
  <2>1. i.local \in DOMAIN LocalType
    BY <1>1, <1>2 DEF Decoded
  <2>2. LocalType[i.local] \in Type
    BY <2>1, SideTableAssumption, ElementOfSeq, LenProperties
  <2> QED
    BY <2>1, <2>2
<1>4. vals' \in Seq(Type)
  BY <1>1, <1>2, <1>3, RecordTop, RecordParts, PopEffect
<1>5. s.inits \in Seq(DOMAIN LocalType) /\ s.ctrls \in Seq(FrameSet)
  BY <1>2, RecordParts
<1>6. inits' \in Seq(DOMAIN LocalType)
  <2>1. Append(s.inits, i.local) \in Seq(DOMAIN LocalType)
    BY <1>3, <1>5, AppendEffect
  <2> QED
    BY <1>1, <1>2, <1>5, <2>1
<1>7. Slots(i) = 0 /\ i.op \notin {"else", "end"} /\ ~Opens(i)
  BY <1>1 DEF Slots, Opens
<1>8. Wrote(s, i, p) /\ Len(st') + 1 = s.next + Slots(i)
  BY <1>1, <1>7, NoEntries
<1>9. /\ r.vals = vals' /\ r.ctrls = s.ctrls /\ r.inits = inits' /\ r.next = s.next + Slots(i)
  BY <1>1, <1>2, <1>8, HeldNext
<1>10. r \in HeldSet
  BY <1>1, <1>2, <1>4, <1>5, <1>6, RecordIs
<1>11. Joined(s, i, r.ctrls)
  BY <1>2, <1>7, <1>9, JoinedNone
<1>12. /\ Len(r.ctrls) = Len(s.ctrls) /\ Keeps(s, r, Len(s.ctrls))
       /\ FramesStep(s, r, i, Len(trys) + 1)
  BY <1>2, <1>7, <1>11, StepPlain
<1>13. r.inits = IF i.local \in Known(s) THEN s.inits ELSE Append(s.inits, i.local)
  BY <1>1, <1>2, <1>9
<1>14. LocalSetEffect(s, r, i)
  BY <1>1, <1>2, <1>9, <1>12, <1>13 DEF LocalSetEffect
<1>15. Effect(s, r, i, p)
  BY <1>1, <1>2, <1>9, <1>14 DEF Effect
<1>16. set' = Known(r)
  <2>1. CASE i.local \in Known(s)
    BY <1>1, <1>2, <1>13, <2>1, KnownSame
  <2>2. CASE i.local \notin Known(s)
    <3>1. {r.inits[k] : k \in DOMAIN r.inits} = {s.inits[k] : k \in DOMAIN s.inits} \cup {i.local}
      BY <1>3, <1>5, <1>13, <2>2, ValuesAppend
    <3> QED
      BY <1>1, <1>2, <3>1 DEF Known
  <2> QED
    BY <2>1, <2>2
<1> QED
  BY <1>8, <1>10, <1>12, <1>15, <1>16 DEF Did

\* The frame a construct opens.
LEMMA FrameIs ==
  ASSUME NEW i \in Instr, Opens(i), NEW vs, Len(vs) \in Nat, Len(inits) \in Nat, Len(code) \in Nat,
         NEW f, f = Frame(i.op, i.bt, vs)
  PROVE  /\ f \in FrameSet /\ f.op = i.op /\ f.bt = i.bt /\ f.height = Len(vs)
         /\ f.inits = Len(inits) /\ f.dead = FALSE /\ f.start = Len(code) + 2 /\ f.fixups = {}
         /\ f.else = 0 /\ f.try = 0
<1>1. i.op \in {"block", "loop", "if", "else", "try_table"} /\ i.bt \in FrameTypes
  BY TypesOfBlock DEF Opens
<1>2. Len(code) + 2 \in Nat
  OBVIOUS
<1>3. f \in FrameSet
  BY <1>1, <1>2 DEF FrameSet, Frame
<1> QED
  BY <1>3 DEF Frame

WithElse(f, e) == [f EXCEPT !.else = e]
WithTry(f, t) == [f EXCEPT !.try = t]

LEMMA ElseMarked ==
  ASSUME NEW f \in FrameSet, NEW e \in Nat
  PROVE  /\ WithElse(f, e) \in FrameSet /\ SameFrame(f, WithElse(f, e)) /\ WithElse(f, e).op = f.op
         /\ WithElse(f, e).dead = f.dead /\ WithElse(f, e).fixups = f.fixups
         /\ WithElse(f, e).else = e /\ WithElse(f, e).try = f.try
<1>1. WithElse(f, e) \in FrameSet
  BY DEF FrameSet, WithElse
<1>2. WithElse(f, e).op = f.op /\ WithElse(f, e).else = e /\ WithElse(f, e).fixups = f.fixups
  BY DEF FrameSet, WithElse
<1>3. WithElse(f, e).dead = f.dead /\ WithElse(f, e).try = f.try
  BY DEF FrameSet, WithElse
<1>4. SameFrame(f, WithElse(f, e))
  BY DEF FrameSet, WithElse, SameFrame, Construct
<1> QED
  BY <1>1, <1>2, <1>3, <1>4

LEMMA TryMarked ==
  ASSUME NEW f \in FrameSet, NEW t \in Nat
  PROVE  /\ WithTry(f, t) \in FrameSet /\ SameFrame(f, WithTry(f, t)) /\ WithTry(f, t).op = f.op
         /\ WithTry(f, t).dead = f.dead /\ WithTry(f, t).fixups = f.fixups
         /\ WithTry(f, t).else = f.else /\ WithTry(f, t).try = t
<1>1. WithTry(f, t) \in FrameSet
  BY DEF FrameSet, WithTry
<1>2. WithTry(f, t).op = f.op /\ WithTry(f, t).else = f.else /\ WithTry(f, t).fixups = f.fixups
  BY DEF FrameSet, WithTry
<1>3. WithTry(f, t).dead = f.dead /\ WithTry(f, t).try = t
  BY DEF FrameSet, WithTry
<1>4. SameFrame(f, WithTry(f, t))
  BY DEF FrameSet, WithTry, SameFrame, Construct
<1> QED
  BY <1>1, <1>2, <1>3, <1>4

\* Opening a construct: ts is popped, its parameters are pushed.
LEMMA OpenRead ==
  ASSUME NEW s, NEW i, NEW p, Reads(s, i, p), Opens(i),
         NEW ts \in Seq(Type), CanPop(Top, vals, ts), vals' = Pop(Top, vals, ts) \o i.bt.in,
         NEW f, f = Frame(i.op, i.bt, Pop(Top, vals, ts)),
         NEW g \in FrameSet, SameFrame(f, g), g.op = i.op, g.dead = FALSE, g.fixups = {},
         g.else = IF i.op = "if" THEN s.next ELSE 0,
         g.try = IF i.op = "try_table" THEN Len(trys) + 1 ELSE 0,
         NEW ds, Joined(s, i, ds), ctrls' = Append(ds, g),
         inits' = inits, Len(st') \in Nat, NEW r, r = Held'
  PROVE  /\ r \in HeldSet /\ Enters(s, r, i, p, ts) /\ r.next = Len(st') + 1
         /\ FramesStep(s, r, i, Len(trys) + 1) /\ Known(r) = Known(s)
<1>1. /\ s.vals = vals /\ s.ctrls = ctrls /\ s.inits = inits /\ s \in HeldSet /\ s.ctrls # <<>>
      /\ HeldOK(s, p) /\ Top = TopOf(s) /\ i \in Instr /\ p = Len(code) + 1 /\ p \in Nat
      /\ Len(st) \in Nat /\ Behind = p + 1
  BY DEF Reads
<1>2. /\ r.vals = vals' /\ r.ctrls = Append(ds, g) /\ r.inits = s.inits /\ r.next = Len(st') + 1
  BY <1>1, HeldNext
<1> PICK vs : vs = Pop(TopOf(s), s.vals, ts)
  OBVIOUS
<1>3. vs \in Seq(Type) /\ Len(vs) \in Nat
  BY <1>1, RecordTop, RecordParts, PopEffect
<1>4. Len(inits) \in Nat /\ s.inits \in Seq(DOMAIN LocalType)
  BY <1>1, RecordParts
<1>5. Len(code) \in Nat
  BY DEF Reads
<1>6. f = Frame(i.op, i.bt, vs)
  <2>1. vs = Pop(Top, vals, ts)
    BY <1>1, Zenon
  <2> QED
    BY <2>1, Zenon
<1>7. /\ f.bt = i.bt /\ f.height = Len(vs) /\ f.inits = Len(inits) /\ f.start = Len(code) + 2
  <2>1. /\ i \in Instr /\ Opens(i) /\ Len(vs) \in Nat /\ Len(inits) \in Nat /\ Len(code) \in Nat
        /\ f = Frame(i.op, i.bt, vs)
    BY <1>1, <1>3, <1>4, <1>5, <1>6
  <2> QED
    <3>1. /\ f \in FrameSet /\ f.op = i.op /\ f.bt = i.bt /\ f.height = Len(vs)
          /\ f.inits = Len(inits) /\ f.dead = FALSE /\ f.start = Len(code) + 2 /\ f.fixups = {}
          /\ f.else = 0 /\ f.try = 0
      BY ONLY <2>1, FrameIs, ZenonT(60)
    <3> QED
      BY ONLY <3>1
<1>8. g.bt = i.bt /\ g.height = Len(vs) /\ g.inits = Len(s.inits) /\ g.start = p + 1
  BY <1>1, <1>5, <1>7 DEF SameFrame
<1>9. NewFrame(s, r, i, Len(trys) + 1)
  <2>1. TopOf(r) = g
    <3>1. ds \in Seq(FrameSet) /\ Len(ds) \in Nat
      BY LenProperties DEF Joined
    <3> QED
      BY <1>2, <3>1, AppendEffect DEF TopOf
  <2> QED
    BY <2>1 DEF NewFrame
<1>10. /\ r.ctrls \in Seq(FrameSet) /\ Len(r.ctrls) = Len(s.ctrls) + 1
       /\ Keeps(s, r, Len(s.ctrls)) /\ TopOf(r) = g /\ FramesStep(s, r, i, Len(trys) + 1)
  <2>1. i.op # "else"
    BY DEF Opens
  <2>2. /\ s \in HeldSet /\ i.op # "else" /\ Joined(s, i, ds) /\ g \in FrameSet /\ r.ctrls = Append(ds, g)
        /\ (Opens(i) => NewFrame(s, r, i, Len(trys) + 1))
    BY <1>1, <1>2, <1>9, <2>1
  <2> QED
    BY ONLY <2>2, StepOpens, Zenon
<1>11. Enters(s, r, i, p, ts)
  BY <1>1, <1>2, <1>8, <1>10 DEF Enters
<1>12. i.bt.in \in Seq(Type)
  BY <1>1, TypesOfBlock
<1>13. vals' \in Seq(Type)
  BY <1>1, <1>3, <1>12, BehindTypes
<1>14. r \in HeldSet
  BY <1>1, <1>2, <1>4, <1>10, <1>13, RecordIs
<1>15. Known(r) = Known(s)
  BY <1>2, KnownSame
<1> QED
  BY <1>2, <1>10, <1>11, <1>14, <1>15

LEMMA BlockRead ==
  ASSUME NEW s, NEW i, NEW p, Reads(s, i, p), ReadBlock(i), NEW r, r = Held'
  PROVE  Did(s, r, i, p) /\ Wrote(s, i, p) /\ set' = Known(r)
<1> PICK f : f = Frame(i.op, i.bt, Pop(Top, vals, i.bt.in))
  OBVIOUS
<1>1. /\ i.op \in {"block", "loop"} /\ CanPop(Top, vals, i.bt.in)
      /\ ctrls' = Append(ctrls, f) /\ vals' = Pop(Top, vals, i.bt.in) \o i.bt.in
      /\ set' = set /\ inits' = inits /\ st' = st
  BY DEF ReadBlock
<1>2. /\ s.vals = vals /\ s.ctrls = ctrls /\ s.inits = inits /\ s \in HeldSet /\ s.ctrls # <<>>
      /\ HeldOK(s, p) /\ Top = TopOf(s) /\ i \in Instr /\ p = Len(code) + 1 /\ p \in Nat /\ set = Known(s)
      /\ Len(st) \in Nat
  BY DEF Reads
<1>3. Opens(i) /\ Slots(i) = 0 /\ i.op \notin {"else", "end", "if", "try_table"}
  BY <1>1 DEF Slots, Opens
<1>4. i.bt.in \in Seq(Type)
  BY <1>2, <1>3, TypesOfBlock
<1>5. Len(Pop(Top, vals, i.bt.in)) \in Nat /\ Len(inits) \in Nat /\ Len(code) \in Nat
  <2>1. TopOf(s).height \in Nat /\ TopOf(s).height <= Len(s.vals) /\ s.vals \in Seq(Type) /\ Len(s.inits) \in Nat
    BY <1>2, RecordTop, RecordParts
  <2>2. Len(Pop(TopOf(s), s.vals, i.bt.in)) \in Nat
    BY <1>4, <2>1, PopEffect
  <2>3. Len(code) \in Nat
    BY DEF Reads
  <2> QED
    BY <1>2, <2>1, <2>2, <2>3, Zenon
<1>6. /\ f \in FrameSet /\ f.op = i.op /\ f.dead = FALSE /\ f.fixups = {} /\ f.else = 0 /\ f.try = 0
  <2>1. /\ i \in Instr /\ Opens(i) /\ Len(Pop(Top, vals, i.bt.in)) \in Nat /\ Len(inits) \in Nat
        /\ Len(code) \in Nat /\ f = Frame(i.op, i.bt, Pop(Top, vals, i.bt.in))
    BY <1>2, <1>3, <1>5
  <2> QED
    <3>1. /\ f \in FrameSet /\ f.op = i.op /\ f.bt = i.bt /\ f.height = Len(Pop(Top, vals, i.bt.in))
          /\ f.inits = Len(inits) /\ f.dead = FALSE /\ f.start = Len(code) + 2 /\ f.fixups = {}
          /\ f.else = 0 /\ f.try = 0
      BY ONLY <2>1, FrameIs, ZenonT(60)
    <3> QED
      BY ONLY <3>1
<1>7. SameFrame(f, f)
  BY DEF SameFrame
<1>8. Joined(s, i, ctrls)
  BY <1>2, <1>3, JoinedNone
<1>9. Wrote(s, i, p) /\ Len(st') + 1 = s.next + Slots(i)
  BY <1>1, <1>3, NoEntries
<1>10. f.else = (IF i.op = "if" THEN s.next ELSE 0) /\ f.try = (IF i.op = "try_table" THEN Len(trys) + 1 ELSE 0)
  BY <1>3, <1>6
<1>11. /\ r \in HeldSet /\ Enters(s, r, i, p, i.bt.in) /\ r.next = Len(st') + 1
       /\ FramesStep(s, r, i, Len(trys) + 1) /\ Known(r) = Known(s)
  BY <1>1, <1>2, <1>3, <1>4, <1>6, <1>7, <1>8, <1>10, OpenRead
<1>12. Effect(s, r, i, p)
  BY <1>1, <1>2, <1>9, <1>11 DEF Effect
<1> QED
  BY <1>1, <1>2, <1>9, <1>11, <1>12 DEF Did

\* The operands an entry counts are a number.
LEMMA OperandsNumber ==
  ASSUME NEW s \in HeldSet, NEW p, HeldOK(s, p), s.ctrls # <<>>, NEW i \in Instr
  PROVE  /\ Operands(s, i) \in Nat
         /\ TopOf(s).height <= Operands(s, i) /\ Operands(s, i) <= Len(s.vals)
<1>1. /\ TopOf(s).height \in Nat /\ TopOf(s).height <= Len(s.vals) /\ s.vals \in Seq(Type)
      /\ Len(s.vals) \in Nat
  BY RecordTop, RecordParts
<1>2. <<Condition>> \in Seq(Type)
  BY SideTableAssumption
<1>3. \A ts \in Seq(Type) : /\ Len(Pop(TopOf(s), s.vals, ts)) \in Nat
                            /\ TopOf(s).height <= Len(Pop(TopOf(s), s.vals, ts))
                            /\ Len(Pop(TopOf(s), s.vals, ts)) <= Len(s.vals)
  BY <1>1, PopEffect
<1>4. CASE i.op \in {"br_if", "br_table"}
  BY <1>2, <1>3, <1>4 DEF Operands
<1>5. CASE i.op = "try_table"
  <2>1. i.bt.in \in Seq(Type)
    BY <1>5, TypesOfBlock DEF Opens
  <2> QED
    BY <1>3, <1>5, <2>1 DEF Operands
<1>6. CASE i.op \notin {"br_if", "br_table", "try_table"}
  BY <1>1, <1>6 DEF Operands
<1> QED
  BY <1>4, <1>5, <1>6

\* Where the entry of a label goes.
LEMMA LabelHome ==
  ASSUME NEW s \in HeldSet, NEW p, HeldOK(s, p), s.ctrls # <<>>, NEW i, i.op \notin {"if", "else"},
         NEW k, LabelOf(i, k) \in Nat, LabelOf(i, k) < Len(s.ctrls)
  PROVE  /\ HomeAt(s, i, k) = Len(s.ctrls) - LabelOf(i, k) /\ HomeAt(s, i, k) \in 1 .. Len(s.ctrls)
         /\ s.ctrls[HomeAt(s, i, k)] = LabelAt(s, LabelOf(i, k)) /\ LabelAt(s, LabelOf(i, k)) \in FrameSet
         /\ LabelAt(s, LabelOf(i, k)).height \in Nat
         /\ LabelAt(s, LabelOf(i, k)).height <= TopOf(s).height
<1> PICK n : n = Len(s.ctrls)
  OBVIOUS
<1> PICK l : l = LabelOf(i, k)
  OBVIOUS
<1>1. n \in Nat /\ l \in Nat /\ l < n
  BY RecordParts
<1>2. n - l \in 1 .. n
  BY <1>1
<1>3. HomeAt(s, i, k) = n - l /\ LabelAt(s, l) = s.ctrls[n - l]
  BY DEF HomeAt, LabelAt
<1>4. s.ctrls[n - l] \in FrameSet
  BY <1>2, RecordParts
<1>5. s.ctrls[n - l].height \in Nat /\ s.ctrls[n - l].height <= TopOf(s).height
  BY <1>2, RecordTop
<1> QED
  BY <1>2, <1>3, <1>4, <1>5

LEMMA EntryFields ==
  ASSUME NEW s \in HeldSet, NEW p \in Nat, HeldOK(s, p), s.ctrls # <<>>, NEW i \in Instr,
         i.op \notin {"if", "else"}, NEW k, LabelOf(i, k) \in Nat, LabelOf(i, k) < Len(s.ctrls)
  PROVE  NewEntry(s, i, p, k) \in EntrySet
<1> PICK f : f = LabelAt(s, LabelOf(i, k))
  OBVIOUS
<1>1. s.ctrls[HomeAt(s, i, k)] = f /\ f \in FrameSet
  BY LabelHome
<1>2. f.start \in Nat /\ Len(LabelTypes(f)) \in Nat /\ f.height \in Nat /\ Operands(s, i) \in Nat
  BY <1>1, FrameFields, OperandsNumber
<1>3. StartAt(s, i, p, k) = f.start /\ CarriesAt(s, i, k) = Len(LabelTypes(f))
  BY <1>1 DEF StartAt, CarriesAt
<1>4. PopsAt(s, i, k) \in Nat
  <2> PICK n : n = Operands(s, i) - f.height - (IF i.op = "try_table" THEN 0 ELSE Len(LabelTypes(f)))
    OBVIOUS
  <2>1. n \in Int
    BY <1>2
  <2>2. PopsAt(s, i, k) = IF n > 0 THEN n ELSE 0
    BY <1>1, <1>3 DEF PopsAt
  <2> QED
    BY <2>1, <2>2
<1>5. p + 1 \in Nat
  OBVIOUS
<1> QED
  BY <1>2, <1>3, <1>4, <1>5 DEF NewEntry, EntrySet

\* The entry that Entry makes for a label is the one the instruction is due.
LEMMA EntryMade ==
  ASSUME NEW s \in HeldSet, NEW p \in Nat, HeldOK(s, p), s.ctrls # <<>>, NEW i \in Instr,
         i.op \in {"br", "br_if", "br_table"}, NEW k, LabelOf(i, k) \in Nat, LabelOf(i, k) < Len(s.ctrls),
         NEW vs, Len(vs) = Operands(s, i)
  PROVE  Entry(p + 1, LabelAt(s, LabelOf(i, k)), vs) = NewEntry(s, i, p, k)
<1> PICK f : f = LabelAt(s, LabelOf(i, k))
  OBVIOUS
<1>1. s.ctrls[HomeAt(s, i, k)] = f
  BY LabelHome
<1>2. LoopAt(s, i, k) <=> f.op = "loop"
  BY <1>1 DEF LoopAt
<1>3. StartAt(s, i, p, k) = f.start /\ CarriesAt(s, i, k) = Len(LabelTypes(f))
  BY <1>1 DEF StartAt, CarriesAt
<1> PICK n : n = Len(vs) - f.height - Len(LabelTypes(f))
  OBVIOUS
<1>4. PopsAt(s, i, k) = IF n > 0 THEN n ELSE 0
  BY <1>1, <1>3 DEF PopsAt
<1>5. Entry(p + 1, f, vs) = [from |-> p + 1, to |-> IF f.op = "loop" THEN f.start ELSE 0,
                             vals |-> Len(LabelTypes(f)), pop |-> IF n > 0 THEN n ELSE 0, skip |-> 0]
  BY DEF Entry
<1> QED
  BY <1>2, <1>3, <1>4, <1>5 DEF NewEntry

LEMMA TryEntryMade ==
  ASSUME NEW s \in HeldSet, NEW p \in Nat, HeldOK(s, p), s.ctrls # <<>>, NEW i \in Instr,
         i.op = "try_table", NEW k, LabelOf(i, k) \in Nat, LabelOf(i, k) < Len(s.ctrls),
         NEW vs, Len(vs) = Operands(s, i),
         NEW f, f = LabelAt(s, LabelOf(i, k))
  PROVE  [Entry(p + 1, f, vs) EXCEPT !.pop = Len(vs) - f.height] = NewEntry(s, i, p, k)
<1>1. s.ctrls[HomeAt(s, i, k)] = f /\ f.height \in Nat /\ f.height <= TopOf(s).height
  BY LabelHome
<1>2. LoopAt(s, i, k) <=> f.op = "loop"
  BY <1>1 DEF LoopAt
<1>3. StartAt(s, i, p, k) = f.start /\ CarriesAt(s, i, k) = Len(LabelTypes(f))
  BY <1>1 DEF StartAt, CarriesAt
<1> PICK n : n = Len(vs) - f.height
  OBVIOUS
<1>4. Operands(s, i) \in Nat /\ TopOf(s).height <= Operands(s, i) /\ TopOf(s).height \in Nat
  BY OperandsNumber, RecordTop
<1>5. n \in Nat
  BY <1>1, <1>4
<1>6. PopsAt(s, i, k) = n
  <2>1. Operands(s, i) - f.height - 0 = n
    BY <1>1, <1>4
  <2>2. PopsAt(s, i, k) = IF n > 0 THEN n ELSE 0
    BY <1>1, <2>1 DEF PopsAt
  <2> QED
    BY <1>5, <2>2
<1>7. [Entry(p + 1, f, vs) EXCEPT !.pop = n]
        = [from |-> p + 1, to |-> IF f.op = "loop" THEN f.start ELSE 0,
           vals |-> Len(LabelTypes(f)), pop |-> n, skip |-> 0]
  BY DEF Entry
<1> QED
  BY <1>2, <1>3, <1>6, <1>7 DEF NewEntry

\* An instruction with one entry.
LEMMA OneEntry ==
  ASSUME NEW s, NEW i, NEW p, Reads(s, i, p), Slots(i) = 1, i.op \notin {"else", "end"},
         NEW x, x = NewEntry(s, i, p, 1), x \in EntrySet, st' = Append(st, x)
  PROVE  Wrote(s, i, p) /\ Len(st') \in Nat /\ Len(st') + 1 = s.next + Slots(i)
<1>1. st \in Seq(EntrySet) /\ Len(st) \in Nat /\ s.next = Len(st) + 1
  BY DEF Reads
<1>2. /\ st' \in Seq(EntrySet) /\ Len(st') = Len(st) + 1
      /\ \A e \in 1 .. Len(st) : st'[e] = st[e]
      /\ st'[Len(st) + 1] = x
  BY <1>1, AppendEffect
<1>3. Landed(s, i) = {}
  BY DEF Landed
<1>4. \A k \in 1 .. Slots(i) : st'[Len(st) + k] = NewEntry(s, i, p, k)
  BY <1>1, <1>2
<1>5. EntryStep(s, i, p, st, st')
  BY <1>2, <1>3, <1>4 DEF EntryStep
<1> QED
  BY <1>1, <1>2, <1>5 DEF Wrote

LEMMA BehindEntries ==
  ASSUME NEW a \in Seq(EntrySet), NEW b \in Seq(EntrySet)
  PROVE  /\ a \o b \in Seq(EntrySet) /\ Len(a \o b) = Len(a) + Len(b)
         /\ (\A k \in 1 .. Len(a) : (a \o b)[k] = a[k]) /\ (\A k \in 1 .. Len(b) : (a \o b)[Len(a) + k] = b[k])
BY BehindEffect

\* An instruction with an entry for each of its labels.
LEMMA ManyEntries ==
  ASSUME NEW s, NEW i, NEW p, Reads(s, i, p), i.op \in {"br_table", "try_table"},
         NEW es \in [1 .. Slots(i) -> EntrySet], \A k \in 1 .. Slots(i) : es[k] = NewEntry(s, i, p, k),
         st' = st \o es
  PROVE  Wrote(s, i, p) /\ Len(st') \in Nat /\ Len(st') + 1 = s.next + Slots(i)
<1>1. st \in Seq(EntrySet) /\ Len(st) \in Nat /\ s.next = Len(st) + 1 /\ Slots(i) \in Nat
  BY DEF Reads
<1>2. es \in Seq(EntrySet) /\ Len(es) = Slots(i)
  <2>1. es \in Seq(EntrySet)
    BY <1>1, SeqDef
  <2> QED
    BY <1>1, <2>1, LenProperties
<1>3. /\ st' \in Seq(EntrySet) /\ Len(st') = Len(st) + Slots(i)
      /\ \A e \in 1 .. Len(st) : st'[e] = st[e]
      /\ \A k \in 1 .. Slots(i) : st'[Len(st) + k] = es[k]
  <2>1. /\ st \o es \in Seq(EntrySet) /\ Len(st \o es) = Len(st) + Len(es)
        /\ \A e \in 1 .. Len(st) : (st \o es)[e] = st[e]
        /\ \A k \in 1 .. Len(es) : (st \o es)[Len(st) + k] = es[k]
    BY <1>1, <1>2, BehindEntries
  <2> QED
    BY <1>2, <2>1
<1>4. Landed(s, i) = {}
  BY DEF Landed
<1>5. EntryStep(s, i, p, st, st')
  BY <1>3, <1>4 DEF EntryStep
<1> QED
  BY <1>1, <1>3, <1>5 DEF Wrote

LEMMA IfRead ==
  ASSUME NEW s, NEW i, NEW p, Reads(s, i, p), ReadIf(i), NEW r, r = Held'
  PROVE  Did(s, r, i, p) /\ Wrote(s, i, p) /\ set' = Known(r)
<1> PICK ts : ts = i.bt.in \o <<Condition>>
  OBVIOUS
<1> PICK f : f = Frame(i.op, i.bt, Pop(Top, vals, ts))
  OBVIOUS
<1> PICK g : g = [f EXCEPT !.else = Len(st) + 1]
  OBVIOUS
<1> PICK x : x = [from |-> Behind, to |-> 0, vals |-> 0, pop |-> 0, skip |-> 0]
  OBVIOUS
<1>1. /\ i.op = "if" /\ CanPop(Top, vals, ts)
      /\ ctrls' = Append(ctrls, g) /\ vals' = Pop(Top, vals, ts) \o i.bt.in
      /\ set' = set /\ inits' = inits /\ st' = Append(st, x)
  BY DEF ReadIf
<1>2. /\ s.vals = vals /\ s.ctrls = ctrls /\ s.inits = inits /\ s \in HeldSet /\ s.ctrls # <<>>
      /\ HeldOK(s, p) /\ Top = TopOf(s) /\ i \in Instr /\ p = Len(code) + 1 /\ p \in Nat /\ set = Known(s)
      /\ Len(st) \in Nat /\ Behind = p + 1 /\ Len(code) \in Nat /\ s.next = Len(st) + 1
  BY DEF Reads
<1>3. Opens(i) /\ Slots(i) = 1 /\ i.op \notin {"else", "end", "try_table"}
  BY <1>1 DEF Slots, Opens
<1>4. i.bt.in \in Seq(Type) /\ <<Condition>> \in Seq(Type)
  BY <1>2, <1>3, TypesOfBlock, SideTableAssumption
<1>5. ts \in Seq(Type)
  BY <1>4, BehindTypes
<1>6. /\ f \in FrameSet /\ f.op = i.op /\ f.dead = FALSE /\ f.fixups = {} /\ f.else = 0 /\ f.try = 0
  <2>1. TopOf(s).height \in Nat /\ TopOf(s).height <= Len(s.vals) /\ s.vals \in Seq(Type) /\ Len(s.inits) \in Nat
    BY <1>2, RecordTop, RecordParts
  <2>2. Len(Pop(TopOf(s), s.vals, ts)) \in Nat
    BY <1>5, <2>1, PopEffect
  <2>3. /\ i \in Instr /\ Opens(i) /\ Len(Pop(Top, vals, ts)) \in Nat /\ Len(inits) \in Nat
        /\ Len(code) \in Nat /\ f = Frame(i.op, i.bt, Pop(Top, vals, ts))
    BY <1>2, <1>3, <2>1, <2>2
  <2> QED
    BY ONLY <2>3, FrameIs, ZenonT(60)
<1>7. /\ g \in FrameSet /\ g.op = i.op /\ g.dead = FALSE /\ g.fixups = {} /\ g.else = s.next /\ g.try = 0
      /\ SameFrame(f, g)
  <2>1. s.next \in Nat /\ s.next = Len(st) + 1
    BY <1>2, RecordParts
  <2>2. g = WithElse(f, Len(st) + 1)
    BY Zenon DEF WithElse
  <2>3. g = WithElse(f, s.next)
    BY ONLY <2>1, <2>2, Zenon
  <2> QED
    BY <1>6, <2>1, <2>3, ElseMarked
<1>8. Joined(s, i, ctrls)
  <2>1. /\ s.ctrls \in Seq(FrameSet) /\ s.next \in Nat /\ (\A j \in 1 .. Len(s.ctrls) : s.ctrls[j] \in FrameSet)
        /\ Len(s.ctrls) \in Nat
    BY <1>2, RecordParts
  <2>2. HomeAt(s, i, 1) = Len(s.ctrls) + 1
    BY <1>1 DEF HomeAt
  <2>3. \A j \in 1 .. Len(s.ctrls) : Joins(s, i, j) = {}
    <3>1. \A j \in 1 .. Len(s.ctrls) : Len(s.ctrls) + 1 # j
      BY <2>1
    <3> QED
      BY <1>3, <2>1, <2>2, <3>1, JoinsOne
  <2>4. \A j \in 1 .. Len(s.ctrls) : Grown(s.ctrls[j], s.ctrls[j], Joins(s, i, j))
    BY <2>1, <2>3, GrownNone
  <2> QED
    BY <1>2, <2>1, <2>4 DEF Joined
<1>9. x = NewEntry(s, i, p, 1) /\ x \in EntrySet
  <2>1. ~LoopAt(s, i, 1) /\ CarriesAt(s, i, 1) = 0 /\ PopsAt(s, i, 1) = 0
    BY <1>1 DEF LoopAt, CarriesAt, PopsAt
  <2>2. p + 1 \in Nat
    BY <1>2
  <2> QED
    BY <1>2, <2>1, <2>2 DEF NewEntry, EntrySet
<1>10. Wrote(s, i, p) /\ Len(st') \in Nat /\ Len(st') + 1 = s.next + Slots(i)
  BY <1>1, <1>3, <1>9, OneEntry
<1>11. /\ r \in HeldSet /\ Enters(s, r, i, p, ts) /\ r.next = Len(st') + 1
       /\ FramesStep(s, r, i, Len(trys) + 1) /\ Known(r) = Known(s)
  <2>1. g.else = (IF i.op = "if" THEN s.next ELSE 0) /\ g.try = (IF i.op = "try_table" THEN Len(trys) + 1 ELSE 0)
    BY <1>1, <1>7
  <2>2. /\ Reads(s, i, p) /\ Opens(i) /\ ts \in Seq(Type) /\ CanPop(Top, vals, ts)
        /\ vals' = Pop(Top, vals, ts) \o i.bt.in /\ f = Frame(i.op, i.bt, Pop(Top, vals, ts))
        /\ g \in FrameSet /\ SameFrame(f, g) /\ g.op = i.op /\ g.dead = FALSE /\ g.fixups = {}
        /\ g.else = (IF i.op = "if" THEN s.next ELSE 0)
        /\ g.try = (IF i.op = "try_table" THEN Len(trys) + 1 ELSE 0)
        /\ Joined(s, i, ctrls) /\ ctrls' = Append(ctrls, g) /\ inits' = inits /\ Len(st') \in Nat /\ r = Held'
    BY <1>1, <1>3, <1>5, <1>7, <1>8, <1>10, <2>1
  <2> QED
    BY ONLY <2>2, OpenRead, Zenon
<1>12. Effect(s, r, i, p)
  BY <1>1, <1>2, <1>10, <1>11 DEF Effect
<1> QED
  BY <1>1, <1>2, <1>10, <1>11, <1>12 DEF Did

LEMMA BrRead ==
  ASSUME NEW s, NEW i, NEW p, Reads(s, i, p), ReadBr(i), NEW r, r = Held'
  PROVE  Did(s, r, i, p) /\ Wrote(s, i, p) /\ set' = Known(r)
<1> PICK ds : ds = Waiting(s.ctrls, i.label, {s.next})
  OBVIOUS
<1>1. /\ i.op = "br" /\ i.label < Len(ctrls) /\ CanPop(Top, vals, LabelTypes(Label(i.label)))
      /\ st' = Append(st, Entry(Behind, Label(i.label), vals))
      /\ vals' = FirstN(vals, Top.height)
      /\ ctrls' = Dead(Waiting(ctrls, i.label, {Len(st) + 1}))
      /\ set' = set /\ inits' = inits
  BY DEF ReadBr
<1>2. /\ s.vals = vals /\ s.ctrls = ctrls /\ s.inits = inits /\ s \in HeldSet /\ s.ctrls # <<>>
      /\ HeldOK(s, p) /\ Top = TopOf(s) /\ i \in Instr /\ p \in Nat /\ set = Known(s)
      /\ Len(st) \in Nat /\ Behind = p + 1 /\ s.next = Len(st) + 1 /\ Decoded(i)
  BY DEF Reads
<1>3. ~Opens(i) /\ Slots(i) = 1 /\ i.op \notin {"else", "end", "if", "try_table"}
  BY <1>1 DEF Slots, Opens
<1>4. i.label \in Nat /\ i.label < Len(s.ctrls) /\ LabelOf(i, 1) = i.label
      /\ Label(i.label) = LabelAt(s, i.label)
  BY <1>1, <1>2 DEF Decoded, LabelOf, Label, LabelAt
<1>5. HomeAt(s, i, 1) = Len(s.ctrls) - i.label
  BY <1>3, <1>4 DEF HomeAt
<1>6. Joined(s, i, ds)
  BY <1>2, <1>3, <1>4, <1>5, JoinedOne
<1>7. r.vals = FirstN(s.vals, TopOf(s).height) /\ r.ctrls = Dead(ds) /\ r.inits = s.inits /\ r.next = Len(st') + 1
  BY <1>1, <1>2, HeldNext
<1>8. r.ctrls \in Seq(FrameSet) /\ Stops(s, r) /\ FramesStep(s, r, i, Len(trys) + 1)
  BY <1>2, <1>3, <1>6, <1>7, StepStops
<1>9. Wrote(s, i, p) /\ Len(st') \in Nat /\ Len(st') + 1 = s.next + Slots(i)
  <2>1. Len(vals) = Operands(s, i)
    BY <1>1, <1>2 DEF Operands
  <2>2. Entry(p + 1, LabelAt(s, LabelOf(i, 1)), vals) = NewEntry(s, i, p, 1)
    BY <1>1, <1>2, <1>4, <2>1, EntryMade
  <2>3. NewEntry(s, i, p, 1) \in EntrySet
    BY <1>2, <1>3, <1>4, EntryFields
  <2>4. st' = Append(st, NewEntry(s, i, p, 1))
    BY <1>1, <1>2, <1>4, <2>2
  <2> QED
    BY <1>3, <2>3, <2>4, OneEntry
<1>10. r \in HeldSet
  <2>1. s.vals \in Seq(Type) /\ s.inits \in Seq(DOMAIN LocalType)
    BY <1>2, RecordParts
  <2>2. Len(s.vals) \in Nat /\ TopOf(s).height \in 0 .. Len(s.vals)
    BY <1>2, RecordTop, RecordParts
  <2>3. FirstN(s.vals, TopOf(s).height) \in Seq(Type)
    BY <2>1, <2>2, FirstNEffect
  <2>4. ctrls' \in Seq(FrameSet)
    BY <1>8, HeldNext
  <2> QED
    BY <1>1, <1>2, <1>9, <2>1, <2>3, <2>4, RecordIs
<1>11. BrEffect(s, r, i)
  BY <1>1, <1>2, <1>4, <1>8 DEF BrEffect
<1>12. Effect(s, r, i, p)
  BY <1>1, <1>2, <1>7, <1>9, <1>11 DEF Effect
<1> QED
  BY <1>1, <1>2, <1>7, <1>8, <1>9, <1>10, <1>12, KnownSame DEF Did

LEMMA BrIfRead ==
  ASSUME NEW s, NEW i, NEW p, Reads(s, i, p), ReadBrIf(i), NEW r, r = Held'
  PROVE  Did(s, r, i, p) /\ Wrote(s, i, p) /\ set' = Known(r)
<1> PICK ds : ds = Waiting(s.ctrls, i.label, {s.next})
  OBVIOUS
<1> PICK vs : vs = Pop(Top, vals, <<Condition>>)
  OBVIOUS
<1> PICK ts : ts = LabelTypes(Label(i.label))
  OBVIOUS
<1>1. /\ i.op = "br_if" /\ i.label < Len(ctrls) /\ CanPop(Top, vals, <<Condition>>)
      /\ CanPop(Top, vs, ts) /\ st' = Append(st, Entry(Behind, Label(i.label), vs))
      /\ vals' = Pop(Top, vs, ts) \o ts
      /\ ctrls' = Waiting(ctrls, i.label, {Len(st) + 1})
      /\ set' = set /\ inits' = inits
  BY DEF ReadBrIf
<1>2. /\ s.vals = vals /\ s.ctrls = ctrls /\ s.inits = inits /\ s \in HeldSet /\ s.ctrls # <<>>
      /\ HeldOK(s, p) /\ Top = TopOf(s) /\ i \in Instr /\ p \in Nat /\ set = Known(s)
      /\ Len(st) \in Nat /\ Behind = p + 1 /\ s.next = Len(st) + 1 /\ Decoded(i)
  BY DEF Reads
<1>3. ~Opens(i) /\ Slots(i) = 1 /\ i.op \notin {"else", "end", "if", "try_table"}
  BY <1>1 DEF Slots, Opens
<1>4. i.label \in Nat /\ i.label < Len(s.ctrls) /\ LabelOf(i, 1) = i.label
      /\ Label(i.label) = LabelAt(s, i.label)
  BY <1>1, <1>2 DEF Decoded, LabelOf, Label, LabelAt
<1>5. HomeAt(s, i, 1) = Len(s.ctrls) - i.label
  BY <1>3, <1>4 DEF HomeAt
<1>6. Joined(s, i, ds)
  BY <1>2, <1>3, <1>4, <1>5, JoinedOne
<1>7. r.vals = vals' /\ r.ctrls = ds /\ r.inits = s.inits /\ r.next = Len(st') + 1
  BY <1>1, <1>2, HeldNext
<1>8. /\ Len(r.ctrls) = Len(s.ctrls) /\ Keeps(s, r, Len(s.ctrls))
      /\ FramesStep(s, r, i, Len(trys) + 1)
  BY <1>2, <1>3, <1>6, <1>7, StepPlain
<1>9. Wrote(s, i, p) /\ Len(st') \in Nat /\ Len(st') + 1 = s.next + Slots(i)
  <2>1. Len(vs) = Operands(s, i)
    BY <1>1, <1>2 DEF Operands
  <2>2. Entry(p + 1, LabelAt(s, LabelOf(i, 1)), vs) = NewEntry(s, i, p, 1)
    BY <1>1, <1>2, <1>4, <2>1, EntryMade
  <2>3. NewEntry(s, i, p, 1) \in EntrySet
    BY <1>2, <1>3, <1>4, EntryFields
  <2>4. st' = Append(st, NewEntry(s, i, p, 1))
    BY <1>1, <1>2, <1>4, <2>2
  <2> QED
    BY <1>3, <2>3, <2>4, OneEntry
<1>10. r \in HeldSet
  <2>1. s.vals \in Seq(Type) /\ s.inits \in Seq(DOMAIN LocalType) /\ <<Condition>> \in Seq(Type)
    BY <1>2, RecordParts, SideTableAssumption
  <2>2. TopOf(s).height \in Nat /\ TopOf(s).height <= Len(s.vals)
    BY <1>2, RecordTop
  <2>3. vs \in Seq(Type) /\ Len(vs) \in Nat /\ TopOf(s).height <= Len(vs)
    BY <1>2, <2>1, <2>2, PopEffect
  <2>4. ts \in Seq(Type)
    <3>1. LabelAt(s, i.label) \in FrameSet
      BY <1>2, <1>3, <1>4, LabelHome
    <3> QED
      BY <1>4, <3>1, FrameFields
  <2>5. Pop(TopOf(s), vs, ts) \in Seq(Type)
    BY <2>2, <2>3, <2>4, PopEffect
  <2>6. vals' \in Seq(Type)
    BY <1>1, <1>2, <2>4, <2>5, BehindTypes
  <2>7. ctrls' \in Seq(FrameSet)
    BY <1>1, <1>2, <1>6 DEF Joined
  <2> QED
    BY <1>1, <1>2, <1>9, <2>1, <2>6, <2>7, RecordIs
<1>11. Plain(s, r)
  BY <1>7, <1>8 DEF Plain
<1>12. BrIfEffect(s, r, i)
  <2>1. vs = Pop(TopOf(s), s.vals, <<Condition>>) /\ ts = LabelTypes(LabelAt(s, i.label))
    BY <1>2, <1>4
  <2>2. /\ i.label < Len(s.ctrls) /\ CanPop(TopOf(s), s.vals, <<Condition>>)
        /\ CanPop(TopOf(s), vs, ts) /\ r.vals = Pop(TopOf(s), vs, ts) \o ts
    BY <1>1, <1>2, <1>7
  <2> QED
    BY ONLY <1>11, <2>1, <2>2 DEF BrIfEffect
<1>13. Effect(s, r, i, p)
  BY <1>1, <1>2, <1>7, <1>9, <1>12 DEF Effect
<1> QED
  BY <1>1, <1>2, <1>7, <1>8, <1>9, <1>10, <1>13, KnownSame DEF Did

LEMMA JoinsAre ==
  ASSUME NEW s, NEW L \in Nat, s.next = L + 1, NEW i, Slots(i) \in Nat, NEW j
  PROVE  Joins(s, i, j) = {L + k : k \in {m \in 1 .. Slots(i) : HomeAt(s, i, m) = j}}
<1> PICK n : n = Slots(i)
  OBVIOUS
<1>1. \A e : e \in Joins(s, i, j) <=> e \in (L + 1) .. (L + 1 + n - 1) /\ HomeAt(s, i, e - (L + 1) + 1) = j
  BY DEF Joins
<1>2. ASSUME NEW e \in Joins(s, i, j)
      PROVE  e \in {L + k : k \in {m \in 1 .. n : HomeAt(s, i, m) = j}}
  <2> PICK k : k = e - (L + 1) + 1
    OBVIOUS
  <2>1. e \in (L + 1) .. (L + 1 + n - 1) /\ HomeAt(s, i, k) = j
    BY <1>1, <1>2
  <2>2. k \in 1 .. n /\ e = L + k
    BY <2>1
  <2> QED
    BY <2>1, <2>2
<1>3. ASSUME NEW k \in 1 .. n, HomeAt(s, i, k) = j
      PROVE  L + k \in Joins(s, i, j)
  <2>1. L + k \in (L + 1) .. (L + 1 + n - 1) /\ (L + k) - (L + 1) + 1 = k
    OBVIOUS
  <2> QED
    BY <1>1, <1>3, <2>1
<1> QED
  BY <1>2, <1>3

\* What the two instructions with several labels leave waiting for frame j.
Due(i, j) == {Len(st) + k : k \in {m \in 1 .. Len(i.labels) : Len(ctrls) - i.labels[m] = j}}
DueClauses(i, j) == {Len(st) + k : k \in {m \in 1 .. Len(i.catches) : Len(ctrls) - i.catches[m].label = j}}

LEMMA DueIs ==
  ASSUME NEW s, NEW i, NEW p, Reads(s, i, p), NEW j
  PROVE  /\ i.op = "br_table" => Due(i, j) = Joins(s, i, j)
         /\ i.op = "try_table" => DueClauses(i, j) = Joins(s, i, j)
<1>1. Len(st) \in Nat /\ s.next = Len(st) + 1 /\ Slots(i) \in Nat /\ s.ctrls = ctrls
  BY DEF Reads
<1>2. Joins(s, i, j) = {Len(st) + k : k \in {m \in 1 .. Slots(i) : HomeAt(s, i, m) = j}}
  BY <1>1, JoinsAre
<1>3. CASE i.op = "br_table"
  <2>1. Slots(i) = Len(i.labels) /\ \A m : HomeAt(s, i, m) = Len(ctrls) - i.labels[m]
    BY <1>1, <1>3 DEF Slots, HomeAt, LabelOf
  <2>2. {m \in 1 .. Slots(i) : HomeAt(s, i, m) = j} = {m \in 1 .. Len(i.labels) : Len(ctrls) - i.labels[m] = j}
    BY <2>1
  <2> QED
    BY <1>2, <1>3, <2>2 DEF Due
<1>4. CASE i.op = "try_table"
  <2>1. Slots(i) = Len(i.catches) /\ \A m : HomeAt(s, i, m) = Len(ctrls) - i.catches[m].label
    BY <1>1, <1>4 DEF Slots, HomeAt, LabelOf
  <2>2. {m \in 1 .. Slots(i) : HomeAt(s, i, m) = j} = {m \in 1 .. Len(i.catches) : Len(ctrls) - i.catches[m].label = j}
    BY <2>1
  <2> QED
    BY <1>2, <1>4, <2>2 DEF DueClauses
<1> QED
  BY <1>3, <1>4

\* The frames with the entries of several labels, as the two instructions write them.
LabelsWaiting(i) ==
  [j \in DOMAIN ctrls |->
     [ctrls[j] EXCEPT !.fixups = IF ctrls[j].op = "loop" THEN @ ELSE
        @ \cup {Len(st) + k : k \in {m \in 1 .. Len(i.labels) : Len(ctrls) - i.labels[m] = j}}]]
ClausesWaiting(i) ==
  [j \in DOMAIN ctrls |->
     [ctrls[j] EXCEPT !.fixups = IF ctrls[j].op = "loop" THEN @ ELSE
        @ \cup {Len(st) + k : k \in {m \in 1 .. Len(i.catches) : Len(ctrls) - i.catches[m].label = j}}]]

LEMMA LabelsJoin ==
  ASSUME NEW s, NEW i, NEW p, Reads(s, i, p), i.op = "br_table"
  PROVE  Joined(s, i, LabelsWaiting(i))
<1> PICK W : W = [j \in DOMAIN ctrls |-> Due(i, j)]
  OBVIOUS
<1>1. s \in HeldSet /\ s.ctrls = ctrls /\ Slots(i) \in Nat
  BY DEF Reads
<1>2. \A j \in DOMAIN ctrls : W[j] = Joins(s, i, j) /\ W[j] = Due(i, j)
  BY DueIs
<1>3. LabelsWaiting(i) = [j \in DOMAIN ctrls |-> GrownFrame(ctrls[j], Due(i, j))]
  BY DEF LabelsWaiting, GrownFrame, Due
<1>4. LabelsWaiting(i) = [j \in DOMAIN s.ctrls |-> GrownFrame(s.ctrls[j], W[j])]
  BY <1>1, <1>2, <1>3
<1>5. \A j \in DOMAIN s.ctrls : W[j] = Joins(s, i, j)
  BY <1>1, <1>2
<1> HIDE DEF LabelsWaiting
<1> QED
  BY <1>1, <1>4, <1>5, JoinedMany

LEMMA ClausesJoin ==
  ASSUME NEW s, NEW i, NEW p, Reads(s, i, p), i.op = "try_table"
  PROVE  Joined(s, i, ClausesWaiting(i))
<1> PICK W : W = [j \in DOMAIN ctrls |-> DueClauses(i, j)]
  OBVIOUS
<1>1. s \in HeldSet /\ s.ctrls = ctrls /\ Slots(i) \in Nat
  BY DEF Reads
<1>2. \A j \in DOMAIN ctrls : W[j] = Joins(s, i, j) /\ W[j] = DueClauses(i, j)
  BY DueIs
<1>3. ClausesWaiting(i) = [j \in DOMAIN ctrls |-> GrownFrame(ctrls[j], DueClauses(i, j))]
  BY DEF ClausesWaiting, GrownFrame, DueClauses
<1>4. ClausesWaiting(i) = [j \in DOMAIN s.ctrls |-> GrownFrame(s.ctrls[j], W[j])]
  BY <1>1, <1>2, <1>3
<1>5. \A j \in DOMAIN s.ctrls : W[j] = Joins(s, i, j)
  BY <1>1, <1>2
<1> QED
  BY <1>1, <1>4, <1>5, JoinedMany

\* The entries of the two, as they write them.
LabelEntries(i, vs) == [k \in 1 .. Len(i.labels) |-> Entry(Behind, Label(i.labels[k]), vs)]
ClauseEntries(i, base) ==
  [k \in 1 .. Len(i.catches) |->
     [Entry(Behind, Label(i.catches[k].label), base) EXCEPT !.pop = Len(base) - Label(i.catches[k].label).height]]

LEMMA LabelEntriesAre ==
  ASSUME NEW s, NEW i, NEW p, Reads(s, i, p), i.op = "br_table",
         \A k \in 1 .. Len(i.labels) : i.labels[k] < Len(ctrls),
         NEW vs, vs = Pop(Top, vals, <<Condition>>)
  PROVE  /\ LabelEntries(i, vs) \in [1 .. Slots(i) -> EntrySet]
         /\ \A k \in 1 .. Slots(i) : LabelEntries(i, vs)[k] = NewEntry(s, i, p, k)
<1>1. /\ s.vals = vals /\ s.ctrls = ctrls /\ s \in HeldSet /\ s.ctrls # <<>> /\ Top = TopOf(s)
      /\ HeldOK(s, p) /\ i \in Instr /\ p \in Nat /\ Behind = p + 1 /\ Decoded(i)
  BY DEF Reads
<1>2. Slots(i) = Len(i.labels) /\ i.labels \in Seq(Nat)
  BY <1>1 DEF Slots, Decoded
<1>3. Len(vs) = Operands(s, i)
  BY <1>1 DEF Operands
<1>4. ASSUME NEW k \in 1 .. Len(i.labels)
      PROVE  /\ Entry(Behind, Label(i.labels[k]), vs) = NewEntry(s, i, p, k)
             /\ NewEntry(s, i, p, k) \in EntrySet
  <2>1. LabelOf(i, k) = i.labels[k] /\ i.labels[k] \in Nat /\ i.labels[k] < Len(s.ctrls)
    BY <1>1, <1>2, ElementOfSeq DEF LabelOf
  <2>2. Label(i.labels[k]) = LabelAt(s, LabelOf(i, k))
    BY <1>1, <2>1 DEF Label, LabelAt
  <2>3. NewEntry(s, i, p, k) \in EntrySet
    BY <1>1, <2>1, EntryFields
  <2>4. Entry(p + 1, LabelAt(s, LabelOf(i, k)), vs) = NewEntry(s, i, p, k)
    BY <1>1, <1>3, <2>1, EntryMade
  <2> QED
    BY <1>1, <2>2, <2>3, <2>4
<1> QED
  BY <1>2, <1>4 DEF LabelEntries

LEMMA ClauseEntriesAre ==
  ASSUME NEW s, NEW i, NEW p, Reads(s, i, p), i.op = "try_table",
         \A k \in 1 .. Len(i.catches) : i.catches[k].label < Len(ctrls),
         NEW base, base = Pop(Top, vals, i.bt.in)
  PROVE  /\ ClauseEntries(i, base) \in [1 .. Slots(i) -> EntrySet]
         /\ \A k \in 1 .. Slots(i) : ClauseEntries(i, base)[k] = NewEntry(s, i, p, k)
<1>1. /\ s.vals = vals /\ s.ctrls = ctrls /\ s \in HeldSet /\ s.ctrls # <<>> /\ Top = TopOf(s)
      /\ HeldOK(s, p) /\ i \in Instr /\ p \in Nat /\ Behind = p + 1 /\ Decoded(i)
  BY DEF Reads
<1>2. Slots(i) = Len(i.catches) /\ \A k \in 1 .. Len(i.catches) : i.catches[k].label \in Nat
  BY <1>1 DEF Slots, Decoded, ClauseDecoded
<1>3. Len(base) = Operands(s, i)
  BY <1>1 DEF Operands
<1>4. ASSUME NEW k \in 1 .. Len(i.catches)
      PROVE  /\ [Entry(Behind, Label(i.catches[k].label), base) EXCEPT
                   !.pop = Len(base) - Label(i.catches[k].label).height] = NewEntry(s, i, p, k)
             /\ NewEntry(s, i, p, k) \in EntrySet
  <2> PICK f : f = LabelAt(s, LabelOf(i, k))
    OBVIOUS
  <2>1. LabelOf(i, k) = i.catches[k].label /\ LabelOf(i, k) \in Nat /\ LabelOf(i, k) < Len(s.ctrls)
    BY <1>1, <1>2 DEF LabelOf
  <2>2. Label(i.catches[k].label) = f
    BY <1>1, <2>1 DEF Label, LabelAt
  <2>3. NewEntry(s, i, p, k) \in EntrySet
    BY <1>1, <2>1, EntryFields
  <2>4. [Entry(p + 1, f, base) EXCEPT !.pop = Len(base) - f.height] = NewEntry(s, i, p, k)
    BY <1>1, <1>3, <2>1, TryEntryMade
  <2> QED
    BY <1>1, <2>2, <2>3, <2>4, Zenon
<1> QED
  BY <1>2, <1>4 DEF ClauseEntries

LEMMA BrTableRead ==
  ASSUME NEW s, NEW i, NEW p, Reads(s, i, p), ReadBrTable(i), NEW r, r = Held'
  PROVE  Did(s, r, i, p) /\ Wrote(s, i, p) /\ set' = Known(r)
<1> PICK vs : vs = Pop(Top, vals, <<Condition>>)
  OBVIOUS
<1>1. /\ i.op = "br_table" /\ CanPop(Top, vals, <<Condition>>)
      /\ \A k \in 1 .. Len(i.labels) :
             /\ i.labels[k] < Len(ctrls)
             /\ Len(LabelTypes(Label(i.labels[k]))) = Len(LabelTypes(Label(i.labels[1])))
             /\ CanPop([Top EXCEPT !.dead = TRUE], vs, LabelTypes(Label(i.labels[k])))
      /\ CanPop(Top, vs, LabelTypes(Label(i.labels[1])))
      /\ st' = st \o LabelEntries(i, vs)
      /\ vals' = FirstN(vals, Top.height)
      /\ ctrls' = Dead(LabelsWaiting(i))
      /\ set' = set /\ inits' = inits
  BY DEF ReadBrTable, LabelEntries, LabelsWaiting
<1>2. /\ s.vals = vals /\ s.ctrls = ctrls /\ s.inits = inits /\ s \in HeldSet /\ s.ctrls # <<>>
      /\ HeldOK(s, p) /\ Top = TopOf(s) /\ i \in Instr /\ p \in Nat /\ set = Known(s)
      /\ Len(st) \in Nat /\ s.next = Len(st) + 1 /\ Decoded(i)
  BY DEF Reads
<1>3. ~Opens(i) /\ i.op # "else"
  BY <1>1 DEF Opens
<1> PICK ds : ds = LabelsWaiting(i)
  OBVIOUS
<1>4. Joined(s, i, ds)
  BY <1>1, LabelsJoin
<1>5. r.vals = FirstN(s.vals, TopOf(s).height) /\ r.ctrls = Dead(ds) /\ r.inits = s.inits /\ r.next = Len(st') + 1
  <2>1. r.vals = vals' /\ r.ctrls = ctrls' /\ r.inits = inits' /\ r.next = Len(st') + 1
    BY HeldNext
  <2> QED
    BY <1>1, <1>2, <2>1
<1>6. r.ctrls \in Seq(FrameSet) /\ Stops(s, r) /\ FramesStep(s, r, i, Len(trys) + 1)
  BY <1>2, <1>3, <1>4, <1>5, StepStops
<1>7. Wrote(s, i, p) /\ Len(st') \in Nat /\ Len(st') + 1 = s.next + Slots(i)
  <2> PICK es : es = LabelEntries(i, vs)
    OBVIOUS
  <2>1. es \in [1 .. Slots(i) -> EntrySet] /\ \A k \in 1 .. Slots(i) : es[k] = NewEntry(s, i, p, k)
    BY <1>1, LabelEntriesAre
  <2>2. st' = st \o es
    BY <1>1
  <2> QED
    BY <1>1, <2>1, <2>2, ManyEntries
<1>8. r \in HeldSet
  <2>1. s.vals \in Seq(Type) /\ s.inits \in Seq(DOMAIN LocalType)
    BY <1>2, RecordParts
  <2>2. Len(s.vals) \in Nat /\ TopOf(s).height \in 0 .. Len(s.vals)
    BY <1>2, RecordTop, RecordParts
  <2>3. FirstN(s.vals, TopOf(s).height) \in Seq(Type)
    BY <2>1, <2>2, FirstNEffect
  <2>4. ctrls' \in Seq(FrameSet)
    BY <1>6, HeldNext
  <2> QED
    BY <1>1, <1>2, <1>7, <2>1, <2>3, <2>4, RecordIs
<1>9. BrTableEffect(s, r, i)
  <2>1. DOMAIN i.labels = 1 .. Len(i.labels)
    BY <1>1, <1>2, LenProperties DEF Decoded
  <2>2. \A l : Label(l) = LabelAt(s, l)
    BY <1>2 DEF Label, LabelAt
  <2>3. vs = Pop(TopOf(s), s.vals, <<Condition>>) /\ CanPop(TopOf(s), s.vals, <<Condition>>)
    BY <1>1, <1>2
  <2>4. \A k \in DOMAIN i.labels :
          /\ i.labels[k] < Len(s.ctrls)
          /\ Len(LabelTypes(LabelAt(s, i.labels[k]))) = Len(LabelTypes(LabelAt(s, i.labels[1])))
          /\ CanPop([TopOf(s) EXCEPT !.dead = TRUE], vs, LabelTypes(LabelAt(s, i.labels[k])))
    BY <1>1, <1>2, <2>1, <2>2
  <2>5. CanPop(TopOf(s), vs, LabelTypes(LabelAt(s, i.labels[1])))
    BY <1>1, <1>2, <2>2
  <2> QED
    BY <1>6, <2>3, <2>4, <2>5 DEF BrTableEffect
<1>10. Effect(s, r, i, p)
  BY <1>1, <1>2, <1>5, <1>7, <1>9 DEF Effect
<1>11. set' = Known(r)
  BY <1>1, <1>2, <1>5, KnownSame
<1> QED
  BY <1>6, <1>7, <1>8, <1>10, <1>11 DEF Did

LEMMA TryTableRead ==
  ASSUME NEW s, NEW i, NEW p, Reads(s, i, p), ReadTryTable(i), Len(trys) \in Nat, NEW r, r = Held'
  PROVE  Did(s, r, i, p) /\ Wrote(s, i, p) /\ set' = Known(r)
<1> PICK base : base = Pop(Top, vals, i.bt.in)
  OBVIOUS
<1> PICK f : f = Frame(i.op, i.bt, base)
  OBVIOUS
<1> PICK g : g = WithTry(f, Len(trys) + 1)
  OBVIOUS
<1> PICK ds : ds = ClausesWaiting(i)
  OBVIOUS
<1>1. /\ i.op = "try_table" /\ CanPop(Top, vals, i.bt.in)
      /\ (\A k \in DOMAIN i.catches : ClauseFits(i.catches[k]))
      /\ (TryInLoop \/ \A j \in DOMAIN ctrls : ctrls[j].op # "loop")
      /\ st' = st \o ClauseEntries(i, base)
      /\ ctrls' = Append(ds, g)
      /\ vals' = base \o i.bt.in
      /\ set' = set /\ inits' = inits
  BY DEF ReadTryTable, ClauseEntries, ClausesWaiting, WithTry
<1>2. /\ s.vals = vals /\ s.ctrls = ctrls /\ s.inits = inits /\ s \in HeldSet /\ s.ctrls # <<>>
      /\ HeldOK(s, p) /\ Top = TopOf(s) /\ i \in Instr /\ p \in Nat /\ set = Known(s)
      /\ Len(st) \in Nat /\ s.next = Len(st) + 1 /\ Decoded(i) /\ Len(code) \in Nat
  BY DEF Reads
<1>3. Opens(i) /\ i.op \notin {"else", "end", "if"}
  BY <1>1 DEF Opens
<1>4. i.bt.in \in Seq(Type)
  BY <1>2, <1>3, TypesOfBlock
<1>5. /\ f \in FrameSet /\ f.op = i.op /\ f.dead = FALSE /\ f.fixups = {} /\ f.else = 0 /\ f.try = 0
  <2>1. TopOf(s).height \in Nat /\ TopOf(s).height <= Len(s.vals) /\ s.vals \in Seq(Type) /\ Len(s.inits) \in Nat
    BY <1>2, RecordTop, RecordParts
  <2>2. Len(Pop(TopOf(s), s.vals, i.bt.in)) \in Nat
    BY <1>4, <2>1, PopEffect
  <2>3. /\ i \in Instr /\ Opens(i) /\ Len(base) \in Nat /\ Len(inits) \in Nat
        /\ Len(code) \in Nat /\ f = Frame(i.op, i.bt, base)
    BY <1>2, <1>3, <2>1, <2>2
  <2> QED
    BY ONLY <2>3, FrameIs, ZenonT(60)
<1>6. /\ g \in FrameSet /\ g.op = i.op /\ g.dead = FALSE /\ g.fixups = {} /\ g.else = 0
      /\ g.try = Len(trys) + 1 /\ SameFrame(f, g)
  <2>1. Len(trys) + 1 \in Nat
    OBVIOUS
  <2> QED
    BY <1>5, <2>1, TryMarked
<1>7. Joined(s, i, ds)
  BY <1>1, ClausesJoin
<1>8. \A k \in 1 .. Len(i.catches) : ClauseFits(i.catches[k]) /\ k \in DOMAIN i.catches
  BY <1>1, <1>2 DEF Decoded
<1>9. Wrote(s, i, p) /\ Len(st') \in Nat /\ Len(st') + 1 = s.next + Slots(i)
  <2> PICK es : es = ClauseEntries(i, base)
    OBVIOUS
  <2>1. \A k \in 1 .. Len(i.catches) : i.catches[k].label < Len(ctrls)
    BY <1>8 DEF ClauseFits
  <2>2. es \in [1 .. Slots(i) -> EntrySet] /\ \A k \in 1 .. Slots(i) : es[k] = NewEntry(s, i, p, k)
    BY <1>1, <2>1, ClauseEntriesAre
  <2>3. st' = st \o es
    BY <1>1
  <2> QED
    BY <1>1, <2>2, <2>3, ManyEntries
<1>10. /\ r \in HeldSet /\ Enters(s, r, i, p, i.bt.in) /\ r.next = Len(st') + 1
       /\ FramesStep(s, r, i, Len(trys) + 1) /\ Known(r) = Known(s)
  <2>1. g.else = (IF i.op = "if" THEN s.next ELSE 0) /\ g.try = (IF i.op = "try_table" THEN Len(trys) + 1 ELSE 0)
    BY <1>1, <1>6
  <2>2. /\ Reads(s, i, p) /\ Opens(i) /\ i.bt.in \in Seq(Type) /\ CanPop(Top, vals, i.bt.in)
        /\ vals' = Pop(Top, vals, i.bt.in) \o i.bt.in /\ f = Frame(i.op, i.bt, Pop(Top, vals, i.bt.in))
        /\ g \in FrameSet /\ SameFrame(f, g) /\ g.op = i.op /\ g.dead = FALSE /\ g.fixups = {}
        /\ g.else = (IF i.op = "if" THEN s.next ELSE 0)
        /\ g.try = (IF i.op = "try_table" THEN Len(trys) + 1 ELSE 0)
        /\ Joined(s, i, ds) /\ ctrls' = Append(ds, g) /\ inits' = inits /\ Len(st') \in Nat /\ r = Held'
    BY <1>1, <1>3, <1>4, <1>6, <1>7, <1>9, <2>1
  <2> QED
    BY ONLY <2>2, OpenRead, Zenon
<1>11. TryTableEffect(s, r, i, p)
  <2>1. \A l : Label(l) = LabelAt(s, l)
    BY <1>2 DEF Label, LabelAt
  <2>2. \A k \in DOMAIN i.catches : ClauseFitsAt(s, i.catches[k])
    BY <1>1, <1>2, <2>1 DEF ClauseFits, ClauseFitsAt
  <2>3. TryInLoop \/ \A j \in DOMAIN s.ctrls : s.ctrls[j].op # "loop"
    BY <1>1, <1>2
  <2> QED
    BY <1>10, <2>2, <2>3 DEF TryTableEffect
<1>12. Effect(s, r, i, p)
  BY <1>1, <1>2, <1>9, <1>10, <1>11 DEF Effect
<1> QED
  BY <1>1, <1>2, <1>9, <1>10, <1>12 DEF Did

\* The operands an arm leaves, and the locals it marked.
LEMMA ArmRead ==
  ASSUME NEW s, NEW i, NEW p, Reads(s, i, p), NEW ts \in Seq(Type),
         CanPop(Top, vals, Top.bt.out), Len(Pop(Top, vals, Top.bt.out)) = Top.height,
         ResetLocals(Top.inits), vals' = Pop(Top, vals, Top.bt.out) \o ts, NEW r, r = Held'
  PROVE  /\ EndsArm(s, r, ts) /\ vals' \in Seq(Type) /\ inits' \in Seq(DOMAIN LocalType) /\ set' = Known(r)
<1>1. /\ s.vals = vals /\ s.ctrls = ctrls /\ s.inits = inits /\ s \in HeldSet /\ s.ctrls # <<>>
      /\ HeldOK(s, p) /\ Top = TopOf(s) /\ set = Known(s)
  BY DEF Reads
<1>2. r.vals = vals' /\ r.inits = inits'
  BY HeldNext
<1> PICK n : n = Top.inits
  OBVIOUS
<1>3. inits' = FirstN(inits, n) /\ set' = set \ {inits[k] : k \in (n + 1) .. Len(inits)}
  BY DEF ResetLocals
<1>4. EndsArm(s, r, ts)
  BY <1>1, <1>2, <1>3 DEF EndsArm
<1>5. /\ TopOf(s).height \in Nat /\ TopOf(s).height <= Len(s.vals) /\ s.vals \in Seq(Type)
      /\ TopOf(s).bt.out \in Seq(Type) /\ n \in Nat /\ n <= Len(s.inits) /\ s.inits \in Seq(DOMAIN LocalType)
      /\ Len(s.inits) \in Nat /\ \A j : j \in DOMAIN s.inits <=> j \in 1 .. Len(s.inits)
  BY <1>1, RecordTop, RecordParts
<1>6. Pop(TopOf(s), s.vals, TopOf(s).bt.out) \in Seq(Type)
  BY <1>5, PopEffect
<1>7. vals' \in Seq(Type)
  BY <1>1, <1>6, BehindTypes
<1>8. /\ FirstN(s.inits, n) \in Seq(DOMAIN LocalType) /\ Len(FirstN(s.inits, n)) = n
      /\ \A k \in 1 .. n : FirstN(s.inits, n)[k] = s.inits[k]
  <2>1. n \in 0 .. Len(s.inits)
    BY <1>5
  <2> QED
    BY <1>5, <2>1, FirstNEffect
<1>9. \A k : k \in DOMAIN FirstN(s.inits, n) <=> k \in 1 .. n
  BY <1>8, LenProperties
<1>10. OncePerLocal(s)
  BY <1>1 DEF HeldOK
<1>11. ASSUME NEW x
       PROVE  x \in set' <=> x \in Known(r)
  <2>1. x \in Known(s) <=> x \in Preset \/ \E k \in 1 .. Len(s.inits) : x = s.inits[k]
    BY <1>5 DEF Known
  <2>2. x \in Known(r) <=> x \in Preset \/ \E k \in 1 .. n : x = s.inits[k]
    <3>1. r.inits = FirstN(s.inits, n)
      BY <1>1, <1>2, <1>3
    <3>2. x \in Known(r) <=> x \in Preset \/ \E k \in DOMAIN r.inits : x = r.inits[k]
      BY DEF Known
    <3> QED
      BY ONLY <3>1, <3>2, <1>8, <1>9
  <2>3. x \in set' <=> x \in Known(s) /\ ~\E k \in (n + 1) .. Len(s.inits) : x = s.inits[k]
    BY <1>1, <1>3
  <2>4. \A k \in 1 .. Len(s.inits) : s.inits[k] \notin Preset
    BY <1>5, <1>10 DEF OncePerLocal
  <2>5. \A k, l \in 1 .. Len(s.inits) : s.inits[k] = s.inits[l] => k = l
    BY <1>5, <1>10 DEF OncePerLocal
  <2>6. \A k : k \in 1 .. Len(s.inits) <=> k \in 1 .. n \/ k \in (n + 1) .. Len(s.inits)
    BY <1>5
  <2>7. \A k : ~(k \in 1 .. n /\ k \in (n + 1) .. Len(s.inits))
    BY <1>5
  <2> QED
    BY ONLY <2>1, <2>2, <2>3, <2>4, <2>5, <2>6, <2>7, Zenon
<1>12. set' = Known(r)
  BY <1>11
<1> QED
  BY <1>1, <1>3, <1>4, <1>7, <1>8, <1>12

WithTo(e, q) == [e EXCEPT !.to = q]
WithSkip(e) == [e EXCEPT !.skip = 1]

LEMMA EntryMarked ==
  ASSUME NEW e \in EntrySet, NEW q \in Nat
  PROVE  /\ WithTo(e, q) \in EntrySet /\ WithTo(e, q).to = q /\ WithTo(e, q).from = e.from
         /\ WithTo(e, q).vals = e.vals /\ WithTo(e, q).pop = e.pop /\ WithTo(e, q).skip = e.skip
         /\ WithSkip(e) \in EntrySet /\ WithSkip(e).skip = 1 /\ WithSkip(e).from = e.from
         /\ WithSkip(e).vals = e.vals /\ WithSkip(e).pop = e.pop /\ WithSkip(e).to = e.to
<1>1. WithTo(e, q) \in EntrySet
  BY DEF EntrySet, WithTo
<1>2. WithSkip(e) \in EntrySet
  BY DEF EntrySet, WithSkip
<1>3. /\ WithTo(e, q).to = q /\ WithTo(e, q).from = e.from
      /\ WithTo(e, q).vals = e.vals /\ WithTo(e, q).pop = e.pop /\ WithTo(e, q).skip = e.skip
  BY DEF EntrySet, WithTo
<1>4. /\ WithSkip(e).skip = 1 /\ WithSkip(e).from = e.from
      /\ WithSkip(e).vals = e.vals /\ WithSkip(e).pop = e.pop /\ WithSkip(e).to = e.to
  BY DEF EntrySet, WithSkip
<1> QED
  BY <1>1, <1>2, <1>3, <1>4

\* Patched sends the entries E here and leaves the others.
LEMMA PatchedEffect ==
  ASSUME NEW es \in Seq(EntrySet), NEW E, NEW q \in Nat, q = Len(code) + 2
  PROVE  /\ Patched(es, E) \in Seq(EntrySet) /\ Len(Patched(es, E)) = Len(es)
         /\ \A e \in 1 .. Len(es) : Patched(es, E)[e] = IF e \in E THEN WithTo(es[e], q) ELSE es[e]
<1>1. DOMAIN es = 1 .. Len(es) /\ Len(es) \in Nat
  BY LenProperties
<1>2. \A e \in 1 .. Len(es) : es[e] \in EntrySet
  BY ElementOfSeq
<1>3. \A e \in 1 .. Len(es) : WithTo(es[e], q) \in EntrySet
  BY <1>2, EntryMarked
<1>4. Patched(es, E) = [e \in DOMAIN es |-> IF e \in E THEN WithTo(es[e], q) ELSE es[e]]
  BY DEF Patched, WithTo
<1>5. Patched(es, E) \in [1 .. Len(es) -> EntrySet]
  BY <1>1, <1>2, <1>3, <1>4
<1>6. Patched(es, E) \in Seq(EntrySet)
  BY <1>1, <1>5, SeqDef
<1>7. Len(Patched(es, E)) = Len(es)
  BY <1>1, <1>5, <1>6, LenProperties
<1>8. \A e \in 1 .. Len(es) : Patched(es, E)[e] = IF e \in E THEN WithTo(es[e], q) ELSE es[e]
  BY <1>1, <1>4
<1> QED
  BY <1>6, <1>7, <1>8

LEMMA EndRead ==
  ASSUME NEW s, NEW i, NEW p, Reads(s, i, p), ReadEnd(i), NEW r, r = Held'
  PROVE  Did(s, r, i, p) /\ Wrote(s, i, p) /\ set' = Known(r)
<1> PICK n : n = Len(s.ctrls)
  OBVIOUS
<1>1. /\ i.op = "end" /\ CanPop(Top, vals, Top.bt.out) /\ Len(Pop(Top, vals, Top.bt.out)) = Top.height
      /\ NoElseAllowed(Top) /\ st' = Patched(st, Top.fixups \cup {Top.else}) /\ ResetLocals(Top.inits)
      /\ vals' = Pop(Top, vals, Top.bt.out) \o Top.bt.out
      /\ ctrls' = FirstN(ctrls, Len(ctrls) - 1)
  BY DEF ReadEnd
<1>2. /\ s.vals = vals /\ s.ctrls = ctrls /\ s.inits = inits /\ s \in HeldSet /\ s.ctrls # <<>>
      /\ HeldOK(s, p) /\ Top = TopOf(s) /\ i \in Instr /\ p \in Nat /\ p = Len(code) + 1
      /\ Len(st) \in Nat /\ s.next = Len(st) + 1 /\ st \in Seq(EntrySet) /\ Len(code) \in Nat
  BY DEF Reads
<1>3. ~Opens(i) /\ Slots(i) = 0
  BY <1>1 DEF Opens, Slots
<1>4. Top.bt.out \in Seq(Type)
  BY <1>2, RecordTop
<1>5. EndsArm(s, r, Top.bt.out) /\ vals' \in Seq(Type) /\ inits' \in Seq(DOMAIN LocalType) /\ set' = Known(r)
  BY <1>1, <1>4, ArmRead
<1>6. n \in Nat /\ n >= 1 /\ s.ctrls \in Seq(FrameSet) /\ (\A j \in 1 .. n : s.ctrls[j] \in FrameSet) /\ s.next \in Nat
  BY <1>2, RecordTop, RecordParts
<1>7. n - 1 \in 0 .. n
  BY <1>6
<1>8. /\ FirstN(s.ctrls, n - 1) \in Seq(FrameSet) /\ Len(FirstN(s.ctrls, n - 1)) = n - 1
      /\ \A j \in 1 .. (n - 1) : FirstN(s.ctrls, n - 1)[j] = s.ctrls[j]
  BY <1>6, <1>7, FirstNEffect
<1>9. r.vals = vals' /\ r.ctrls = FirstN(s.ctrls, n - 1) /\ r.next = Len(st') + 1 /\ r.ctrls = ctrls'
  <2>1. r.vals = vals' /\ r.ctrls = ctrls' /\ r.next = Len(st') + 1
    BY HeldNext
  <2> QED
    BY <1>1, <1>2, <2>1
<1>10. Keeps(s, r, n - 1)
  <2>1. n - 1 <= n /\ \A j \in 1 .. (n - 1) : r.ctrls[j] = s.ctrls[j]
    BY <1>6, <1>8, <1>9
  <2> QED
    BY <1>8, <1>9, <2>1 DEF Keeps, SameFrame
<1>11. FramesStep(s, r, i, Len(trys) + 1)
  <2>1. \A j \in 1 .. n : Joins(s, i, j) = {}
    BY <1>3, <1>6, JoinsNone
  <2>2. ASSUME NEW j \in 1 .. n, j <= n - 1
        PROVE  FrameStep(s, r, i, j)
    <3>1. r.ctrls[j] = s.ctrls[j] /\ Joins(s, i, j) = {} /\ i.op # "else"
      BY <1>1, <1>6, <1>8, <1>9, <2>1, <2>2
    <3> QED
      BY <3>1 DEF FrameStep
  <2> QED
    BY <1>3, <1>8, <1>9, <2>2 DEF FramesStep
<1>12. /\ st' \in Seq(EntrySet) /\ Len(st') = Len(st)
       /\ \A e \in 1 .. Len(st) : st'[e] = IF e \in Landed(s, i) THEN WithTo(st[e], p + 1) ELSE st[e]
  <2>1. p + 1 \in Nat /\ p + 1 = Len(code) + 2
    BY <1>2
  <2>2. Landed(s, i) = Top.fixups \cup {Top.else}
    BY <1>1, <1>2 DEF Landed
  <2>3. st' = Patched(st, Landed(s, i))
    BY <1>1, <2>2
  <2> QED
    BY <1>2, <2>1, <2>3, PatchedEffect
<1>13. Wrote(s, i, p)
  <2>1. ASSUME NEW e \in 1 .. Len(st)
        PROVE  /\ st'[e].from = st[e].from /\ st'[e].vals = st[e].vals /\ st'[e].pop = st[e].pop
               /\ IF e \in Landed(s, i)
                    THEN st'[e].to = p + 1 /\ st'[e].skip = IF i.op = "else" THEN 1 ELSE st[e].skip
                    ELSE st'[e].to = st[e].to /\ st'[e].skip = st[e].skip
    <3>1. st[e] \in EntrySet /\ p + 1 \in Nat /\ i.op # "else"
      BY <1>1, <1>2, ElementOfSeq
    <3>w. PICK w : w = WithTo(st[e], p + 1)
      OBVIOUS
    <3>2. /\ w.to = p + 1 /\ w.from = st[e].from /\ w.vals = st[e].vals /\ w.pop = st[e].pop
          /\ w.skip = st[e].skip
      BY ONLY <3>w, <3>1, EntryMarked
    <3>3. st'[e] = IF e \in Landed(s, i) THEN w ELSE st[e]
      BY <1>12, <3>w
    <3> QED
      BY ONLY <3>1, <3>2, <3>3
  <2> QED
    BY <1>2, <1>3, <1>12, <2>1 DEF Wrote, EntryStep
<1>14. r \in HeldSet
  BY <1>2, <1>5, <1>8, <1>9, <1>12, RecordIs
<1>15. EndEffect(s, r)
  BY <1>1, <1>2, <1>5, <1>8, <1>9, <1>10 DEF EndEffect
<1>16. Effect(s, r, i, p)
  <2>1. r.next = s.next + Slots(i)
    BY <1>2, <1>3, <1>9, <1>12
  <2> QED
    BY <1>1, <1>2, <1>15, <2>1 DEF Effect
<1> QED
  BY <1>5, <1>11, <1>13, <1>14, <1>16 DEF Did

LEMMA ElseRead ==
  ASSUME NEW s, NEW i, NEW p, Reads(s, i, p), ReadElse(i), Top.else \in 1 .. Len(st), NEW r, r = Held'
  PROVE  Did(s, r, i, p) /\ Wrote(s, i, p) /\ set' = Known(r)
<1> PICK n : n = Len(s.ctrls)
  OBVIOUS
<1> PICK m : m = Top.else
  OBVIOUS
<1> PICK x : x = [from |-> Behind, to |-> 0, vals |-> Len(Top.bt.out), pop |-> 0, skip |-> 0]
  OBVIOUS
<1> PICK g : g = ElseFrame(Top, Len(st) + 1)
  OBVIOUS
<1>1. /\ i.op = "else" /\ Top.op = "if"
      /\ CanPop(Top, vals, Top.bt.out) /\ Len(Pop(Top, vals, Top.bt.out)) = Top.height
      /\ st' = Append([Patched(st, {m}) EXCEPT ![m].skip = 1], x) /\ ResetLocals(Top.inits)
      /\ vals' = Pop(Top, vals, Top.bt.out) \o Top.bt.in
      /\ ctrls' = [ctrls EXCEPT ![Len(ctrls)] = g]
  BY DEF ReadElse, ElseFrame
<1>2. /\ s.vals = vals /\ s.ctrls = ctrls /\ s.inits = inits /\ s \in HeldSet /\ s.ctrls # <<>>
      /\ HeldOK(s, p) /\ Top = TopOf(s) /\ i \in Instr /\ p \in Nat /\ p = Len(code) + 1 /\ Behind = p + 1
      /\ Len(st) \in Nat /\ s.next = Len(st) + 1 /\ st \in Seq(EntrySet) /\ Len(code) \in Nat
  BY DEF Reads
<1>3. ~Opens(i) /\ Slots(i) = 1
  BY <1>1 DEF Opens, Slots
<1>4. Top.bt.in \in Seq(Type) /\ Top.bt.out \in Seq(Type) /\ Top \in FrameSet
  BY <1>2, RecordTop
<1>5. EndsArm(s, r, Top.bt.in) /\ vals' \in Seq(Type) /\ inits' \in Seq(DOMAIN LocalType) /\ set' = Known(r)
  BY <1>1, <1>4, ArmRead
<1>6. /\ n \in Nat /\ n >= 1 /\ n \in 1 .. n /\ s.ctrls \in Seq(FrameSet)
      /\ (\A j \in 1 .. n : s.ctrls[j] \in FrameSet) /\ s.next \in Nat
      /\ TopOf(s) = s.ctrls[n]
  BY <1>2, RecordTop, RecordParts
<1>7. /\ g \in FrameSet
      /\ g.op = "else" /\ g.else = 0 /\ g.dead = FALSE
      /\ g.fixups = Top.fixups \cup {s.next}
      /\ g.bt = Top.bt /\ g.height = Top.height /\ g.inits = Top.inits /\ g.start = Top.start
      /\ g.try = Top.try
  <2>1. g = ElseFrame(Top, s.next)
    BY <1>2
  <2>2. Top \in FrameSet /\ s.next \in Nat
    BY <1>4, <1>6
  <2> QED
    BY ONLY <2>1, <2>2, ElseFrameIs
<1>8. /\ ctrls' \in Seq(FrameSet) /\ Len(ctrls') = n
      /\ \A j \in 1 .. n : ctrls'[j] = IF j = n THEN g ELSE s.ctrls[j]
  <2>1. ctrls' = [s.ctrls EXCEPT ![n] = g]
    BY <1>1, <1>2
  <2> QED
    BY <1>6, <1>7, <2>1, ExceptSeq
<1>9. r.vals = vals' /\ r.ctrls = ctrls' /\ r.next = Len(st') + 1
  BY HeldNext
<1>10. Keeps(s, r, n - 1)
  <2>1. n - 1 <= n /\ \A j \in 1 .. (n - 1) : r.ctrls[j] = s.ctrls[j]
    BY <1>6, <1>8, <1>9
  <2> QED
    BY <1>8, <1>9, <2>1 DEF Keeps, SameFrame
<1>11. r.ctrls[n] = g /\ TopOf(r) = g
  BY <1>6, <1>8, <1>9 DEF TopOf
<1>12. SameFrame(TopOf(s), TopOf(r)) /\ ~TopOf(r).dead
  BY <1>1, <1>2, <1>7, <1>11 DEF SameFrame, Construct
<1>13. FramesStep(s, r, i, Len(trys) + 1)
  <2>1. \A j : Joins(s, i, j) = IF n = j THEN {s.next} ELSE {}
    <3>1. HomeAt(s, i, 1) = n
      BY <1>1 DEF HomeAt
    <3> QED
      BY <1>3, <1>6, <3>1, JoinsOne
  <2>2. ASSUME NEW j \in 1 .. n
        PROVE  FrameStep(s, r, i, j)
    <3>1. CASE j = n
      <4>1. s.ctrls[j] = Top /\ r.ctrls[j] = g /\ Joins(s, i, j) = {s.next}
        BY <1>2, <1>6, <1>11, <2>1, <3>1
      <4> QED
        BY <1>1, <1>7, <3>1, <4>1 DEF FrameStep
    <3>2. CASE j # n
      <4>1. r.ctrls[j] = s.ctrls[j] /\ Joins(s, i, j) = {}
        BY <1>8, <1>9, <2>1, <3>2
      <4> QED
        BY <3>2, <4>1 DEF FrameStep
    <3> QED
      BY <3>1, <3>2
  <2> QED
    BY <1>3, <2>2 DEF FramesStep
<1> PICK es : es = Patched(st, {m})
  OBVIOUS
<1>14. /\ es \in Seq(EntrySet) /\ Len(es) = Len(st)
       /\ \A e \in 1 .. Len(st) : es[e] = IF e \in {m} THEN WithTo(st[e], p + 1) ELSE st[e]
  <2>1. p + 1 \in Nat /\ p + 1 = Len(code) + 2
    BY <1>2
  <2> QED
    BY <1>2, <2>1, PatchedEffect
<1>15. es[m] \in EntrySet /\ st[m] \in EntrySet /\ p + 1 \in Nat /\ m \in 1 .. Len(st)
  <2>1. m \in 1 .. Len(st)
    OBVIOUS
  <2>2. m \in 1 .. Len(es)
    BY <1>14, <2>1
  <2>3. es[m] \in EntrySet
    BY ONLY <1>14, <2>2, ElementOfSeq
  <2>4. st[m] \in EntrySet
    BY ONLY <1>2, <2>1, ElementOfSeq
  <2> QED
    BY <1>2, <2>1, <2>3, <2>4
<1> PICK fs : fs = [es EXCEPT ![m] = WithSkip(es[m])]
  OBVIOUS
<1>16. /\ fs \in Seq(EntrySet) /\ Len(fs) = Len(st)
       /\ \A e \in 1 .. Len(st) : fs[e] = IF e = m THEN WithSkip(es[m]) ELSE es[e]
  <2>1. WithSkip(es[m]) \in EntrySet
    BY ONLY <1>15, EntryMarked
  <2>2. m \in 1 .. Len(es) /\ es \in Seq(EntrySet)
    BY <1>14, <1>15
  <2>3. /\ fs \in Seq(EntrySet) /\ Len(fs) = Len(es)
        /\ \A e \in 1 .. Len(es) : fs[e] = IF e = m THEN WithSkip(es[m]) ELSE es[e]
    BY <2>1, <2>2, ExceptSeq
  <2> QED
    BY <1>14, <2>3
<1>17. st' = Append(fs, x)
  <2>1. [Patched(st, {m}) EXCEPT ![m].skip = 1] = fs
    BY DEF WithSkip
  <2> QED
    BY <1>1, <2>1
<1>18. x = NewEntry(s, i, p, 1) /\ x \in EntrySet
  <2>1. HomeAt(s, i, 1) = n
    BY <1>1 DEF HomeAt
  <2>2. ~LoopAt(s, i, 1) /\ CarriesAt(s, i, 1) = Len(Top.bt.out) /\ PopsAt(s, i, 1) = 0
    BY <1>1, <1>2, <1>6, <2>1 DEF LoopAt, CarriesAt, PopsAt
  <2>3. p + 1 \in Nat /\ Len(Top.bt.out) \in Nat
    BY <1>2, <1>4, LenProperties
  <2> QED
    BY <1>2, <2>2, <2>3 DEF NewEntry, EntrySet
<1>19. /\ st' \in Seq(EntrySet) /\ Len(st') = Len(st) + 1
       /\ \A e \in 1 .. Len(st) : st'[e] = fs[e]
       /\ st'[Len(st) + 1] = x
  <2>1. /\ Append(fs, x) \in Seq(EntrySet) /\ Len(Append(fs, x)) = Len(fs) + 1
        /\ (\A e \in 1 .. Len(fs) : Append(fs, x)[e] = fs[e]) /\ Append(fs, x)[Len(fs) + 1] = x
    BY ONLY <1>16, <1>18, AppendEffect
  <2> QED
    BY <1>16, <1>17, <2>1
<1>20. Landed(s, i) = {m}
  BY <1>1, <1>2 DEF Landed
<1>21. ASSUME NEW e \in 1 .. Len(st)
       PROVE  /\ st'[e].from = st[e].from /\ st'[e].vals = st[e].vals /\ st'[e].pop = st[e].pop
              /\ IF e \in Landed(s, i)
                   THEN st'[e].to = p + 1 /\ st'[e].skip = IF i.op = "else" THEN 1 ELSE st[e].skip
                   ELSE st'[e].to = st[e].to /\ st'[e].skip = st[e].skip
  <2>1. CASE e = m
    <3>1. es[m] = WithTo(st[m], p + 1) /\ st'[e] = WithSkip(es[m])
      BY <1>14, <1>16, <1>19, <2>1
    <3>w. PICK w : w = WithTo(st[m], p + 1)
      OBVIOUS
    <3>2. /\ w \in EntrySet /\ w.to = p + 1 /\ w.from = st[m].from /\ w.vals = st[m].vals /\ w.pop = st[m].pop
          /\ w.skip = st[m].skip
      BY ONLY <3>w, <1>15, EntryMarked
    <3>z. PICK z : z = WithSkip(w)
      OBVIOUS
    <3>3. /\ z.skip = 1 /\ z.from = w.from /\ z.vals = w.vals /\ z.pop = w.pop /\ z.to = w.to
      BY ONLY <3>z, <3>2, EntryMarked
    <3>4. st'[e] = z
      BY <3>1, <3>w, <3>z
    <3> QED
      BY <1>1, <1>20, <2>1, <3>2, <3>3, <3>4
  <2>2. CASE e # m
    <3>1. st'[e] = st[e] /\ e \notin Landed(s, i)
      BY <1>14, <1>16, <1>19, <1>20, <2>2
    <3> QED
      BY <3>1
  <2> QED
    BY <2>1, <2>2
<1>22. Wrote(s, i, p)
  <2>1. \A k \in 1 .. Slots(i) : st'[Len(st) + k] = NewEntry(s, i, p, k)
    BY <1>3, <1>18, <1>19
  <2> QED
    BY <1>3, <1>19, <1>21, <2>1 DEF Wrote, EntryStep
<1>23. r \in HeldSet
  BY <1>2, <1>5, <1>8, <1>19, RecordIs
<1>24. ElseEffect(s, r)
  BY <1>1, <1>2, <1>5, <1>8, <1>9, <1>10, <1>12 DEF ElseEffect
<1>25. Effect(s, r, i, p)
  <2>1. r.next = s.next + Slots(i)
    BY <1>2, <1>3, <1>9, <1>19
  <2> QED
    BY <1>1, <1>2, <1>24, <2>1 DEF Effect
<1> QED
  BY <1>5, <1>13, <1>22, <1>23, <1>25 DEF Did

(***************************************************************************)
(* What every instruction leaves of the record before it                   *)
(***************************************************************************)
LEMMA AgreeSelf ==
  ASSUME NEW S, NEW a \in Seq(S), NEW n \in 0 .. Len(a)
  PROVE  Agree(a, a, n)
BY LenProperties DEF Agree

LEMMA AgreeLess ==
  ASSUME NEW a, NEW b, Len(a) \in Nat, Len(b) \in Nat, NEW n \in Nat, Agree(a, b, n), NEW m \in 0 .. n
  PROVE  Agree(a, b, m)
BY DEF Agree

LEMMA AgreeTrans ==
  ASSUME NEW a, NEW b, NEW c, NEW n, Agree(a, b, n), Agree(b, c, n)
  PROVE  Agree(a, c, n)
BY DEF Agree

LEMMA AgreeFirst ==
  ASSUME NEW S, NEW a \in Seq(S), NEW m \in 0 .. Len(a), NEW n \in 0 .. m
  PROVE  Agree(a, FirstN(a, m), n)
<1>1. Len(a) \in Nat
  BY LenProperties
<1>2. FirstN(a, m) \in Seq(S) /\ Len(FirstN(a, m)) = m /\ \A i \in 1 .. m : FirstN(a, m)[i] = a[i]
  BY <1>1, FirstNEffect
<1>3. \A k \in 1 .. n : k \in 1 .. m
  BY <1>1
<1>4. n <= m /\ n <= Len(a)
  BY <1>1
<1> QED
  BY <1>2, <1>3, <1>4 DEF Agree

LEMMA AgreeAppend ==
  ASSUME NEW S, NEW a \in Seq(S), NEW x \in S, NEW n \in 0 .. Len(a)
  PROVE  Agree(a, Append(a, x), n)
<1>1. /\ Append(a, x) \in Seq(S) /\ Len(Append(a, x)) = Len(a) + 1 /\ Len(a) \in Nat
      /\ \A i \in 1 .. Len(a) : Append(a, x)[i] = a[i]
  BY AppendEffect
<1>2. \A k \in 1 .. n : k \in 1 .. Len(a)
  BY <1>1
<1>3. n <= Len(a) /\ n <= Len(a) + 1
  BY <1>1
<1> QED
  BY <1>1, <1>2, <1>3 DEF Agree

LEMMA AgreeBehind ==
  ASSUME NEW a \in Seq(Type), NEW b \in Seq(Type), NEW c \in Seq(Type), NEW n \in Nat, Agree(a, b, n)
  PROVE  Agree(a, b \o c, n)
<1>1. /\ b \o c \in Seq(Type) /\ Len(b \o c) = Len(b) + Len(c)
      /\ (\A k \in 1 .. Len(b) : (b \o c)[k] = b[k])
  BY BehindTypes
<1>2. Len(b) \in Nat /\ Len(c) \in Nat
  BY LenProperties
<1>3. n <= Len(a) /\ n <= Len(b) /\ \A k \in 1 .. n : a[k] = b[k]
  BY DEF Agree
<1>4. n <= Len(b) + Len(c) /\ \A k \in 1 .. n : k \in 1 .. Len(b)
  BY <1>2, <1>3
<1> QED
  BY <1>1, <1>3, <1>4 DEF Agree

LEMMA AgreePop ==
  ASSUME NEW f, f.height \in Nat, NEW vs \in Seq(Type), f.height <= Len(vs), NEW ts \in Seq(Type)
  PROVE  Agree(vs, Pop(f, vs, ts), f.height)
<1>1. /\ Len(Pop(f, vs, ts)) \in Nat
      /\ f.height <= Len(Pop(f, vs, ts))
      /\ \A k \in 1 .. Len(Pop(f, vs, ts)) : Pop(f, vs, ts)[k] = vs[k]
  BY PopEffect
<1>2. \A k \in 1 .. f.height : k \in 1 .. Len(Pop(f, vs, ts))
  BY <1>1
<1> QED
  BY <1>1, <1>2 DEF Agree

\* The innermost frame's operands and locals stay, a frame is opened or closed at
\* the top, and a local is marked once.
Opened(s, r, i, p) ==
  /\ Opens(i) /\ TopOf(r).start = p + 1 /\ TopOf(r).bt = i.bt /\ TopOf(r).op = i.op /\ ~TopOf(r).dead
  /\ TopOf(s).height <= TopOf(r).height /\ TopOf(r).height <= Len(r.vals)
  /\ TopOf(s).inits <= TopOf(r).inits /\ TopOf(r).inits <= Len(r.inits)
SameBelow(s, r) ==
  /\ \A j \in 1 .. Len(s.ctrls) : j <= Len(r.ctrls) => SameFrame(s.ctrls[j], r.ctrls[j])
  /\ \A j \in 1 .. Len(s.ctrls) : j < Len(s.ctrls) /\ j <= Len(r.ctrls) => s.ctrls[j].dead = r.ctrls[j].dead
Shape(s, r, i, p) ==
  /\ Len(r.ctrls) \in {Len(s.ctrls) - 1, Len(s.ctrls), Len(s.ctrls) + 1}
  /\ SameBelow(s, r)
  /\ Agree(s.vals, r.vals, TopOf(s).height) /\ Agree(s.inits, r.inits, TopOf(s).inits)
  /\ Len(r.ctrls) = Len(s.ctrls) + 1 => Opened(s, r, i, p)
  /\ OncePerLocal(r)
  /\ Len(r.ctrls) = 0 => r.vals = Results

LEMMA KeepsBelow ==
  ASSUME NEW s, NEW r, Len(s.ctrls) \in Nat, Len(r.ctrls) \in Nat, Keeps(s, r, Len(s.ctrls))
  PROVE  SameBelow(s, r)
BY DEF Keeps, SameBelow

LEMMA KeepsBelowTop ==
  ASSUME NEW s, NEW r, Len(s.ctrls) \in Nat, Len(s.ctrls) >= 1, Len(r.ctrls) \in Nat, Keeps(s, r, Len(s.ctrls) - 1),
         Len(r.ctrls) = Len(s.ctrls) => SameFrame(TopOf(s), TopOf(r)),
         Len(r.ctrls) <= Len(s.ctrls)
  PROVE  SameBelow(s, r)
<1> PICK n : n = Len(s.ctrls)
  OBVIOUS
<1>1. ASSUME NEW j \in 1 .. n, j <= Len(r.ctrls)
      PROVE  /\ SameFrame(s.ctrls[j], r.ctrls[j])
             /\ j < n => s.ctrls[j].dead = r.ctrls[j].dead
  <2>1. CASE j = n
    <3>1. Len(r.ctrls) = n
      BY <1>1, <2>1
    <3>2. SameFrame(s.ctrls[n], r.ctrls[n])
      BY <3>1 DEF TopOf
    <3> QED
      BY <2>1, <3>2
  <2>2. CASE j # n
    <3>1. j \in 1 .. (n - 1)
      BY <2>2
    <3> QED
      BY <3>1 DEF Keeps
  <2> QED
    BY <2>1, <2>2
<1> QED
  BY <1>1 DEF SameBelow

LEMMA OnceSame ==
  ASSUME NEW s, NEW r, OncePerLocal(s), r.inits = s.inits
  PROVE  OncePerLocal(r)
BY DEF OncePerLocal

LEMMA OnceFirst ==
  ASSUME NEW s \in HeldSet, NEW r, OncePerLocal(s), NEW n \in 0 .. Len(s.inits), r.inits = FirstN(s.inits, n)
  PROVE  OncePerLocal(r)
<1>1. s.inits \in Seq(DOMAIN LocalType) /\ Len(s.inits) \in Nat /\ (\A j : j \in DOMAIN s.inits <=> j \in 1 .. Len(s.inits))
  BY RecordParts
<1>2. r.inits \in Seq(DOMAIN LocalType) /\ Len(r.inits) = n /\ \A k \in 1 .. n : r.inits[k] = s.inits[k]
  BY <1>1, FirstNEffect
<1>3. \A k : k \in DOMAIN r.inits <=> k \in 1 .. n
  BY <1>2, LenProperties
<1>4. \A k \in 1 .. n : k \in DOMAIN s.inits
  BY <1>1
<1>5. \A k \in DOMAIN r.inits : k \in DOMAIN s.inits /\ r.inits[k] = s.inits[k]
  BY <1>2, <1>3, <1>4
<1> QED
  BY <1>5 DEF OncePerLocal

LEMMA OnceMore ==
  ASSUME NEW s \in HeldSet, NEW r, OncePerLocal(s), NEW x \in DOMAIN LocalType, x \notin Known(s),
         r.inits = Append(s.inits, x)
  PROVE  OncePerLocal(r)
<1>1. s.inits \in Seq(DOMAIN LocalType) /\ (\A j : j \in DOMAIN s.inits <=> j \in 1 .. Len(s.inits))
  BY RecordParts
<1> PICK n : n = Len(s.inits)
  OBVIOUS
<1>2. /\ r.inits \in Seq(DOMAIN LocalType) /\ Len(r.inits) = n + 1 /\ n \in Nat
      /\ (\A k \in 1 .. n : r.inits[k] = s.inits[k]) /\ r.inits[n + 1] = x
  BY <1>1, AppendEffect
<1>3. \A k : k \in DOMAIN r.inits <=> k \in 1 .. (n + 1)
  BY <1>2, LenProperties
<1>4. \A k \in DOMAIN r.inits : (k \in DOMAIN s.inits /\ r.inits[k] = s.inits[k]) \/ (k = n + 1 /\ r.inits[k] = x)
  <2>1. \A k \in 1 .. (n + 1) : k \in 1 .. n \/ k = n + 1
    BY <1>2
  <2> QED
    BY <1>1, <1>2, <1>3, <2>1
<1>5. x \notin Preset /\ \A k \in DOMAIN s.inits : s.inits[k] # x
  BY DEF Known
<1> QED
  BY <1>4, <1>5 DEF OncePerLocal

LEMMA PlainShape ==
  ASSUME NEW s \in HeldSet, NEW r \in HeldSet, NEW i \in Instr, NEW p \in Nat, HeldOK(s, p), s.ctrls # <<>>,
         Plain(s, r), Agree(s.vals, r.vals, TopOf(s).height)
  PROVE  Shape(s, r, i, p)
<1>1. Len(s.ctrls) \in Nat /\ Len(r.ctrls) \in Nat /\ Len(s.ctrls) >= 1
  BY RecordTop, RecordParts
<1>2. r.inits = s.inits /\ Len(r.ctrls) = Len(s.ctrls) /\ Keeps(s, r, Len(s.ctrls))
  BY DEF Plain
<1>3. SameBelow(s, r)
  BY <1>1, <1>2, KeepsBelow
<1>4. OncePerLocal(r)
  BY <1>2, OnceSame DEF HeldOK
<1>5. Agree(s.inits, r.inits, TopOf(s).inits)
  <2>1. s.inits \in Seq(DOMAIN LocalType) /\ TopOf(s).inits \in 0 .. Len(s.inits)
    BY RecordTop, RecordParts
  <2> QED
    BY <1>2, <2>1, AgreeSelf
<1>6. ~(Len(s.ctrls) = Len(s.ctrls) + 1) /\ Len(s.ctrls) # 0
  BY <1>1
<1> QED
  BY <1>2, <1>3, <1>4, <1>5, <1>6 DEF Shape

LEMMA StopsShape ==
  ASSUME NEW s \in HeldSet, NEW r \in HeldSet, NEW i \in Instr, NEW p \in Nat, HeldOK(s, p), s.ctrls # <<>>, Stops(s, r)
  PROVE  Shape(s, r, i, p)
<1>1. Len(s.ctrls) \in Nat /\ Len(r.ctrls) \in Nat /\ Len(s.ctrls) >= 1
  BY RecordTop, RecordParts
<1>2. /\ r.vals = FirstN(s.vals, TopOf(s).height) /\ r.inits = s.inits
      /\ Len(r.ctrls) = Len(s.ctrls) /\ Keeps(s, r, Len(s.ctrls) - 1)
      /\ SameFrame(TopOf(s), TopOf(r)) /\ TopOf(r).dead
  BY DEF Stops
<1>3. SameBelow(s, r)
  BY <1>1, <1>2, KeepsBelowTop
<1>4. OncePerLocal(r)
  BY <1>2, OnceSame DEF HeldOK
<1>5. Agree(s.inits, r.inits, TopOf(s).inits)
  <2>1. s.inits \in Seq(DOMAIN LocalType) /\ TopOf(s).inits \in 0 .. Len(s.inits)
    BY RecordTop, RecordParts
  <2> QED
    BY <1>2, <2>1, AgreeSelf
<1>6. Agree(s.vals, r.vals, TopOf(s).height)
  <2>1. s.vals \in Seq(Type) /\ TopOf(s).height \in 0 .. Len(s.vals) /\ TopOf(s).height \in 0 .. TopOf(s).height
    BY RecordTop, RecordParts
  <2> QED
    BY <1>2, <2>1, AgreeFirst
<1>7. ~(Len(s.ctrls) = Len(s.ctrls) + 1) /\ Len(s.ctrls) # 0
  BY <1>1
<1> QED
  BY <1>2, <1>3, <1>4, <1>5, <1>6, <1>7 DEF Shape

LEMMA EntersShape ==
  ASSUME NEW s \in HeldSet, NEW r \in HeldSet, NEW i \in Instr, NEW p \in Nat, HeldOK(s, p), s.ctrls # <<>>,
         Opens(i), NEW ts \in Seq(Type), Enters(s, r, i, p, ts)
  PROVE  Shape(s, r, i, p)
<1>1. Len(s.ctrls) \in Nat /\ Len(r.ctrls) \in Nat /\ Len(s.ctrls) >= 1
  BY RecordTop, RecordParts
<1> PICK vs : vs = Pop(TopOf(s), s.vals, ts)
  OBVIOUS
<1>2. /\ r.vals = vs \o i.bt.in /\ r.inits = s.inits
      /\ Len(r.ctrls) = Len(s.ctrls) + 1 /\ Keeps(s, r, Len(s.ctrls))
      /\ TopOf(r).start = p + 1 /\ TopOf(r).bt = i.bt /\ TopOf(r).op = i.op /\ ~TopOf(r).dead
      /\ TopOf(r).height = Len(vs) /\ TopOf(r).inits = Len(s.inits)
  BY DEF Enters
<1>3. SameBelow(s, r)
  BY <1>1, <1>2, KeepsBelow
<1>4. OncePerLocal(r)
  BY <1>2, OnceSame DEF HeldOK
<1>5. /\ s.inits \in Seq(DOMAIN LocalType) /\ TopOf(s).inits \in 0 .. Len(s.inits) /\ TopOf(s).inits <= Len(s.inits)
      /\ Len(s.inits) \in Nat /\ s.vals \in Seq(Type) /\ TopOf(s).height \in Nat /\ TopOf(s).height <= Len(s.vals)
  BY RecordTop, RecordParts
<1>6. Agree(s.inits, r.inits, TopOf(s).inits)
  BY <1>2, <1>5, AgreeSelf
<1>7. i.bt.in \in Seq(Type)
  BY TypesOfBlock
<1>8. vs \in Seq(Type) /\ Len(vs) \in Nat /\ TopOf(s).height <= Len(vs) /\ Agree(s.vals, vs, TopOf(s).height)
  BY <1>5, PopEffect, AgreePop
<1>9. Agree(s.vals, r.vals, TopOf(s).height)
  BY <1>2, <1>5, <1>7, <1>8, AgreeBehind
<1>10. Len(vs) <= Len(r.vals)
  <2>1. Len(r.vals) = Len(vs) + Len(i.bt.in) /\ Len(i.bt.in) \in Nat
    BY <1>2, <1>7, <1>8, BehindTypes, LenProperties
  <2>2. \A a, b, c : a \in Nat /\ b \in Nat /\ c = a + b => a <= c
    OBVIOUS
  <2> QED
    BY ONLY <1>8, <2>1, <2>2
<1>11. Opened(s, r, i, p)
  <2>1. Len(s.inits) <= Len(r.inits)
    BY <1>2, <1>5
  <2> QED
    BY <1>2, <1>5, <1>8, <1>10, <2>1 DEF Opened
<1>12. Len(r.ctrls) # 0
  BY <1>1, <1>2
<1> QED
  BY <1>2, <1>3, <1>4, <1>6, <1>9, <1>11, <1>12 DEF Shape

\* An arm ends: what is below the frame stays.
LEMMA ArmKeeps ==
  ASSUME NEW s \in HeldSet, NEW r \in HeldSet, NEW p \in Nat, HeldOK(s, p), s.ctrls # <<>>,
         NEW ts \in Seq(Type), EndsArm(s, r, ts)
  PROVE  /\ Agree(s.vals, r.vals, TopOf(s).height) /\ Agree(s.inits, r.inits, TopOf(s).inits) /\ OncePerLocal(r)
         /\ Len(r.inits) = TopOf(s).inits /\ Len(r.vals) = TopOf(s).height + Len(ts)
         /\ \A k \in 1 .. Len(ts) : r.vals[TopOf(s).height + k] = ts[k]
<1> PICK vs : vs = Pop(TopOf(s), s.vals, TopOf(s).bt.out)
  OBVIOUS
<1>1. Len(vs) = TopOf(s).height /\ r.vals = vs \o ts /\ r.inits = FirstN(s.inits, TopOf(s).inits)
  BY DEF EndsArm
<1>2. /\ s.inits \in Seq(DOMAIN LocalType) /\ TopOf(s).inits \in 0 .. Len(s.inits) /\ TopOf(s).inits \in 0 .. TopOf(s).inits
      /\ s.vals \in Seq(Type) /\ TopOf(s).height \in Nat /\ TopOf(s).height <= Len(s.vals)
      /\ TopOf(s).bt.out \in Seq(Type)
  BY RecordTop, RecordParts
<1>3. vs \in Seq(Type) /\ Agree(s.vals, vs, TopOf(s).height)
  BY <1>2, PopEffect, AgreePop
<1>4. Agree(s.vals, r.vals, TopOf(s).height)
  BY <1>1, <1>2, <1>3, AgreeBehind
<1>5. Agree(s.inits, r.inits, TopOf(s).inits)
  BY <1>1, <1>2, AgreeFirst
<1>6. OncePerLocal(r)
  BY <1>1, <1>2, OnceFirst DEF HeldOK
<1>7. Len(r.inits) = TopOf(s).inits
  BY <1>1, <1>2, FirstNEffect
<1>8. Len(r.vals) = TopOf(s).height + Len(ts) /\ \A k \in 1 .. Len(ts) : r.vals[TopOf(s).height + k] = ts[k]
  BY <1>1, <1>3, BehindTypes
<1> QED
  BY <1>4, <1>5, <1>6, <1>7, <1>8

LEMMA ElseShape ==
  ASSUME NEW s \in HeldSet, NEW r \in HeldSet, NEW i \in Instr, NEW p \in Nat, HeldOK(s, p), s.ctrls # <<>>, ElseEffect(s, r)
  PROVE  Shape(s, r, i, p)
<1>1. Len(s.ctrls) \in Nat /\ Len(r.ctrls) \in Nat /\ Len(s.ctrls) >= 1 /\ TopOf(s).bt.in \in Seq(Type)
  BY RecordTop, RecordParts
<1>2. /\ EndsArm(s, r, TopOf(s).bt.in)
      /\ Len(r.ctrls) = Len(s.ctrls) /\ Keeps(s, r, Len(s.ctrls) - 1)
      /\ SameFrame(TopOf(s), TopOf(r))
  BY DEF ElseEffect
<1>3. SameBelow(s, r)
  BY <1>1, <1>2, KeepsBelowTop
<1>4. Agree(s.vals, r.vals, TopOf(s).height) /\ Agree(s.inits, r.inits, TopOf(s).inits) /\ OncePerLocal(r)
  BY <1>1, <1>2, ArmKeeps
<1>5. ~(Len(s.ctrls) = Len(s.ctrls) + 1) /\ Len(s.ctrls) # 0
  BY <1>1
<1> QED
  BY <1>2, <1>3, <1>4, <1>5 DEF Shape

LEMMA EndShape ==
  ASSUME NEW s \in HeldSet, NEW r \in HeldSet, NEW i \in Instr, NEW p \in Nat, HeldOK(s, p), s.ctrls # <<>>, EndEffect(s, r)
  PROVE  Shape(s, r, i, p)
<1> PICK n : n = Len(s.ctrls)
  OBVIOUS
<1>1. n \in Nat /\ Len(r.ctrls) \in Nat /\ n >= 1 /\ TopOf(s).bt.out \in Seq(Type)
  BY RecordTop, RecordParts
<1>2. EndsArm(s, r, TopOf(s).bt.out) /\ Len(r.ctrls) = n - 1 /\ Keeps(s, r, n - 1)
  BY DEF EndEffect
<1>3. SameBelow(s, r)
  <2>1. Len(r.ctrls) # n /\ Len(r.ctrls) <= n
    BY <1>1, <1>2
  <2> QED
    BY <1>1, <1>2, <2>1, KeepsBelowTop
<1>4. /\ Agree(s.vals, r.vals, TopOf(s).height) /\ Agree(s.inits, r.inits, TopOf(s).inits) /\ OncePerLocal(r)
      /\ Len(r.vals) = TopOf(s).height + Len(TopOf(s).bt.out)
      /\ \A k \in 1 .. Len(TopOf(s).bt.out) : r.vals[TopOf(s).height + k] = TopOf(s).bt.out[k]
  BY <1>1, <1>2, ArmKeeps
<1>5. ASSUME n - 1 = 0
      PROVE  r.vals = Results
  <2>1. n = 1 /\ TopOf(s) = s.ctrls[1] /\ 1 \in DOMAIN s.ctrls
    BY <1>1, <1>5, RecordParts DEF TopOf
  <2>2. TopOf(s).bt = FuncBt /\ TopOf(s).height = 0
    BY <2>1 DEF HeldOK, FrameOK
  <2>3. TopOf(s).bt.out = Results
    BY <2>2 DEF FuncBt
  <2>4. Len(r.vals) = 0 + Len(Results) /\ \A k \in 1 .. Len(Results) : r.vals[0 + k] = Results[k]
    BY <1>4, <2>2, <2>3
  <2>5. Results \in Seq(Type) /\ r.vals \in Seq(Type) /\ Len(Results) \in Nat
    BY SideTableAssumption, RecordParts, LenProperties
  <2>6. Len(r.vals) = Len(Results) /\ \A k \in 1 .. Len(Results) : r.vals[k] = Results[k]
    BY <2>4, <2>5
  <2> QED
    BY <2>5, <2>6, SeqEqual
<1>6. ~(n - 1 = n + 1)
  BY <1>1
<1> QED
  BY <1>2, <1>3, <1>4, <1>5, <1>6 DEF Shape

LEMMA LocalSetShape ==
  ASSUME NEW s \in HeldSet, NEW r \in HeldSet, NEW i \in Instr, NEW p \in Nat, HeldOK(s, p), s.ctrls # <<>>,
         i.op = "local_set", LocalSetEffect(s, r, i)
  PROVE  Shape(s, r, i, p)
<1>1. Len(s.ctrls) \in Nat /\ Len(r.ctrls) \in Nat /\ Len(s.ctrls) >= 1
  BY RecordTop, RecordParts
<1>2. /\ r.vals = Pop(TopOf(s), s.vals, <<LocalType[i.local]>>)
      /\ r.inits = IF i.local \in Known(s) THEN s.inits ELSE Append(s.inits, i.local)
      /\ Len(r.ctrls) = Len(s.ctrls) /\ Keeps(s, r, Len(s.ctrls))
  BY DEF LocalSetEffect
<1>3. SameBelow(s, r)
  BY <1>1, <1>2, KeepsBelow
<1>4. i.local \in DOMAIN LocalType /\ <<LocalType[i.local]>> \in Seq(Type)
  <2>1. i.local \in DOMAIN LocalType
    BY TypesOfBlock DEF Decoded
  <2>2. LocalType[i.local] \in Type
    BY <2>1, SideTableAssumption, ElementOfSeq, LenProperties
  <2> QED
    BY <2>1, <2>2
<1>5. OncePerLocal(r)
  BY <1>2, <1>4, OnceSame, OnceMore DEF HeldOK
<1>6. /\ s.inits \in Seq(DOMAIN LocalType) /\ TopOf(s).inits \in 0 .. Len(s.inits)
      /\ s.vals \in Seq(Type) /\ TopOf(s).height \in Nat /\ TopOf(s).height <= Len(s.vals)
  BY RecordTop, RecordParts
<1>7. Agree(s.inits, r.inits, TopOf(s).inits)
  <2>1. Agree(s.inits, s.inits, TopOf(s).inits)
    BY <1>6, AgreeSelf
  <2>2. Agree(s.inits, Append(s.inits, i.local), TopOf(s).inits)
    BY <1>4, <1>6, AgreeAppend
  <2> QED
    BY <1>2, <2>1, <2>2
<1>8. Agree(s.vals, r.vals, TopOf(s).height)
  BY <1>2, <1>4, <1>6, AgreePop
<1>9. ~(Len(s.ctrls) = Len(s.ctrls) + 1) /\ Len(s.ctrls) # 0
  BY <1>1
<1> QED
  BY <1>2, <1>3, <1>5, <1>7, <1>8, <1>9 DEF Shape

LEMMA BrIfShape ==
  ASSUME NEW s \in HeldSet, NEW r \in HeldSet, NEW i \in Instr, NEW p \in Nat, HeldOK(s, p), s.ctrls # <<>>,
         i.op = "br_if", BrIfEffect(s, r, i)
  PROVE  Shape(s, r, i, p)
<1> PICK vs : vs = Pop(TopOf(s), s.vals, <<Condition>>)
  OBVIOUS
<1> PICK ts : ts = LabelTypes(LabelAt(s, i.label))
  OBVIOUS
<1>1. r.vals = Pop(TopOf(s), vs, ts) \o ts /\ Plain(s, r) /\ i.label < Len(s.ctrls)
  BY DEF BrIfEffect
<1>2. /\ s.vals \in Seq(Type) /\ TopOf(s).height \in Nat /\ TopOf(s).height <= Len(s.vals) /\ <<Condition>> \in Seq(Type)
  BY RecordTop, RecordParts, SideTableAssumption
<1>3. vs \in Seq(Type) /\ Len(vs) \in Nat /\ TopOf(s).height <= Len(vs) /\ Agree(s.vals, vs, TopOf(s).height)
  BY <1>2, PopEffect, AgreePop
<1>4. ts \in Seq(Type)
  <2>1. i.label \in Nat /\ LabelOf(i, 1) = i.label
    BY TypesOfBlock DEF Decoded, LabelOf
  <2>2. LabelOf(i, 1) \in Nat /\ LabelOf(i, 1) < Len(s.ctrls) /\ i.op \notin {"if", "else"}
    BY <1>1, <2>1
  <2>3. LabelAt(s, LabelOf(i, 1)) \in FrameSet
    BY ONLY <2>2, LabelHome, s \in HeldSet, HeldOK(s, p), s.ctrls # <<>>
  <2> QED
    BY <2>1, <2>3, FrameFields
<1>5. Pop(TopOf(s), vs, ts) \in Seq(Type) /\ Agree(vs, Pop(TopOf(s), vs, ts), TopOf(s).height)
  BY <1>2, <1>3, <1>4, PopEffect, AgreePop
<1>6. Agree(s.vals, Pop(TopOf(s), vs, ts), TopOf(s).height)
  BY <1>3, <1>5, AgreeTrans
<1>7. Agree(s.vals, r.vals, TopOf(s).height)
  BY <1>1, <1>2, <1>4, <1>5, <1>6, AgreeBehind
<1> QED
  BY <1>1, <1>7, PlainShape

LEMMA EffectShape ==
  ASSUME NEW s \in HeldSet, NEW r \in HeldSet, NEW i \in Instr, NEW p \in Nat, HeldOK(s, p), Effect(s, r, i, p)
  PROVE  s.ctrls # <<>> /\ Shape(s, r, i, p)
<1>1. s.ctrls # <<>>
  BY DEF Effect
<1>2. /\ s.vals \in Seq(Type) /\ TopOf(s).height \in 0 .. Len(s.vals) /\ TopOf(s).height \in Nat /\ Len(s.vals) \in Nat
  BY <1>1, RecordTop, RecordParts
<1>3. CASE i.op = "const"
  <2>1. r.vals = Append(s.vals, i.type) /\ Plain(s, r) /\ i.type \in Type
    BY <1>3, TypesOfBlock DEF Effect, ConstEffect, Decoded
  <2>2. Agree(s.vals, r.vals, TopOf(s).height)
    BY <1>2, <2>1, AgreeAppend
  <2> QED
    BY <1>1, <2>1, <2>2, PlainShape
<1>4. CASE i.op = "local_get"
  <2>1. r.vals = Append(s.vals, LocalType[i.local]) /\ Plain(s, r) /\ i.local \in DOMAIN LocalType
    BY <1>4, TypesOfBlock DEF Effect, LocalGetEffect, Decoded
  <2>2. LocalType[i.local] \in Type
    BY <2>1, SideTableAssumption, ElementOfSeq, LenProperties
  <2>3. Agree(s.vals, r.vals, TopOf(s).height)
    BY <1>2, <2>1, <2>2, AgreeAppend
  <2> QED
    BY <1>1, <2>1, <2>3, PlainShape
<1>5. CASE i.op = "drop"
  <2> PICK n : n = IF Len(s.vals) > TopOf(s).height THEN Len(s.vals) - 1 ELSE TopOf(s).height
    OBVIOUS
  <2>1. r.vals = FirstN(s.vals, n) /\ Plain(s, r)
    BY <1>5 DEF Effect, DropEffect
  <2>2. n \in 0 .. Len(s.vals) /\ TopOf(s).height \in 0 .. n
    BY <1>2
  <2>3. Agree(s.vals, r.vals, TopOf(s).height)
    BY <1>2, <2>1, <2>2, AgreeFirst
  <2> QED
    BY <1>1, <2>1, <2>3, PlainShape
<1>6. CASE i.op \in {"unreachable", "return", "throw", "br", "br_table"}
  <2>1. Stops(s, r)
    BY <1>6 DEF Effect, BrEffect, BrTableEffect
  <2> QED
    BY <1>1, <2>1, StopsShape
<1>7. CASE i.op \in {"block", "loop", "try_table"}
  <2>1. Opens(i) /\ Enters(s, r, i, p, i.bt.in)
    BY <1>7 DEF Effect, TryTableEffect, Opens
  <2>2. i.bt.in \in Seq(Type)
    BY <2>1, TypesOfBlock
  <2> QED
    BY <1>1, <2>1, <2>2, EntersShape
<1>8. CASE i.op = "if"
  <2> PICK ts : ts = i.bt.in \o <<Condition>>
    OBVIOUS
  <2>1. Opens(i) /\ Enters(s, r, i, p, ts)
    BY <1>8 DEF Effect, Opens
  <2>2. i.bt.in \in Seq(Type) /\ <<Condition>> \in Seq(Type)
    BY <2>1, TypesOfBlock, SideTableAssumption
  <2>3. ts \in Seq(Type)
    BY <2>2, BehindTypes
  <2> QED
    BY <1>1, <2>1, <2>3, EntersShape
<1>9. CASE i.op = "else"
  BY <1>1, <1>9, ElseShape DEF Effect
<1>10. CASE i.op = "end"
  BY <1>1, <1>10, EndShape DEF Effect
<1>11. CASE i.op = "local_set"
  BY <1>1, <1>11, LocalSetShape DEF Effect
<1>12. CASE i.op = "br_if"
  BY <1>1, <1>12, BrIfShape DEF Effect
<1>13. i.op \in {"const", "drop", "local_get", "local_set", "block", "loop", "try_table", "if", "else",
               "end", "br", "br_if", "br_table", "return", "throw", "unreachable"}
  BY DEF Effect
<1> QED
  BY <1>1, <1>3, <1>4, <1>5, <1>6, <1>7, <1>8, <1>9, <1>10, <1>11, <1>12, <1>13

(***************************************************************************)
(* The history grows by one record                                         *)
(***************************************************************************)
Grows(s, r, i, p) ==
  /\ code \in Seq(Instr) /\ seen \in Seq(HeldSet) /\ Len(seen) = Len(code) + 1
  /\ p = Len(code) + 1 /\ seen[p] = s
  /\ i \in Instr /\ r \in HeldSet
  /\ code' = Append(code, i) /\ seen' = Append(seen, r)

LEMMA GrownParts ==
  ASSUME NEW s, NEW r, NEW i, NEW p, Grows(s, r, i, p)
  PROVE  /\ Len(code) \in Nat /\ p \in Nat /\ p >= 1 /\ p = Len(code) + 1 /\ p = Len(seen)
         /\ code' \in Seq(Instr) /\ Len(code') = p /\ seen' \in Seq(HeldSet) /\ Len(seen') = p + 1
         /\ (\A q \in 1 .. (p - 1) : code'[q] = code[q]) /\ code'[p] = i
         /\ (\A q \in 1 .. p : seen'[q] = seen[q]) /\ seen'[p + 1] = r /\ seen'[p] = s
         /\ (\A q : q \in DOMAIN code <=> q \in 1 .. (p - 1)) /\ (\A q : q \in DOMAIN seen <=> q \in 1 .. p)
         /\ (\A q : q \in DOMAIN code' <=> q \in 1 .. p) /\ (\A q : q \in DOMAIN seen' <=> q \in 1 .. (p + 1))
         /\ (\A q \in 1 .. p : seen[q] \in HeldSet) /\ s \in HeldSet
<1>1. /\ code \in Seq(Instr) /\ seen \in Seq(HeldSet) /\ Len(seen) = Len(code) + 1
      /\ p = Len(code) + 1 /\ seen[p] = s
      /\ i \in Instr /\ r \in HeldSet
      /\ code' = Append(code, i) /\ seen' = Append(seen, r)
  BY DEF Grows
<1> PICK n : n = Len(code)
  OBVIOUS
<1>2. n \in Nat /\ p = n + 1 /\ p \in Nat /\ p >= 1 /\ p - 1 = n /\ Len(seen) = p
  BY <1>1, LenProperties
<1>3. /\ code' \in Seq(Instr) /\ Len(code') = n + 1 /\ (\A q \in 1 .. n : code'[q] = code[q]) /\ code'[n + 1] = i
  BY <1>1, AppendEffect
<1>4. /\ seen' \in Seq(HeldSet) /\ Len(seen') = p + 1 /\ (\A q \in 1 .. p : seen'[q] = seen[q]) /\ seen'[p + 1] = r
  BY <1>1, <1>2, AppendEffect
<1>5. (\A q : q \in DOMAIN code <=> q \in 1 .. n) /\ (\A q : q \in DOMAIN seen <=> q \in 1 .. p)
  BY <1>1, <1>2, LenProperties
<1>6. (\A q : q \in DOMAIN code' <=> q \in 1 .. p) /\ (\A q : q \in DOMAIN seen' <=> q \in 1 .. (p + 1))
  BY <1>2, <1>3, <1>4, LenProperties
<1>7. \A q \in 1 .. p : seen[q] \in HeldSet
  BY <1>1, <1>2, ElementOfSeq
<1>8. p \in 1 .. p
  BY <1>2
<1> QED
  BY <1>1, <1>2, <1>3, <1>4, <1>5, <1>6, <1>7, <1>8

\* What a position of the history said still holds.
LEMMA FrameStays ==
  ASSUME NEW s, NEW r, NEW i, NEW p, Grows(s, r, i, p),
         NEW q \in 1 .. p, NEW x, NEW j, j > 1, FrameOK(x, j, q)
  PROVE  /\ x.ctrls[j].start \in 2 .. q
         /\ Opens(code'[x.ctrls[j].start - 1]) /\ x.ctrls[j].bt = code'[x.ctrls[j].start - 1].bt
         /\ Construct(x.ctrls[j]) = code'[x.ctrls[j].start - 1].op
         /\ Len(seen'[x.ctrls[j].start].ctrls) = j
         /\ seen'[x.ctrls[j].start].ctrls[j].start = x.ctrls[j].start
<1> PICK b : b = x.ctrls[j].start
  OBVIOUS
<1>1. /\ p \in Nat /\ (\A k \in 1 .. (p - 1) : code'[k] = code[k]) /\ (\A k \in 1 .. p : seen'[k] = seen[k])
  BY GrownParts
<1>2. /\ b \in 2 .. q /\ Opens(code[b - 1]) /\ x.ctrls[j].bt = code[b - 1].bt
      /\ Construct(x.ctrls[j]) = code[b - 1].op
      /\ Len(seen[b].ctrls) = j /\ seen[b].ctrls[j].start = b
  BY DEF FrameOK
<1>3. b \in 1 .. p /\ b - 1 \in 1 .. (p - 1)
  BY <1>1, <1>2
<1>4. code'[b - 1] = code[b - 1] /\ seen'[b] = seen[b]
  BY <1>1, <1>3
<1> QED
  BY <1>2, <1>4

LEMMA RecordStays ==
  ASSUME NEW s, NEW r, NEW i, NEW p, Grows(s, r, i, p), NEW q \in 1 .. p, NEW x, HeldOK(x, q)
  PROVE  HeldOK(x, q)'
<1>1. \A j \in DOMAIN x.ctrls : FrameOK(x, j, q)
  BY DEF HeldOK
<1>2. ASSUME NEW j \in DOMAIN x.ctrls
      PROVE  FrameOK(x, j, q)'
  <2>1. FrameOK(x, j, q)
    BY <1>1
  <2>2. CASE j > 1
    <3>1. /\ x.ctrls[j].start \in 2 .. q
          /\ Opens(code'[x.ctrls[j].start - 1]) /\ x.ctrls[j].bt = code'[x.ctrls[j].start - 1].bt
          /\ Construct(x.ctrls[j]) = code'[x.ctrls[j].start - 1].op
          /\ Len(seen'[x.ctrls[j].start].ctrls) = j
          /\ seen'[x.ctrls[j].start].ctrls[j].start = x.ctrls[j].start
      BY <2>1, <2>2, FrameStays
    <3> QED
      BY <2>1, <3>1 DEF FrameOK
  <2>3. CASE ~(j > 1)
    BY <2>1, <2>3 DEF FrameOK
  <2> QED
    BY <2>2, <2>3
<1> QED
  BY <1>2 DEF HeldOK

LEMMA NewRecord ==
  ASSUME NEW s, NEW r, NEW i, NEW p, Grows(s, r, i, p), HeldOK(s, p), s.ctrls # <<>>, Shape(s, r, i, p)
  PROVE  HeldOK(r, p + 1)'
<1> PICK n : n = Len(s.ctrls)
  OBVIOUS
<1> PICK m : m = Len(r.ctrls)
  OBVIOUS
<1>1. p \in Nat /\ p >= 1 /\ s \in HeldSet /\ r \in HeldSet /\ code'[p] = i /\ seen'[p + 1] = r /\ i \in Instr
  BY GrownParts DEF Grows
<1>2. /\ n \in Nat /\ n >= 1 /\ m \in Nat /\ m \in {n - 1, n, n + 1}
      /\ (\A j : j \in DOMAIN s.ctrls <=> j \in 1 .. n) /\ (\A j : j \in DOMAIN r.ctrls <=> j \in 1 .. m)
      /\ (r.ctrls = <<>> <=> m = 0) /\ Len(r.vals) \in Nat /\ Len(r.inits) \in Nat
  BY <1>1, RecordTop, RecordParts DEF Shape
<1>3. /\ TopOf(s).height \in Nat /\ TopOf(s).inits \in Nat
      /\ \A j \in 1 .. n : /\ s.ctrls[j].height \in Nat /\ s.ctrls[j].inits \in Nat
                           /\ s.ctrls[j].height <= TopOf(s).height
                           /\ s.ctrls[j].inits <= TopOf(s).inits
  BY <1>1, RecordTop
<1>4. TopOf(s).height <= Len(r.vals) /\ TopOf(s).inits <= Len(r.inits)
  BY DEF Shape, Agree
<1>5. \A j \in 1 .. n : j <= m => SameFrame(s.ctrls[j], r.ctrls[j])
  BY DEF Shape, SameBelow
<1>6. \A j \in 1 .. n : FrameOK(s, j, p)
  BY <1>2 DEF HeldOK
\* a frame of s that stays
<1>7. ASSUME NEW j \in 1 .. n, j <= m
      PROVE  /\ FrameOK(r, j, p + 1)'
             /\ r.ctrls[j].height \in Nat /\ r.ctrls[j].height <= TopOf(s).height
             /\ r.ctrls[j].inits \in Nat /\ r.ctrls[j].inits <= TopOf(s).inits
             /\ r.ctrls[j].start \in 1 .. p
             /\ r.ctrls[j].start = s.ctrls[j].start /\ r.ctrls[j].height = s.ctrls[j].height
             /\ r.ctrls[j].inits = s.ctrls[j].inits
  <2>1. /\ s.ctrls[j].start = r.ctrls[j].start /\ s.ctrls[j].bt = r.ctrls[j].bt
        /\ s.ctrls[j].height = r.ctrls[j].height /\ s.ctrls[j].inits = r.ctrls[j].inits
        /\ Construct(s.ctrls[j]) = Construct(r.ctrls[j])
    BY <1>5, <1>7 DEF SameFrame
  <2>2. FrameOK(s, j, p)
    BY <1>6
  <2>3. /\ r.ctrls[j].height \in Nat /\ r.ctrls[j].height <= TopOf(s).height
        /\ r.ctrls[j].inits \in Nat /\ r.ctrls[j].inits <= TopOf(s).inits
    BY <1>3, <2>1
  <2>4. r.ctrls[j].height <= Len(r.vals) /\ r.ctrls[j].inits <= Len(r.inits)
    BY <1>2, <1>3, <1>4, <2>3, SMTT(40)
  <2>5. CASE j = 1
    <3>1. s.ctrls[j].start = 1 /\ s.ctrls[j].bt = FuncBt /\ s.ctrls[j].op = "block" /\ s.ctrls[j].height = 0 /\ s.ctrls[j].inits = 0
      BY <2>2, <2>5 DEF FrameOK
    <3>2. r.ctrls[j].op = "block"
      BY <2>1, <3>1 DEF Construct
    <3>3. FrameOK(r, j, p + 1)'
      BY <2>1, <2>4, <2>5, <3>1, <3>2 DEF FrameOK
    <3>4. 1 \in 1 .. p
      BY <1>1
    <3> QED
      BY <2>1, <2>3, <3>1, <3>3, <3>4
  <2>6. CASE j # 1
    <3>1. j > 1 /\ p \in 1 .. p
      BY <1>1, <2>6
    <3>2. /\ s.ctrls[j].start \in 2 .. p
          /\ Opens(code'[s.ctrls[j].start - 1]) /\ s.ctrls[j].bt = code'[s.ctrls[j].start - 1].bt
          /\ Construct(s.ctrls[j]) = code'[s.ctrls[j].start - 1].op
          /\ Len(seen'[s.ctrls[j].start].ctrls) = j
          /\ seen'[s.ctrls[j].start].ctrls[j].start = s.ctrls[j].start
      BY <2>2, <3>1, FrameStays
    <3>3. r.ctrls[j].start \in 2 .. (p + 1) /\ r.ctrls[j].start \in 1 .. p
      BY <1>1, <2>1, <3>2
    <3>4. FrameOK(r, j, p + 1)'
      BY <2>1, <2>4, <2>6, <3>2, <3>3 DEF FrameOK
    <3> QED
      BY <2>1, <2>3, <3>3, <3>4
  <2> QED
    BY <2>5, <2>6
\* a frame opened here
<1>8. ASSUME m = n + 1
      PROVE  /\ FrameOK(r, m, p + 1)'
             /\ r.ctrls[m].start = p + 1 /\ TopOf(s).height <= r.ctrls[m].height
             /\ TopOf(s).inits <= r.ctrls[m].inits
             /\ r.ctrls[m].height \in Nat /\ r.ctrls[m].inits \in Nat
  <2>1. /\ Opens(i) /\ r.ctrls[m].start = p + 1 /\ r.ctrls[m].bt = i.bt /\ r.ctrls[m].op = i.op
        /\ TopOf(s).height <= r.ctrls[m].height /\ r.ctrls[m].height <= Len(r.vals)
        /\ TopOf(s).inits <= r.ctrls[m].inits /\ r.ctrls[m].inits <= Len(r.inits)
    BY <1>8 DEF Shape, Opened, TopOf
  <2>2. Construct(r.ctrls[m]) = i.op
    BY <2>1 DEF Construct, Opens
  <2>3. p + 1 \in 2 .. (p + 1) /\ p + 1 - 1 = p /\ m # 1
    BY <1>1, <1>2, <1>8
  <2>4. FrameOK(r, m, p + 1)'
    BY <1>1, <2>1, <2>2, <2>3 DEF FrameOK
  <2>5. m \in 1 .. m
    BY <1>2, <1>8
  <2>6. r.ctrls[m] \in FrameSet
    BY <1>1, <2>5, RecordParts
  <2> QED
    BY <2>1, <2>4, <2>6, FrameFields
<1>9. ASSUME NEW j \in DOMAIN r.ctrls
      PROVE  FrameOK(r, j, p + 1)'
  <2>0. j \in 1 .. m /\ n \in Nat /\ m \in {n - 1, n, n + 1}
    BY <1>2
  <2>1. (j \in 1 .. n /\ j <= m) \/ (m = n + 1 /\ j = m)
    BY ONLY <2>0
  <2> QED
    BY <1>7, <1>8, <2>1
<1>10. Ordered(s)
  BY DEF HeldOK
<1>11. ASSUME NEW j \in DOMAIN r.ctrls, NEW k \in DOMAIN r.ctrls, j < k
       PROVE  /\ r.ctrls[j].start < r.ctrls[k].start
              /\ r.ctrls[j].height <= r.ctrls[k].height
              /\ r.ctrls[j].inits <= r.ctrls[k].inits
  <2>1. j \in 1 .. n /\ j <= m /\ ((k \in 1 .. n /\ k <= m) \/ (m = n + 1 /\ k = m))
    BY <1>2, <1>11
  <2>2. CASE k \in 1 .. n /\ k <= m
    <3>1. j \in DOMAIN s.ctrls /\ k \in DOMAIN s.ctrls
      BY <1>2, <2>1, <2>2
    <3> QED
      BY <1>7, <1>10, <1>11, <2>1, <2>2, <3>1 DEF Ordered
  <2>3. CASE m = n + 1 /\ k = m
    <3>1. r.ctrls[j].start \in 1 .. p /\ r.ctrls[k].start = p + 1
      BY <1>7, <1>8, <2>1, <2>3
    <3>2. r.ctrls[j].height <= r.ctrls[k].height /\ r.ctrls[j].inits <= r.ctrls[k].inits
      BY <1>3, <1>7, <1>8, <2>1, <2>3
    <3> QED
      BY <1>1, <3>1, <3>2
  <2> QED
    BY <2>1, <2>2, <2>3
<1>12. Ordered(r)
  BY <1>11 DEF Ordered
<1>13. OncePerLocal(r) /\ (r.ctrls = <<>> => p + 1 > 1 /\ r.vals = Results)
  BY <1>1, <1>2 DEF Shape
<1> QED
  BY <1>9, <1>12, <1>13 DEF HeldOK, Ordered, OncePerLocal

(***************************************************************************)
(* While a frame is open what is below it stays                            *)
(***************************************************************************)
LEMMA SameFrameTrans ==
  ASSUME NEW f, NEW g, NEW h, SameFrame(f, g), SameFrame(g, h)
  PROVE  SameFrame(f, h)
BY DEF SameFrame

LEMMA FrozenTrans ==
  ASSUME NEW s, NEW t, NEW r, NEW j \in Nat, j >= 1, Frozen(s, t, j), Frozen(t, r, j)
  PROVE  Frozen(s, r, j)
<1>1. /\ j \in DOMAIN s.ctrls /\ j \in DOMAIN t.ctrls /\ Keeps(s, t, j - 1) /\ SameFrame(s.ctrls[j], t.ctrls[j])
      /\ Agree(s.vals, t.vals, s.ctrls[j].height) /\ Agree(s.inits, t.inits, s.ctrls[j].inits)
  BY DEF Frozen
<1>2. /\ j \in DOMAIN r.ctrls /\ Keeps(t, r, j - 1) /\ SameFrame(t.ctrls[j], r.ctrls[j])
      /\ Agree(t.vals, r.vals, t.ctrls[j].height) /\ Agree(t.inits, r.inits, t.ctrls[j].inits)
  BY DEF Frozen
<1>3. t.ctrls[j].height = s.ctrls[j].height /\ t.ctrls[j].inits = s.ctrls[j].inits
  BY <1>1 DEF SameFrame
<1>4. Agree(s.vals, r.vals, s.ctrls[j].height)
  BY <1>1, <1>2, <1>3, AgreeTrans
<1>5. Agree(s.inits, r.inits, s.ctrls[j].inits)
  BY <1>1, <1>2, <1>3, AgreeTrans
<1>6. SameFrame(s.ctrls[j], r.ctrls[j])
  BY <1>1, <1>2, SameFrameTrans
<1>7. Keeps(s, r, j - 1)
  <2>1. ASSUME NEW k \in 1 .. (j - 1)
        PROVE  SameFrame(s.ctrls[k], r.ctrls[k]) /\ s.ctrls[k].dead = r.ctrls[k].dead
    <3>1. SameFrame(s.ctrls[k], t.ctrls[k]) /\ s.ctrls[k].dead = t.ctrls[k].dead
      BY <1>1 DEF Keeps
    <3>2. SameFrame(t.ctrls[k], r.ctrls[k]) /\ t.ctrls[k].dead = r.ctrls[k].dead
      BY <1>2 DEF Keeps
    <3> QED
      BY <3>1, <3>2, SameFrameTrans
  <2> QED
    BY <1>1, <1>2, <2>1 DEF Keeps
<1> QED
  BY <1>1, <1>2, <1>4, <1>5, <1>6, <1>7 DEF Frozen

LEMMA FrozenSelf ==
  ASSUME NEW r \in HeldSet, NEW j \in DOMAIN r.ctrls,
         r.ctrls[j].height <= Len(r.vals), r.ctrls[j].inits <= Len(r.inits)
  PROVE  Frozen(r, r, j)
<1>1. /\ j \in 1 .. Len(r.ctrls) /\ Len(r.ctrls) \in Nat /\ r.vals \in Seq(Type) /\ Len(r.vals) \in Nat
      /\ r.inits \in Seq(DOMAIN LocalType) /\ Len(r.inits) \in Nat /\ r.ctrls[j] \in FrameSet
  BY RecordParts
<1>2. r.ctrls[j].height \in Nat /\ r.ctrls[j].inits \in Nat
  BY <1>1, FrameFields
<1>3. r.ctrls[j].height <= Len(r.vals) /\ r.ctrls[j].inits <= Len(r.inits)
  OBVIOUS
<1>4. Agree(r.vals, r.vals, r.ctrls[j].height) /\ Agree(r.inits, r.inits, r.ctrls[j].inits)
  BY <1>1, <1>2, <1>3 DEF Agree
<1>5. Keeps(r, r, j - 1)
  BY <1>1 DEF Keeps, SameFrame
<1> QED
  BY <1>4, <1>5 DEF Frozen, SameFrame

\* A frame that stays open over one instruction.
LEMMA FrozenStep ==
  ASSUME NEW s \in HeldSet, NEW r \in HeldSet, NEW i, NEW p, HeldOK(s, p), s.ctrls # <<>>, Shape(s, r, i, p),
         NEW j \in 1 .. Len(s.ctrls), j <= Len(r.ctrls)
  PROVE  Frozen(s, r, j)
<1> PICK n : n = Len(s.ctrls)
  OBVIOUS
<1> PICK m : m = Len(r.ctrls)
  OBVIOUS
<1>1. n \in Nat /\ m \in Nat /\ (\A k : k \in DOMAIN s.ctrls <=> k \in 1 .. n) /\ (\A k : k \in DOMAIN r.ctrls <=> k \in 1 .. m)
  BY RecordParts
<1>2. j \in 1 .. n /\ j <= m /\ j \in 1 .. m /\ j - 1 <= n /\ j - 1 <= m
  BY <1>1
<1>3. /\ \A k \in 1 .. n : k <= m => SameFrame(s.ctrls[k], r.ctrls[k])
      /\ \A k \in 1 .. n : k < n /\ k <= m => s.ctrls[k].dead = r.ctrls[k].dead
  BY DEF Shape, SameBelow
<1>4. \A k \in 1 .. (j - 1) : k \in 1 .. n /\ k < n /\ k <= m
  BY <1>1, <1>2
<1>5. Keeps(s, r, j - 1)
  BY <1>2, <1>3, <1>4 DEF Keeps
<1>6. /\ s.ctrls[j].height \in 0 .. TopOf(s).height /\ s.ctrls[j].inits \in 0 .. TopOf(s).inits
      /\ TopOf(s).height \in Nat /\ TopOf(s).inits \in Nat
  BY <1>2, RecordTop
<1>7. /\ Len(s.vals) \in Nat /\ Len(r.vals) \in Nat /\ Len(s.inits) \in Nat /\ Len(r.inits) \in Nat
  BY RecordParts
<1>8. Agree(s.vals, r.vals, s.ctrls[j].height)
  BY <1>6, <1>7, AgreeLess DEF Shape
<1>9. Agree(s.inits, r.inits, s.ctrls[j].inits)
  BY <1>6, <1>7, AgreeLess DEF Shape
<1> QED
  BY <1>1, <1>2, <1>3, <1>5, <1>8, <1>9 DEF Frozen

LEMMA FrozenGrows ==
  ASSUME NEW s, NEW r, NEW i, NEW p, Grows(s, r, i, p), HeldOK(s, p), s.ctrls # <<>>, Shape(s, r, i, p),
         \A q \in DOMAIN seen : HeldOK(seen[q], q), FrozenWhileOpen
  PROVE  FrozenWhileOpen'
<1>1. /\ p \in Nat /\ p >= 1 /\ s \in HeldSet /\ r \in HeldSet
      /\ (\A q \in 1 .. p : seen'[q] = seen[q]) /\ seen'[p + 1] = r
      /\ (\A q : q \in DOMAIN seen <=> q \in 1 .. p) /\ (\A q : q \in DOMAIN seen' <=> q \in 1 .. (p + 1))
      /\ (\A q \in 1 .. p : seen[q] \in HeldSet)
  BY GrownParts DEF Grows
<1>a. seen[p] = s
  BY DEF Grows
<1>2. HeldOK(r, p + 1)'
  BY NewRecord
<1> PICK n : n = Len(s.ctrls)
  OBVIOUS
<1> PICK m : m = Len(r.ctrls)
  OBVIOUS
<1>3. n \in Nat /\ m \in Nat /\ m \in {n - 1, n, n + 1}
      /\ (\A k : k \in DOMAIN s.ctrls <=> k \in 1 .. n) /\ (\A k : k \in DOMAIN r.ctrls <=> k \in 1 .. m)
  BY <1>1, RecordParts DEF Shape
<1>4. ASSUME NEW a \in 1 .. p, NEW j \in DOMAIN seen[a].ctrls
      PROVE  seen[a].ctrls[j].start <= a /\ j \in Nat /\ j >= 1
  <2>1. FrameOK(seen[a], j, a) /\ seen[a] \in HeldSet
    BY <1>1 DEF HeldOK
  <2>2. j \in Nat /\ j >= 1
    BY <2>1, RecordParts
  <2>3. j = 1 \/ j > 1
    BY <2>2
  <2> QED
    BY <2>1, <2>2, <2>3 DEF FrameOK
\* the new record against an older one
<1>5. ASSUME NEW a \in 1 .. p, NEW j \in DOMAIN seen[a].ctrls, OpenIn(r, j, seen[a].ctrls[j].start)
      PROVE  Frozen(seen[a], r, j) /\ OpenIn(s, j, seen[a].ctrls[j].start)
  <2> PICK b : b = seen[a].ctrls[j].start
    OBVIOUS
  <2>1. b <= a /\ j \in Nat /\ j >= 1
    BY <1>4
  <2>2. j \in 1 .. m /\ r.ctrls[j].start = b
    BY <1>3, <1>5 DEF OpenIn
  <2>3. j \in 1 .. n /\ j <= m
    <3>1. SUFFICES ASSUME ~(j \in 1 .. n)
                   PROVE  FALSE
      BY <1>3, <2>2
    <3>2. m = n + 1 /\ j = m
      BY <1>3, <2>2, <3>1
    <3>3. r.ctrls[m].start = p + 1
      BY <3>2 DEF Shape, Opened, TopOf
    <3>4. b = p + 1 /\ b <= a /\ a \in 1 .. p
      BY <2>1, <2>2, <3>2, <3>3
    <3> QED
      BY ONLY <3>4, <1>1
  <2>4. Frozen(s, r, j)
    BY <1>1, <2>3, FrozenStep
  <2>5. s.ctrls[j].start = b
    BY <2>2, <2>4 DEF Frozen, SameFrame
  <2>6. OpenIn(s, j, b)
    BY <1>3, <2>3, <2>5 DEF OpenIn
  <2>7. Frozen(seen[a], s, j)
    <3>1. a \in DOMAIN seen /\ p \in DOMAIN seen /\ a <= p
      BY <1>1
    <3> QED
      BY <1>a, <2>6, <3>1 DEF FrozenWhileOpen
  <2> QED
    BY <2>1, <2>4, <2>6, <2>7, FrozenTrans
<1>6. ASSUME NEW a \in DOMAIN seen', NEW c \in DOMAIN seen', NEW j \in DOMAIN seen'[a].ctrls,
             a <= c, OpenIn(seen'[c], j, seen'[a].ctrls[j].start)
      PROVE  /\ Frozen(seen'[a], seen'[c], j)
             /\ \A k \in a .. c : OpenIn(seen'[k], j, seen'[a].ctrls[j].start)
  <2>1. a \in 1 .. (p + 1) /\ c \in 1 .. (p + 1)
    BY <1>1
  <2>2. CASE c \in 1 .. p
    <3>1. a \in 1 .. p
      BY <1>1, <1>6, <2>1, <2>2
    <3>2. seen'[a] = seen[a] /\ seen'[c] = seen[c] /\ a \in DOMAIN seen /\ c \in DOMAIN seen
      BY <1>1, <2>2, <3>1
    <3>3. /\ Frozen(seen[a], seen[c], j)
          /\ \A k \in a .. c : OpenIn(seen[k], j, seen[a].ctrls[j].start)
      BY <1>6, <3>2 DEF FrozenWhileOpen
    <3>4. \A k \in a .. c : k \in 1 .. p
      BY <1>1, <2>2, <3>1
    <3> QED
      BY <1>1, <3>2, <3>3, <3>4
  <2>3. CASE c = p + 1 /\ a = p + 1
    <3>1. seen'[a] = r /\ seen'[c] = r
      BY <1>1, <2>3
    <3>2. Frozen(r, r, j)
      <4>1. HeldOK(r, p + 1)' => \A k \in DOMAIN r.ctrls : r.ctrls[k].height <= Len(r.vals) /\ r.ctrls[k].inits <= Len(r.inits)
        BY DEF HeldOK, FrameOK
      <4> QED
        BY <1>1, <1>2, <1>6, <3>1, <4>1, FrozenSelf
    <3>3. \A k \in a .. c : k = p + 1
      BY <1>1, <2>3
    <3> QED
      BY <1>1, <1>6, <3>1, <3>2, <3>3
  <2>4. CASE c = p + 1 /\ a \in 1 .. p
    <3>1. seen'[a] = seen[a] /\ seen'[c] = r
      BY <1>1, <2>4
    <3> PICK b : b = seen[a].ctrls[j].start
      OBVIOUS
    <3>2. j \in DOMAIN seen[a].ctrls /\ OpenIn(r, j, b)
      BY <1>6, <3>1
    <3>3. Frozen(seen[a], r, j) /\ OpenIn(s, j, b)
      BY <1>5, <2>4, <3>2
    <3>4. \A k \in a .. p : OpenIn(seen[k], j, b)
      <4>1. a \in DOMAIN seen /\ p \in DOMAIN seen /\ a <= p
        BY <1>1, <2>4
      <4> QED
        BY <1>a, <3>2, <3>3, <4>1 DEF FrozenWhileOpen
    <3>5. \A k \in a .. c : (k \in a .. p /\ k \in 1 .. p) \/ k = p + 1
      BY <1>1, <2>4
    <3>6. \A k \in a .. c : OpenIn(seen'[k], j, b)
      BY <1>1, <3>2, <3>4, <3>5
    <3> QED
      BY <3>1, <3>3, <3>6
  <2>5. c \in 1 .. p \/ (c = p + 1 /\ a = p + 1) \/ (c = p + 1 /\ a \in 1 .. p)
    BY <1>1, <2>1
  <2> QED
    BY <2>2, <2>3, <2>4, <2>5
<1> QED
  BY <1>6 DEF FrozenWhileOpen

(***************************************************************************)
(* The history behind one instruction                                      *)
(***************************************************************************)
LEMMA NextStays ==
  ASSUME NEW s, NEW r, NEW i, NEW p, Grows(s, r, i, p), r.next = s.next + Slots(i),
         \A a, b \in DOMAIN seen : a <= b => seen[a].next <= seen[b].next
  PROVE  \A a, b \in DOMAIN seen' : a <= b => seen'[a].next <= seen'[b].next
<1>1. /\ p \in Nat /\ p >= 1 /\ (\A q \in 1 .. p : seen'[q] = seen[q]) /\ seen'[p + 1] = r /\ seen'[p] = s
      /\ (\A q : q \in DOMAIN seen <=> q \in 1 .. p) /\ (\A q : q \in DOMAIN seen' <=> q \in 1 .. (p + 1))
      /\ (\A q \in 1 .. p : seen[q] \in HeldSet) /\ s \in HeldSet
  BY GrownParts
<1>2. i \in Instr /\ r \in HeldSet /\ seen[p] = s
  BY DEF Grows
<1>3. Slots(i) \in Nat /\ s.next \in Nat /\ r.next \in Nat
  BY <1>1, <1>2, SlotsNumber, RecordParts
<1>4. s.next <= r.next
  BY <1>3
<1> SUFFICES ASSUME NEW a \in DOMAIN seen', NEW b \in DOMAIN seen', a <= b
             PROVE  seen'[a].next <= seen'[b].next
  OBVIOUS
<1>5. a \in 1 .. (p + 1) /\ b \in 1 .. (p + 1)
  BY <1>1
<1>6. CASE b \in 1 .. p
  <2>1. a \in 1 .. p
    BY <1>1, <1>5, <1>6
  <2>2. a \in DOMAIN seen /\ b \in DOMAIN seen /\ seen'[a] = seen[a] /\ seen'[b] = seen[b]
    BY <1>1, <1>6, <2>1
  <2> QED
    BY <2>2
<1>7. CASE b = p + 1 /\ a = p + 1
  BY <1>1, <1>3, <1>7
<1>8. CASE b = p + 1 /\ a \in 1 .. p
  <2>1. a \in DOMAIN seen /\ p \in DOMAIN seen /\ a <= p /\ seen'[a] = seen[a] /\ seen'[b] = r
    BY <1>1, <1>8
  <2>2. seen[a].next <= s.next /\ seen[a].next \in Nat
    BY <1>1, <1>2, <1>8, <2>1, RecordParts
  <2> QED
    BY <1>3, <1>4, <2>1, <2>2
<1> QED
  BY <1>1, <1>5, <1>6, <1>7, <1>8

LEMMA HistoryGrows ==
  ASSUME NEW s, NEW r, NEW i, NEW p, HistoryOK, Grows(s, r, i, p), Effect(s, r, i, p)
  PROVE  HistoryOK'
<1>1. /\ p \in Nat /\ p >= 1 /\ p = Len(code) + 1 /\ p = Len(seen)
      /\ code' \in Seq(Instr) /\ Len(code') = p /\ seen' \in Seq(HeldSet) /\ Len(seen') = p + 1
      /\ (\A q \in 1 .. (p - 1) : code'[q] = code[q]) /\ code'[p] = i
      /\ (\A q \in 1 .. p : seen'[q] = seen[q]) /\ seen'[p + 1] = r /\ seen'[p] = s
      /\ (\A q : q \in DOMAIN code <=> q \in 1 .. (p - 1)) /\ (\A q : q \in DOMAIN seen <=> q \in 1 .. p)
      /\ (\A q : q \in DOMAIN code' <=> q \in 1 .. p) /\ (\A q : q \in DOMAIN seen' <=> q \in 1 .. (p + 1))
      /\ s \in HeldSet
  BY GrownParts
<1>2. i \in Instr /\ r \in HeldSet /\ seen[p] = s
  BY DEF Grows
<1>3. p \in DOMAIN seen /\ HeldOK(s, p)
  BY <1>1, <1>2 DEF HistoryOK
<1>4. s.ctrls # <<>> /\ Shape(s, r, i, p)
  BY <1>1, <1>2, <1>3, EffectShape
<1>5. FirstRecord(seen'[1])
  BY <1>1 DEF HistoryOK
<1>6. (\A q \in DOMAIN seen : HeldOK(seen[q], q))'
  <2> SUFFICES ASSUME NEW q \in DOMAIN seen'
               PROVE  HeldOK(seen[q], q)'
    OBVIOUS
  <2> PICK x : x = seen'[q]
    OBVIOUS
  <2>1. HeldOK(x, q)'
    <3>1. q \in 1 .. p \/ q = p + 1
      BY <1>1
    <3>2. CASE q \in 1 .. p
      <4>1. HeldOK(x, q)
        BY <1>1, <3>2 DEF HistoryOK
      <4> QED
        BY <3>2, <4>1, RecordStays
    <3>3. CASE q = p + 1
      <4>1. HeldOK(r, p + 1)'
        BY <1>3, <1>4, NewRecord
      <4>2. x = r
        BY <1>1, <3>3
      <4> QED
        BY <3>3, <4>1, <4>2
    <3> QED
      BY <3>1, <3>2, <3>3
  <2> QED
    BY <2>1 DEF HeldOK, FrameOK, Ordered, OncePerLocal
<1>7. \A q \in DOMAIN code' : Effect(seen'[q], seen'[q + 1], code'[q], q)
  <2> SUFFICES ASSUME NEW q \in DOMAIN code'
               PROVE  Effect(seen'[q], seen'[q + 1], code'[q], q)
    OBVIOUS
  <2>1. q \in 1 .. (p - 1) \/ q = p
    BY <1>1
  <2>2. CASE q \in 1 .. (p - 1)
    <3>1. q \in DOMAIN code /\ q \in 1 .. p /\ q + 1 \in 1 .. p
      BY <1>1, <2>2
    <3>2. code'[q] = code[q] /\ seen'[q] = seen[q] /\ seen'[q + 1] = seen[q + 1]
      BY <1>1, <2>2, <3>1
    <3> QED
      BY <3>1, <3>2 DEF HistoryOK
  <2>3. CASE q = p
    BY <1>1, <2>3
  <2> QED
    BY <2>1, <2>2, <2>3
<1>8. \A a, b \in DOMAIN seen' : a <= b => seen'[a].next <= seen'[b].next
  <2>1. r.next = s.next + Slots(i) /\ \A a, b \in DOMAIN seen : a <= b => seen[a].next <= seen[b].next
    BY DEF HistoryOK, Effect
  <2> QED
    BY <2>1, NextStays
<1>9. FrozenWhileOpen'
  <2>1. FrozenWhileOpen /\ \A q \in DOMAIN seen : HeldOK(seen[q], q)
    BY DEF HistoryOK
  <2> QED
    BY <1>3, <1>4, <2>1, FrozenGrows
<1> QED
  BY <1>1, <1>5, <1>6, <1>7, <1>8, <1>9 DEF HistoryOK

(***************************************************************************)
(* The entries of the side table behind one instruction                    *)
(***************************************************************************)
\* One instruction read, in a state of the invariant.
ReadStep(s, r, i, p) ==
  /\ HistoryOK /\ EntriesOK(s.ctrls) /\ Grows(s, r, i, p) /\ Effect(s, r, i, p)
  /\ FramesStep(s, r, i, Len(trys) + 1) /\ EntryStep(s, i, p, st, st')

LEMMA StepParts ==
  ASSUME NEW s, NEW r, NEW i, NEW p, ReadStep(s, r, i, p)
  PROVE  /\ p \in Nat /\ p >= 1 /\ p = Len(code) + 1 /\ p = Len(seen)
         /\ (\A q \in 1 .. (p - 1) : code'[q] = code[q]) /\ code'[p] = i
         /\ (\A q \in 1 .. p : seen'[q] = seen[q]) /\ seen'[p + 1] = r /\ seen'[p] = s /\ seen[p] = s
         /\ (\A q : q \in DOMAIN code <=> q \in 1 .. (p - 1)) /\ (\A q : q \in DOMAIN seen <=> q \in 1 .. p)
         /\ (\A q : q \in DOMAIN code' <=> q \in 1 .. p) /\ (\A q : q \in DOMAIN seen' <=> q \in 1 .. (p + 1))
         /\ s \in HeldSet /\ r \in HeldSet /\ i \in Instr /\ Decoded(i) /\ Slots(i) \in Nat
         /\ HeldOK(s, p) /\ s.ctrls # <<>> /\ Shape(s, r, i, p)
         /\ s.next = Len(st) + 1 /\ s.next \in Nat /\ Len(st) \in Nat /\ r.next = s.next + Slots(i)
         /\ st \in Seq(EntrySet) /\ st' \in Seq(EntrySet) /\ Len(st') = Len(st) + Slots(i)
         /\ (\A e : e \in DOMAIN st <=> e \in 1 .. Len(st))
         /\ (\A e : e \in DOMAIN st' <=> e \in 1 .. (Len(st) + Slots(i)))
         /\ Len(seen') = p + 1
<1>1. Grows(s, r, i, p) /\ HistoryOK /\ EntriesOK(s.ctrls) /\ Effect(s, r, i, p) /\ EntryStep(s, i, p, st, st')
  BY DEF ReadStep
<1>2. /\ p \in Nat /\ p >= 1 /\ p = Len(code) + 1 /\ p = Len(seen) /\ Len(seen') = p + 1
      /\ (\A q \in 1 .. (p - 1) : code'[q] = code[q]) /\ code'[p] = i
      /\ (\A q \in 1 .. p : seen'[q] = seen[q]) /\ seen'[p + 1] = r /\ seen'[p] = s
      /\ (\A q : q \in DOMAIN code <=> q \in 1 .. (p - 1)) /\ (\A q : q \in DOMAIN seen <=> q \in 1 .. p)
      /\ (\A q : q \in DOMAIN code' <=> q \in 1 .. p) /\ (\A q : q \in DOMAIN seen' <=> q \in 1 .. (p + 1))
      /\ s \in HeldSet
  BY ONLY <1>1, GrownParts
<1>3. r \in HeldSet /\ i \in Instr /\ seen[p] = s
  BY <1>1 DEF Grows
<1>4. Decoded(i) /\ Slots(i) \in Nat
  BY <1>3, TypesOfBlock, SlotsNumber
<1>5. HeldOK(s, p)
  <2>1. p \in DOMAIN seen
    BY <1>2
  <2> QED
    BY <1>1, <1>3, <2>1 DEF HistoryOK
<1>6. s.ctrls # <<>> /\ Shape(s, r, i, p)
  BY <1>1, <1>2, <1>3, <1>5, EffectShape
<1>7. st \in Seq(EntrySet) /\ Len(st) + 1 = seen[Len(seen)].next /\ Len(st) \in Nat
  BY <1>1 DEF EntriesOK
<1>8. s.next = Len(st) + 1
  BY <1>2, <1>3, <1>7
<1>9. r.next = s.next + Slots(i)
  BY <1>1 DEF Effect
<1>10. st' \in Seq(EntrySet) /\ Len(st') = Len(st) + Slots(i)
  BY <1>1 DEF EntryStep
<1>11. (\A e : e \in DOMAIN st <=> e \in 1 .. Len(st)) /\ (\A e : e \in DOMAIN st' <=> e \in 1 .. (Len(st) + Slots(i)))
  <2>1. DOMAIN st = 1 .. Len(st) /\ DOMAIN st' = 1 .. Len(st')
    BY ONLY <1>7, <1>10
  <2> QED
    BY ONLY <1>10, <2>1
<1>12. s.next \in Nat
  BY <1>7, <1>8
<1> QED
  BY ONLY <1>2, <1>3, <1>4, <1>5, <1>6, <1>7, <1>8, <1>9, <1>10, <1>11, <1>12

\* A construct closed earlier stays so.
LEMMA ClosedStays ==
  ASSUME NEW s, NEW r, NEW i, NEW p, Grows(s, r, i, p), NEW o, NEW q, NEW j, NEW b, ClosedBy(o, q, j, b)
  PROVE  ClosedBy(o, q, j, b)'
<1>1. /\ p \in Nat /\ (\A x \in 1 .. (p - 1) : code'[x] = code[x]) /\ (\A x \in 1 .. p : seen'[x] = seen[x])
      /\ (\A x : x \in DOMAIN code <=> x \in 1 .. (p - 1)) /\ (\A x : x \in DOMAIN code' <=> x \in 1 .. p)
  BY GrownParts
<1>2. q - 1 \in 1 .. (p - 1)
  BY <1>1 DEF ClosedBy
<1>3. q - 1 \in 1 .. p
  BY <1>1, <1>2
<1>4. q - 1 \in DOMAIN code' /\ code'[q - 1] = code[q - 1] /\ seen'[q - 1] = seen[q - 1]
  BY <1>1, <1>2, <1>3
<1> QED
  BY <1>4 DEF ClosedBy

LEMMA LandingStays ==
  ASSUME NEW s, NEW r, NEW i, NEW p, Grows(s, r, i, p), NEW q \in 1 .. (p - 1), NEW k, NEW to, NEW skip,
         Landing(q, k, to, skip)
  PROVE  Landing(q, k, to, skip)'
<1>1. /\ p \in Nat /\ (\A x \in 1 .. (p - 1) : code'[x] = code[x]) /\ (\A x \in 1 .. p : seen'[x] = seen[x])
      /\ (\A x : x \in DOMAIN code <=> x \in 1 .. (p - 1))
  BY GrownParts
<1>2. code'[q] = code[q] /\ seen'[q] = seen[q]
  <2>1. q \in 1 .. p
    BY <1>1
  <2> QED
    BY <1>1, <2>1
<1> PICK j : j = HomeIdx(q, k)
  OBVIOUS
<1> PICK b : b = HomeStart(q, k)
  OBVIOUS
<1>3. HomeIdx(q, k)' = j /\ HomeStart(q, k)' = b /\ (HomeLoop(q, k)' <=> HomeLoop(q, k))
  BY <1>2 DEF HomeIdx, HomeStart, HomeLoop
<1>4. CASE HomeLoop(q, k) /\ to = b /\ skip = 0
  BY <1>3, <1>4 DEF Landing
<1>5. CASE /\ ~HomeLoop(q, k) /\ ClosedBy("end", to, j, b) /\ skip = 0 /\ to > q + 1
           /\ code[q].op = "if" => seen[to - 1].ctrls[j].op = "if"
  <2>1. ClosedBy("end", to, j, b)'
    BY <1>5, ClosedStays
  <2>2. to - 1 \in 1 .. (p - 1)
    BY <1>1, <1>5 DEF ClosedBy
  <2>3. to - 1 \in 1 .. p
    BY <1>1, <2>2
  <2>4. seen'[to - 1] = seen[to - 1]
    BY <1>1, <2>3
  <2> QED
    BY <1>2, <1>3, <1>5, <2>1, <2>4 DEF Landing
<1>6. CASE code[q].op = "if" /\ ClosedBy("else", to, j, b) /\ skip = 1 /\ to > q + 1
  <2>1. ClosedBy("else", to, j, b)'
    BY <1>6, ClosedStays
  <2> QED
    BY <1>2, <1>3, <1>6, <2>1 DEF Landing
<1> QED
  BY <1>4, <1>5, <1>6 DEF Landing

\* Where an older entry comes from.
LEMMA OldEntry ==
  ASSUME NEW s, NEW r, NEW i, NEW p, ReadStep(s, r, i, p), NEW e \in 1 .. Len(st),
         NEW q, q = Source(e), NEW k, k = Nth(e)
  PROVE  /\ q \in 1 .. (p - 1) /\ k \in 1 .. Slots(code[q])
         /\ Source(e)' = q /\ Nth(e)' = k /\ code'[q] = code[q] /\ seen'[q] = seen[q]
         /\ HomeIdx(q, k)' = HomeIdx(q, k) /\ HomeStart(q, k)' = HomeStart(q, k)
         /\ (HomeLoop(q, k)' <=> HomeLoop(q, k))
         /\ Carries(q, k)' = Carries(q, k) /\ Pops(q, k)' = Pops(q, k)
<1>1. /\ p \in Nat /\ (\A x \in 1 .. (p - 1) : code'[x] = code[x]) /\ (\A x \in 1 .. p : seen'[x] = seen[x])
      /\ (\A x : x \in DOMAIN code <=> x \in 1 .. (p - 1)) /\ (\A x : x \in DOMAIN st <=> x \in 1 .. Len(st))
  BY StepParts
<1>2. e \in DOMAIN st /\ EntryOK(s.ctrls, e)
  BY <1>1 DEF ReadStep, EntriesOK
<1>3. q \in DOMAIN code /\ k \in 1 .. Slots(code[q])
  BY <1>2 DEF EntryOK
<1>4. q \in 1 .. (p - 1) /\ q \in 1 .. p
  BY <1>1, <1>3
<1>5. code'[q] = code[q] /\ seen'[q] = seen[q]
  BY <1>1, <1>4
<1>6. st'[e].from = st[e].from
  BY DEF ReadStep, EntryStep
<1>7. Source(e)' = q
  BY <1>6 DEF Source
<1>8. Nth(e)' = k
  BY <1>5, <1>7 DEF Nth
<1> QED
  BY <1>3, <1>4, <1>5, <1>7, <1>8 DEF HomeIdx, HomeStart, HomeLoop, Carries, Pops

\* Where a new entry comes from.
LEMMA YoungEntry ==
  ASSUME NEW s, NEW r, NEW i, NEW p, ReadStep(s, r, i, p), NEW k \in 1 .. Slots(i), NEW e, e = Len(st) + k
  PROVE  /\ e \in DOMAIN st' /\ st'[e] = NewEntry(s, i, p, k) /\ Source(e)' = p /\ Nth(e)' = k
         /\ HomeIdx(p, k)' = HomeAt(s, i, k) /\ HomeStart(p, k)' = StartAt(s, i, p, k)
         /\ (HomeLoop(p, k)' <=> LoopAt(s, i, k))
         /\ Carries(p, k)' = CarriesAt(s, i, k) /\ Pops(p, k)' = PopsAt(s, i, k)
<1>1. /\ p \in Nat /\ code'[p] = i /\ seen'[p] = s /\ Len(st) \in Nat /\ s.next = Len(st) + 1 /\ Slots(i) \in Nat
      /\ (\A x : x \in DOMAIN st' <=> x \in 1 .. (Len(st) + Slots(i)))
  BY StepParts
<1>2. st'[e] = NewEntry(s, i, p, k)
  BY DEF ReadStep, EntryStep
<1>3. e \in DOMAIN st'
  BY <1>1
<1>4. Source(e)' = p
  <2>1. st'[e].from = p + 1
    BY <1>2 DEF NewEntry
  <2> QED
    BY <1>1, <2>1 DEF Source
<1>5. Nth(e)' = k
  <2>1. Nth(e)' = e - s.next + 1
    BY <1>1, <1>4 DEF Nth
  <2> QED
    BY ONLY <1>1, <2>1, e = Len(st) + k, k \in 1 .. Slots(i)
<1> QED
  BY <1>1, <1>2, <1>3, <1>4, <1>5 DEF HomeIdx, HomeStart, HomeLoop, Carries, Pops

\* The home of a new entry: the frame opened here, or one around it.
LEMMA HomeInside ==
  ASSUME NEW s \in HeldSet, NEW r, NEW i \in Instr, NEW p, HeldOK(s, p), Effect(s, r, i, p), NEW k \in 1 .. Slots(i)
  PROVE  /\ i.op = "if" => HomeAt(s, i, k) = Len(s.ctrls) + 1
         /\ i.op # "if" => HomeAt(s, i, k) \in 1 .. Len(s.ctrls)
         /\ i.op # "end"
<1>1. Decoded(i) /\ Slots(i) \in Nat /\ s.ctrls # <<>>
  BY TypesOfBlock, SlotsNumber DEF Effect
<1>2. Effect(s, r, i, p)
  OBVIOUS
<1>3. Len(s.ctrls) \in Nat /\ Len(s.ctrls) >= 1
  BY <1>1, RecordTop
<1>4. i.op \in {"br", "br_if", "if", "else", "br_table", "try_table"}
  BY DEF Slots
<1>5. CASE i.op = "if"
  BY <1>5 DEF HomeAt
<1>6. CASE i.op = "else"
  BY <1>3, <1>6 DEF HomeAt
<1>7. CASE i.op \in {"br", "br_if", "br_table", "try_table"}
  <2>1. LabelOf(i, k) \in Nat /\ LabelOf(i, k) < Len(s.ctrls)
    <3>1. CASE i.op \in {"br", "br_if"}
      BY <1>1, <1>2, <3>1 DEF Effect, BrEffect, BrIfEffect, Decoded, LabelOf
    <3>2. CASE i.op = "br_table"
      <4>1. k \in DOMAIN i.labels /\ i.labels[k] \in Nat
        <5>1. i.labels \in Seq(Nat)
          BY <1>1, <3>2 DEF Decoded
        <5>2. k \in 1 .. Len(i.labels)
          BY <3>2 DEF Slots
        <5> QED
          BY <5>1, <5>2
      <4> QED
        BY <1>2, <3>2, <4>1 DEF Effect, BrTableEffect, LabelOf
    <3>3. CASE i.op = "try_table"
      <4>1. k \in DOMAIN i.catches
        BY <1>1, <3>3 DEF Decoded, Slots
      <4>2. i.catches[k].label \in Nat
        BY <1>1, <3>3, <4>1 DEF Decoded, ClauseDecoded
      <4>3. i.catches[k].label < Len(s.ctrls)
        BY <1>2, <3>3, <4>1 DEF Effect, TryTableEffect, ClauseFitsAt
      <4> QED
        BY <3>3, <4>2, <4>3 DEF LabelOf
    <3> QED
      BY <1>7, <3>1, <3>2, <3>3
  <2>2. HomeAt(s, i, k) = Len(s.ctrls) - LabelOf(i, k)
    BY <1>7 DEF HomeAt
  <2> QED
    BY <1>3, <1>7, <2>1, <2>2
<1> QED
  BY <1>4, <1>5, <1>6, <1>7

LEMMA YoungHome ==
  ASSUME NEW s, NEW r, NEW i, NEW p, ReadStep(s, r, i, p), NEW k \in 1 .. Slots(i)
  PROVE  /\ i.op = "if" => HomeAt(s, i, k) = Len(s.ctrls) + 1
         /\ i.op # "if" => HomeAt(s, i, k) \in 1 .. Len(s.ctrls)
         /\ i.op # "end"
BY StepParts, HomeInside DEF ReadStep

\* How many frames there are behind the instruction.
LEMMA FramesAfter ==
  ASSUME NEW s, NEW r, NEW i, NEW p, ReadStep(s, r, i, p)
  PROVE  /\ Len(s.ctrls) \in Nat /\ Len(s.ctrls) >= 1 /\ Len(r.ctrls) \in Nat
         /\ (\A j : j \in DOMAIN s.ctrls <=> j \in 1 .. Len(s.ctrls))
         /\ (\A j : j \in DOMAIN r.ctrls <=> j \in 1 .. Len(r.ctrls))
         /\ i.op = "end" => Len(r.ctrls) = Len(s.ctrls) - 1
         /\ Opens(i) => Len(r.ctrls) = Len(s.ctrls) + 1 /\ TopOf(r).start = p + 1 /\ TopOf(r).op = i.op
         /\ i.op # "end" /\ ~Opens(i) => Len(r.ctrls) = Len(s.ctrls)
         /\ \A j \in 1 .. Len(s.ctrls) : j <= Len(r.ctrls) =>
              /\ SameFrame(s.ctrls[j], r.ctrls[j]) /\ FrameStep(s, r, i, j)
         /\ Opens(i) => NewFrame(s, r, i, Len(trys) + 1)
<1>1. s \in HeldSet /\ r \in HeldSet /\ i \in Instr /\ HeldOK(s, p) /\ s.ctrls # <<>> /\ Shape(s, r, i, p)
  BY StepParts
<1>2. Effect(s, r, i, p)
  BY DEF ReadStep
<1>3. /\ Len(s.ctrls) \in Nat /\ Len(s.ctrls) >= 1 /\ Len(r.ctrls) \in Nat
      /\ (\A j : j \in DOMAIN s.ctrls <=> j \in 1 .. Len(s.ctrls))
      /\ (\A j : j \in DOMAIN r.ctrls <=> j \in 1 .. Len(r.ctrls))
  BY <1>1, RecordParts, RecordTop
<1>4. i.op = "end" => Len(r.ctrls) = Len(s.ctrls) - 1
  BY <1>2 DEF Effect, EndEffect
<1>5. Opens(i) => Len(r.ctrls) = Len(s.ctrls) + 1 /\ TopOf(r).start = p + 1 /\ TopOf(r).op = i.op
  BY <1>2 DEF Effect, TryTableEffect, Enters, Opens
<1>6. i.op # "end" /\ ~Opens(i) => Len(r.ctrls) = Len(s.ctrls)
  BY <1>2 DEF Effect, Opens, Plain, Stops, ConstEffect, DropEffect, LocalGetEffect, LocalSetEffect, ElseEffect, BrEffect, BrIfEffect, BrTableEffect
<1>7. \A j \in 1 .. Len(s.ctrls) : j <= Len(r.ctrls) => SameFrame(s.ctrls[j], r.ctrls[j])
  BY <1>1 DEF Shape, SameBelow
<1>8. /\ \A j \in 1 .. Len(s.ctrls) : j <= Len(r.ctrls) => FrameStep(s, r, i, j)
      /\ Opens(i) => NewFrame(s, r, i, Len(trys) + 1)
  BY DEF ReadStep, FramesStep
<1> QED
  BY <1>3, <1>4, <1>5, <1>6, <1>7, <1>8

LEMMA YoungEntryOK ==
  ASSUME NEW s, NEW r, NEW i, NEW p, ReadStep(s, r, i, p), NEW k \in 1 .. Slots(i), NEW e, e = Len(st) + k
  PROVE  EntryOK(r.ctrls, e)'
<1>1. /\ e \in DOMAIN st' /\ st'[e] = NewEntry(s, i, p, k) /\ Source(e)' = p /\ Nth(e)' = k
      /\ HomeIdx(p, k)' = HomeAt(s, i, k) /\ HomeStart(p, k)' = StartAt(s, i, p, k)
      /\ (HomeLoop(p, k)' <=> LoopAt(s, i, k))
      /\ Carries(p, k)' = CarriesAt(s, i, k) /\ Pops(p, k)' = PopsAt(s, i, k)
  BY YoungEntry
<1>2. /\ p \in Nat /\ p >= 1 /\ code'[p] = i /\ Len(st) \in Nat /\ s.next = Len(st) + 1 /\ Slots(i) \in Nat
      /\ (\A x : x \in DOMAIN code' <=> x \in 1 .. p) /\ i \in Instr
  BY StepParts
<1>3. p \in DOMAIN code' /\ k \in 1 .. Slots(code'[p])
  BY <1>2
<1>4. st'[e].vals = CarriesAt(s, i, k) /\ st'[e].pop = PopsAt(s, i, k) /\ st'[e].skip = 0
      /\ st'[e].to = IF LoopAt(s, i, k) THEN StartAt(s, i, p, k) ELSE 0
  BY <1>1 DEF NewEntry
<1>5. CASE LoopAt(s, i, k)
  <2>1. Landing(p, k, st[e].to, st[e].skip)'
    BY <1>1, <1>4, <1>5 DEF Landing
  <2> QED
    BY <1>1, <1>3, <1>4, <1>5, <2>1 DEF EntryOK
<1>6. CASE ~LoopAt(s, i, k)
  <2> PICK j : j = HomeAt(s, i, k)
    OBVIOUS
  <2>1. j \in DOMAIN r.ctrls /\ r.ctrls[j].start = StartAt(s, i, p, k)
        /\ IF i.op = "if" THEN r.ctrls[j].else = e ELSE e \in r.ctrls[j].fixups
    <3>1. /\ Len(s.ctrls) \in Nat /\ Len(s.ctrls) >= 1 /\ Len(r.ctrls) \in Nat
          /\ (\A x : x \in DOMAIN r.ctrls <=> x \in 1 .. Len(r.ctrls))
          /\ Opens(i) => Len(r.ctrls) = Len(s.ctrls) + 1 /\ TopOf(r).start = p + 1 /\ TopOf(r).op = i.op
          /\ i.op # "end" /\ ~Opens(i) => Len(r.ctrls) = Len(s.ctrls)
          /\ \A x \in 1 .. Len(s.ctrls) : x <= Len(r.ctrls) =>
               /\ SameFrame(s.ctrls[x], r.ctrls[x]) /\ FrameStep(s, r, i, x)
          /\ Opens(i) => NewFrame(s, r, i, Len(trys) + 1)
      BY FramesAfter
    <3>2. /\ i.op = "if" => j = Len(s.ctrls) + 1
          /\ i.op # "if" => j \in 1 .. Len(s.ctrls)
          /\ i.op # "end"
      BY YoungHome
    <3>3. CASE i.op = "if"
      <4>1. Opens(i)
        BY <3>3 DEF Opens
      <4>2. j = Len(r.ctrls) /\ j \in DOMAIN r.ctrls
        BY <3>1, <3>2, <3>3, <4>1
      <4>3. r.ctrls[j].start = p + 1 /\ r.ctrls[j].else = s.next
        BY <3>1, <3>3, <4>1, <4>2 DEF TopOf, NewFrame
      <4>4. k = 1
        BY <3>3 DEF Slots
      <4> QED
        BY <1>2, <3>3, <4>2, <4>3, <4>4 DEF StartAt
    <3>4. CASE i.op # "if"
      <4>1. j \in 1 .. Len(s.ctrls)
        BY <3>2, <3>4
      <4>2. j <= Len(r.ctrls) /\ j \in DOMAIN r.ctrls
        <5>1. Len(r.ctrls) = Len(s.ctrls) \/ Len(r.ctrls) = Len(s.ctrls) + 1
          BY <3>1, <3>2
        <5> QED
          BY <3>1, <4>1, <5>1
      <4>3. SameFrame(s.ctrls[j], r.ctrls[j]) /\ FrameStep(s, r, i, j)
        BY <3>1, <4>1, <4>2
      <4>4. r.ctrls[j].start = StartAt(s, i, p, k)
        BY <3>4, <4>3 DEF SameFrame, StartAt
      <4>5. e \in Joins(s, i, j)
        <5>1. e \in s.next .. (s.next + Slots(i) - 1) /\ e - s.next + 1 = k
          BY <1>2
        <5> QED
          BY <5>1 DEF Joins
      <4>6. s.ctrls[j].op # "loop"
        BY <1>6, <3>4 DEF LoopAt
      <4> QED
        BY <3>4, <4>2, <4>3, <4>4, <4>5, <4>6 DEF FrameStep
    <3> QED
      BY <3>3, <3>4
  <2>2. PendingIn(r.ctrls, e)'
    BY <1>1, <1>2, <2>1 DEF PendingIn
  <2> QED
    BY <1>1, <1>3, <1>4, <1>6, <2>2 DEF EntryOK
<1> QED
  BY <1>5, <1>6

LEMMA WaitsStays ==
  ASSUME NEW s, NEW r, NEW i, NEW p, ReadStep(s, r, i, p), NEW f, NEW g, f.start = g.start, NEW j, NEW e,
         WaitsFor(f, j, e)
  PROVE  WaitsFor(g, j, e)' /\ code'[Source(e)'] = code[Source(e)]
<1>1. Len(st) \in Nat /\ Slots(i) \in Nat /\ (\A x : x \in DOMAIN st <=> x \in 1 .. Len(st))
      /\ (\A x : x \in DOMAIN st' <=> x \in 1 .. (Len(st) + Slots(i)))
  BY StepParts
<1>2. e \in 1 .. Len(st) /\ e \in DOMAIN st'
  BY <1>1 DEF WaitsFor
<1> PICK q : q = Source(e)
  OBVIOUS
<1> PICK k : k = Nth(e)
  OBVIOUS
<1>3. /\ Source(e)' = q /\ Nth(e)' = k /\ code'[q] = code[q]
      /\ HomeIdx(q, k)' = HomeIdx(q, k) /\ HomeStart(q, k)' = HomeStart(q, k)
      /\ (HomeLoop(q, k)' <=> HomeLoop(q, k))
  BY <1>2, OldEntry
<1> QED
  BY <1>2, <1>3 DEF WaitsFor

\* What the else or the end of the innermost frame completes belongs to that frame.
LEMMA LandedWaits ==
  ASSUME NEW s, NEW r, NEW i, NEW p, ReadStep(s, r, i, p), NEW e \in 1 .. Len(st), e \in Landed(s, i)
  PROVE  /\ WaitsFor(TopOf(s), Len(s.ctrls), e) /\ st[e].skip = 0
         /\ i.op \in {"else", "end"} /\ (i.op = "else" => TopOf(s).op = "if" /\ code[Source(e)].op = "if")
         /\ (code[Source(e)].op = "if" => TopOf(s).op = "if")
<1>1. Len(s.ctrls) \in DOMAIN s.ctrls
  BY FramesAfter
<1>2. WaitsOK(s.ctrls, Len(s.ctrls))
  BY <1>1 DEF ReadStep, EntriesOK
<1>3. i.op \in {"else", "end"}
  BY DEF Landed
<1>4. i.op = "else" => TopOf(s).op = "if"
  BY DEF ReadStep, Effect, ElseEffect
<1>5. e # 0
  OBVIOUS
<1>6. CASE e = TopOf(s).else
  BY <1>2, <1>3, <1>4, <1>5, <1>6 DEF WaitsOK, TopOf
<1>7. CASE e # TopOf(s).else
  <2>1. e \in TopOf(s).fixups /\ i.op = "end"
    BY <1>7 DEF Landed
  <2>2. WaitsFor(TopOf(s), Len(s.ctrls), e) /\ code[Source(e)].op # "if"
    BY <1>2, <2>1 DEF WaitsOK, TopOf
  <2>3. EntryOK(s.ctrls, e)
    <3>1. e \in DOMAIN st
      BY StepParts
    <3> QED
      BY <3>1 DEF ReadStep, EntriesOK
  <2>4. st[e].skip = 0
    BY <2>2, <2>3 DEF EntryOK, Landing, WaitsFor
  <2> QED
    BY <2>1, <2>2, <2>4
<1> QED
  BY <1>6, <1>7

LEMMA LandedEntryOK ==
  ASSUME NEW s, NEW r, NEW i, NEW p, ReadStep(s, r, i, p), NEW e \in 1 .. Len(st), e \in Landed(s, i)
  PROVE  EntryOK(r.ctrls, e)'
<1> PICK q : q = Source(e)
  OBVIOUS
<1> PICK k : k = Nth(e)
  OBVIOUS
<1> PICK n : n = Len(s.ctrls)
  OBVIOUS
<1>1. /\ q \in 1 .. (p - 1) /\ k \in 1 .. Slots(code[q])
      /\ Source(e)' = q /\ Nth(e)' = k /\ code'[q] = code[q] /\ seen'[q] = seen[q]
      /\ HomeIdx(q, k)' = HomeIdx(q, k) /\ HomeStart(q, k)' = HomeStart(q, k)
      /\ (HomeLoop(q, k)' <=> HomeLoop(q, k))
      /\ Carries(q, k)' = Carries(q, k) /\ Pops(q, k)' = Pops(q, k)
  BY OldEntry
<1>2. /\ p \in Nat /\ p >= 1 /\ code'[p] = i /\ seen'[p] = s /\ (\A x : x \in DOMAIN code' <=> x \in 1 .. p)
      /\ (\A x : x \in DOMAIN st <=> x \in 1 .. Len(st))
  BY StepParts
<1>3. /\ WaitsFor(TopOf(s), n, e) /\ st[e].skip = 0
      /\ i.op \in {"else", "end"} /\ (i.op = "else" => TopOf(s).op = "if" /\ code[q].op = "if")
      /\ (code[q].op = "if" => TopOf(s).op = "if")
  BY LandedWaits
<1>4. HomeIdx(q, k) = n /\ HomeStart(q, k) = TopOf(s).start /\ ~HomeLoop(q, k)
  BY <1>3 DEF WaitsFor
<1>5. EntryOK(s.ctrls, e)
  BY <1>2 DEF ReadStep, EntriesOK
<1>6. st[e].vals = Carries(q, k) /\ st[e].pop = Pops(q, k)
  BY <1>5 DEF EntryOK
<1>7. /\ st'[e].vals = st[e].vals /\ st'[e].pop = st[e].pop /\ st'[e].to = p + 1
      /\ st'[e].skip = IF i.op = "else" THEN 1 ELSE st[e].skip
  BY DEF ReadStep, EntryStep
<1>8. ClosedBy(i.op, p + 1, n, TopOf(s).start)'
  <2>1. p \in DOMAIN code' /\ (p + 1) - 1 = p
    BY <1>2
  <2>2. n \in DOMAIN s.ctrls /\ s.ctrls[n].start = TopOf(s).start
    BY FramesAfter DEF TopOf
  <2> QED
    BY <1>2, <2>1, <2>2 DEF ClosedBy, OpenIn
<1>9. p + 1 > q + 1 /\ (p + 1) - 1 = p
  BY <1>1, <1>2
<1>10. Landing(q, k, p + 1, IF i.op = "else" THEN 1 ELSE 0)'
  <2>1. CASE i.op = "else"
    BY <1>1, <1>3, <1>4, <1>8, <1>9, <2>1 DEF Landing
  <2>2. CASE i.op = "end"
    <3>1. code'[q].op = "if" => seen'[(p + 1) - 1].ctrls[n].op = "if"
      BY <1>1, <1>2, <1>3, <1>9 DEF TopOf
    <3> QED
      BY <1>1, <1>3, <1>4, <1>8, <1>9, <2>2, <3>1 DEF Landing
  <2> QED
    BY <1>3, <2>1, <2>2
<1>11. q \in DOMAIN code' /\ k \in 1 .. Slots(code'[q])
  BY <1>1, <1>2
<1>12. st'[e].to = p + 1 /\ st'[e].skip = IF i.op = "else" THEN 1 ELSE 0
  BY <1>3, <1>7
<1>13. Landing(q, k, st[e].to, st[e].skip)'
  BY <1>10, <1>12 DEF Landing
<1> QED
  BY <1>1, <1>6, <1>7, <1>11, <1>13 DEF EntryOK

LEMMA OldEntryOK ==
  ASSUME NEW s, NEW r, NEW i, NEW p, ReadStep(s, r, i, p), NEW e \in 1 .. Len(st), e \notin Landed(s, i)
  PROVE  EntryOK(r.ctrls, e)'
<1> PICK q : q = Source(e)
  OBVIOUS
<1> PICK k : k = Nth(e)
  OBVIOUS
<1> PICK j : j = HomeIdx(q, k)
  OBVIOUS
<1>1. /\ q \in 1 .. (p - 1) /\ k \in 1 .. Slots(code[q])
      /\ Source(e)' = q /\ Nth(e)' = k /\ code'[q] = code[q] /\ seen'[q] = seen[q]
      /\ HomeIdx(q, k)' = j /\ HomeStart(q, k)' = HomeStart(q, k)
      /\ (HomeLoop(q, k)' <=> HomeLoop(q, k))
      /\ Carries(q, k)' = Carries(q, k) /\ Pops(q, k)' = Pops(q, k)
  BY OldEntry
<1>2. /\ p \in Nat /\ p >= 1 /\ (\A x : x \in DOMAIN code' <=> x \in 1 .. p)
      /\ (\A x : x \in DOMAIN st <=> x \in 1 .. Len(st)) /\ Grows(s, r, i, p)
  BY StepParts DEF ReadStep
<1>3. EntryOK(s.ctrls, e)
  BY <1>2 DEF ReadStep, EntriesOK
<1>4. st'[e].vals = st[e].vals /\ st'[e].pop = st[e].pop /\ st'[e].to = st[e].to /\ st'[e].skip = st[e].skip
  BY DEF ReadStep, EntryStep
<1>5. q \in DOMAIN code' /\ k \in 1 .. Slots(code'[q]) /\ st[e].vals = Carries(q, k) /\ st[e].pop = Pops(q, k)
  BY <1>1, <1>2, <1>3 DEF EntryOK
<1>6. CASE Landing(q, k, st[e].to, st[e].skip)
  <2> PICK to : to = st[e].to
    OBVIOUS
  <2> PICK skip : skip = st[e].skip
    OBVIOUS
  <2>1. Landing(q, k, to, skip)'
    BY <1>1, <1>2, <1>6, LandingStays
  <2>2. Landing(q, k, st[e].to, st[e].skip)'
    BY <1>4, <2>1 DEF Landing
  <2> QED
    BY <1>1, <1>4, <1>5, <2>2 DEF EntryOK
<1>7. CASE ~HomeLoop(q, k) /\ PendingIn(s.ctrls, e) /\ st[e].to = 0 /\ st[e].skip = 0
  <2>1. /\ Len(s.ctrls) \in Nat /\ Len(s.ctrls) >= 1 /\ Len(r.ctrls) \in Nat
        /\ (\A x : x \in DOMAIN s.ctrls <=> x \in 1 .. Len(s.ctrls))
        /\ (\A x : x \in DOMAIN r.ctrls <=> x \in 1 .. Len(r.ctrls))
        /\ i.op = "end" => Len(r.ctrls) = Len(s.ctrls) - 1
        /\ Opens(i) => Len(r.ctrls) = Len(s.ctrls) + 1
        /\ i.op # "end" /\ ~Opens(i) => Len(r.ctrls) = Len(s.ctrls)
        /\ \A x \in 1 .. Len(s.ctrls) : x <= Len(r.ctrls) =>
             /\ SameFrame(s.ctrls[x], r.ctrls[x]) /\ FrameStep(s, r, i, x)
    BY FramesAfter
  <2>2. /\ j \in DOMAIN s.ctrls /\ s.ctrls[j].start = HomeStart(q, k)
        /\ IF code[q].op = "if" THEN s.ctrls[j].else = e ELSE e \in s.ctrls[j].fixups
    BY <1>7 DEF PendingIn
  <2>3. j \in 1 .. Len(s.ctrls)
    BY <2>1, <2>2
  <2>4. i.op = "end" => j # Len(s.ctrls)
    BY <2>2 DEF Landed, TopOf
  <2>5. j <= Len(r.ctrls) /\ j \in DOMAIN r.ctrls
    <3>1. i.op = "end" \/ Len(r.ctrls) = Len(s.ctrls) \/ Len(r.ctrls) = Len(s.ctrls) + 1
      BY <2>1
    <3> QED
      BY <2>1, <2>3, <2>4, <3>1
  <2>6. SameFrame(s.ctrls[j], r.ctrls[j]) /\ FrameStep(s, r, i, j)
    BY <2>1, <2>3, <2>5
  <2>7. r.ctrls[j].start = HomeStart(q, k)
    BY <2>2, <2>6 DEF SameFrame
  <2>8. e \in s.ctrls[j].fixups => e \in r.ctrls[j].fixups
    BY <2>6 DEF FrameStep
  <2>9. s.ctrls[j].else = e => r.ctrls[j].else = e
    <3>1. i.op = "else" => s.ctrls[Len(s.ctrls)].else # e
      BY DEF Landed, TopOf
    <3> QED
      BY <2>6, <3>1 DEF FrameStep
  <2>10. PendingIn(r.ctrls, e)'
    BY <1>1, <2>2, <2>5, <2>7, <2>8, <2>9 DEF PendingIn
  <2> QED
    BY <1>1, <1>4, <1>5, <1>7, <2>10 DEF EntryOK
<1> QED
  BY <1>3, <1>6, <1>7 DEF EntryOK

\* What an instruction leaves for a frame belongs to it.
LEMMA YoungWaits ==
  ASSUME NEW s, NEW r, NEW i, NEW p, ReadStep(s, r, i, p), NEW j \in 1 .. Len(s.ctrls),
         s.ctrls[j].op # "loop", NEW e \in Joins(s, i, j), NEW g, g.start = s.ctrls[j].start
  PROVE  WaitsFor(g, j, e)' /\ code'[Source(e)'].op # "if"
<1>1. /\ Len(st) \in Nat /\ s.next = Len(st) + 1 /\ Slots(i) \in Nat /\ code'[p] = i
  BY StepParts
<1> PICK k : k = e - s.next + 1
  OBVIOUS
<1>2. k \in 1 .. Slots(i) /\ e = Len(st) + k /\ HomeAt(s, i, k) = j
  BY <1>1 DEF Joins
<1>3. /\ e \in DOMAIN st' /\ Source(e)' = p /\ Nth(e)' = k
      /\ HomeIdx(p, k)' = HomeAt(s, i, k) /\ HomeStart(p, k)' = StartAt(s, i, p, k)
      /\ (HomeLoop(p, k)' <=> LoopAt(s, i, k))
  BY <1>2, YoungEntry
<1>4. i.op # "if"
  <2>1. i.op = "if" => HomeAt(s, i, k) = Len(s.ctrls) + 1
    BY <1>2, YoungHome
  <2>2. Len(s.ctrls) \in Nat
    BY FramesAfter
  <2>3. j # Len(s.ctrls) + 1
    BY ONLY <2>2, j \in 1 .. Len(s.ctrls)
  <2> QED
    BY <1>2, <2>1, <2>3
<1>5. StartAt(s, i, p, k) = s.ctrls[j].start /\ ~LoopAt(s, i, k)
  BY <1>2, <1>4 DEF StartAt, LoopAt
<1> QED
  BY <1>1, <1>2, <1>3, <1>4, <1>5 DEF WaitsFor

LEMMA OldWaitsOK ==
  ASSUME NEW s, NEW r, NEW i, NEW p, ReadStep(s, r, i, p), NEW j \in 1 .. Len(s.ctrls), j <= Len(r.ctrls)
  PROVE  WaitsOK(r.ctrls, j)'
<1> PICK f : f = s.ctrls[j]
  OBVIOUS
<1> PICK g : g = r.ctrls[j]
  OBVIOUS
<1>1. /\ SameFrame(f, g) /\ FrameStep(s, r, i, j) /\ j \in DOMAIN s.ctrls /\ Len(s.ctrls) \in Nat
  BY FramesAfter
<1>2. WaitsOK(s.ctrls, j)
  BY <1>1 DEF ReadStep, EntriesOK
<1>3. f.start = g.start
  BY <1>1 DEF SameFrame
<1>4. g.op = "if" <=> g.else # 0
  BY <1>1, <1>2 DEF WaitsOK, FrameStep
<1>5. ASSUME NEW e \in g.fixups
      PROVE  WaitsFor(g, j, e)' /\ code'[Source(e)'].op # "if"
  <2>1. e \in f.fixups \/ (f.op # "loop" /\ e \in Joins(s, i, j))
    BY <1>1 DEF FrameStep
  <2>2. CASE e \in f.fixups
    <3>1. WaitsFor(f, j, e) /\ code[Source(e)].op # "if"
      BY <1>2, <2>2 DEF WaitsOK
    <3> QED
      BY <1>3, <3>1, WaitsStays
  <2>3. CASE f.op # "loop" /\ e \in Joins(s, i, j)
    BY <1>3, <2>3, YoungWaits
  <2> QED
    BY <2>1, <2>2, <2>3
<1>6. ASSUME g.else # 0
      PROVE  WaitsFor(g, j, g.else)' /\ code'[Source(g.else)'].op = "if" /\ st'[g.else].skip = 0
  <2> PICK e : e = g.else
    OBVIOUS
  <2>1. e = f.else /\ ~(i.op = "else" /\ j = Len(s.ctrls))
    BY <1>1, <1>6 DEF FrameStep
  <2>2. WaitsFor(f, j, e) /\ code[Source(e)].op = "if" /\ st[e].skip = 0
    BY <1>2, <1>6, <2>1 DEF WaitsOK
  <2>3. WaitsFor(g, j, e)' /\ code'[Source(e)'].op = "if"
    BY <1>3, <2>2, WaitsStays
  <2>4. e \in 1 .. Len(st)
    <3>1. e \in DOMAIN st
      BY <2>2 DEF WaitsFor
    <3> QED
      BY <3>1, StepParts
  <2>5. ~(i.op = "else" /\ e \in Landed(s, i))
    <3>1. SUFFICES ASSUME i.op = "else", e \in Landed(s, i)
                   PROVE  FALSE
      OBVIOUS
    <3>2. WaitsFor(TopOf(s), Len(s.ctrls), e)
      BY <2>4, <3>1, LandedWaits
    <3> QED
      BY <2>1, <2>2, <3>1, <3>2 DEF WaitsFor
  <2>6. st'[e].skip = st[e].skip
    BY <2>4, <2>5 DEF ReadStep, EntryStep
  <2> QED
    BY <2>2, <2>3, <2>6
<1> QED
  BY <1>4, <1>5, <1>6 DEF WaitsOK

LEMMA NewWaitsOK ==
  ASSUME NEW s, NEW r, NEW i, NEW p, ReadStep(s, r, i, p), Opens(i), NEW j, j = Len(s.ctrls) + 1
  PROVE  WaitsOK(r.ctrls, j)'
<1>1. /\ Len(s.ctrls) \in Nat /\ Len(r.ctrls) = j /\ TopOf(r).start = p + 1 /\ TopOf(r).op = i.op
      /\ NewFrame(s, r, i, Len(trys) + 1)
  BY FramesAfter
<1> PICK g : g = r.ctrls[j]
  OBVIOUS
<1>2. /\ g.start = p + 1 /\ g.op = i.op /\ g.fixups = {} /\ g.else = IF i.op = "if" THEN s.next ELSE 0
  BY <1>1 DEF NewFrame, TopOf
<1>3. Len(st) \in Nat /\ s.next = Len(st) + 1 /\ code'[p] = i
  BY StepParts
<1>4. g.op = "if" <=> g.else # 0
  BY <1>2, <1>3
<1>5. ASSUME g.else # 0
      PROVE  WaitsFor(g, j, g.else)' /\ code'[Source(g.else)'].op = "if" /\ st'[g.else].skip = 0
  <2> PICK e : e = g.else
    OBVIOUS
  <2>1. i.op = "if" /\ e = Len(st) + 1
    BY <1>2, <1>3, <1>5
  <2>2. 1 \in 1 .. Slots(i)
    BY <2>1 DEF Slots
  <2>3. /\ e \in DOMAIN st' /\ st'[e] = NewEntry(s, i, p, 1) /\ Source(e)' = p /\ Nth(e)' = 1
        /\ HomeIdx(p, 1)' = HomeAt(s, i, 1) /\ HomeStart(p, 1)' = StartAt(s, i, p, 1)
        /\ (HomeLoop(p, 1)' <=> LoopAt(s, i, 1))
    BY <2>1, <2>2, YoungEntry
  <2>4. HomeAt(s, i, 1) = j /\ StartAt(s, i, p, 1) = g.start /\ ~LoopAt(s, i, 1)
    BY <1>2, <2>1 DEF HomeAt, StartAt, LoopAt
  <2>5. WaitsFor(g, j, e)'
    BY <2>3, <2>4 DEF WaitsFor
  <2>6. st'[e].skip = 0
    BY <2>3 DEF NewEntry
  <2> QED
    BY <1>3, <2>1, <2>3, <2>5, <2>6
<1> QED
  BY <1>2, <1>4, <1>5 DEF WaitsOK

LEMMA EntriesGrow ==
  ASSUME NEW s, NEW r, NEW i, NEW p, ReadStep(s, r, i, p)
  PROVE  EntriesOK(r.ctrls)'
<1>1. /\ p \in Nat /\ seen'[p + 1] = r /\ Len(seen') = p + 1
      /\ s.next = Len(st) + 1 /\ s.next \in Nat /\ Len(st) \in Nat /\ r.next = s.next + Slots(i)
      /\ st' \in Seq(EntrySet) /\ Len(st') = Len(st) + Slots(i) /\ Slots(i) \in Nat
      /\ (\A e : e \in DOMAIN st' <=> e \in 1 .. (Len(st) + Slots(i)))
  BY StepParts
<1>2. Len(st') + 1 = seen'[Len(seen')].next
  BY <1>1
<1>3. (\A e \in DOMAIN st : EntryOK(r.ctrls, e))'
  <2> SUFFICES ASSUME NEW e \in DOMAIN st'
               PROVE  EntryOK(r.ctrls, e)'
    OBVIOUS
  <2>1. CASE e \in 1 .. Len(st)
    BY <2>1, LandedEntryOK, OldEntryOK
  <2>2. CASE e \notin 1 .. Len(st)
    <3> PICK k : k = e - Len(st)
      OBVIOUS
    <3>1. k \in 1 .. Slots(i) /\ e = Len(st) + k
      BY <1>1, <2>2
    <3> QED
      BY <3>1, YoungEntryOK
  <2> QED
    BY <2>1, <2>2
<1>4. (\A j \in DOMAIN r.ctrls : WaitsOK(r.ctrls, j))'
  <2> SUFFICES ASSUME NEW j \in DOMAIN r.ctrls
               PROVE  WaitsOK(r.ctrls, j)'
    OBVIOUS
  <2>1. /\ Len(s.ctrls) \in Nat /\ Len(s.ctrls) >= 1 /\ Len(r.ctrls) \in Nat
        /\ (\A x : x \in DOMAIN r.ctrls <=> x \in 1 .. Len(r.ctrls))
        /\ i.op = "end" => Len(r.ctrls) = Len(s.ctrls) - 1
        /\ Opens(i) => Len(r.ctrls) = Len(s.ctrls) + 1
        /\ i.op # "end" /\ ~Opens(i) => Len(r.ctrls) = Len(s.ctrls)
    BY FramesAfter
  <2>2. j \in 1 .. Len(r.ctrls)
    BY <2>1
  <2>3. CASE j \in 1 .. Len(s.ctrls)
    <3>1. j <= Len(r.ctrls)
      BY <2>1, <2>2
    <3> QED
      BY <2>3, <3>1, OldWaitsOK
  <2>4. CASE j \notin 1 .. Len(s.ctrls)
    <3>1. j = Len(s.ctrls) + 1 /\ Len(r.ctrls) = Len(s.ctrls) + 1
      <4>1. Len(r.ctrls) \in {Len(s.ctrls) - 1, Len(s.ctrls), Len(s.ctrls) + 1}
        BY <2>1
      <4> QED
        BY ONLY <2>1, <2>2, <2>4, <4>1
    <3>2. Opens(i)
      BY <2>1, <3>1
    <3> QED
      BY <3>1, <3>2, NewWaitsOK
  <2> QED
    BY <2>3, <2>4
<1> QED
  BY <1>1, <1>2, <1>3, <1>4 DEF EntriesOK

(***************************************************************************)
(* The try metadata behind one instruction                                 *)
(***************************************************************************)
WithEnd(t, q) == [t EXCEPT !.end = q]
TryMade(s, p) == [at |-> p + 1, stp |-> s.next, end |-> 0]
TryStep(s, i, p) ==
  /\ i.op = "try_table" => trys' = Append(trys, TryMade(s, p))
  /\ i.op = "end" =>
       trys' = IF TopOf(s).try = 0 THEN trys
               ELSE [trys EXCEPT ![TopOf(s).try] = WithEnd(trys[TopOf(s).try], p + 1)]
  /\ i.op \notin {"try_table", "end"} => trys' = trys

LEMMA EndMarked ==
  ASSUME NEW t \in TrySet, NEW q \in Nat
  PROVE  WithEnd(t, q) \in TrySet /\ WithEnd(t, q).at = t.at /\ WithEnd(t, q).stp = t.stp /\ WithEnd(t, q).end = q
BY DEF WithEnd, TrySet

LEMMA TryEffect ==
  ASSUME NEW s, NEW r, NEW i, NEW p, ReadStep(s, r, i, p), TrysOK(s.ctrls), TryStep(s, i, p)
  PROVE  /\ trys \in Seq(TrySet) /\ Len(trys) \in Nat /\ (\A t : t \in DOMAIN trys <=> t \in 1 .. Len(trys))
         /\ trys' \in Seq(TrySet) /\ Len(trys') = Len(trys) + (IF i.op = "try_table" THEN 1 ELSE 0)
         /\ (\A t : t \in DOMAIN trys' <=> t \in 1 .. Len(trys'))
         /\ \A t \in 1 .. Len(trys) :
              /\ trys'[t].at = trys[t].at /\ trys'[t].stp = trys[t].stp
              /\ trys'[t].end = IF i.op = "end" /\ t = TopOf(s).try THEN p + 1 ELSE trys[t].end
         /\ i.op = "try_table" => trys'[Len(trys) + 1] = TryMade(s, p)
<1>1. trys \in Seq(TrySet) /\ Len(trys) \in Nat /\ (\A t : t \in DOMAIN trys <=> t \in 1 .. Len(trys))
  <2>1. trys \in Seq(TrySet)
    BY DEF TrysOK
  <2> QED
    BY <2>1
<1>2. p \in Nat /\ s.next \in Nat
  BY StepParts
<1>3. CASE i.op = "try_table"
  <2>1. trys' = Append(trys, TryMade(s, p))
    BY <1>3 DEF TryStep
  <2>2. TryMade(s, p) \in TrySet
    BY <1>2 DEF TryMade, TrySet
  <2>3. /\ trys' \in Seq(TrySet) /\ Len(trys') = Len(trys) + 1
        /\ (\A t \in 1 .. Len(trys) : trys'[t] = trys[t]) /\ trys'[Len(trys) + 1] = TryMade(s, p)
    BY <1>1, <2>1, <2>2, AppendEffect
  <2>4. \A t : t \in DOMAIN trys' <=> t \in 1 .. Len(trys')
    BY <2>3
  <2> QED
    BY <1>1, <1>3, <2>3, <2>4
<1>4. CASE i.op = "end" /\ TopOf(s).try # 0
  <2> PICK u : u = TopOf(s).try
    OBVIOUS
  <2>1. Len(s.ctrls) \in DOMAIN s.ctrls
    BY FramesAfter
  <2>2. u \in DOMAIN trys
    BY <1>4, <2>1 DEF TrysOK, TopOf
  <2>3. trys[u] \in TrySet /\ u \in 1 .. Len(trys) /\ p + 1 \in Nat
    BY <1>1, <1>2, <2>2
  <2>4. /\ WithEnd(trys[u], p + 1) \in TrySet /\ WithEnd(trys[u], p + 1).at = trys[u].at
        /\ WithEnd(trys[u], p + 1).stp = trys[u].stp /\ WithEnd(trys[u], p + 1).end = p + 1
    BY ONLY <2>3, EndMarked
  <2>5. trys' = [trys EXCEPT ![u] = WithEnd(trys[u], p + 1)]
    BY <1>4 DEF TryStep
  <2> PICK v : v = WithEnd(trys[u], p + 1)
    OBVIOUS
  <2>6. trys' \in Seq(TrySet) /\ Len(trys') = Len(trys)
        /\ \A t \in 1 .. Len(trys) : trys'[t] = IF t = u THEN v ELSE trys[t]
    <3>1. trys' = [trys EXCEPT ![u] = v] /\ v \in TrySet
      BY <2>4, <2>5
    <3> QED
      BY ONLY <1>1, <2>3, <3>1
  <2>7. \A t : t \in DOMAIN trys' <=> t \in 1 .. Len(trys')
    BY <2>6
  <2> QED
    BY <1>1, <1>4, <2>4, <2>6, <2>7
<1>5. CASE i.op # "try_table" /\ ~(i.op = "end" /\ TopOf(s).try # 0)
  <2>1. trys' = trys
    BY <1>5 DEF TryStep
  <2>2. \A t \in 1 .. Len(trys) : ~(i.op = "end" /\ t = TopOf(s).try)
    BY <1>5
  <2> QED
    BY <1>1, <1>5, <2>1, <2>2
<1> QED
  BY <1>3, <1>4, <1>5

LEMMA OldTryOK ==
  ASSUME NEW s, NEW r, NEW i, NEW p, ReadStep(s, r, i, p), TrysOK(s.ctrls), TryStep(s, i, p),
         NEW t \in 1 .. Len(trys)
  PROVE  TryOK(r.ctrls, t)'
<1> PICK b : b = trys[t].at
  OBVIOUS
<1> PICK j : j = Len(seen[b].ctrls)
  OBVIOUS
<1>1. /\ trys \in Seq(TrySet) /\ (\A x : x \in DOMAIN trys <=> x \in 1 .. Len(trys)) /\ Len(trys) \in Nat
      /\ trys'[t].at = b /\ trys'[t].stp = trys[t].stp
      /\ trys'[t].end = IF i.op = "end" /\ t = TopOf(s).try THEN p + 1 ELSE trys[t].end
  BY TryEffect
<1>2. TryOK(s.ctrls, t) /\ t \in DOMAIN trys
  BY <1>1 DEF TrysOK
<1>3. /\ b - 1 \in DOMAIN code /\ code[b - 1].op = "try_table" /\ trys[t].stp = seen[b - 1].next
      /\ \/ j \in DOMAIN s.ctrls /\ s.ctrls[j].start = b /\ s.ctrls[j].try = t
         \/ ClosedBy("end", trys[t].end, j, b)
  BY <1>2 DEF TryOK
<1>4. /\ p \in Nat /\ p >= 1 /\ (\A x \in 1 .. (p - 1) : code'[x] = code[x]) /\ (\A x \in 1 .. p : seen'[x] = seen[x])
      /\ (\A x : x \in DOMAIN code <=> x \in 1 .. (p - 1)) /\ (\A x : x \in DOMAIN code' <=> x \in 1 .. p)
      /\ code'[p] = i /\ seen'[p] = s /\ HeldOK(s, p) /\ Grows(s, r, i, p)
  <2>1. ReadStep(s, r, i, p)
    OBVIOUS
  <2>2. /\ p \in Nat /\ p >= 1 /\ (\A x \in 1 .. (p - 1) : code'[x] = code[x]) /\ (\A x \in 1 .. p : seen'[x] = seen[x])
        /\ (\A x : x \in DOMAIN code <=> x \in 1 .. (p - 1)) /\ (\A x : x \in DOMAIN code' <=> x \in 1 .. p)
        /\ code'[p] = i /\ seen'[p] = s /\ HeldOK(s, p)
    BY ONLY <2>1, StepParts
  <2>3. Grows(s, r, i, p)
    BY ONLY <2>1 DEF ReadStep
  <2> QED
    BY ONLY <2>2, <2>3
<1>5. b \in Nat
  <2>1. trys[t] \in TrySet
    BY <1>1
  <2> QED
    BY <2>1 DEF TrySet
<1>6. b \in 2 .. p
  BY <1>3, <1>4, <1>5
<1>7. b - 1 \in 1 .. (p - 1) /\ b - 1 \in 1 .. p /\ b \in 1 .. p
  BY <1>4, <1>6
<1>8. code'[b - 1] = code[b - 1] /\ seen'[b - 1] = seen[b - 1] /\ seen'[b] = seen[b] /\ b - 1 \in DOMAIN code'
  BY <1>4, <1>7
<1>9. /\ Len(s.ctrls) \in Nat /\ Len(s.ctrls) >= 1 /\ Len(r.ctrls) \in Nat
      /\ (\A x : x \in DOMAIN s.ctrls <=> x \in 1 .. Len(s.ctrls))
      /\ (\A x : x \in DOMAIN r.ctrls <=> x \in 1 .. Len(r.ctrls))
      /\ i.op = "end" => Len(r.ctrls) = Len(s.ctrls) - 1
      /\ Opens(i) => Len(r.ctrls) = Len(s.ctrls) + 1
      /\ i.op # "end" /\ ~Opens(i) => Len(r.ctrls) = Len(s.ctrls)
      /\ \A x \in 1 .. Len(s.ctrls) : x <= Len(r.ctrls) =>
           /\ SameFrame(s.ctrls[x], r.ctrls[x]) /\ FrameStep(s, r, i, x)
  BY FramesAfter
<1>10. \/ j \in DOMAIN r.ctrls /\ r.ctrls[j].start = b /\ r.ctrls[j].try = t
       \/ ClosedBy("end", trys[t].end, j, b)'
  <2>1. CASE i.op = "end" /\ t = TopOf(s).try
    <3> PICK n : n = Len(s.ctrls)
      OBVIOUS
    <3>1. n \in DOMAIN s.ctrls /\ s.ctrls[n].try = t /\ t # 0 /\ n \in Nat /\ n >= 1
      BY <1>9, <2>1 DEF TopOf
    <3>2. s.ctrls[n].start = b
      BY <3>1 DEF TrysOK
    <3>3. FrameOK(s, n, p)
      BY <1>4, <3>1 DEF HeldOK
    <3>4. n > 1
      <4>1. n = 1 => b = 1
        BY <3>2, <3>3 DEF FrameOK
      <4>2. b # 1
        BY <1>6
      <4> QED
        BY ONLY <3>1, <4>1, <4>2
    <3>5. j = n
      BY <3>2, <3>3, <3>4 DEF FrameOK
    <3>6. trys'[t].end = p + 1 /\ (p + 1) - 1 = p /\ p \in DOMAIN code'
      BY <1>1, <1>4, <2>1
    <3>7. ClosedBy("end", trys[t].end, j, b)'
      BY <1>4, <2>1, <3>1, <3>2, <3>5, <3>6 DEF ClosedBy, OpenIn
    <3> QED
      BY <3>7
  <2>2. CASE ~(i.op = "end" /\ t = TopOf(s).try)
    <3>1. trys'[t].end = trys[t].end
      BY <1>1, <2>2
    <3>2. CASE ClosedBy("end", trys[t].end, j, b)
      <4> PICK q : q = trys[t].end
        OBVIOUS
      <4>1. ClosedBy("end", q, j, b)'
        BY <1>4, <3>2, ClosedStays
      <4>2. ClosedBy("end", trys[t].end, j, b)'
        BY <3>1, <4>1 DEF ClosedBy
      <4> QED
        BY <4>2
    <3>3. CASE j \in DOMAIN s.ctrls /\ s.ctrls[j].start = b /\ s.ctrls[j].try = t
      <4>1. j \in 1 .. Len(s.ctrls) /\ (i.op = "end" => j # Len(s.ctrls))
        BY <1>9, <2>2, <3>3 DEF TopOf
      <4>2. i.op = "end" \/ Len(r.ctrls) = Len(s.ctrls) \/ Len(r.ctrls) = Len(s.ctrls) + 1
        BY <1>9
      <4>3. j <= Len(r.ctrls) /\ j \in DOMAIN r.ctrls
        BY <1>9, <4>1, <4>2, SMTT(40)
      <4>4. SameFrame(s.ctrls[j], r.ctrls[j]) /\ FrameStep(s, r, i, j)
        BY <1>9, <4>1, <4>3
      <4> QED
        BY <3>3, <4>3, <4>4 DEF SameFrame, FrameStep
    <3> QED
      BY <1>3, <3>2, <3>3
  <2> QED
    BY <2>1, <2>2
<1> QED
  BY <1>1, <1>3, <1>8, <1>10 DEF TryOK

LEMMA TrysGrow ==
  ASSUME NEW s, NEW r, NEW i, NEW p, ReadStep(s, r, i, p), TrysOK(s.ctrls), TryStep(s, i, p)
  PROVE  TrysOK(r.ctrls)'
<1>1. /\ trys \in Seq(TrySet) /\ Len(trys) \in Nat /\ (\A t : t \in DOMAIN trys <=> t \in 1 .. Len(trys))
      /\ trys' \in Seq(TrySet) /\ Len(trys') = Len(trys) + (IF i.op = "try_table" THEN 1 ELSE 0)
      /\ (\A t : t \in DOMAIN trys' <=> t \in 1 .. Len(trys'))
      /\ (\A t \in 1 .. Len(trys) : trys'[t].at = trys[t].at)
      /\ (i.op = "try_table" => trys'[Len(trys) + 1] = TryMade(s, p))
  BY TryEffect
<1> PICK N : N = Len(trys)
  OBVIOUS
<1>2. N \in Nat /\ (\A t : t \in DOMAIN trys' <=> t \in 1 .. N \/ (i.op = "try_table" /\ t = N + 1))
      /\ (\A t : t \in DOMAIN trys <=> t \in 1 .. N)
  BY <1>1
<1>3. /\ p \in Nat /\ p >= 1 /\ (\A x \in 1 .. (p - 1) : code'[x] = code[x])
      /\ (\A x : x \in DOMAIN code <=> x \in 1 .. (p - 1)) /\ (\A x : x \in DOMAIN code' <=> x \in 1 .. p)
      /\ code'[p] = i /\ seen'[p] = s /\ seen'[p + 1] = r
  BY StepParts
<1>4. \A t \in 1 .. N : trys[t].at - 1 \in 1 .. (p - 1) /\ trys[t].at \in Nat
  <2> TAKE t \in 1 .. N
  <2>1. t \in DOMAIN trys /\ trys[t] \in TrySet
    BY <1>1, <1>2
  <2>2. TryOK(s.ctrls, t)
    BY <2>1 DEF TrysOK
  <2> QED
    BY <1>3, <2>1, <2>2 DEF TryOK, TrySet
<1>5. /\ Len(s.ctrls) \in Nat /\ Len(s.ctrls) >= 1 /\ Len(r.ctrls) \in Nat
      /\ (\A x : x \in DOMAIN s.ctrls <=> x \in 1 .. Len(s.ctrls))
      /\ (\A x : x \in DOMAIN r.ctrls <=> x \in 1 .. Len(r.ctrls))
      /\ i.op = "end" => Len(r.ctrls) = Len(s.ctrls) - 1
      /\ Opens(i) => Len(r.ctrls) = Len(s.ctrls) + 1 /\ TopOf(r).start = p + 1 /\ TopOf(r).op = i.op
      /\ i.op # "end" /\ ~Opens(i) => Len(r.ctrls) = Len(s.ctrls)
      /\ (\A x \in 1 .. Len(s.ctrls) : x <= Len(r.ctrls) =>
           /\ SameFrame(s.ctrls[x], r.ctrls[x]) /\ FrameStep(s, r, i, x))
      /\ Opens(i) => NewFrame(s, r, i, N + 1)
  BY FramesAfter
<1>6. i.op = "try_table" => Opens(i)
  BY DEF Opens
<1>7. i.op = "try_table" => /\ trys'[N + 1].at = p + 1 /\ trys'[N + 1].stp = s.next
  BY <1>1 DEF TryMade
<1>8. (\A t \in DOMAIN trys : TryOK(r.ctrls, t))'
  <2> SUFFICES ASSUME NEW t \in DOMAIN trys'
               PROVE  TryOK(r.ctrls, t)'
    OBVIOUS
  <2>1. CASE t \in 1 .. N
    BY <2>1, OldTryOK
  <2>2. CASE i.op = "try_table" /\ t = N + 1
    <3>1. trys'[t].at = p + 1 /\ trys'[t].stp = s.next /\ (p + 1) - 1 = p /\ p \in DOMAIN code'
      BY <1>3, <1>7, <2>2
    <3>2. Len(r.ctrls) \in DOMAIN r.ctrls /\ r.ctrls[Len(r.ctrls)].start = p + 1 /\ r.ctrls[Len(r.ctrls)].try = t
      BY <1>5, <1>6, <2>2 DEF NewFrame, TopOf
    <3> QED
      BY <1>3, <2>2, <3>1, <3>2 DEF TryOK
  <2> QED
    BY <1>2, <2>1, <2>2
<1>9. \A q \in DOMAIN code' : code'[q].op = "try_table" => \E t \in DOMAIN trys' : trys'[t].at = q + 1
  <2> SUFFICES ASSUME NEW q \in DOMAIN code', code'[q].op = "try_table"
               PROVE  \E t \in DOMAIN trys' : trys'[t].at = q + 1
    OBVIOUS
  <2>1. q \in 1 .. (p - 1) \/ q = p
    BY <1>3
  <2>2. CASE q \in 1 .. (p - 1)
    <3>1. q \in DOMAIN code /\ code[q].op = "try_table"
      BY <1>3, <2>2
    <3>2. PICK t \in DOMAIN trys : trys[t].at = q + 1
      BY <3>1 DEF TrysOK
    <3> QED
      BY <1>1, <1>2, <3>2
  <2>3. CASE q = p
    <3>1. i.op = "try_table"
      BY <1>3, <2>3
    <3> QED
      BY <1>2, <1>7, <2>3, <3>1
  <2> QED
    BY <2>1, <2>2, <2>3
<1>10. \A t, u \in DOMAIN trys' : trys'[t].at = trys'[u].at => t = u
  <2>1. \A t \in 1 .. N : trys'[t].at # p + 1
    <3> TAKE t \in 1 .. N
    <3>1. trys[t].at - 1 \in 1 .. (p - 1) /\ trys[t].at \in Nat /\ trys'[t].at = trys[t].at
      BY <1>1, <1>4
    <3> QED
      BY ONLY <1>3, <3>1
  <2>2. \A t, u \in 1 .. N : trys'[t].at = trys'[u].at => t = u
    BY <1>1, <1>2 DEF TrysOK
  <2> QED
    BY <1>2, <1>7, <2>1, <2>2
<1>11. \A j \in DOMAIN r.ctrls : r.ctrls[j].try # 0 =>
         r.ctrls[j].try \in DOMAIN trys' /\ trys'[r.ctrls[j].try].at = r.ctrls[j].start
  <2> SUFFICES ASSUME NEW j \in DOMAIN r.ctrls, r.ctrls[j].try # 0
               PROVE  r.ctrls[j].try \in DOMAIN trys' /\ trys'[r.ctrls[j].try].at = r.ctrls[j].start
    OBVIOUS
  <2>1. j \in 1 .. Len(r.ctrls)
    BY <1>5
  <2>2. CASE j \in 1 .. Len(s.ctrls)
    <3>1. j <= Len(r.ctrls) /\ j \in DOMAIN s.ctrls
      BY <1>5, <2>1, <2>2
    <3>2. r.ctrls[j].try = s.ctrls[j].try /\ r.ctrls[j].start = s.ctrls[j].start
      BY <1>5, <2>2, <3>1 DEF FrameStep, SameFrame
    <3>3. s.ctrls[j].try \in DOMAIN trys /\ trys[s.ctrls[j].try].at = s.ctrls[j].start
      BY <2>2, <3>1, <3>2 DEF TrysOK
    <3> QED
      BY <1>1, <1>2, <3>2, <3>3
  <2>3. CASE j \notin 1 .. Len(s.ctrls)
    <3>1. j = Len(r.ctrls) /\ Len(r.ctrls) = Len(s.ctrls) + 1
      <4>1. Len(r.ctrls) \in {Len(s.ctrls) - 1, Len(s.ctrls), Len(s.ctrls) + 1}
        BY <1>5
      <4> QED
        BY ONLY <1>5, <2>1, <2>3, <4>1
    <3>2. Opens(i)
      BY <1>5, <3>1
    <3>3. r.ctrls[j].try = (IF i.op = "try_table" THEN N + 1 ELSE 0) /\ r.ctrls[j].start = p + 1
      BY <1>5, <3>1, <3>2 DEF NewFrame, TopOf
    <3>4. i.op = "try_table" /\ r.ctrls[j].try = N + 1
      BY <2>3, <3>3
    <3> QED
      BY <1>2, <1>7, <3>3, <3>4
  <2> QED
    BY <2>2, <2>3
<1> QED
  BY <1>1, <1>8, <1>9, <1>10, <1>11 DEF TrysOK

(***************************************************************************)
(* The invariant of the validation                                         *)
(***************************************************************************)
LEMMA TopElse ==
  ASSUME EntriesOK(ctrls), NEW n, n = Len(ctrls), n \in DOMAIN ctrls, Top.op = "if", Len(st) \in Nat
  PROVE  Top.else \in 1 .. Len(st)
<1>1. WaitsOK(ctrls, n)
  BY DEF EntriesOK
<1>2. Top = ctrls[n]
  BY DEF Top
<1>3. Top.else \in DOMAIN st /\ st \in Seq(EntrySet)
  BY <1>1, <1>2 DEF WaitsOK, WaitsFor, EntriesOK
<1> QED
  BY <1>3

LEMMA ReadsDo ==
  ASSUME ValidatorInv, NEW i, Read(i), NEW s, s = Held, NEW p, p = Len(code) + 1, NEW r, r = Held'
  PROVE  /\ Reads(s, i, p) /\ Reading(i) /\ Did(s, r, i, p) /\ Wrote(s, i, p) /\ set' = Known(r)
         /\ TryStep(s, i, p) /\ seen' = Append(seen, r)
<1>1. /\ \/ ReadUnreachable(i) \/ ReadBlock(i) \/ ReadIf(i) \/ ReadElse(i) \/ ReadThrow(i)
         \/ ReadEnd(i) \/ ReadBr(i) \/ ReadBrIf(i) \/ ReadBrTable(i) \/ ReadReturn(i)
         \/ ReadDrop(i) \/ ReadTryTable(i) \/ ReadLocalGet(i) \/ ReadLocalSet(i) \/ ReadConst(i)
      /\ seen' = Append(seen, r)
  BY DEF Read
<1>2. Reading(i)
  BY <1>1 DEF ReadUnreachable, ReadBlock, ReadIf, ReadElse, ReadThrow, ReadEnd, ReadBr, ReadBrIf, ReadBrTable,
              ReadReturn, ReadDrop, ReadTryTable, ReadLocalGet, ReadLocalSet, ReadConst
<1>3. Reads(s, i, p)
  BY <1>2, Reader
<1>4. EntriesOK(ctrls) /\ TrysOK(ctrls)
  BY <1>2 DEF ValidatorInv, Reading
<1>5. Len(trys) \in Nat
  <2>1. trys \in Seq(TrySet)
    BY <1>4 DEF TrysOK
  <2> QED
    BY <2>1
<1>6. Did(s, r, i, p) /\ Wrote(s, i, p) /\ set' = Known(r)
  <2>1. CASE ReadUnreachable(i) \/ ReadThrow(i) \/ ReadReturn(i)
    BY <1>3, <2>1, StopsRead
  <2>2. CASE ReadBlock(i)
    BY <1>3, <2>2, BlockRead
  <2>3. CASE ReadIf(i)
    BY <1>3, <2>3, IfRead
  <2>4. CASE ReadElse(i)
    <3>1. Top.op = "if"
      BY <2>4 DEF ReadElse
    <3>2. Len(st) \in Nat /\ ctrls \in Seq(FrameSet) /\ ctrls # <<>>
      <4>1. s \in HeldSet /\ s.ctrls = ctrls /\ s.ctrls # <<>> /\ Len(st) \in Nat
        BY <1>3 DEF Reads
      <4> QED
        BY <4>1, RecordParts
    <3>3. Len(ctrls) \in DOMAIN ctrls
      BY <3>2
    <3>4. Top.else \in 1 .. Len(st)
      BY <1>4, <3>1, <3>2, <3>3, TopElse
    <3> QED
      BY <1>3, <2>4, <3>4, ElseRead
  <2>5. CASE ReadEnd(i)
    BY <1>3, <2>5, EndRead
  <2>6. CASE ReadBr(i)
    BY <1>3, <2>6, BrRead
  <2>7. CASE ReadBrIf(i)
    BY <1>3, <2>7, BrIfRead
  <2>8. CASE ReadBrTable(i)
    BY <1>3, <2>8, BrTableRead
  <2>9. CASE ReadDrop(i)
    BY <1>3, <2>9, DropRead
  <2>10. CASE ReadTryTable(i)
    BY <1>3, <1>5, <2>10, TryTableRead
  <2>11. CASE ReadLocalGet(i)
    BY <1>3, <2>11, LocalGetRead
  <2>12. CASE ReadLocalSet(i)
    BY <1>3, <2>12, LocalSetRead
  <2>13. CASE ReadConst(i)
    BY <1>3, <2>13, ConstRead
  <2> QED
    BY <1>1, <2>1, <2>2, <2>3, <2>4, <2>5, <2>6, <2>7, <2>8, <2>9, <2>10, <2>11, <2>12, <2>13
<1>7. TryStep(s, i, p)
  <2>1. Top = TopOf(s) /\ Behind = p + 1 /\ s.next = Len(st) + 1
    BY <1>3 DEF Reads
  <2>2. CASE ReadTryTable(i)
    BY <2>1, <2>2 DEF ReadTryTable, TryStep, TryMade
  <2>3. CASE ReadEnd(i)
    BY <2>1, <2>3 DEF ReadEnd, TryStep, WithEnd
  <2>4. CASE ~ReadTryTable(i) /\ ~ReadEnd(i)
    <3>1. trys' = trys
      BY <1>1, <2>4 DEF ReadUnreachable, ReadBlock, ReadIf, ReadElse, ReadThrow, ReadBr, ReadBrIf, ReadBrTable,
              ReadReturn, ReadDrop, ReadLocalGet, ReadLocalSet, ReadConst
    <3>2. i.op \notin {"try_table", "end"}
      BY <1>1, <2>4 DEF ReadUnreachable, ReadBlock, ReadIf, ReadElse, ReadThrow, ReadBr, ReadBrIf, ReadBrTable,
              ReadReturn, ReadDrop, ReadLocalGet, ReadLocalSet, ReadConst
    <3> QED
      BY <3>1, <3>2 DEF TryStep
  <2> QED
    BY <2>2, <2>3, <2>4
<1> QED
  BY <1>1, <1>2, <1>3, <1>6, <1>7

LEMMA ReadKeeps ==
  ASSUME ValidatorInv, NEW i, Read(i)
  PROVE  ValidatorInv'
<1> PICK s : s = Held
  OBVIOUS
<1> PICK r : r = Held'
  OBVIOUS
<1> PICK p : p = Len(code) + 1
  OBVIOUS
<1>1. /\ Reads(s, i, p) /\ Reading(i) /\ Did(s, r, i, p) /\ Wrote(s, i, p) /\ set' = Known(r)
      /\ TryStep(s, i, p) /\ seen' = Append(seen, r)
  BY ReadsDo
<1>2. /\ HistoryOK /\ EntriesOK(ctrls) /\ TrysOK(ctrls) /\ s.ctrls = ctrls
  BY <1>1 DEF ValidatorInv, Reading, Reads
<1>3. EntriesOK(s.ctrls) /\ TrysOK(s.ctrls)
  BY <1>2
<1>4. Grows(s, r, i, p)
  BY <1>1, <1>2 DEF Grows, HistoryOK, Reads, Did, Reading
<1>5. ReadStep(s, r, i, p)
  BY <1>1, <1>2, <1>3, <1>4 DEF ReadStep, Did, Wrote
<1>6. HistoryOK'
  BY <1>2, <1>4, <1>5, HistoryGrows DEF ReadStep
<1>7. EntriesOK(r.ctrls)'
  BY <1>5, EntriesGrow
<1>8. TrysOK(r.ctrls)'
  BY <1>1, <1>3, <1>5, TrysGrow
<1>9. r.ctrls = ctrls'
  BY HeldNext
<1>10. EntriesOK(ctrls)'
  BY <1>7, <1>9 DEF EntriesOK, EntryOK, PendingIn, WaitsOK, WaitsFor
<1>11. TrysOK(ctrls)'
  BY <1>8, <1>9 DEF TrysOK, TryOK
<1>12. seen'[Len(seen')] = r
  <2>1. p \in Nat /\ seen'[p + 1] = r /\ Len(seen') = p + 1
    BY <1>5, StepParts
  <2> QED
    BY <2>1
<1>13. (set = Known(Held))' /\ (seen[Len(seen)] = Held)'
  BY <1>1, <1>12 DEF Known
<1> QED
  BY <1>6, <1>10, <1>11, <1>13 DEF ValidatorInv

\* The state a body's validation starts from.
LEMMA FirstHistory ==
  ASSUME Init
  PROVE  ValidatorInv
<1> PICK s : s = Held
  OBVIOUS
<1> PICK f : f = ctrls[1]
  OBVIOUS
<1>1. /\ f = [op |-> "block", bt |-> FuncBt, height |-> 0, inits |-> 0,
              dead |-> FALSE, start |-> 1, fixups |-> {}, else |-> 0, try |-> 0]
      /\ ctrls = <<f>>
  BY DEF Init, FuncBt
<1>2. f \in FrameSet
  BY <1>1 DEF FrameSet, FrameTypes
<1>3. /\ s.vals = <<>> /\ s.ctrls = <<f>> /\ s.inits = <<>> /\ s.next = 1 /\ s \in HeldSet
  <2>1. s = [vals |-> <<>>, ctrls |-> <<f>>, inits |-> <<>>, next |-> 1]
    BY <1>1 DEF Init, Held
  <2>2. <<f>> \in Seq(FrameSet)
    BY <1>2
  <2> QED
    BY <2>1, <2>2 DEF HeldSet
<1>4. code = <<>> /\ seen = <<s>> /\ st = <<>> /\ trys = <<>> /\ ctrls = <<f>> /\ set = Preset
  BY <1>1 DEF Init, Preset
<1>5. seen[1] = s /\ Len(seen) = 1 /\ DOMAIN seen = {1} /\ DOMAIN code = {} /\ Len(code) = 0
      /\ DOMAIN st = {} /\ DOMAIN trys = {} /\ DOMAIN ctrls = {1} /\ Len(st) = 0
  BY <1>4
<1>6. FirstRecord(s) /\ Known(s) = Preset
  <2>1. Known(s) = Preset
    BY <1>3 DEF Known
  <2> QED
    BY <1>1, <1>3, <2>1 DEF FirstRecord, Alive
<1>7. HeldOK(s, 1)
  <2>1. DOMAIN s.ctrls = {1} /\ s.ctrls[1] = f /\ s.ctrls # <<>> /\ Len(s.vals) = 0 /\ Len(s.inits) = 0 /\ DOMAIN s.inits = {}
    BY <1>3
  <2>2. FrameOK(s, 1, 1)
    BY <1>1, <2>1 DEF FrameOK
  <2> QED
    BY <2>1, <2>2 DEF HeldOK, Ordered, OncePerLocal
<1>8. FrozenWhileOpen
  <2>1. Frozen(s, s, 1)
    <3>1. s.ctrls[1] = f /\ 1 \in DOMAIN s.ctrls /\ f.height = 0 /\ f.inits = 0
      BY <1>1, <1>3
    <3>2. Len(s.vals) = 0 /\ Len(s.inits) = 0
      BY <1>3
    <3> QED
      BY <1>3, <3>1, <3>2, FrozenSelf
  <2> SUFFICES ASSUME NEW a \in DOMAIN seen, NEW b \in DOMAIN seen, NEW j \in DOMAIN seen[a].ctrls,
                      OpenIn(seen[b], j, seen[a].ctrls[j].start)
               PROVE  Frozen(seen[a], seen[b], j) /\ \A k \in a .. b : OpenIn(seen[k], j, seen[a].ctrls[j].start)
    BY DEF FrozenWhileOpen
  <2>2. a = 1 /\ b = 1
    BY <1>5
  <2>3. seen[a] = s /\ seen[b] = s
    BY <1>5, <2>2
  <2>4. j = 1
    <3>1. DOMAIN s.ctrls = {1}
      BY <1>3
    <3> QED
      BY <2>3, <3>1
  <2>5. \A k \in a .. b : k = 1
    BY ONLY <2>2
  <2> QED
    BY <1>5, <2>1, <2>3, <2>4, <2>5
<1>9. HistoryOK
  <2>1. seen \in Seq(HeldSet) /\ code \in Seq(Instr)
    BY <1>3, <1>4
  <2>2. Len(seen) = Len(code) + 1
    BY <1>5
  <2>3. \A a, b \in DOMAIN seen : a <= b => seen[a].next <= seen[b].next
    BY <1>3, <1>5
  <2> QED
    BY <1>5, <1>6, <1>7, <1>8, <2>1, <2>2, <2>3 DEF HistoryOK
<1>10. EntriesOK(ctrls)
  <2>1. st \in Seq(EntrySet)
    BY <1>4
  <2>2. ctrls[1] = f /\ seen[Len(seen)].next = 1
    BY <1>3, <1>5
  <2>3. WaitsOK(ctrls, 1)
    BY <1>1, <2>2 DEF WaitsOK
  <2> QED
    BY <1>5, <2>1, <2>2, <2>3 DEF EntriesOK
<1>11. TrysOK(ctrls)
  <2>1. trys \in Seq(TrySet)
    BY <1>4
  <2>2. ctrls[1].try = 0
    BY <1>1
  <2> QED
    BY <1>5, <2>1, <2>2 DEF TrysOK
<1> QED
  BY <1>4, <1>5, <1>6, <1>9, <1>10, <1>11 DEF ValidatorInv

\* Nothing of the pass moves.
LEMMA HistorySame ==
  ASSUME HistoryOK, code' = code, seen' = seen
  PROVE  HistoryOK'
<1>1. code \in Seq(Instr) /\ seen \in Seq(HeldSet) /\ Len(seen) = Len(code) + 1 /\ FirstRecord(seen[1])
  BY DEF HistoryOK
<1>2. (\A p \in DOMAIN seen : HeldOK(seen[p], p))'
  BY DEF HistoryOK, HeldOK, FrameOK
<1>3. (\A p \in DOMAIN code : Effect(seen[p], seen[p + 1], code[p], p))'
  BY DEF HistoryOK
<1>4. (\A p, q \in DOMAIN seen : p <= q => seen[p].next <= seen[q].next)'
  BY DEF HistoryOK
<1>5. FrozenWhileOpen'
  BY DEF HistoryOK, FrozenWhileOpen
<1> QED
  BY <1>1, <1>2, <1>3, <1>4, <1>5 DEF HistoryOK

LEMMA EntriesSame ==
  ASSUME EntriesOK(ctrls), code' = code, seen' = seen, st' = st, ctrls' = ctrls
  PROVE  EntriesOK(ctrls)'
<1>1. (\A e \in DOMAIN st : EntryOK(ctrls, e))'
  BY SMTT(40) DEF EntriesOK, EntryOK, PendingIn, Landing, ClosedBy, Source, Nth, HomeIdx, HomeStart, HomeLoop, Carries, Pops
<1>2. (\A j \in DOMAIN ctrls : WaitsOK(ctrls, j))'
  BY DEF EntriesOK, WaitsOK, WaitsFor, Source, Nth, HomeIdx, HomeStart, HomeLoop
<1>3. st' \in Seq(EntrySet) /\ Len(st') + 1 = seen'[Len(seen')].next
  BY DEF EntriesOK
<1> QED
  BY <1>1, <1>2, <1>3 DEF EntriesOK

LEMMA TrysSame ==
  ASSUME NEW cs, TrysOK(cs), code' = code, seen' = seen, trys' = trys
  PROVE  TrysOK(cs)'
BY DEF TrysOK, TryOK, ClosedBy

LEMMA ValidatorSame ==
  ASSUME ValidatorInv, UNCHANGED <<phase, code, seen, validator>>
  PROVE  ValidatorInv'
<1>1. /\ phase' = phase /\ code' = code /\ seen' = seen /\ vals' = vals /\ ctrls' = ctrls /\ set' = set
      /\ inits' = inits /\ st' = st /\ trys' = trys
  BY DEF validator
<1> SUFFICES ASSUME phase' = "validate"
             PROVE  ValidatorInv'
  BY DEF ValidatorInv
<1>2. /\ HistoryOK /\ EntriesOK(ctrls) /\ TrysOK(ctrls) /\ seen[Len(seen)] = Held /\ set = Known(Held)
  BY <1>1 DEF ValidatorInv
<1>3. HistoryOK'
  BY <1>1, <1>2, HistorySame
<1>4. EntriesOK(ctrls)'
  BY <1>1, <1>2, EntriesSame
<1>5. TrysOK(ctrls)'
  <2> PICK cs : cs = ctrls
    OBVIOUS
  <2>1. TrysOK(cs)'
    BY <1>1, <1>2, TrysSame
  <2> QED
    BY <1>1, <2>1 DEF TrysOK, TryOK
<1>6. Held' = Held
  BY <1>1 DEF Held
<1>7. (seen[Len(seen)] = Held)' /\ (set = Known(Held))'
  BY <1>1, <1>2, <1>6 DEF Known
<1> QED
  BY <1>3, <1>4, <1>5, <1>7 DEF ValidatorInv

LEMMA ValidatorStep ==
  ASSUME ValidatorInv, [Next]_vars
  PROVE  ValidatorInv'
<1>1. CASE \E i \in Instr : Read(i)
  BY <1>1, ReadKeeps
<1>2. CASE Accept \/ Reject
  BY <1>2 DEF Accept, Reject, ValidatorInv
<1>3. CASE Run
  <2>1. phase' # "validate"
    BY <1>3 DEF Run, RunConst, RunDrop, RunLocalGet, RunLocalSet, RunMarker, RunIf, RunElse, RunBr, RunBrIf,
                RunBrTable, RunReturn, RunTrap, RunTryTable, RunThrow, RunFinish, At, Step, Transfer, FrameOver
  <2> QED
    BY <2>1 DEF ValidatorInv
<1>4. CASE UNCHANGED vars
  <2>1. UNCHANGED <<phase, code, seen, validator>>
    BY <1>4 DEF vars
  <2> QED
    BY <2>1, ValidatorSame
<1> QED
  BY <1>1, <1>2, <1>3, <1>4 DEF Next

\* While a body is validated, the record kept for each position is what its
\* instructions make of the one before it, with the parts below an open frame frozen
\* since it was opened; each entry of the side table under construction either waits
\* in the frame it branches out of or has the position behind that frame's else or
\* end, and each try_table's metadata has its end (jav_typecheck_ex).
THEOREM ValidatorKeeps == Spec => []ValidatorInv
<1>1. Init => ValidatorInv
  BY FirstHistory
<1>2. ValidatorInv /\ [Next]_vars => ValidatorInv'
  BY ValidatorStep
<1> QED
  BY <1>1, <1>2, PTL DEF Spec

(***************************************************************************)
(* The table of an accepted body                                           *)
(***************************************************************************)
\* Two positions of the history.
LEMMA Positions ==
  ASSUME HistoryOK
  PROVE  /\ Len(code) \in Nat /\ Len(seen) = Len(code) + 1
         /\ (\A q : q \in DOMAIN code <=> q \in 1 .. Len(code))
         /\ (\A q : q \in DOMAIN seen <=> q \in 1 .. (Len(code) + 1))
         /\ (\A q \in DOMAIN seen : seen[q] \in HeldSet /\ seen[q].next \in Nat /\ HeldOK(seen[q], q))
         /\ (\A q \in DOMAIN code : /\ code[q] \in Instr /\ Slots(code[q]) \in Nat
                                   /\ q \in DOMAIN seen /\ q + 1 \in DOMAIN seen
                                   /\ Effect(seen[q], seen[q + 1], code[q], q)
                                   /\ seen[q + 1].next = seen[q].next + Slots(code[q]))
         /\ \A a, b \in DOMAIN seen : a <= b => seen[a].next <= seen[b].next
<1>1. code \in Seq(Instr) /\ seen \in Seq(HeldSet) /\ Len(seen) = Len(code) + 1
  BY DEF HistoryOK
<1>2. Len(code) \in Nat /\ (\A q : q \in DOMAIN code <=> q \in 1 .. Len(code))
      /\ (\A q : q \in DOMAIN seen <=> q \in 1 .. (Len(code) + 1))
  <2>1. DOMAIN code = 1 .. Len(code) /\ DOMAIN seen = 1 .. Len(seen) /\ Len(code) \in Nat
    BY <1>1
  <2> QED
    BY ONLY <1>1, <2>1
<1>3. \A q \in DOMAIN seen : seen[q] \in HeldSet /\ seen[q].next \in Nat /\ HeldOK(seen[q], q)
  <2> TAKE q \in DOMAIN seen
  <2>1. seen[q] \in HeldSet
    BY <1>1
  <2> QED
    BY <2>1, RecordParts DEF HistoryOK
<1>4. ASSUME NEW q \in DOMAIN code
      PROVE  /\ code[q] \in Instr /\ Slots(code[q]) \in Nat
             /\ q \in DOMAIN seen /\ q + 1 \in DOMAIN seen
             /\ Effect(seen[q], seen[q + 1], code[q], q)
             /\ seen[q + 1].next = seen[q].next + Slots(code[q])
  <2>1. code[q] \in Instr
    BY <1>1
  <2>2. q \in DOMAIN seen /\ q + 1 \in DOMAIN seen
    BY <1>2
  <2>3. Effect(seen[q], seen[q + 1], code[q], q)
    BY DEF HistoryOK
  <2> QED
    BY <2>1, <2>2, <2>3, SlotsNumber DEF Effect
<1> QED
  BY <1>1, <1>2, <1>3, <1>4 DEF HistoryOK

LEMMA EntryPlace ==
  ASSUME HistoryOK, NEW cs, NEW d \in DOMAIN st, EntryOK(cs, d), d \in Nat, NEW q, q = Source(d)
  PROVE  q \in DOMAIN code /\ q \in Nat /\ seen[q].next <= d /\ d < seen[q + 1].next
<1>1. q \in DOMAIN code /\ d - seen[q].next + 1 \in 1 .. Slots(code[q])
  BY DEF EntryOK, Nth
<1>2. seen[q + 1].next = seen[q].next + Slots(code[q]) /\ seen[q].next \in Nat /\ Slots(code[q]) \in Nat /\ q \in Nat
  BY <1>1, Positions
<1> QED
  BY <1>1, <1>2

\* The entries that branch from before position q are those below its cursor.
LEMMA EntriesBefore ==
  ASSUME HistoryOK, NEW cs, EntriesOK(cs), NEW q \in DOMAIN code
  PROVE  Cardinality({d \in DOMAIN st : st[d].from < q + 1}) = seen[q].next - 1
<1> PICK n : n = seen[q].next
  OBVIOUS
<1>1. q \in Nat /\ q \in DOMAIN seen /\ n \in Nat
  BY Positions
<1>2. n >= 1 /\ n <= Len(st) + 1
  <2>1. 1 \in DOMAIN seen /\ Len(seen) \in DOMAIN seen /\ 1 <= q /\ q <= Len(seen)
    BY <1>1, Positions
  <2>2. seen[1].next <= n /\ n <= seen[Len(seen)].next /\ seen[1].next = 1
    BY <1>1, <2>1, Positions DEF HistoryOK, FirstRecord
  <2>3. seen[Len(seen)].next = Len(st) + 1
    BY DEF EntriesOK
  <2> QED
    BY <2>2, <2>3
<1>3. st \in Seq(EntrySet) /\ Len(st) \in Nat /\ (\A d : d \in DOMAIN st <=> d \in 1 .. Len(st))
  <2>1. st \in Seq(EntrySet)
    BY DEF EntriesOK
  <2> QED
    BY <2>1
<1>4. ASSUME NEW d \in DOMAIN st
      PROVE  st[d].from < q + 1 <=> d < n
  <2> PICK s : s = Source(d)
    OBVIOUS
  <2>1. d \in Nat /\ EntryOK(cs, d) /\ st[d].from \in Nat
    <3>1. st[d] \in EntrySet
      BY <1>3
    <3> QED
      BY <1>3, <3>1 DEF EntriesOK, EntrySet
  <2>2. s \in DOMAIN code /\ s \in Nat /\ seen[s].next <= d /\ d < seen[s + 1].next
    BY <2>1, EntryPlace
  <2>3. s \in DOMAIN seen /\ s + 1 \in DOMAIN seen /\ seen[s].next \in Nat /\ seen[s + 1].next \in Nat
    BY <2>2, Positions
  <2>4. st[d].from = s + 1
    BY <2>1 DEF Source
  <2>5. s < q => seen[s + 1].next <= n
    <3>1. s < q => s + 1 <= q
      BY <1>1, <2>2
    <3> QED
      BY <1>1, <2>3, <3>1, Positions
  <2>6. q <= s => n <= seen[s].next
    BY <1>1, <2>3, Positions
  <2> QED
    BY ONLY <1>1, <2>1, <2>2, <2>3, <2>4, <2>5, <2>6
<1>5. {d \in DOMAIN st : st[d].from < q + 1} = 1 .. (n - 1)
  <2>1. \A d : d \in DOMAIN st /\ d < n <=> d \in 1 .. (n - 1)
    BY ONLY <1>1, <1>2, <1>3
  <2> QED
    BY <1>4, <2>1
<1>6. Cardinality(1 .. (n - 1)) = n - 1
  <2>1. \A a, b \in Int : Cardinality(a .. b) = IF a > b THEN 0 ELSE b - a + 1
    BY ONLY FS_Interval
  <2> PICK c : c = 1
    OBVIOUS
  <2> PICK m : m = n - 1
    OBVIOUS
  <2>2. c \in Int /\ m \in Int
    BY <1>1
  <2>3. Cardinality(c .. m) = IF c > m THEN 0 ELSE m - c + 1
    BY ONLY <2>1, <2>2, Zenon
  <2>4. (IF c > m THEN 0 ELSE m - c + 1) = n - 1
    BY <1>1, <1>2
  <2> QED
    BY <2>3, <2>4
<1> QED
  BY <1>5, <1>6

\* The entry with number e is one of the instruction whose numbers it is among.
LEMMA SourceUnique ==
  ASSUME HistoryOK, NEW cs, EntriesOK(cs), NEW p \in DOMAIN code, NEW k \in 1 .. Slots(code[p]),
         NEW e, e = seen[p].next + k - 1
  PROVE  e \in DOMAIN st /\ e \in Nat /\ Source(e) = p /\ Nth(e) = k /\ EntryOK(cs, e)
<1>1. /\ p \in Nat /\ p \in DOMAIN seen /\ p + 1 \in DOMAIN seen /\ seen[p].next \in Nat /\ Slots(code[p]) \in Nat
      /\ seen[p + 1].next = seen[p].next + Slots(code[p])
  BY Positions
<1>2. e \in Nat /\ seen[p].next <= e /\ e < seen[p + 1].next
  BY <1>1
<1>3. e \in DOMAIN st
  <2>1. 1 \in DOMAIN seen /\ Len(seen) \in DOMAIN seen /\ 1 <= p /\ p + 1 <= Len(seen)
    BY <1>1, Positions
  <2>2. seen[1].next <= seen[p].next /\ seen[p + 1].next <= seen[Len(seen)].next /\ seen[1].next = 1
    BY <1>1, <2>1, Positions DEF HistoryOK, FirstRecord
  <2>3. seen[Len(seen)].next = Len(st) + 1 /\ st \in Seq(EntrySet) /\ Len(st) \in Nat
    BY DEF EntriesOK
  <2>4. e \in 1 .. Len(st)
    BY <1>1, <1>2, <2>2, <2>3
  <2> QED
    BY <2>3, <2>4
<1>4. EntryOK(cs, e)
  BY <1>3 DEF EntriesOK
<1> PICK s : s = Source(e)
  OBVIOUS
<1>5. s \in DOMAIN code /\ s \in Nat /\ seen[s].next <= e /\ e < seen[s + 1].next
  BY <1>2, <1>3, <1>4, EntryPlace
<1>6. s \in DOMAIN seen /\ s + 1 \in DOMAIN seen /\ seen[s].next \in Nat /\ seen[s + 1].next \in Nat
  BY <1>5, Positions
<1>7. s < p => seen[s + 1].next <= seen[p].next
  <2>1. s < p => s + 1 <= p
    BY <1>1, <1>5
  <2> QED
    BY <1>1, <1>6, <2>1, Positions
<1>8. p < s => seen[p + 1].next <= seen[s].next
  <2>1. p < s => p + 1 <= s
    BY <1>1, <1>5
  <2> QED
    BY <1>1, <1>6, <2>1, Positions
<1>9. s = p
  BY ONLY <1>1, <1>2, <1>5, <1>6, <1>7, <1>8
<1>10. Nth(e) = k
  BY <1>1, <1>9 DEF Nth
<1> QED
  BY <1>2, <1>3, <1>4, <1>9, <1>10

\* Where a branch lands: a position of the body, behind an instruction that leaves
\* as many entries as the branch skips.
LEMMA LandsInside ==
  ASSUME HistoryOK, NEW p \in DOMAIN code, NEW k \in 1 .. Slots(code[p]), NEW to \in Nat, NEW skip,
         Landing(p, k, to, skip)
  PROVE  /\ to \in DOMAIN seen /\ to - 1 \in DOMAIN code /\ skip \in {0, 1}
         /\ seen[to].next = seen[to - 1].next + skip
<1> PICK j : j = HomeIdx(p, k)
  OBVIOUS
<1> PICK b : b = HomeStart(p, k)
  OBVIOUS
<1>1. to - 1 \in DOMAIN code /\ skip \in {0, 1} /\ Slots(code[to - 1]) = skip
  <2>1. CASE HomeLoop(p, k) /\ to = b /\ skip = 0
    <3> PICK s : s = seen[p]
      OBVIOUS
    <3>1. /\ s \in HeldSet /\ HeldOK(s, p) /\ code[p] \in Instr /\ Effect(s, seen[p + 1], code[p], p) /\ p \in 1 .. Len(code)
          /\ Len(code) \in Nat
      BY Positions
    <3>2. code[p].op # "if" /\ s.ctrls[j].op = "loop"
      BY <2>1 DEF HomeLoop, HomeIdx, LoopAt
    <3>3. j \in DOMAIN s.ctrls /\ j \in Nat /\ j >= 1
      <4>1. j = HomeAt(s, code[p], k)
        BY DEF HomeIdx
      <4>2. j \in 1 .. Len(s.ctrls)
        BY <3>1, <3>2, <4>1, HomeInside
      <4> QED
        BY <3>1, <4>2, RecordParts
    <3>4. FrameOK(s, j, p)
      BY <3>1, <3>3 DEF HeldOK
    <3>5. j > 1
      <4>1. j = 1 => s.ctrls[j].op = "block"
        BY <3>4 DEF FrameOK
      <4> QED
        BY <3>2, <3>3, <4>1
    <3>6. to = s.ctrls[j].start
      BY <2>1, <3>2 DEF HomeStart, HomeIdx, StartAt
    <3>7. to \in 2 .. p /\ code[to - 1].op = "loop"
      BY <3>2, <3>4, <3>5, <3>6 DEF FrameOK, Construct
    <3>8. to - 1 \in 1 .. Len(code)
      BY <3>1, <3>7
    <3> QED
      BY <2>1, <3>7, <3>8, Positions DEF Slots
  <2>2. CASE ClosedBy("end", to, j, b) /\ skip = 0
    BY <2>2 DEF ClosedBy, Slots
  <2>3. CASE ClosedBy("else", to, j, b) /\ skip = 1
    BY <2>3 DEF ClosedBy, Slots
  <2> QED
    BY <2>1, <2>2, <2>3 DEF Landing
<1>2. (to - 1) + 1 = to
  OBVIOUS
<1>3. to \in DOMAIN seen /\ seen[to].next = seen[to - 1].next + Slots(code[to - 1])
  BY <1>1, <1>2, Positions
<1> QED
  BY <1>1, <1>3

LEMMA DeltasIs ==
  ASSUME NEW es \in Seq(EntrySet), NEW e \in DOMAIN es
  PROVE  /\ Deltas(es)[e].ip = es[e].to - es[e].from
         /\ Deltas(es)[e].stp = Cardinality({d \in DOMAIN es : es[d].from < es[e].to}) + 1 - e + es[e].skip
         /\ Deltas(es)[e].vals = es[e].vals /\ Deltas(es)[e].pop = es[e].pop
BY DEF Deltas

LEMMA DeltasLength ==
  ASSUME NEW es \in Seq(EntrySet)
  PROVE  DOMAIN Deltas(es) = 1 .. Len(es) /\ Len(Deltas(es)) = Len(es)
<1>1. DOMAIN es = 1 .. Len(es) /\ Len(es) \in Nat
  OBVIOUS
<1>2. DOMAIN Deltas(es) = 1 .. Len(es)
  BY <1>1 DEF Deltas
<1>3. \E S : Deltas(es) \in Seq(S)
  <2> DEFINE S == {Deltas(es)[e] : e \in 1 .. Len(es)}
  <2>1. \A e \in 1 .. Len(es) : Deltas(es)[e] \in S
    OBVIOUS
  <2>2. Deltas(es) = [e \in 1 .. Len(es) |-> Deltas(es)[e]]
    BY <1>1 DEF Deltas
  <2> HIDE DEF S
  <2>3. Deltas(es) \in [1 .. Len(es) -> S]
    BY <2>1, <2>2
  <2>4. Deltas(es) \in Seq(S)
    BY <1>1, <2>3
  <2> QED
    BY <2>4
<1>4. PICK S : Deltas(es) \in Seq(S)
  BY <1>3
<1>5. Len(Deltas(es)) \in Nat /\ DOMAIN Deltas(es) = 1 .. Len(Deltas(es))
  BY <1>4
<1> QED
  BY ONLY <1>1, <1>2, <1>5

\* Each entry of the table, once no construct is open.
LEMMA EntryFinished ==
  ASSUME HistoryOK, EntriesOK(<<>>), NEW p \in DOMAIN code, NEW k \in 1 .. Slots(code[p]),
         NEW e, e = seen[p].next + k - 1,
         NEW t, t = Deltas(st)
  PROVE  /\ t[e].vals = Carries(p, k) /\ t[e].pop = Pops(p, k)
         /\ p + 1 + t[e].ip \in DOMAIN seen
         /\ e + t[e].stp = seen[p + 1 + t[e].ip].next
         /\ \E skip \in {0, 1} : Landing(p, k, p + 1 + t[e].ip, skip)
<1>1. e \in DOMAIN st /\ e \in Nat /\ Source(e) = p /\ Nth(e) = k /\ EntryOK(<<>>, e)
  BY SourceUnique
<1>2. st \in Seq(EntrySet) /\ st[e] \in EntrySet
  <2>1. st \in Seq(EntrySet)
    BY DEF EntriesOK
  <2> QED
    BY <1>1, <2>1
<1> PICK q : q = st[e].to
  OBVIOUS
<1> PICK skip : skip = st[e].skip
  OBVIOUS
<1>3. q \in Nat /\ st[e].from \in Nat /\ skip \in {0, 1}
  BY <1>2 DEF EntrySet
<1>4. Landing(p, k, q, skip) /\ st[e].vals = Carries(p, k) /\ st[e].pop = Pops(p, k)
  <2>1. ~PendingIn(<<>>, e)
    BY DEF PendingIn
  <2> QED
    BY <1>1, <2>1 DEF EntryOK
<1>5. /\ q \in DOMAIN seen /\ q - 1 \in DOMAIN code /\ seen[q].next = seen[q - 1].next + skip
  BY <1>3, <1>4, LandsInside
<1>6. p \in Nat /\ q - 1 \in DOMAIN seen /\ seen[q - 1].next \in Nat
  <2> PICK v : v = q - 1
    OBVIOUS
  <2>1. v \in DOMAIN code
    BY <1>5
  <2>2. v \in DOMAIN seen /\ seen[v].next \in Nat
    BY <2>1, Positions
  <2>3. p \in Nat
    BY Positions
  <2> QED
    BY <2>2, <2>3
<1>7. p + 1 + t[e].ip = q
  <2>1. t[e].ip = q - st[e].from
    BY <1>1, <1>2, DeltasIs
  <2>2. st[e].from - 1 = p
    BY <1>1 DEF Source
  <2> QED
    BY <1>3, <1>6, <2>1, <2>2
<1>8. e + t[e].stp = seen[q].next
  <2>1. Cardinality({d \in DOMAIN st : st[d].from < (q - 1) + 1}) = seen[q - 1].next - 1
    BY <1>5, EntriesBefore
  <2>2. (q - 1) + 1 = q
    BY <1>3
  <2>3. t[e].stp = Cardinality({d \in DOMAIN st : st[d].from < q}) + 1 - e + skip
    BY <1>1, <1>2, DeltasIs
  <2>4. t[e].stp = (seen[q - 1].next - 1) + 1 - e + skip
    BY <2>1, <2>2, <2>3
  <2>5. e \in Nat /\ skip \in Nat /\ seen[q - 1].next \in Nat /\ seen[q].next = seen[q - 1].next + skip
    BY <1>1, <1>3, <1>5, <1>6
  <2> QED
    BY ONLY <2>4, <2>5
<1>9. t[e].vals = Carries(p, k) /\ t[e].pop = Pops(p, k)
  BY <1>1, <1>2, <1>4, DeltasIs
<1> QED
  BY <1>3, <1>4, <1>5, <1>7, <1>8, <1>9

LEMMA Accepted ==
  ASSUME ValidatorInv, Accept
  PROVE  AcceptedOK'
<1>1. /\ phase = "validate" /\ ctrls = <<>> /\ table' = Deltas(st) /\ code' = code /\ seen' = seen /\ trys' = trys
  BY DEF Accept
<1>2. HistoryOK /\ EntriesOK(<<>>) /\ TrysOK(<<>>) /\ seen[Len(seen)] = Held
  BY <1>1 DEF ValidatorInv
<1>3. seen[Len(seen)].ctrls = <<>>
  BY <1>1, <1>2 DEF Held
<1>4. code # <<>>
  <2>1. SUFFICES ASSUME code = <<>>
                 PROVE  FALSE
    OBVIOUS
  <2>2. Len(seen) = 1
    BY <1>2, <2>1, Positions
  <2>3. Len(seen[1].ctrls) = 1
    BY <1>2 DEF HistoryOK, FirstRecord
  <2> QED
    BY <1>3, <2>2, <2>3
<1>5. HistoryOK'
  BY <1>1, <1>2, HistorySame
<1>6. TrysOK(<<>>)'
  <2> PICK cs : cs = <<>>
    OBVIOUS
  <2>1. TrysOK(cs)'
    BY <1>1, <1>2, TrysSame
  <2> QED
    BY <2>1
<1>7. st \in Seq(EntrySet) /\ Len(st) + 1 = seen[Len(seen)].next /\ Len(st) \in Nat
  BY <1>2 DEF EntriesOK
<1>8. DOMAIN table' = 1 .. (seen'[Len(seen')].next - 1) /\ Len(table') = seen'[Len(seen')].next - 1
  <2>1. DOMAIN table' = 1 .. Len(st) /\ Len(table') = Len(st)
    BY <1>1, <1>7, DeltasLength
  <2>2. seen'[Len(seen')].next - 1 = Len(st)
    <3>1. seen'[Len(seen')].next = Len(st) + 1
      BY <1>1, <1>7
    <3> QED
      BY ONLY <1>7, <3>1
  <2> QED
    BY <2>1, <2>2
<1>9. (\A p \in DOMAIN code : \A k \in 1 .. Slots(code[p]) : EntryFits(p, k, seen[p].next + k - 1, EntryTo(p, k)))'
  <2> SUFFICES ASSUME NEW p \in DOMAIN code, NEW k \in 1 .. Slots(code[p])
               PROVE  EntryFits(p, k, seen[p].next + k - 1, EntryTo(p, k))'
    BY <1>1
  <2> PICK e : e = seen[p].next + k - 1
    OBVIOUS
  <2> PICK q : q = p + 1 + table'[e].ip
    OBVIOUS
  <2>1. /\ table'[e].vals = Carries(p, k) /\ table'[e].pop = Pops(p, k)
        /\ q \in DOMAIN seen /\ e + table'[e].stp = seen[q].next /\ \E skip \in {0, 1} : Landing(p, k, q, skip)
    BY <1>1, <1>2, EntryFinished
  <2>2. PICK skip \in {0, 1} : Landing(p, k, q, skip)
    BY <2>1
  <2>3. Carries(p, k)' = Carries(p, k) /\ Pops(p, k)' = Pops(p, k)
    BY <1>1 DEF Carries, Pops
  <2>4. Landing(p, k, q, skip)'
    BY <1>1, <2>2 DEF Landing, ClosedBy, HomeIdx, HomeStart, HomeLoop
  <2>5. EntryTo(p, k)' = q
    BY <1>1 DEF EntryTo
  <2>6. EntryFits(p, k, e, q)'
    BY <1>1, <2>1, <2>3, <2>4 DEF EntryFits
  <2>7. (seen[p].next + k - 1)' = e
    BY <1>1
  <2> QED
    BY <2>5, <2>6, <2>7 DEF EntryFits
<1> QED
  BY <1>1, <1>3, <1>4, <1>5, <1>6, <1>8, <1>9 DEF AcceptedOK, TableOK

(***************************************************************************)
(* Operands and types                                                      *)
(***************************************************************************)
LEMMA MatchesTrans ==
  ASSUME NEW a \in Type, NEW b \in Type, NEW c \in Type, Matches(a, b), Matches(b, c)
  PROVE  Matches(a, c)
BY SideTableAssumption DEF Matches

LEMMA MatchesSelf ==
  ASSUME NEW a \in Type
  PROVE  Matches(a, a)
BY SideTableAssumption DEF Matches

LEMMA TypedWeakens ==
  ASSUME NEW v, v.type \in Type, NEW a \in Type, NEW b \in Type, Typed(v, a), Matches(a, b)
  PROVE  Typed(v, b)
BY MatchesTrans DEF Typed

LEMMA NewValue ==
  ASSUME NEW t \in Type, NEW n \in Nat
  PROVE  Value(t, n) \in ValueSet /\ Typed(Value(t, n), t)
<1>1. Value(t, n) \in ValueSet /\ Value(t, n).type = t
  BY DEF Value, ValueSet
<1> QED
  BY <1>1, MatchesSelf DEF Typed

LEMMA ValueParts ==
  ASSUME NEW vs \in Seq(ValueSet)
  PROVE  /\ Len(vs) \in Nat /\ \A k : k \in DOMAIN vs <=> k \in 1 .. Len(vs)
         /\ \A k \in 1 .. Len(vs) : vs[k] \in ValueSet /\ vs[k].type \in Type
<1>1. Len(vs) \in Nat /\ DOMAIN vs = 1 .. Len(vs)
  OBVIOUS
<1>2. \A k \in 1 .. Len(vs) : vs[k] \in ValueSet
  BY <1>1
<1>3. \A v \in ValueSet : v.type \in Type
  BY DEF ValueSet
<1> QED
  BY ONLY <1>1, <1>2, <1>3

LEMMA TypeParts ==
  ASSUME NEW ts \in Seq(Type)
  PROVE  /\ Len(ts) \in Nat /\ \A k : k \in DOMAIN ts <=> k \in 1 .. Len(ts)
         /\ \A k \in 1 .. Len(ts) : ts[k] \in Type
<1>1. Len(ts) \in Nat /\ DOMAIN ts = 1 .. Len(ts)
  OBVIOUS
<1> QED
  BY <1>1

LEMMA FitsPointwise ==
  ASSUME NEW vs \in Seq(ValueSet), NEW ts \in Seq(Type)
  PROVE  FitsTypes(vs, ts) <=> Len(vs) = Len(ts) /\ \A k \in 1 .. Len(ts) : Typed(vs[k], ts[k])
<1>1. \A k : k \in DOMAIN ts <=> k \in 1 .. Len(ts)
  BY TypeParts
<1> QED
  BY <1>1 DEF FitsTypes

LEMMA FitsAppend ==
  ASSUME NEW vs \in Seq(ValueSet), NEW ts \in Seq(Type), FitsTypes(vs, ts), NEW v \in ValueSet, NEW t \in Type, Typed(v, t)
  PROVE  FitsTypes(Append(vs, v), Append(ts, t)) /\ Append(vs, v) \in Seq(ValueSet)
<1>1. /\ Append(vs, v) \in Seq(ValueSet) /\ Len(Append(vs, v)) = Len(vs) + 1 /\ Len(vs) \in Nat
      /\ (\A i \in 1 .. Len(vs) : Append(vs, v)[i] = vs[i]) /\ Append(vs, v)[Len(vs) + 1] = v
  BY AppendEffect
<1>2. /\ Append(ts, t) \in Seq(Type) /\ Len(Append(ts, t)) = Len(ts) + 1 /\ Len(ts) \in Nat
      /\ (\A i \in 1 .. Len(ts) : Append(ts, t)[i] = ts[i]) /\ Append(ts, t)[Len(ts) + 1] = t
  BY AppendEffect
<1>3. Len(vs) = Len(ts) /\ \A k \in 1 .. Len(ts) : Typed(vs[k], ts[k])
  BY FitsPointwise
<1> PICK n : n = Len(ts)
  OBVIOUS
<1>4. \A k \in 1 .. (n + 1) : k \in 1 .. n \/ k = n + 1
  BY <1>2
<1>5. \A k \in 1 .. (n + 1) : Typed(Append(vs, v)[k], Append(ts, t)[k])
  BY <1>1, <1>2, <1>3, <1>4
<1> QED
  BY <1>1, <1>2, <1>3, <1>5, FitsPointwise

LEMMA FitsCut ==
  ASSUME NEW vs \in Seq(ValueSet), NEW ts \in Seq(Type), FitsTypes(vs, ts), NEW m \in 0 .. Len(vs)
  PROVE  FitsTypes(FirstN(vs, m), FirstN(ts, m)) /\ FirstN(vs, m) \in Seq(ValueSet)
<1>1. Len(vs) = Len(ts) /\ \A k \in 1 .. Len(ts) : Typed(vs[k], ts[k])
  BY FitsPointwise
<1>2. FirstN(vs, m) \in Seq(ValueSet) /\ Len(FirstN(vs, m)) = m /\ \A i \in 1 .. m : FirstN(vs, m)[i] = vs[i]
  BY FirstNEffect
<1>3. FirstN(ts, m) \in Seq(Type) /\ Len(FirstN(ts, m)) = m /\ \A i \in 1 .. m : FirstN(ts, m)[i] = ts[i]
  BY <1>1, FirstNEffect
<1>4. \A k \in 1 .. m : k \in 1 .. Len(ts)
  BY <1>1, ValueParts
<1>5. \A k \in 1 .. m : Typed(FirstN(vs, m)[k], FirstN(ts, m)[k])
  BY <1>1, <1>2, <1>3, <1>4
<1> QED
  BY <1>2, <1>3, <1>5, FitsPointwise

\* Operands vs that fit us, of which a live frame f pops ts and leaves m.
Popping(f, us, ts, vs, m) ==
  /\ f.height \in Nat /\ ~f.dead /\ us \in Seq(Type) /\ f.height <= Len(us) /\ ts \in Seq(Type)
  /\ CanPop(f, us, ts) /\ vs \in Seq(ValueSet) /\ FitsTypes(vs, us) /\ m = Len(Pop(f, us, ts))
Popped(f, us, ts, vs, m) ==
  /\ m \in Nat /\ f.height <= m /\ m + Len(ts) = Len(vs) /\ m <= Len(vs) /\ m \in 0 .. Len(vs)
  /\ Pop(f, us, ts) \in Seq(Type)
  /\ FirstN(vs, m) \in Seq(ValueSet) /\ Len(FirstN(vs, m)) = m /\ (\A k \in 1 .. m : FirstN(vs, m)[k] = vs[k])
  /\ FitsTypes(FirstN(vs, m), Pop(f, us, ts))
  /\ \A k \in 1 .. Len(ts) : Typed(vs[m + k], ts[k])
\* What a live frame pops is there, with the types asked for.
LEMMA FitsPop ==
  ASSUME NEW f, NEW us, NEW ts, NEW vs, NEW m, Popping(f, us, ts, vs, m)
  PROVE  Popped(f, us, ts, vs, m)
<1>h. /\ f.height \in Nat /\ ~f.dead /\ us \in Seq(Type) /\ f.height <= Len(us) /\ ts \in Seq(Type)
      /\ CanPop(f, us, ts) /\ vs \in Seq(ValueSet) /\ FitsTypes(vs, us) /\ m = Len(Pop(f, us, ts))
  BY DEF Popping
<1>1. /\ Pop(f, us, ts) \in Seq(Type) /\ m \in Nat /\ f.height <= m /\ m <= Len(us)
      /\ (\A k \in 1 .. m : Pop(f, us, ts)[k] = us[k])
      /\ m + Len(ts) = Len(us) /\ (\A k \in 1 .. Len(ts) : Matches(us[m + k], ts[k]))
  BY <1>h, PopEffect
<1>2. Len(vs) = Len(us) /\ \A k \in 1 .. Len(us) : Typed(vs[k], us[k])
  BY <1>h, FitsPointwise
<1>3. Len(ts) \in Nat /\ Len(us) \in Nat /\ (\A k \in 1 .. Len(ts) : ts[k] \in Type) /\ (\A k \in 1 .. Len(us) : us[k] \in Type)
      /\ \A k \in 1 .. Len(vs) : vs[k] \in ValueSet /\ vs[k].type \in Type
  BY <1>h, TypeParts, ValueParts
<1>4. m \in 0 .. Len(vs)
  BY <1>1, <1>2, <1>3
<1>5. FirstN(vs, m) \in Seq(ValueSet) /\ Len(FirstN(vs, m)) = m /\ (\A k \in 1 .. m : FirstN(vs, m)[k] = vs[k])
  BY <1>h, <1>4, FirstNEffect
<1>6. FitsTypes(FirstN(vs, m), Pop(f, us, ts))
  <2>1. \A k \in 1 .. m : k \in 1 .. Len(us)
    BY <1>1, <1>3
  <2>2. \A k \in 1 .. m : Typed(FirstN(vs, m)[k], Pop(f, us, ts)[k])
    BY <1>1, <1>2, <1>5, <2>1
  <2> QED
    BY <1>h, <1>1, <1>5, <2>2, FitsPointwise
<1>7. ASSUME NEW k \in 1 .. Len(ts)
      PROVE  Typed(vs[m + k], ts[k])
  <2> PICK x : x = m + k
    OBVIOUS
  <2>1. x \in 1 .. Len(us)
    BY <1>1, <1>3
  <2>2. Matches(us[x], ts[k]) /\ Typed(vs[x], us[x]) /\ vs[x].type \in Type /\ us[x] \in Type /\ ts[k] \in Type
    BY <1>1, <1>2, <1>3, <2>1
  <2>3. Typed(vs[x], ts[k])
    BY <2>2, TypedWeakens
  <2> QED
    BY <2>3
<1> QED
  BY <1>1, <1>2, <1>4, <1>5, <1>6, <1>7 DEF Popped

\* Operands behind others.
LEMMA FitsBehind ==
  ASSUME NEW us \in Seq(Type), NEW ts \in Seq(Type), NEW vs \in Seq(ValueSet), NEW m, m = Len(us),
         Len(vs) = m + Len(ts), \A k \in 1 .. m : Typed(vs[k], us[k]),
         \A k \in 1 .. Len(ts) : Typed(vs[m + k], ts[k])
  PROVE  FitsTypes(vs, us \o ts)
<1>1. /\ us \o ts \in Seq(Type) /\ Len(us \o ts) = m + Len(ts)
      /\ (\A k \in 1 .. m : (us \o ts)[k] = us[k]) /\ (\A k \in 1 .. Len(ts) : (us \o ts)[m + k] = ts[k])
  BY BehindTypes
<1>2. m \in Nat /\ Len(ts) \in Nat
  BY TypeParts
<1>3. ASSUME NEW k \in 1 .. (m + Len(ts))
      PROVE  Typed(vs[k], (us \o ts)[k])
  <2>1. CASE k \in 1 .. m
    BY <1>1, <2>1
  <2>2. CASE k \notin 1 .. m
    <3> PICK x : x = k - m
      OBVIOUS
    <3>1. x \in 1 .. Len(ts) /\ m + x = k
      BY <1>2, <2>2
    <3> QED
      BY <1>1, <3>1
  <2> QED
    BY <2>1, <2>2
<1> QED
  BY <1>1, <1>3, FitsPointwise

(***************************************************************************)
(* The machine at a position                                               *)
(***************************************************************************)
Here(s, r, i, p) ==
  /\ phase = "run" /\ AcceptedOK /\ p = pc /\ p \in DOMAIN code /\ i = code[p] /\ s = seen[p] /\ r = seen[p + 1]
  /\ Alive(s) /\ stack \in Seq(ValueSet) /\ FitsTypes(stack, s.vals) /\ stp = s.next
  /\ LocalsOK(locals, p) /\ HandlersOK(handlers, p)

LEMMA Arrived ==
  ASSUME MachineInv, phase = "run", pc <= Len(code), NEW p, p = pc, NEW i, i = code[p], NEW s, s = seen[p],
         NEW r, r = seen[p + 1]
  PROVE  Here(s, r, i, p)
<1>1. AcceptedOK /\ FrameGood(stack, pc, stp, locals, handlers)
  BY DEF MachineInv
<1>2. HistoryOK
  BY <1>1 DEF AcceptedOK
<1>3. p \in DOMAIN seen /\ p <= Len(code)
  BY <1>1 DEF FrameGood, OperandsOK
<1>4. p \in DOMAIN code
  <2>1. p \in 1 .. (Len(code) + 1) /\ Len(code) \in Nat
    BY <1>2, <1>3, Positions
  <2>2. p \in 1 .. Len(code)
    BY <1>3, <2>1
  <2> QED
    BY <1>2, <2>2, Positions
<1> QED
  BY <1>1, <1>3, <1>4 DEF Here, FrameGood, OperandsOK

LEMMA HereParts ==
  ASSUME NEW s, NEW r, NEW i, NEW p, Here(s, r, i, p)
  PROVE  /\ HistoryOK /\ p \in Nat /\ p \in 1 .. Len(code) /\ Len(code) \in Nat /\ p + 1 \in DOMAIN seen /\ p \in DOMAIN seen
         /\ s \in HeldSet /\ r \in HeldSet /\ i \in Instr /\ Decoded(i) /\ Slots(i) \in Nat
         /\ HeldOK(s, p) /\ s.ctrls # <<>> /\ Effect(s, r, i, p)
         /\ TopOf(s).height \in Nat /\ TopOf(s).height <= Len(s.vals) /\ ~TopOf(s).dead
         /\ TopOf(s).bt.in \in Seq(Type) /\ TopOf(s).bt.out \in Seq(Type)
         /\ s.vals \in Seq(Type) /\ r.vals \in Seq(Type) /\ Len(s.vals) \in Nat /\ Len(stack) = Len(s.vals)
         /\ r.next = s.next + Slots(i) /\ s.next \in Nat
<1>1. AcceptedOK /\ p \in DOMAIN code /\ i = code[p] /\ s = seen[p] /\ r = seen[p + 1] /\ Alive(s) /\ FitsTypes(stack, s.vals)
  BY DEF Here
<1>2. HistoryOK
  BY <1>1 DEF AcceptedOK
<1>3. /\ p \in Nat /\ p \in 1 .. Len(code) /\ Len(code) \in Nat /\ p + 1 \in DOMAIN seen /\ p \in DOMAIN seen
      /\ s \in HeldSet /\ r \in HeldSet /\ i \in Instr /\ Slots(i) \in Nat
      /\ HeldOK(s, p) /\ Effect(s, r, i, p) /\ r.next = s.next + Slots(i) /\ s.next \in Nat
  BY <1>1, <1>2, Positions
<1>4. Decoded(i)
  BY <1>3, TypesOfBlock
<1>5. s.ctrls # <<>>
  BY <1>3 DEF Effect
<1>6. /\ TopOf(s).height \in Nat /\ TopOf(s).height <= Len(s.vals)
      /\ TopOf(s).bt.in \in Seq(Type) /\ TopOf(s).bt.out \in Seq(Type)
      /\ Len(s.ctrls) \in 1 .. Len(s.ctrls)
  BY <1>3, <1>5, RecordTop
<1>7. s.vals \in Seq(Type) /\ r.vals \in Seq(Type) /\ Len(s.vals) \in Nat /\ Len(s.ctrls) \in DOMAIN s.ctrls
  BY <1>3, <1>6, RecordParts
<1>8. ~TopOf(s).dead
  BY <1>1, <1>7 DEF Alive, TopOf
<1>9. Len(stack) = Len(s.vals)
  BY <1>1 DEF FitsTypes
<1> QED
  BY <1>2, <1>3, <1>4, <1>5, <1>6, <1>7, <1>8, <1>9

\* The cursor at a position is inside the table, or just behind it.
LEMMA Cursors ==
  ASSUME AcceptedOK, NEW q \in DOMAIN seen
  PROVE  seen[q].next \in 1 .. (Len(table) + 1)
<1>1. HistoryOK /\ TableOK
  BY DEF AcceptedOK
<1>2. 1 \in DOMAIN seen /\ Len(seen) \in DOMAIN seen /\ 1 <= q /\ q <= Len(seen)
  BY <1>1, Positions
<1>3. /\ seen[1].next = 1 /\ seen[1].next <= seen[q].next /\ seen[q].next <= seen[Len(seen)].next
      /\ seen[q].next \in Nat /\ seen[Len(seen)].next \in Nat
  BY <1>1, <1>2, Positions DEF HistoryOK, FirstRecord
<1>4. Len(table) = seen[Len(seen)].next - 1
  BY <1>1 DEF TableOK
<1> PICK a : a = seen[q].next
  OBVIOUS
<1> PICK b : b = seen[Len(seen)].next
  OBVIOUS
<1>5. a \in Nat /\ b \in Nat /\ 1 <= a /\ a <= b /\ Len(table) = b - 1
  BY <1>3, <1>4
<1>6. a \in 1 .. (Len(table) + 1)
  BY ONLY <1>5
<1> QED
  BY <1>6

\* Operands that fit the record of a live position are good there, and at the end
\* they are the results.
LEMMA Arrives ==
  ASSUME AcceptedOK, NEW q \in DOMAIN seen, Alive(seen[q]), NEW vs \in Seq(ValueSet), FitsTypes(vs, seen[q].vals)
  PROVE  OperandsOK(vs, q, seen[q].next)
<1>1. HistoryOK /\ seen[Len(seen)].ctrls = <<>>
  BY DEF AcceptedOK
<1>2. seen[q].next \in 1 .. (Len(table) + 1)
  BY Cursors
<1>3. ASSUME q > Len(code)
      PROVE  Len(vs) >= Len(Results) /\ FitsTypes(LastN(vs, Len(Results)), Results)
  <2>1. q = Len(seen)
    <3>1. q \in 1 .. (Len(code) + 1) /\ Len(code) \in Nat /\ Len(seen) = Len(code) + 1
      BY <1>1, Positions
    <3> QED
      BY <1>3, <3>1
  <2>2. seen[q].vals = Results
    BY <1>1, <2>1, Positions DEF HeldOK
  <2> PICK n : n = Len(Results)
    OBVIOUS
  <2>3. Results \in Seq(Type) /\ n \in Nat
    BY SideTableAssumption
  <2>4. Len(vs) = n /\ \A k \in 1 .. n : Typed(vs[k], Results[k])
    BY <2>2, <2>3, FitsPointwise
  <2>5. n \in 0 .. Len(vs)
    BY <2>3, <2>4
  <2>6. /\ LastN(vs, n) \in Seq(ValueSet) /\ Len(LastN(vs, n)) = n
        /\ \A i \in 1 .. n : LastN(vs, n)[i] = vs[Len(vs) - n + i]
    BY <2>5, LastNEffect
  <2>7. \A k \in 1 .. n : Len(vs) - n + k = k
    BY <2>3, <2>4
  <2>8. \A k \in 1 .. n : Typed(LastN(vs, n)[k], Results[k])
    BY <2>4, <2>6, <2>7
  <2>9. FitsTypes(LastN(vs, n), Results)
    BY <2>3, <2>6, <2>8, FitsPointwise
  <2> QED
    BY <2>3, <2>4, <2>9
<1> QED
  BY <1>2, <1>3 DEF OperandsOK

\* Behind an instruction that does not branch away the position is live.
LEMMA StaysAlive ==
  ASSUME NEW s \in HeldSet, NEW r \in HeldSet, NEW i, NEW p, Effect(s, r, i, p), Alive(s),
         i.op \notin {"br", "br_table", "return", "throw", "unreachable", "else"}
  PROVE  Alive(r)
<1>1. /\ Len(s.ctrls) \in Nat /\ Len(r.ctrls) \in Nat
      /\ (\A j : j \in DOMAIN s.ctrls <=> j \in 1 .. Len(s.ctrls)) /\ (\A j : j \in DOMAIN r.ctrls <=> j \in 1 .. Len(r.ctrls))
  BY RecordParts
<1>2. \/ Len(r.ctrls) = Len(s.ctrls) /\ Keeps(s, r, Len(s.ctrls))
      \/ Len(r.ctrls) = Len(s.ctrls) + 1 /\ Keeps(s, r, Len(s.ctrls)) /\ ~TopOf(r).dead
      \/ Len(r.ctrls) = Len(s.ctrls) - 1 /\ Keeps(s, r, Len(s.ctrls) - 1)
  BY DEF Effect, ConstEffect, DropEffect, LocalGetEffect, LocalSetEffect, Enters, TryTableEffect, EndEffect, BrIfEffect, Plain
<1> SUFFICES ASSUME NEW j \in 1 .. Len(r.ctrls)
             PROVE  ~r.ctrls[j].dead
  BY <1>1 DEF Alive
<1>3. CASE j \in 1 .. Len(s.ctrls)
  <2>1. s.ctrls[j].dead = r.ctrls[j].dead
    <3>1. Keeps(s, r, Len(s.ctrls)) => s.ctrls[j].dead = r.ctrls[j].dead
      BY <1>3 DEF Keeps
    <3>2. Len(r.ctrls) = Len(s.ctrls) - 1 /\ Keeps(s, r, Len(s.ctrls) - 1) => s.ctrls[j].dead = r.ctrls[j].dead
      BY DEF Keeps
    <3> QED
      BY <1>2, <3>1, <3>2
  <2> QED
    BY <1>1, <1>3, <2>1 DEF Alive
<1>4. CASE j \notin 1 .. Len(s.ctrls)
  <2>1. j = Len(r.ctrls) /\ Len(r.ctrls) = Len(s.ctrls) + 1
    <3>1. Len(r.ctrls) \in {Len(s.ctrls) - 1, Len(s.ctrls), Len(s.ctrls) + 1}
      BY <1>2
    <3> QED
      BY ONLY <1>1, <1>4, <3>1, j \in 1 .. Len(r.ctrls)
  <2>2. ~TopOf(r).dead
    <3>1. Len(r.ctrls) # Len(s.ctrls) /\ Len(r.ctrls) # Len(s.ctrls) - 1
      BY <1>1, <2>1
    <3> QED
      BY <1>2, <3>1
  <2> QED
    BY <2>1, <2>2 DEF TopOf
<1> QED
  BY <1>3, <1>4

\* Locals whose marks are among another record's.
LEMMA KnownAmong ==
  ASSUME NEW s \in HeldSet, NEW t \in HeldSet, NEW m \in 0 .. Len(s.inits), m <= Len(t.inits),
         Agree(s.inits, t.inits, m), Len(t.inits) = m
  PROVE  Known(t) \subseteq Known(s)
<1>1. /\ (\A j : j \in DOMAIN s.inits <=> j \in 1 .. Len(s.inits)) /\ Len(s.inits) \in Nat
      /\ (\A j : j \in DOMAIN t.inits <=> j \in 1 .. Len(t.inits))
  BY RecordParts
<1>2. \A k \in 1 .. m : k \in DOMAIN s.inits /\ t.inits[k] = s.inits[k]
  BY <1>1 DEF Agree
<1> QED
  BY <1>1, <1>2 DEF Known

LEMMA KnownFirst ==
  ASSUME NEW s \in HeldSet, NEW r \in HeldSet, NEW m \in 0 .. Len(s.inits), r.inits = FirstN(s.inits, m)
  PROVE  Known(r) \subseteq Known(s)
<1>1. s.inits \in Seq(DOMAIN LocalType) /\ Len(s.inits) \in Nat
  BY RecordParts
<1>2. Len(r.inits) = m /\ \A k \in 1 .. m : r.inits[k] = s.inits[k]
  BY <1>1, FirstNEffect
<1>3. Agree(s.inits, r.inits, m)
  BY <1>1, <1>2 DEF Agree
<1> QED
  BY <1>1, <1>2, <1>3, KnownAmong

LEMMA KnownShrinks ==
  ASSUME NEW s \in HeldSet, NEW r \in HeldSet, NEW i \in Instr, NEW p, HeldOK(s, p), Effect(s, r, i, p)
  PROVE  /\ i.op # "local_set" => Known(r) \subseteq Known(s)
         /\ i.op = "local_set" => Known(r) \subseteq Known(s) \cup {i.local}
<1>1. CASE i.op \in {"else", "end"}
  <2>1. r.inits = FirstN(s.inits, TopOf(s).inits)
    BY <1>1 DEF Effect, ElseEffect, EndEffect, EndsArm
  <2>2. TopOf(s).inits \in 0 .. Len(s.inits)
    <3>1. s.ctrls # <<>>
      BY DEF Effect
    <3>2. TopOf(s).inits \in Nat /\ TopOf(s).inits <= Len(s.inits) /\ Len(s.inits) \in Nat
      BY <3>1, RecordTop, RecordParts
    <3> QED
      BY <3>2
  <2>3. Known(r) \subseteq Known(s)
    BY <2>1, <2>2, KnownFirst
  <2> QED
    BY <1>1, <2>3
<1>2. CASE i.op = "local_set"
  <2>1. i.local \in DOMAIN LocalType
    BY <1>2, TypesOfBlock DEF Decoded
  <2>2. r.inits = s.inits \/ r.inits = Append(s.inits, i.local)
    BY <1>2 DEF Effect, LocalSetEffect
  <2>3. {r.inits[k] : k \in DOMAIN r.inits} \subseteq {s.inits[k] : k \in DOMAIN s.inits} \cup {i.local}
    <3>1. s.inits \in Seq(DOMAIN LocalType)
      BY RecordParts
    <3>2. {Append(s.inits, i.local)[k] : k \in DOMAIN Append(s.inits, i.local)} = {s.inits[k] : k \in DOMAIN s.inits} \cup {i.local}
      BY <2>1, <3>1, ValuesAppend
    <3> QED
      BY <2>2, <3>2
  <2> QED
    BY <1>2, <2>3 DEF Known
<1>3. CASE i.op \notin {"else", "end", "local_set"}
  <2>1. r.inits = s.inits
    BY <1>3 DEF Effect, ConstEffect, DropEffect, LocalGetEffect, Plain, Enters, TryTableEffect, BrEffect, BrIfEffect,
               BrTableEffect, Stops
  <2> QED
    BY <1>3, <2>1 DEF Known
<1> QED
  BY <1>1, <1>2, <1>3

LEMMA LocalsWeaken ==
  ASSUME NEW ls, NEW p, NEW q, LocalsOK(ls, p),
         q <= Len(code) => p <= Len(code) /\ Known(seen[q]) \subseteq Known(seen[p])
  PROVE  LocalsOK(ls, q)
BY DEF LocalsOK

LEMMA HandlersLater ==
  ASSUME NEW hs, NEW p \in Nat, NEW q \in Nat, HandlersOK(hs, p), p <= q
  PROVE  HandlersOK(hs, q)
<1>1. \A k \in DOMAIN hs : HandlerOK(hs[k], p)
  BY DEF HandlersOK
<1>2. \A k \in DOMAIN hs : HandlerOK(hs[k], q)
  <2> SUFFICES ASSUME NEW k \in DOMAIN hs
               PROVE  HandlerOK(hs[k], q)
    OBVIOUS
  <2> PICK h : h = hs[k]
    OBVIOUS
  <2>1. HandlerOK(h, p)
    BY <1>1
  <2>2. h.at \in Nat /\ h.at <= p
    BY <2>1 DEF HandlerOK
  <2>3. h.at <= q
    BY <2>2
  <2> QED
    BY <2>1, <2>3 DEF HandlerOK
<1> QED
  BY <1>2 DEF HandlersOK

\* Falling through to the next instruction.
LEMMA Falls ==
  ASSUME NEW s, NEW r, NEW i, NEW p, Here(s, r, i, p),
         i.op \notin {"br", "br_table", "return", "throw", "unreachable", "else"},
         NEW vs \in Seq(ValueSet), FitsTypes(vs, r.vals)
  PROVE  /\ OperandsOK(vs, p + 1, r.next) /\ HandlersOK(handlers, p + 1)
         /\ i.op # "local_set" => LocalsOK(locals, p + 1)
<1>1. /\ AcceptedOK /\ s = seen[p] /\ r = seen[p + 1] /\ Alive(s) /\ LocalsOK(locals, p) /\ HandlersOK(handlers, p)
  BY DEF Here
<1>2. /\ p \in Nat /\ p \in 1 .. Len(code) /\ Len(code) \in Nat /\ p + 1 \in DOMAIN seen /\ s \in HeldSet /\ r \in HeldSet
      /\ i \in Instr /\ HeldOK(s, p) /\ Effect(s, r, i, p)
  BY HereParts
<1>3. Alive(r)
  BY <1>1, <1>2, StaysAlive
<1>4. OperandsOK(vs, p + 1, r.next)
  <2> PICK q : q = p + 1
    OBVIOUS
  <2>1. q \in DOMAIN seen /\ seen[q] = r
    BY <1>1, <1>2
  <2>2. OperandsOK(vs, q, r.next)
    BY <1>1, <1>3, <2>1, Arrives
  <2> QED
    BY <2>2
<1>5. HandlersOK(handlers, p + 1)
  <2> PICK q : q = p + 1
    OBVIOUS
  <2>1. q \in Nat /\ p <= q
    BY <1>2
  <2>2. HandlersOK(handlers, q)
    BY <1>1, <1>2, <2>1, HandlersLater
  <2> QED
    BY <2>2
<1>6. i.op # "local_set" => LocalsOK(locals, p + 1)
  <2>1. i.op # "local_set" => Known(r) \subseteq Known(s)
    BY <1>2, KnownShrinks
  <2>2. p <= Len(code)
    BY <1>2
  <2> QED
    BY <1>1, <2>1, <2>2, LocalsWeaken
<1> QED
  BY <1>4, <1>5, <1>6

\* The body does not change while it runs.
LEMMA AcceptedSame ==
  ASSUME AcceptedOK, code' = code, seen' = seen, table' = table, trys' = trys
  PROVE  AcceptedOK'
<1>1. HistoryOK'
  BY HistorySame DEF AcceptedOK
<1>2. TrysOK(<<>>)'
  <2> PICK cs : cs = <<>>
    OBVIOUS
  <2>1. TrysOK(cs)
    BY DEF AcceptedOK
  <2>2. TrysOK(cs)'
    BY <2>1, TrysSame
  <2> QED
    BY <2>2
<1>3. TableOK'
  <2>1. TableOK
    BY DEF AcceptedOK
  <2>2. DOMAIN table' = 1 .. (seen'[Len(seen')].next - 1) /\ Len(table') = seen'[Len(seen')].next - 1
    BY <2>1 DEF TableOK
  <2>3. (\A p \in DOMAIN code : \A k \in 1 .. Slots(code[p]) : EntryFits(p, k, seen[p].next + k - 1, EntryTo(p, k)))'
    <3> SUFFICES ASSUME NEW p \in DOMAIN code, NEW k \in 1 .. Slots(code[p])
                 PROVE  EntryFits(p, k, seen[p].next + k - 1, EntryTo(p, k))'
      OBVIOUS
    <3> PICK e : e = seen[p].next + k - 1
      OBVIOUS
    <3> PICK q : q = EntryTo(p, k)
      OBVIOUS
    <3>1. EntryFits(p, k, e, q)
      BY <2>1 DEF TableOK
    <3>2. EntryFits(p, k, e, q)'
      BY <3>1 DEF EntryFits, Carries, Pops, Landing, ClosedBy, HomeIdx, HomeStart, HomeLoop
    <3>3. EntryTo(p, k)' = q /\ (seen[p].next + k - 1)' = e
      BY DEF EntryTo
    <3> QED
      BY <3>2, <3>3 DEF EntryFits
  <2> QED
    BY <2>2, <2>3 DEF TableOK
<1> QED
  BY <1>1, <1>2, <1>3 DEF AcceptedOK

LEMMA GoodSame ==
  ASSUME code' = code, seen' = seen, table' = table,
         NEW vs, NEW q, NEW c, NEW ls, NEW hs, FrameGood(vs, q, c, ls, hs)
  PROVE  FrameGood(vs, q, c, ls, hs)'
<1>1. ElselessIfsFit' <=> ElselessIfsFit
  BY DEF ElselessIfsFit
<1>4. OperandsOK(vs, q, c)'
  BY <1>1 DEF FrameGood, OperandsOK, FitsTypes, Typed
<1>5. LocalsOK(ls, q)'
  BY <1>1 DEF FrameGood, LocalsOK, Typed
<1>6. HandlersOK(hs, q)'
  BY DEF FrameGood, HandlersOK, HandlerOK, ClosedBy
<1> QED
  BY <1>4, <1>5, <1>6 DEF FrameGood

LEMMA RunKeeps ==
  ASSUME MachineInv, phase = "run", phase' = phase, code' = code, seen' = seen, table' = table, trys' = trys,
         outcome' = outcome, FrameGood(stack', pc', stp', locals', handlers')
  PROVE  MachineInv'
<1>1. AcceptedOK /\ outcome.kind = "none"
  BY DEF MachineInv
<1>2. AcceptedOK'
  BY <1>1, AcceptedSame
<1>3. FrameGood(stack, pc, stp, locals, handlers)'
  <2> PICK vs : vs = stack'
    OBVIOUS
  <2> PICK q : q = pc'
    OBVIOUS
  <2> PICK c : c = stp'
    OBVIOUS
  <2> PICK ls : ls = locals'
    OBVIOUS
  <2> PICK hs : hs = handlers'
    OBVIOUS
  <2>1. FrameGood(vs, q, c, ls, hs)
    OBVIOUS
  <2>2. FrameGood(vs, q, c, ls, hs)'
    BY <2>1, GoodSame
  <2> QED
    BY <2>2 DEF FrameGood, OperandsOK, LocalsOK, HandlersOK, FitsTypes, Typed, Nested, HandlerOK
<1> QED
  BY <1>1, <1>2, <1>3 DEF MachineInv

(***************************************************************************)
(* The instructions that do not branch                                     *)
(***************************************************************************)
LEMMA Restacked ==
  ASSUME NEW f, f.height \in Nat, ~f.dead, NEW us \in Seq(Type), f.height <= Len(us), NEW ts \in Seq(Type),
         CanPop(f, us, ts), NEW vs \in Seq(ValueSet), FitsTypes(vs, us)
  PROVE  FitsTypes(vs, Pop(f, us, ts) \o ts)
<1>m. PICK m : m = Len(Pop(f, us, ts))
  OBVIOUS
<1>p. Popping(f, us, ts, vs, m)
  BY <1>m DEF Popping
<1>f. Popped(f, us, ts, vs, m)
  BY ONLY <1>p, FitsPop
<1>w. PICK ws : ws = Pop(f, us, ts)
  OBVIOUS
<1>1. /\ m \in Nat /\ m = Len(ws) /\ m + Len(ts) = Len(vs) /\ ws \in Seq(Type)
      /\ (\A k \in 1 .. m : FirstN(vs, m)[k] = vs[k]) /\ FitsTypes(FirstN(vs, m), ws) /\ FirstN(vs, m) \in Seq(ValueSet)
      /\ \A k \in 1 .. Len(ts) : Typed(vs[m + k], ts[k])
  BY <1>f, <1>m, <1>w DEF Popped
<1>2. \A k \in 1 .. m : Typed(vs[k], ws[k])
  BY <1>1, FitsPointwise
<1>3. FitsTypes(vs, ws \o ts)
  BY <1>1, <1>2, FitsBehind
<1> QED
  BY <1>3, <1>w

\* All but the topmost operand.
LEMMA BelowOne ==
  ASSUME NEW s, NEW r, NEW i, NEW p, Here(s, r, i, p), NEW t \in Type, CanPop(TopOf(s), s.vals, <<t>>)
  PROVE  /\ Below(1) \in Seq(ValueSet) /\ FitsTypes(Below(1), Pop(TopOf(s), s.vals, <<t>>))
         /\ Pop(TopOf(s), s.vals, <<t>>) \in Seq(Type) /\ Len(Below(1)) = Len(Pop(TopOf(s), s.vals, <<t>>))
         /\ Len(stack) >= 1 /\ Len(Below(1)) = Len(stack) - 1 /\ Typed(stack[Len(stack)], t)
         /\ TopOf(s).height <= Len(Below(1))
         /\ \A k \in 1 .. (Len(stack) - 1) : Below(1)[k] = stack[k]
<1>1. /\ TopOf(s).height \in Nat /\ TopOf(s).height <= Len(s.vals) /\ ~TopOf(s).dead /\ s.vals \in Seq(Type)
      /\ stack \in Seq(ValueSet) /\ FitsTypes(stack, s.vals)
  BY HereParts DEF Here
<1>2. <<t>> \in Seq(Type) /\ Len(<<t>>) = 1 /\ <<t>>[1] = t
  OBVIOUS
<1>t. PICK ts : ts = <<t>>
  OBVIOUS
<1>f. PICK f : f = TopOf(s)
  OBVIOUS
<1>m. PICK m : m = Len(Pop(f, s.vals, ts))
  OBVIOUS
<1>p. Popping(f, s.vals, ts, stack, m)
  BY <1>1, <1>2, <1>t, <1>f, <1>m DEF Popping
<1>g. Popped(f, s.vals, ts, stack, m)
  BY ONLY <1>p, FitsPop
<1>3. /\ m \in Nat /\ m + Len(ts) = Len(stack) /\ TopOf(s).height <= m /\ m = Len(Pop(TopOf(s), s.vals, <<t>>))
      /\ Pop(TopOf(s), s.vals, <<t>>) \in Seq(Type)
      /\ FirstN(stack, m) \in Seq(ValueSet) /\ Len(FirstN(stack, m)) = m
      /\ (\A k \in 1 .. m : FirstN(stack, m)[k] = stack[k])
      /\ FitsTypes(FirstN(stack, m), Pop(TopOf(s), s.vals, <<t>>))
      /\ (\A k \in 1 .. Len(ts) : Typed(stack[m + k], ts[k])) /\ Len(ts) = 1 /\ ts[1] = t
  BY <1>g, <1>t, <1>f, <1>m, <1>2 DEF Popped
<1>4. Len(stack) = m + 1 /\ Len(stack) - 1 = m /\ Len(stack) >= 1
  BY <1>2, <1>3
<1>5. Below(1) = FirstN(stack, m)
  BY <1>4 DEF Below
<1>6. Typed(stack[Len(stack)], t)
  BY <1>2, <1>3, <1>4
<1> QED
  BY <1>3, <1>4, <1>5, <1>6

LEMMA ConstRun ==
  ASSUME NEW s, NEW r, NEW i, NEW p, Here(s, r, i, p), i.op = "const"
  PROVE  /\ Pushed(Value(i.type, p)) \in Seq(ValueSet) /\ FitsTypes(Pushed(Value(i.type, p)), r.vals)
<1>1. p \in Nat /\ i.type \in Type /\ stack \in Seq(ValueSet) /\ FitsTypes(stack, s.vals) /\ s.vals \in Seq(Type)
  BY HereParts DEF Here, Decoded
<1>2. r.vals = Append(s.vals, i.type)
  BY HereParts DEF Effect, ConstEffect
<1>3. Value(i.type, p) \in ValueSet /\ Typed(Value(i.type, p), i.type)
  BY <1>1, NewValue
<1> QED
  BY <1>1, <1>2, <1>3, FitsAppend DEF Pushed

LEMMA DropRun ==
  ASSUME NEW s, NEW r, NEW i, NEW p, Here(s, r, i, p), i.op = "drop"
  PROVE  Below(1) \in Seq(ValueSet) /\ FitsTypes(Below(1), r.vals)
<1>1. /\ TopOf(s).height \in Nat /\ ~TopOf(s).dead /\ s.vals \in Seq(Type) /\ Len(stack) = Len(s.vals) /\ Len(s.vals) \in Nat
      /\ stack \in Seq(ValueSet) /\ FitsTypes(stack, s.vals)
  BY HereParts DEF Here
<1>2. Len(s.vals) > TopOf(s).height /\ r.vals = FirstN(s.vals, Len(s.vals) - 1)
  BY <1>1, HereParts DEF Effect, DropEffect
<1>3. Len(stack) - 1 \in 0 .. Len(stack)
  BY <1>1, <1>2
<1> QED
  BY <1>1, <1>2, <1>3, FitsCut DEF Below

LEMMA LocalGetRun ==
  ASSUME NEW s, NEW r, NEW i, NEW p, Here(s, r, i, p), i.op = "local_get"
  PROVE  /\ locals[i.local] \in ValueSet
         /\ Pushed(locals[i.local]) \in Seq(ValueSet) /\ FitsTypes(Pushed(locals[i.local]), r.vals)
<1>1. /\ p \in 1 .. Len(code) /\ Len(code) \in Nat /\ i.local \in DOMAIN LocalType /\ stack \in Seq(ValueSet)
      /\ FitsTypes(stack, s.vals) /\ s.vals \in Seq(Type) /\ LocalsOK(locals, p) /\ s = seen[p]
  BY HereParts DEF Here, Decoded
<1>2. i.local \in Known(s) /\ r.vals = Append(s.vals, LocalType[i.local])
  BY HereParts DEF Effect, LocalGetEffect
<1>3. locals[i.local] \in ValueSet /\ Typed(locals[i.local], LocalType[i.local])
  BY <1>1, <1>2 DEF LocalsOK
<1>4. LocalType[i.local] \in Type
  BY <1>1, SideTableAssumption
<1> QED
  BY <1>1, <1>2, <1>3, <1>4, FitsAppend DEF Pushed

LEMMA LocalSetRun ==
  ASSUME NEW s, NEW r, NEW i, NEW p, Here(s, r, i, p), i.op = "local_set",
         NEW ls, ls = [locals EXCEPT ![i.local] = stack[Len(stack)]]
  PROVE  Below(1) \in Seq(ValueSet) /\ FitsTypes(Below(1), r.vals) /\ LocalsOK(ls, p + 1)
<1>1. /\ p \in 1 .. Len(code) /\ Len(code) \in Nat /\ i.local \in DOMAIN LocalType /\ LocalsOK(locals, p) /\ s = seen[p] /\ r = seen[p + 1]
      /\ s \in HeldSet /\ r \in HeldSet /\ i \in Instr /\ HeldOK(s, p) /\ Effect(s, r, i, p) /\ stack \in Seq(ValueSet)
  BY HereParts DEF Here, Decoded
<1>2. LocalType[i.local] \in Type
  BY <1>1, SideTableAssumption
<1> PICK t : t = LocalType[i.local]
  OBVIOUS
<1>3. CanPop(TopOf(s), s.vals, <<t>>) /\ r.vals = Pop(TopOf(s), s.vals, <<t>>)
  BY <1>1 DEF Effect, LocalSetEffect
<1>4. Below(1) \in Seq(ValueSet) /\ FitsTypes(Below(1), r.vals) /\ Typed(stack[Len(stack)], t) /\ Len(stack) >= 1
  BY <1>2, <1>3, BelowOne
<1>5. stack[Len(stack)] \in ValueSet
  BY <1>1, <1>4, ValueParts
<1>6. DOMAIN ls = DOMAIN LocalType /\ \A x \in DOMAIN LocalType : ls[x] = IF x = i.local THEN stack[Len(stack)] ELSE locals[x]
  BY <1>1 DEF LocalsOK
<1>7. Known(r) \subseteq Known(s) \cup {i.local}
  BY <1>1, KnownShrinks
<1>8. \A x \in DOMAIN LocalType : Typed(ls[x], LocalType[x]) /\ (ls[x] \in ValueSet \/ ls[x] = NeverSet(LocalType[x]))
  BY <1>1, <1>4, <1>5, <1>6 DEF LocalsOK
<1>9. \A x \in Known(r) : ls[x] \in ValueSet
  <2> SUFFICES ASSUME NEW x \in Known(r)
               PROVE  ls[x] \in ValueSet
    OBVIOUS
  <2>1. x \in DOMAIN LocalType
    <3>1. r.inits \in Seq(DOMAIN LocalType)
      BY <1>1, RecordParts
    <3>2. \A k \in DOMAIN r.inits : r.inits[k] \in DOMAIN LocalType
      BY <3>1
    <3> QED
      BY <3>2 DEF Known, Preset
  <2>2. x # i.local => locals[x] \in ValueSet
    BY <1>1, <1>7 DEF LocalsOK
  <2> QED
    BY <1>5, <1>6, <2>1, <2>2
<1> QED
  BY <1>1, <1>4, <1>6, <1>8, <1>9 DEF LocalsOK

\* block, loop, end and try_table leave the operands as they are.
LEMMA MarkerRun ==
  ASSUME NEW s, NEW r, NEW i, NEW p, Here(s, r, i, p), i.op \in {"block", "loop", "end", "try_table"}
  PROVE  FitsTypes(stack, r.vals)
<1>1. /\ TopOf(s).height \in Nat /\ TopOf(s).height <= Len(s.vals) /\ ~TopOf(s).dead /\ s.vals \in Seq(Type)
      /\ stack \in Seq(ValueSet) /\ FitsTypes(stack, s.vals) /\ TopOf(s).bt.out \in Seq(Type) /\ i \in Instr
  BY HereParts DEF Here
<1>2. CASE i.op = "end"
  <2>1. CanPop(TopOf(s), s.vals, TopOf(s).bt.out) /\ r.vals = Pop(TopOf(s), s.vals, TopOf(s).bt.out) \o TopOf(s).bt.out
    BY <1>2, HereParts DEF Effect, EndEffect, EndsArm
  <2> QED
    BY <1>1, <2>1, Restacked
<1>3. CASE i.op # "end"
  <2>1. CanPop(TopOf(s), s.vals, i.bt.in) /\ r.vals = Pop(TopOf(s), s.vals, i.bt.in) \o i.bt.in
    BY <1>3, HereParts DEF Effect, TryTableEffect, Enters
  <2>2. i.bt.in \in Seq(Type)
    BY <1>1, <1>3, TypesOfBlock DEF Opens
  <2> QED
    BY <1>1, <2>1, <2>2, Restacked
<1> QED
  BY <1>2, <1>3

\* Conditional branches that are not taken.
LEMMA IfRun ==
  ASSUME NEW s, NEW r, NEW i, NEW p, Here(s, r, i, p), i.op = "if"
  PROVE  /\ Below(1) \in Seq(ValueSet) /\ FitsTypes(Below(1), r.vals)
<1>1. /\ TopOf(s).height \in Nat /\ TopOf(s).height <= Len(s.vals) /\ ~TopOf(s).dead /\ s.vals \in Seq(Type)
      /\ stack \in Seq(ValueSet) /\ FitsTypes(stack, s.vals) /\ i \in Instr /\ Effect(s, r, i, p)
  BY HereParts DEF Here
<1>2. i.bt.in \in Seq(Type)
  BY <1>1, TypesOfBlock DEF Opens
<1>e. PICK is : is = i.bt.in
  OBVIOUS
<1>c. Condition \in Type /\ <<Condition>> \in Seq(Type) /\ Len(<<Condition>>) = 1
  BY SideTableAssumption
<1>t. PICK ts : ts = is \o <<Condition>>
  OBVIOUS
<1>3. CanPop(TopOf(s), s.vals, ts) /\ r.vals = Pop(TopOf(s), s.vals, ts) \o is
  BY <1>1, <1>t, <1>e DEF Effect, Enters
<1>4. /\ ts \in Seq(Type) /\ Len(ts) = Len(is) + 1 /\ Len(is) \in Nat
      /\ \A k \in 1 .. Len(is) : ts[k] = is[k]
  BY <1>2, <1>c, <1>t, <1>e, BehindTypes
<1>m. PICK m : m = Len(Pop(TopOf(s), s.vals, ts))
  OBVIOUS
<1>p. Popping(TopOf(s), s.vals, ts, stack, m)
  BY <1>1, <1>3, <1>4, <1>m DEF Popping
<1>q. Popped(TopOf(s), s.vals, ts, stack, m)
  BY ONLY <1>p, FitsPop
<1>u. PICK us : us = Pop(TopOf(s), s.vals, ts)
  OBVIOUS
<1>5. /\ m \in Nat /\ m + Len(ts) = Len(stack) /\ us \in Seq(Type) /\ m = Len(us) /\ Len(stack) \in Nat
      /\ (\A k \in 1 .. m : FirstN(stack, m)[k] = stack[k])
      /\ FitsTypes(FirstN(stack, m), us) /\ FirstN(stack, m) \in Seq(ValueSet)
      /\ \A k \in 1 .. Len(ts) : Typed(stack[m + k], ts[k])
  BY <1>q, <1>m, <1>u, <1>1, ValueParts DEF Popped
<1>b. PICK bs : bs = Below(1)
  OBVIOUS
<1>6. Len(stack) - 1 \in 0 .. Len(stack) /\ Len(stack) - 1 = m + Len(is)
  BY <1>4, <1>5
<1>7. bs \in Seq(ValueSet) /\ Len(bs) = m + Len(is) /\ \A k \in 1 .. (m + Len(is)) : bs[k] = stack[k]
  BY <1>1, <1>6, <1>b, FirstNEffect DEF Below
<1>8. \A k \in 1 .. m : Typed(bs[k], us[k])
  <2>1. \A k \in 1 .. m : Typed(FirstN(stack, m)[k], us[k])
    BY <1>5, FitsPointwise
  <2>2. \A k \in 1 .. m : k \in 1 .. (m + Len(is))
    BY <1>4, <1>5
  <2> QED
    BY <1>5, <1>7, <2>1, <2>2
<1>9. ASSUME NEW k \in 1 .. Len(is)
      PROVE  Typed(bs[m + k], is[k])
  <2>1. PICK x : x = m + k
    OBVIOUS
  <2>2. x \in 1 .. (m + Len(is)) /\ k \in 1 .. Len(ts)
    BY <1>4, <1>5, <2>1
  <2>3. bs[x] = stack[x] /\ Typed(stack[x], ts[k]) /\ ts[k] = is[k]
    BY <1>4, <1>5, <1>7, <2>1, <2>2
  <2> QED
    BY <2>1, <2>3
<1>10. FitsTypes(bs, us \o is)
  <2>1. /\ us \in Seq(Type) /\ is \in Seq(Type) /\ bs \in Seq(ValueSet) /\ m = Len(us) /\ Len(bs) = m + Len(is)
        /\ (\A k \in 1 .. m : Typed(bs[k], us[k])) /\ (\A k \in 1 .. Len(is) : Typed(bs[m + k], is[k]))
    BY <1>2, <1>5, <1>7, <1>8, <1>9, <1>e
  <2> QED
    BY ONLY <2>1, FitsBehind
<1> QED
  BY <1>3, <1>7, <1>10, <1>b, <1>u

LEMMA BrIfRun ==
  ASSUME NEW s, NEW r, NEW i, NEW p, Here(s, r, i, p), i.op = "br_if"
  PROVE  /\ Below(1) \in Seq(ValueSet) /\ FitsTypes(Below(1), r.vals)
<1>1. /\ TopOf(s).height \in Nat /\ TopOf(s).height <= Len(s.vals) /\ ~TopOf(s).dead /\ s.vals \in Seq(Type)
      /\ stack \in Seq(ValueSet) /\ FitsTypes(stack, s.vals) /\ i \in Instr /\ Effect(s, r, i, p) /\ HeldOK(s, p)
      /\ s \in HeldSet /\ i.label \in Nat
  BY HereParts DEF Here, Decoded
<1>c. Condition \in Type
  BY SideTableAssumption
<1>v. PICK vs : vs = Pop(TopOf(s), s.vals, <<Condition>>)
  OBVIOUS
<1>t. PICK ts : ts = LabelTypes(LabelAt(s, i.label))
  OBVIOUS
<1>2. /\ i.label < Len(s.ctrls) /\ CanPop(TopOf(s), s.vals, <<Condition>>) /\ CanPop(TopOf(s), vs, ts)
      /\ r.vals = Pop(TopOf(s), vs, ts) \o ts
  BY <1>1, <1>v, <1>t DEF Effect, BrIfEffect
<1>3. ts \in Seq(Type)
  <2>1. Len(s.ctrls) - i.label \in 1 .. Len(s.ctrls)
    BY <1>1, <1>2, RecordParts
  <2> QED
    BY <1>1, <1>t, <2>1, RecordParts, FrameFields DEF LabelAt
<1>4. /\ Below(1) \in Seq(ValueSet) /\ FitsTypes(Below(1), vs) /\ vs \in Seq(Type)
      /\ Len(Below(1)) = Len(vs) /\ TopOf(s).height <= Len(Below(1))
  BY <1>2, <1>c, <1>v, BelowOne
<1>f. PICK f : f = TopOf(s)
  OBVIOUS
<1>b. PICK bs : bs = Below(1)
  OBVIOUS
<1>5. FitsTypes(bs, Pop(f, vs, ts) \o ts)
  <2>1. /\ f.height \in Nat /\ ~f.dead /\ vs \in Seq(Type) /\ f.height <= Len(vs) /\ ts \in Seq(Type)
        /\ CanPop(f, vs, ts) /\ bs \in Seq(ValueSet) /\ FitsTypes(bs, vs)
    BY <1>1, <1>2, <1>3, <1>4, <1>f, <1>b
  <2> QED
    BY ONLY <2>1, Restacked
<1> QED
  BY <1>2, <1>4, <1>5, <1>f, <1>b

\* return leaves the operands as they are and goes behind the code.
LEMMA ReturnRun ==
  ASSUME NEW s, NEW r, NEW i, NEW p, Here(s, r, i, p), i.op = "return"
  PROVE  FrameGood(stack, Len(code) + 1, stp, locals, handlers)
<1>1. /\ TopOf(s).height \in Nat /\ TopOf(s).height <= Len(s.vals) /\ ~TopOf(s).dead /\ s.vals \in Seq(Type)
      /\ stack \in Seq(ValueSet) /\ FitsTypes(stack, s.vals) /\ i \in Instr /\ Effect(s, r, i, p) /\ HistoryOK
      /\ p \in 1 .. Len(code) /\ Len(code) \in Nat /\ p \in Nat /\ LocalsOK(locals, p) /\ HandlersOK(handlers, p)
      /\ AcceptedOK /\ stp = s.next /\ s = seen[p] /\ p \in DOMAIN seen
  BY HereParts DEF Here
<1>2. Results \in Seq(Type) /\ CanPop(TopOf(s), s.vals, Results)
  BY <1>1, SideTableAssumption DEF Effect
<1>m. PICK m : m = Len(Pop(TopOf(s), s.vals, Results))
  OBVIOUS
<1>p. Popping(TopOf(s), s.vals, Results, stack, m)
  BY <1>1, <1>2, <1>m DEF Popping
<1>q. Popped(TopOf(s), s.vals, Results, stack, m)
  BY ONLY <1>p, FitsPop
<1>3. /\ m \in Nat /\ m + Len(Results) = Len(stack) /\ Len(Results) \in Nat /\ Len(stack) \in Nat
      /\ \A k \in 1 .. Len(Results) : Typed(stack[m + k], Results[k])
  BY <1>q, <1>1, <1>2, ValueParts, TypeParts DEF Popped
<1>4. Len(Results) \in 0 .. Len(stack) /\ Len(stack) - Len(Results) = m /\ Len(stack) >= Len(Results)
  BY <1>3
<1>l. PICK ls : ls = LastN(stack, Len(Results))
  OBVIOUS
<1>5. ls \in Seq(ValueSet) /\ Len(ls) = Len(Results) /\ \A k \in 1 .. Len(Results) : ls[k] = stack[m + k]
  BY <1>1, <1>4, <1>l, LastNEffect
<1>6. FitsTypes(ls, Results)
  BY <1>2, <1>3, <1>5, FitsPointwise
<1>7. Len(code) + 1 \in DOMAIN seen /\ ~(Len(code) + 1 <= Len(code)) /\ Len(code) + 1 > Len(code) /\ p <= Len(code) + 1
      /\ Len(code) + 1 \in Nat
  BY <1>1, Positions
<1>8. stp \in 1 .. (Len(table) + 1)
  BY <1>1, Cursors
<1>9. OperandsOK(stack, Len(code) + 1, stp)
  BY <1>1, <1>4, <1>6, <1>7, <1>8, <1>l DEF OperandsOK
<1>10. LocalsOK(locals, Len(code) + 1)
  BY <1>1, <1>7 DEF LocalsOK
<1>11. HandlersOK(handlers, Len(code) + 1)
  BY <1>1, <1>7, HandlersLater
<1> QED
  BY <1>9, <1>10, <1>11 DEF FrameGood

(***************************************************************************)
(* Where a branch lands                                                    *)
(***************************************************************************)
\* Record t is what a branch out of frame j of record s finds, when it carries ts:
\* what was below the frame, the types carried, no other frame and no local more.
LandsWith(s, j, t, ts) ==
  /\ Len(t.vals) = s.ctrls[j].height + Len(ts)
  /\ \A k \in 1 .. s.ctrls[j].height : t.vals[k] = s.vals[k]
  /\ \A k \in 1 .. Len(ts) : t.vals[s.ctrls[j].height + k] = ts[k]
  /\ Known(t) \subseteq Known(s)
  /\ Alive(s) => Alive(t)

LEMMA ArmLands ==
  ASSUME NEW s \in HeldSet, NEW u \in HeldSet, NEW t \in HeldSet, NEW p \in Nat, HeldOK(u, p),
         NEW j \in 1 .. Len(s.ctrls), Frozen(s, u, j), Len(u.ctrls) = j,
         NEW ts \in Seq(Type), EndsArm(u, t, ts), Keeps(u, t, j - 1),
         Len(t.ctrls) = j - 1 \/ (Len(t.ctrls) = j /\ ~t.ctrls[j].dead)
  PROVE  LandsWith(s, j, t, ts)
<1>1. /\ Len(s.ctrls) \in Nat /\ j \in Nat /\ j >= 1 /\ u.ctrls # <<>> /\ TopOf(u) = u.ctrls[j]
      /\ Len(s.inits) \in Nat /\ Len(u.inits) \in Nat /\ Len(t.inits) \in Nat /\ s.ctrls[j] \in FrameSet
      /\ (\A x : x \in DOMAIN s.ctrls <=> x \in 1 .. Len(s.ctrls)) /\ Len(t.ctrls) \in Nat
      /\ (\A x : x \in DOMAIN t.ctrls <=> x \in 1 .. Len(t.ctrls))
  BY RecordParts DEF TopOf
<1>h. PICK h : h = s.ctrls[j].height
  OBVIOUS
<1>m. PICK m : m = s.ctrls[j].inits
  OBVIOUS
<1>2. h \in Nat /\ m \in Nat /\ u.ctrls[j].height = h /\ u.ctrls[j].inits = m
  BY <1>1, <1>h, <1>m, FrameFields DEF Frozen, SameFrame
<1>3. /\ Agree(u.vals, t.vals, h) /\ Agree(u.inits, t.inits, m) /\ Len(t.inits) = m
      /\ Len(t.vals) = h + Len(ts) /\ \A k \in 1 .. Len(ts) : t.vals[h + k] = ts[k]
  <2>1. /\ Agree(u.vals, t.vals, TopOf(u).height) /\ Agree(u.inits, t.inits, TopOf(u).inits)
        /\ Len(t.inits) = TopOf(u).inits /\ Len(t.vals) = TopOf(u).height + Len(ts)
        /\ \A k \in 1 .. Len(ts) : t.vals[TopOf(u).height + k] = ts[k]
    <3>1. u \in HeldSet /\ t \in HeldSet /\ p \in Nat /\ HeldOK(u, p) /\ u.ctrls # <<>> /\ ts \in Seq(Type) /\ EndsArm(u, t, ts)
      BY <1>1
    <3> QED
      BY ONLY <3>1, ArmKeeps
  <2>2. TopOf(u).height = h /\ TopOf(u).inits = m
    BY <1>1, <1>2
  <2> QED
    BY <2>1, <2>2
<1>4. Agree(s.vals, u.vals, h) /\ Agree(s.inits, u.inits, m) /\ Keeps(s, u, j - 1)
  BY <1>h, <1>m DEF Frozen
<1>5. Agree(s.vals, t.vals, h) /\ Agree(s.inits, t.inits, m)
  BY <1>3, <1>4, AgreeTrans
<1>6. \A k \in 1 .. h : t.vals[k] = s.vals[k]
  BY <1>5 DEF Agree
<1>7. Known(t) \subseteq Known(s)
  <2>1. m <= Len(s.inits) /\ m <= Len(t.inits)
    BY <1>5 DEF Agree
  <2>2. m \in 0 .. Len(s.inits)
    BY <1>1, <1>2, <2>1
  <2> QED
    BY <1>3, <1>5, <2>1, <2>2, KnownAmong
<1>8. ASSUME Alive(s), NEW x \in DOMAIN t.ctrls
      PROVE  ~t.ctrls[x].dead
  <2>1. x \in 1 .. (j - 1) \/ (x = j /\ ~t.ctrls[j].dead)
    BY <1>1
  <2>2. CASE x \in 1 .. (j - 1)
    <3>1. x \in 1 .. Len(s.ctrls)
      BY <1>1, <2>2
    <3> QED
      BY <1>1, <1>4, <1>8, <2>2, <3>1 DEF Keeps, Alive
  <2> QED
    BY <2>1, <2>2
<1> QED
  BY <1>3, <1>6, <1>7, <1>8, <1>h DEF LandsWith, Alive

\* The start of a loop, opened at position p by record w.
LEMMA LoopLands ==
  ASSUME NEW s \in HeldSet, NEW t \in HeldSet, NEW w \in HeldSet, NEW p, HeldOK(w, p), w.ctrls # <<>>, NEW i \in Instr,
         Opens(i), Enters(w, t, i, p, i.bt.in), NEW j, Len(t.ctrls) = j, Frozen(t, s, j), j \in 1 .. Len(s.ctrls)
  PROVE  LandsWith(s, j, t, s.ctrls[j].bt.in)
<1>1. /\ Len(s.ctrls) \in Nat /\ j \in Nat /\ j >= 1 /\ TopOf(t) = t.ctrls[j]
      /\ Len(s.inits) \in Nat /\ Len(w.inits) \in Nat /\ Len(t.inits) \in Nat /\ s.ctrls[j] \in FrameSet
      /\ (\A x : x \in DOMAIN s.ctrls <=> x \in 1 .. Len(s.ctrls)) /\ Len(t.ctrls) \in Nat
      /\ (\A x : x \in DOMAIN t.ctrls <=> x \in 1 .. Len(t.ctrls))
  BY RecordParts DEF TopOf
<1>h. PICK h : h = s.ctrls[j].height
  OBVIOUS
<1>m. PICK m : m = s.ctrls[j].inits
  OBVIOUS
<1>i. PICK is : is = i.bt.in
  OBVIOUS
<1>2. /\ h \in Nat /\ m \in Nat /\ TopOf(t).height = h /\ TopOf(t).inits = m /\ TopOf(t).bt = s.ctrls[j].bt
  BY <1>1, <1>h, <1>m, FrameFields DEF Frozen, SameFrame
<1>3. /\ is \in Seq(Type) /\ is = s.ctrls[j].bt.in /\ t.inits = w.inits /\ Len(w.inits) = m /\ ~TopOf(t).dead
      /\ h = Len(Pop(TopOf(w), w.vals, is)) /\ t.vals = Pop(TopOf(w), w.vals, is) \o is
  BY <1>2, <1>i, TypesOfBlock DEF Enters
<1>p. PICK ps : ps = Pop(TopOf(w), w.vals, is)
  OBVIOUS
<1>4. ps \in Seq(Type) /\ Len(ps) = h
  <2>1. TopOf(w).height \in Nat /\ TopOf(w).height <= Len(w.vals) /\ w.vals \in Seq(Type)
    BY RecordTop, RecordParts
  <2> QED
    BY <1>3, <1>p, <2>1, PopEffect
<1>5. Len(t.vals) = h + Len(is) /\ \A k \in 1 .. Len(is) : t.vals[h + k] = is[k]
  BY <1>3, <1>4, <1>p, BehindTypes
<1>6. Agree(t.vals, s.vals, h) /\ Agree(t.inits, s.inits, m) /\ Keeps(t, s, j - 1)
  BY <1>1, <1>2 DEF Frozen
<1>7. \A k \in 1 .. h : t.vals[k] = s.vals[k]
  BY <1>6 DEF Agree
<1>8. Known(t) \subseteq Known(s)
  <2>1. m <= Len(s.inits) /\ m <= Len(t.inits) /\ Len(t.inits) = m
    BY <1>3, <1>6 DEF Agree
  <2>2. m \in 0 .. Len(s.inits)
    BY <1>1, <1>2, <2>1
  <2>3. Agree(s.inits, t.inits, m)
    BY <1>6 DEF Agree
  <2> QED
    BY <2>1, <2>2, <2>3, KnownAmong
<1>9. ASSUME Alive(s), NEW x \in DOMAIN t.ctrls
      PROVE  ~t.ctrls[x].dead
  <2>1. x \in 1 .. (j - 1) \/ x = j
    BY <1>1
  <2>2. CASE x \in 1 .. (j - 1)
    <3>1. x \in 1 .. Len(s.ctrls)
      BY <1>1, <2>2
    <3> QED
      BY <1>1, <1>6, <1>9, <2>2, <3>1 DEF Keeps, Alive
  <2> QED
    BY <1>1, <1>3, <2>1, <2>2
<1> QED
  BY <1>3, <1>5, <1>7, <1>8, <1>9, <1>h DEF LandsWith, Alive

\* While frame j is open, record u at position q is a continuation of record s.
LEMMA StillOpen ==
  ASSUME HistoryOK, NEW p \in DOMAIN seen, NEW q \in DOMAIN seen, p <= q, NEW s, s = seen[p], NEW u, u = seen[q],
         NEW j \in 1 .. Len(s.ctrls), OpenIn(u, j, s.ctrls[j].start)
  PROVE  Frozen(s, u, j) /\ \A k \in p .. q : OpenIn(seen[k], j, s.ctrls[j].start)
<1>1. s \in HeldSet
  BY Positions
<1>2. j \in DOMAIN s.ctrls
  BY <1>1, RecordParts
<1> QED
  BY <1>2 DEF HistoryOK, FrozenWhileOpen

\* Where the end or the else of frame j, open in record s, lands.
ArmEnds(p, s, j, o, to) ==
  /\ p \in DOMAIN seen /\ s = seen[p] /\ j \in 1 .. Len(s.ctrls) /\ o \in {"end", "else"}
  /\ to \in Nat /\ ClosedBy(o, to, j, s.ctrls[j].start) /\ p < to
ArmLeft(s, j, o, to) ==
  /\ to \in DOMAIN seen /\ s.ctrls[j].bt.in \in Seq(Type) /\ s.ctrls[j].bt.out \in Seq(Type)
  /\ LandsWith(s, j, seen[to], IF o = "end" THEN s.ctrls[j].bt.out ELSE s.ctrls[j].bt.in)
  /\ o = "end" => NoElseAllowed(seen[to - 1].ctrls[j])
  /\ seen[to - 1].ctrls[j].bt = s.ctrls[j].bt /\ TopOf(seen[to - 1]) = seen[to - 1].ctrls[j]
  /\ to - 1 \in DOMAIN code /\ code[to - 1].op = o
LEMMA ArmTarget ==
  ASSUME HistoryOK, NEW p, NEW s, NEW j, NEW o, NEW to, ArmEnds(p, s, j, o, to)
  PROVE  ArmLeft(s, j, o, to)
<1>0. /\ p \in DOMAIN seen /\ s = seen[p] /\ j \in 1 .. Len(s.ctrls) /\ o \in {"end", "else"}
      /\ to \in Nat /\ ClosedBy(o, to, j, s.ctrls[j].start) /\ p < to
  BY DEF ArmEnds
<1>q. PICK q : q = to - 1
  OBVIOUS
<1>u. PICK u : u = seen[q]
  OBVIOUS
<1>t. PICK t : t = seen[to]
  OBVIOUS
<1>1. /\ q \in DOMAIN code /\ code[q].op = o /\ Len(u.ctrls) = j /\ OpenIn(u, j, s.ctrls[j].start)
  BY <1>0, <1>q, <1>u DEF ClosedBy
<1>2. q + 1 = to
  BY <1>0, <1>q
<1>3. /\ s \in HeldSet /\ u \in HeldSet /\ t \in HeldSet /\ HeldOK(u, q) /\ code[q] \in Instr /\ to \in DOMAIN seen
      /\ Effect(u, t, code[q], q) /\ q \in DOMAIN seen /\ Len(code) \in Nat /\ p \in 1 .. (Len(code) + 1)
  BY <1>0, <1>1, <1>2, <1>u, <1>t, Positions
<1>4. p <= q /\ q \in Nat
  <2>1. p \in Nat /\ q = to - 1
    BY <1>0, <1>3, <1>q
  <2>2. q \in 1 .. Len(code)
    BY <1>1, Positions
  <2> QED
    BY <1>0, <1>3, <2>1, <2>2
<1>5. Frozen(s, u, j)
  BY <1>0, <1>1, <1>3, <1>4, <1>u, StillOpen
<1>6. TopOf(u) = u.ctrls[j] /\ u.ctrls[j].bt = s.ctrls[j].bt /\ s.ctrls[j] \in FrameSet
  BY <1>0, <1>1, <1>3, <1>5, RecordParts DEF TopOf, Frozen, SameFrame
<1>7. s.ctrls[j].bt.in \in Seq(Type) /\ s.ctrls[j].bt.out \in Seq(Type)
  BY <1>6, FrameFields
<1>8. CASE o = "end"
  <2>1. EndsArm(u, t, s.ctrls[j].bt.out) /\ NoElseAllowed(u.ctrls[j]) /\ Len(t.ctrls) = j - 1 /\ Keeps(u, t, j - 1)
    BY <1>1, <1>3, <1>6, <1>8 DEF Effect, EndEffect
  <2>2. LandsWith(s, j, t, s.ctrls[j].bt.out)
    BY <1>1, <1>3, <1>4, <1>5, <1>7, <2>1, <1>0, ArmLands
  <2> QED
    BY <1>1, <1>3, <1>6, <1>7, <1>8, <2>1, <2>2, <1>q, <1>u, <1>t DEF ArmLeft
<1>9. CASE o = "else"
  <2>1. EndsArm(u, t, s.ctrls[j].bt.in) /\ Len(t.ctrls) = j /\ ~t.ctrls[j].dead /\ Keeps(u, t, j - 1)
    BY <1>1, <1>3, <1>6, <1>9 DEF Effect, ElseEffect, TopOf
  <2>2. LandsWith(s, j, t, s.ctrls[j].bt.in)
    BY <1>1, <1>3, <1>4, <1>5, <1>7, <2>1, <1>0, ArmLands
  <2> QED
    BY <1>1, <1>3, <1>6, <1>7, <1>9, <2>2, <1>q, <1>u, <1>t DEF ArmLeft
<1> QED
  BY <1>0, <1>8, <1>9

\* A branch out of a construct, or to the start of a loop.
LEMMA BranchLands ==
  ASSUME HistoryOK, NEW p \in DOMAIN code, NEW k \in 1 .. Slots(code[p]), code[p].op # "if",
         NEW to \in DOMAIN seen, NEW skip, Landing(p, k, to, skip), NEW s, s = seen[p], NEW j, j = HomeIdx(p, k)
  PROVE  /\ j \in 1 .. Len(s.ctrls) /\ LabelTypes(s.ctrls[j]) \in Seq(Type)
         /\ LandsWith(s, j, seen[to], LabelTypes(s.ctrls[j]))
<1>1. /\ s \in HeldSet /\ HeldOK(s, p) /\ code[p] \in Instr /\ Effect(s, seen[p + 1], code[p], p) /\ p \in DOMAIN seen
      /\ Len(code) \in Nat /\ p \in 1 .. Len(code) /\ to \in 1 .. (Len(code) + 1) /\ seen[to] \in HeldSet
  BY Positions
<1>2. j \in 1 .. Len(s.ctrls)
  BY <1>1, HomeInside DEF HomeIdx
<1>3. s.ctrls[j] \in FrameSet /\ Len(s.ctrls) \in Nat /\ j \in DOMAIN s.ctrls
  BY <1>1, <1>2, RecordParts
<1>4. LabelTypes(s.ctrls[j]) \in Seq(Type)
  BY <1>3, FrameFields
<1>5. HomeStart(p, k) = s.ctrls[j].start /\ (HomeLoop(p, k) <=> s.ctrls[j].op = "loop")
  BY DEF HomeStart, StartAt, HomeLoop, LoopAt, HomeIdx
<1>6. CASE HomeLoop(p, k) /\ to = s.ctrls[j].start
  <2>1. FrameOK(s, j, p)
    BY <1>1, <1>3 DEF HeldOK
  <2>2. j > 1
    <3>1. j = 1 => s.ctrls[j].op = "block"
      BY <2>1 DEF FrameOK
    <3> QED
      BY <1>2, <1>3, <1>5, <1>6, <3>1
  <2>t. PICK t : t = seen[to]
    OBVIOUS
  <2>b. PICK b : b = to - 1
    OBVIOUS
  <2>w. PICK w : w = seen[b]
    OBVIOUS
  <2>3. /\ to \in 2 .. p /\ Opens(code[b]) /\ code[b].op = "loop" /\ Len(t.ctrls) = j /\ t.ctrls[j].start = to
    BY <1>5, <1>6, <2>1, <2>2, <2>b, <2>t DEF FrameOK, Construct
  <2>4. b \in DOMAIN code /\ b + 1 = to /\ to <= p /\ b \in Nat
    <3>1. b \in 1 .. Len(code) /\ b + 1 = to /\ to <= p /\ b \in Nat
      BY <1>1, <2>3, <2>b
    <3> QED
      BY <3>1, Positions
  <2>5. /\ w \in HeldSet /\ t \in HeldSet /\ HeldOK(w, b) /\ code[b] \in Instr /\ Effect(w, t, code[b], b)
    BY <2>4, <2>t, <2>w, Positions
  <2>6. w.ctrls # <<>> /\ Enters(w, t, code[b], b, code[b].bt.in)
    BY <2>3, <2>5 DEF Effect
  <2>7. Len(t.ctrls) \in Nat /\ j \in 1 .. Len(t.ctrls)
    BY <1>2, <1>3, <2>3
  <2>8. OpenIn(s, j, t.ctrls[j].start)
    BY <1>3, <1>6, <2>3 DEF OpenIn
  <2>9. Frozen(t, s, j)
    <3>1. /\ HistoryOK /\ to \in DOMAIN seen /\ p \in DOMAIN seen /\ to <= p /\ t = seen[to] /\ s = seen[p]
          /\ j \in 1 .. Len(t.ctrls) /\ OpenIn(s, j, t.ctrls[j].start)
      BY <1>1, <2>4, <2>7, <2>8, <2>t
    <3> QED
      BY ONLY <3>1, StillOpen
  <2>10. LandsWith(s, j, t, s.ctrls[j].bt.in)
    BY <1>1, <1>2, <2>3, <2>5, <2>6, <2>9, LoopLands
  <2> QED
    BY <1>2, <1>4, <1>5, <1>6, <2>10, <2>t DEF LabelTypes
<1>7. CASE ~HomeLoop(p, k) /\ ClosedBy("end", to, j, s.ctrls[j].start) /\ to > p + 1
  <2>1. to \in Nat /\ p < to
    BY <1>1, <1>7
  <2>2. LandsWith(s, j, seen[to], s.ctrls[j].bt.out)
    <3>o. PICK o : o = "end"
      OBVIOUS
    <3>1. ArmEnds(p, s, j, o, to)
      BY <1>1, <1>2, <1>7, <2>1, <3>o DEF ArmEnds
    <3> QED
      BY <3>1, <3>o, ArmTarget DEF ArmLeft
  <2> QED
    BY <1>2, <1>4, <1>5, <1>7, <2>2 DEF LabelTypes
<1> QED
  BY <1>5, <1>6, <1>7 DEF Landing, HomeIdx

\* The operands behind a branch that keeps n of vs and pops what is under them.
Moved(vs, n, pop) == IF pop = 0 THEN vs ELSE FirstN(vs, Len(vs) - n - pop) \o LastN(vs, n)

\* Operands that fit the record of the branch, the topmost the types it carries, fit
\* where it lands.
LEMMA MovedFits ==
  ASSUME NEW s, NEW j, NEW h \in Nat, h = s.ctrls[j].height, NEW t \in HeldSet, NEW ts \in Seq(Type), LandsWith(s, j, t, ts),
         NEW vs \in Seq(ValueSet), NEW m \in Nat, m + Len(ts) = Len(vs), h <= m,
         \A k \in 1 .. h : Typed(vs[k], s.vals[k]), \A k \in 1 .. Len(ts) : Typed(vs[m + k], ts[k]),
         NEW pop, pop = m - h, NEW ws, ws = Moved(vs, Len(ts), pop)
  PROVE  ws \in Seq(ValueSet) /\ FitsTypes(ws, t.vals)
<1>n. PICK n : n = Len(ts)
  OBVIOUS
<1>1. Len(vs) \in Nat /\ n \in Nat /\ n \in 0 .. Len(vs) /\ Len(vs) - n = m /\ h \in 0 .. Len(vs) /\ t.vals \in Seq(Type)
  BY <1>n, ValueParts, TypeParts, RecordParts
<1>2. /\ Len(t.vals) = h + n /\ (\A k \in 1 .. h : t.vals[k] = s.vals[k])
      /\ (\A k \in 1 .. n : t.vals[h + k] = ts[k])
  BY <1>n DEF LandsWith
<1>3. /\ ws \in Seq(ValueSet) /\ Len(ws) = h + n /\ (\A k \in 1 .. h : ws[k] = vs[k])
      /\ (\A k \in 1 .. n : ws[h + k] = vs[m + k])
  <2>1. CASE pop = 0
    <3>1. m = h /\ ws = vs
      BY <1>1, <2>1, SMTT(40) DEF Moved
    <3> QED
      BY <1>1, <3>1, <1>n
  <2>2. CASE pop # 0
    <3>a. PICK a : a = FirstN(vs, h)
      OBVIOUS
    <3>b. PICK b : b = LastN(vs, n)
      OBVIOUS
    <3>1. Len(vs) - n - pop = h
      <4>1. m \in Nat /\ h \in Nat /\ Len(vs) - n = m /\ pop = m - h
        BY <1>1
      <4>2. PICK d : d = Len(vs) - n
        OBVIOUS
      <4>3. d - pop = h
        BY ONLY <4>1, <4>2
      <4> QED
        BY ONLY <4>2, <4>3
    <3>2. ws = a \o b
      BY <2>2, <3>1, <3>a, <3>b, <1>n DEF Moved
    <3>3. a \in Seq(ValueSet) /\ Len(a) = h /\ \A k \in 1 .. h : a[k] = vs[k]
      BY <1>1, <3>a, FirstNEffect
    <3>4. b \in Seq(ValueSet) /\ Len(b) = n /\ \A k \in 1 .. n : b[k] = vs[m + k]
      <4>1. b \in Seq(ValueSet) /\ Len(b) = n /\ \A k \in 1 .. n : b[k] = vs[Len(vs) - n + k]
        BY <1>1, <3>b, LastNEffect
      <4> QED
        BY <1>1, <4>1
    <3>5. /\ ws \in Seq(ValueSet) /\ Len(ws) = Len(a) + Len(b)
          /\ (\A k \in 1 .. Len(a) : ws[k] = a[k]) /\ (\A k \in 1 .. Len(b) : ws[Len(a) + k] = b[k])
      <4>1. a \in Seq(ValueSet) /\ b \in Seq(ValueSet)
        BY <3>3, <3>4
      <4>2. /\ a \o b \in Seq(ValueSet) /\ Len(a \o b) = Len(a) + Len(b)
            /\ (\A k \in 1 .. Len(a) : (a \o b)[k] = a[k]) /\ (\A k \in 1 .. Len(b) : (a \o b)[Len(a) + k] = b[k])
        BY ONLY <4>1, BehindEffect
      <4> QED
        BY <3>2, <4>2
    <3> QED
      BY <3>3, <3>4, <3>5
  <2> QED
    BY <2>1, <2>2
<1>4. ASSUME NEW x \in 1 .. (h + n)
      PROVE  Typed(ws[x], t.vals[x])
  <2>0. x \in 1 .. (h + n) /\ h \in Nat /\ n \in Nat
    BY <1>1
  <2>1. x \in 1 .. h \/ x - h \in 1 .. n
    BY ONLY <2>0
  <2>2. CASE x \in 1 .. h
    BY <1>2, <1>3, <2>2
  <2>3. CASE x - h \in 1 .. n
    <3>1. PICK k : k = x - h
      OBVIOUS
    <3>2. k \in 1 .. n /\ x = h + k
      BY <1>1, <2>3, <3>1, SMTT(40)
    <3>3. ws[h + k] = vs[m + k] /\ t.vals[h + k] = ts[k] /\ Typed(vs[m + k], ts[k])
      BY <1>2, <1>3, <3>2, <1>n
    <3> QED
      BY <3>2, <3>3
  <2> QED
    BY <2>1, <2>2, <2>3
<1> QED
  BY <1>1, <1>2, <1>3, <1>4, FitsPointwise

\* The branch of an if whose condition is false.
LEMMA IfLands ==
  ASSUME HistoryOK, NEW p \in DOMAIN code, NEW i, i = code[p], i.op = "if", NEW to \in DOMAIN seen, NEW skip, Landing(p, 1, to, skip),
         NEW s, s = seen[p], Alive(s), NEW r, r = seen[p + 1],
         NEW vs \in Seq(ValueSet), FitsTypes(vs, r.vals)
  PROVE  FitsTypes(vs, seen[to].vals) /\ Known(seen[to]) \subseteq Known(s) /\ Alive(seen[to])
<1>t. PICK t : t = seen[to]
  OBVIOUS
<1>j. PICK j : j = Len(r.ctrls)
  OBVIOUS
<1>1. /\ s \in HeldSet /\ HeldOK(s, p) /\ i \in Instr /\ Effect(s, r, i, p) /\ p \in DOMAIN seen /\ p + 1 \in DOMAIN seen
      /\ Len(code) \in Nat /\ p \in 1 .. Len(code) /\ to \in 1 .. (Len(code) + 1) /\ t \in HeldSet /\ r \in HeldSet /\ HeldOK(r, p + 1)
  BY <1>t, Positions
<1>e. PICK is : is = i.bt.in
  OBVIOUS
<1>q. PICK qs : qs = is \o <<Condition>>
  OBVIOUS
<1>2. /\ r.vals = Pop(TopOf(s), s.vals, qs) \o is /\ Len(r.ctrls) = Len(s.ctrls) + 1 /\ r.inits = s.inits /\ s.ctrls # <<>>
      /\ TopOf(r).start = p + 1 /\ TopOf(r).bt = i.bt /\ TopOf(r).height = Len(Pop(TopOf(s), s.vals, qs))
  BY <1>1, <1>e, <1>q DEF Effect, Enters
<1>3. j \in 1 .. Len(r.ctrls) /\ r.ctrls[j] = TopOf(r) /\ j = Len(s.ctrls) + 1 /\ TopOf(r) \in FrameSet /\ p + 1 \in Nat
  <2>1. r \in HeldSet /\ s \in HeldSet
    BY <1>1
  <2>2. /\ Len(r.ctrls) \in Nat /\ (\A x \in 1 .. Len(r.ctrls) : r.ctrls[x] \in FrameSet)
        /\ Len(s.ctrls) \in Nat
    BY ONLY <2>1, RecordParts
  <2>3. Len(r.ctrls) = Len(s.ctrls) + 1 /\ Len(code) \in Nat /\ p \in 1 .. Len(code)
    BY <1>1, <1>2
  <2>4. j \in 1 .. Len(r.ctrls) /\ j = Len(s.ctrls) + 1 /\ p + 1 \in Nat
    BY ONLY <2>2, <2>3, <1>j
  <2>5. TopOf(r) = r.ctrls[j]
    BY ONLY <1>j DEF TopOf
  <2>6. TopOf(r) \in FrameSet
    BY ONLY <2>2, <2>4, <2>5
  <2> QED
    BY ONLY <2>4, <2>5, <2>6
<1>h. PICK h : h = r.ctrls[j].height
  OBVIOUS
<1>4. is \in Seq(Type) /\ i.bt.out \in Seq(Type) /\ h \in Nat /\ Len(r.vals) = h + Len(is) /\ Len(is) \in Nat
      /\ (\A k \in 1 .. Len(is) : r.vals[h + k] = is[k]) /\ r.vals \in Seq(Type) /\ t.vals \in Seq(Type)
  <2>1. is \in Seq(Type) /\ i.bt.out \in Seq(Type) /\ r.vals \in Seq(Type) /\ t.vals \in Seq(Type)
    BY <1>1, <1>e, TypesOfBlock, RecordParts DEF Opens
  <2>2. qs \in Seq(Type)
    <3>1. <<Condition>> \in Seq(Type)
      BY SideTableAssumption
    <3> QED
      BY <2>1, <3>1, <1>q, BehindTypes
  <2>3. TopOf(s).height \in Nat /\ TopOf(s).height <= Len(s.vals) /\ s.vals \in Seq(Type)
    BY <1>1, <1>2, RecordTop, RecordParts
  <2>p. PICK ps : ps = Pop(TopOf(s), s.vals, qs)
    OBVIOUS
  <2>4. ps \in Seq(Type) /\ Len(ps) = h
    BY <2>2, <2>3, <2>p, <1>2, <1>3, <1>h, PopEffect
  <2>5. r.vals = ps \o is
    BY <1>2, <2>p
  <2>6. /\ Len(ps \o is) = Len(ps) + Len(is) /\ \A k \in 1 .. Len(is) : (ps \o is)[Len(ps) + k] = is[k]
    <3>1. ps \in Seq(Type) /\ is \in Seq(Type)
      BY <2>1, <2>4
    <3> QED
      BY ONLY <3>1, BehindTypes
  <2>7. h \in Nat /\ Len(is) \in Nat
    BY <1>3, <1>h, <2>1, FrameFields, TypeParts
  <2> QED
    BY <2>1, <2>4, <2>5, <2>6, <2>7
<1>5. HomeIdx(p, 1) = j /\ HomeStart(p, 1) = p + 1 /\ ~HomeLoop(p, 1) /\ r.ctrls[j].start = p + 1 /\ r.ctrls[j].bt = i.bt
  BY <1>2, <1>3 DEF HomeIdx, HomeAt, HomeStart, StartAt, HomeLoop, LoopAt
<1>6. Alive(r) /\ Known(r) = Known(s)
  BY <1>1, <1>2, StaysAlive, KnownSame
<1>7. to \in Nat /\ (to > p + 1 => p + 1 < to)
  BY <1>1
<1>8. Len(vs) = Len(r.vals) /\ (\A k \in 1 .. Len(r.vals) : Typed(vs[k], r.vals[k])) /\ \A k \in 1 .. Len(vs) : vs[k].type \in Type
  BY <1>4, FitsPointwise, ValueParts
<1>9. CASE ClosedBy("else", to, j, p + 1) /\ to > p + 1
  <2>1. LandsWith(r, j, t, r.ctrls[j].bt.in)
    <3>o. PICK o : o = "else"
      OBVIOUS
    <3>b. PICK b : b = p + 1
      OBVIOUS
    <3>1. ArmEnds(b, r, j, o, to)
      BY <1>1, <1>3, <1>5, <1>7, <1>9, <3>o, <3>b DEF ArmEnds
    <3>2. ArmLeft(r, j, o, to)
      BY <3>1, ArmTarget
    <3> QED
      BY <3>2, <3>o, <1>t DEF ArmLeft
  <2>2. /\ Len(t.vals) = h + Len(is) /\ (\A k \in 1 .. h : t.vals[k] = r.vals[k])
        /\ (\A k \in 1 .. Len(is) : t.vals[h + k] = is[k]) /\ Known(t) \subseteq Known(r) /\ Alive(t)
    BY <1>5, <1>6, <2>1, <1>h, <1>e DEF LandsWith
  <2>3. ASSUME NEW x \in 1 .. (h + Len(is))
        PROVE  Typed(vs[x], t.vals[x])
    <3>1. x \in 1 .. h \/ x - h \in 1 .. Len(is)
      BY <1>4
    <3>2. CASE x \in 1 .. h
      BY <1>4, <1>8, <2>2, <3>2
    <3>3. CASE x - h \in 1 .. Len(is)
      <4>1. PICK k : k = x - h
        OBVIOUS
      <4>2. k \in 1 .. Len(is) /\ x = h + k
        BY <1>4, <3>3, <4>1
      <4> QED
        BY <1>4, <1>8, <2>2, <4>2
    <3> QED
      BY <3>1, <3>2, <3>3
  <2>4. FitsTypes(vs, t.vals)
    BY <1>4, <1>8, <2>2, <2>3, FitsPointwise
  <2> QED
    BY <1>6, <2>2, <2>4, <1>t
<1>10. CASE ClosedBy("end", to, j, p + 1) /\ to > p + 1 /\ seen[to - 1].ctrls[j].op = "if"
  <2>o. PICK os : os = i.bt.out
    OBVIOUS
  <2>1. LandsWith(r, j, t, r.ctrls[j].bt.out) /\ NoElseAllowed(seen[to - 1].ctrls[j]) /\ seen[to - 1].ctrls[j].bt = r.ctrls[j].bt
        /\ TopOf(seen[to - 1]) = seen[to - 1].ctrls[j] /\ to - 1 \in DOMAIN code /\ code[to - 1].op = "end"
    <3>o. PICK o : o = "end"
      OBVIOUS
    <3>b. PICK b : b = p + 1
      OBVIOUS
    <3>1. ArmEnds(b, r, j, o, to)
      BY <1>1, <1>3, <1>5, <1>7, <1>10, <3>o, <3>b DEF ArmEnds
    <3>2. ArmLeft(r, j, o, to)
      BY <3>1, ArmTarget
    <3> QED
      BY <3>2, <3>o, <1>t DEF ArmLeft
  <2>2. Len(os) = Len(is)
    BY <1>5, <1>10, <2>1, <2>o, <1>e DEF NoElseAllowed
  <2>3. ElselessIfsFit => \A k \in 1 .. Len(is) : Matches(is[k], os[k])
    BY <1>4, <1>5, <1>10, <2>1, <2>o, <1>e, TypeParts, ZenonT(60) DEF ElselessIfsFit
  <2>4. /\ Len(t.vals) = h + Len(is) /\ (\A k \in 1 .. h : t.vals[k] = r.vals[k])
        /\ (\A k \in 1 .. Len(is) : t.vals[h + k] = os[k]) /\ Known(t) \subseteq Known(r) /\ Alive(t)
    BY <1>5, <1>6, <2>1, <2>2, <1>h, <2>o DEF LandsWith
  <2>5. ASSUME NEW x \in 1 .. (h + Len(is))
        PROVE  Typed(vs[x], t.vals[x])
    <3>1. x \in 1 .. h \/ x - h \in 1 .. Len(is)
      BY <1>4
    <3>2. CASE x \in 1 .. h
      BY <1>4, <1>8, <2>4, <3>2
    <3>3. CASE x - h \in 1 .. Len(is)
      <4>1. PICK k : k = x - h
        OBVIOUS
      <4>2. k \in 1 .. Len(is) /\ x = h + k
        BY <1>4, <3>3, <4>1
      <4>3. Typed(vs[x], is[k]) /\ t.vals[x] = os[k] /\ vs[x].type \in Type
        BY <1>4, <1>8, <2>4, <4>2
      <4>4. is[k] \in Type /\ os[k] \in Type
        BY <1>4, <2>2, <2>o, <4>2, TypeParts
      <4>5. Typed(vs[x], os[k])
        BY <2>3, <4>2, <4>3, <4>4, MatchesTrans DEF Typed
      <4> QED
        BY <4>3, <4>5
    <3> QED
      BY <3>1, <3>2, <3>3
  <2>6. FitsTypes(vs, t.vals)
    BY <1>4, <1>8, <2>4, <2>5, FitsPointwise
  <2> QED
    BY <1>6, <2>4, <2>6, <1>t
<1> QED
  BY <1>5, <1>9, <1>10 DEF Landing

(***************************************************************************)
(* The branches                                                            *)
(***************************************************************************)
\* No handler was pushed inside a loop: the start of the loop is behind them all.
LEMMA HandlersAtLoop ==
  ASSUME ~TryInLoop, HistoryOK, NEW p \in DOMAIN seen, NEW s, s = seen[p], NEW j \in 1 .. Len(s.ctrls), s.ctrls[j].op = "loop",
         NEW b, b = s.ctrls[j].start, NEW hs, HandlersOK(hs, p)
  PROVE  HandlersOK(hs, b)
<1>1. s \in HeldSet /\ HeldOK(s, p) /\ Len(code) \in Nat /\ p \in 1 .. (Len(code) + 1)
  BY Positions
<1>2. j \in DOMAIN s.ctrls /\ j \in Nat /\ j >= 1
  BY <1>1, RecordParts
<1>3. FrameOK(s, j, p)
  BY <1>1, <1>2 DEF HeldOK
<1>4. j > 1
  <2>1. j = 1 => s.ctrls[j].op = "block"
    BY <1>3 DEF FrameOK
  <2> QED
    BY <1>2, <2>1
<1>t. PICK t : t = seen[b]
  OBVIOUS
<1>5. b \in 2 .. p /\ Len(t.ctrls) = j /\ t.ctrls[j].start = b
  BY <1>3, <1>4, <1>t DEF FrameOK
<1>6. b \in DOMAIN seen /\ b \in Nat /\ b <= p /\ t \in HeldSet
  <2>1. b \in 1 .. (Len(code) + 1) /\ b \in Nat /\ b <= p
    BY <1>1, <1>5
  <2> QED
    BY <2>1, <1>t, Positions
<1>7. j \in DOMAIN t.ctrls
  BY <1>2, <1>5, <1>6, RecordParts
<1>8. Construct(s.ctrls[j]) = "loop"
  BY DEF Construct
<1>9. ASSUME NEW x \in DOMAIN hs
      PROVE  hs[x].at <= b
  <2>a. PICK a : a = hs[x].at
    OBVIOUS
  <2>q. PICK q : q = a - 1
    OBVIOUS
  <2>1. a \in Nat /\ a <= p /\ q \in DOMAIN code /\ code[q].op = "try_table"
    BY <1>9, <2>a, <2>q DEF HandlersOK, HandlerOK
  <2>2. SUFFICES ASSUME a > b
                 PROVE  FALSE
    BY <1>6, <2>1, <2>a
  <2>3. q \in b .. p /\ b <= q /\ q <= p /\ q \in Nat
    BY <1>1, <1>6, <2>1, <2>2, <2>q
  <2>w. PICK w : w = seen[q]
    OBVIOUS
  <2>4. w \in HeldSet /\ q \in DOMAIN seen /\ Effect(w, seen[q + 1], code[q], q)
    BY <2>1, <2>w, Positions
  <2>5. OpenIn(s, j, t.ctrls[j].start)
    BY <1>2, <1>5 DEF OpenIn
  <2>6. OpenIn(w, j, t.ctrls[j].start) /\ Frozen(t, s, j)
    <3>1. /\ HistoryOK /\ b \in DOMAIN seen /\ p \in DOMAIN seen /\ b <= p /\ t = seen[b] /\ s = seen[p]
          /\ j \in 1 .. Len(t.ctrls) /\ OpenIn(s, j, t.ctrls[j].start)
      BY <1>5, <1>6, <1>7, <1>t, <2>5, RecordParts
    <3>2. Frozen(t, s, j) /\ \A k \in b .. p : OpenIn(seen[k], j, t.ctrls[j].start)
      BY ONLY <3>1, StillOpen
    <3> QED
      BY <2>3, <2>w, <3>2
  <2>7. Frozen(t, w, j)
    <3>1. /\ HistoryOK /\ b \in DOMAIN seen /\ q \in DOMAIN seen /\ b <= q /\ t = seen[b] /\ w = seen[q]
          /\ j \in 1 .. Len(t.ctrls) /\ OpenIn(w, j, t.ctrls[j].start)
      BY <1>5, <1>6, <1>7, <1>t, <2>3, <2>4, <2>6, <2>w, RecordParts
    <3> QED
      BY ONLY <3>1, StillOpen
  <2>8. w.ctrls[j].op = "loop" /\ j \in DOMAIN w.ctrls
    BY <1>8, <2>6, <2>7 DEF Frozen, SameFrame, Construct
  <2> QED
    BY <2>1, <2>4, <2>8 DEF Effect, TryTableEffect
<1> QED
  BY <1>6, <1>9 DEF HandlersOK, HandlerOK

\* The handlers where a branch lands.
LEMMA HandlersLand ==
  ASSUME ~TryInLoop, HistoryOK, NEW p \in DOMAIN code, NEW k \in 1 .. Slots(code[p]), NEW to \in DOMAIN seen, NEW skip,
         Landing(p, k, to, skip), NEW hs, HandlersOK(hs, p)
  PROVE  HandlersOK(hs, to)
<1>1. p \in DOMAIN seen /\ Len(code) \in Nat /\ p \in 1 .. Len(code) /\ to \in 1 .. (Len(code) + 1) /\ p \in Nat /\ to \in Nat
  BY Positions
<1>2. CASE to > p + 1
  BY <1>1, <1>2, HandlersLater
<1>3. CASE HomeLoop(p, k) /\ to = HomeStart(p, k)
  <2>j. PICK j : j = HomeIdx(p, k)
    OBVIOUS
  <2>s. PICK s : s = seen[p]
    OBVIOUS
  <2>1. s \in HeldSet /\ HeldOK(s, p) /\ code[p] \in Instr /\ Effect(s, seen[p + 1], code[p], p)
    BY <2>s, Positions
  <2>2. code[p].op # "if" /\ s.ctrls[j].op = "loop" /\ to = s.ctrls[j].start
    BY <1>3, <2>j, <2>s DEF HomeLoop, HomeIdx, LoopAt, HomeStart, StartAt
  <2>3. j \in 1 .. Len(s.ctrls)
    BY <2>1, <2>2, <2>j, <2>s, HomeInside DEF HomeIdx
  <2> QED
    BY <1>1, <2>2, <2>3, <2>s, HandlersAtLoop
<1> QED
  BY <1>2, <1>3 DEF Landing

\* The entry e of an instruction at a live position.
LEMMA EntryHere ==
  ASSUME NEW s, NEW r, NEW i, NEW p, Here(s, r, i, p), NEW k \in 1 .. Slots(i), NEW e, e = s.next + k - 1,
         NEW to, to = p + 1 + table[e].ip
  PROVE  /\ table[e].vals = CarriesAt(s, i, k) /\ table[e].pop = PopsAt(s, i, k) /\ to \in DOMAIN seen
         /\ e + table[e].stp = seen[to].next /\ \E skip \in {0, 1} : Landing(p, k, to, skip)
<1>1. AcceptedOK /\ p \in DOMAIN code /\ i = code[p] /\ s = seen[p]
  BY DEF Here
<1>2. e = seen[p].next + k - 1 /\ to = EntryTo(p, k)
  BY <1>1 DEF EntryTo
<1>3. EntryFits(p, k, e, to)
  BY <1>1, <1>2 DEF AcceptedOK, TableOK
<1> QED
  BY <1>1, <1>3 DEF EntryFits, Carries, Pops

\* Taking entry k of a branch with operands vs that fit us, of which ts is carried.
LEMMA BranchRun ==
  ASSUME ~TryInLoop, NEW s, NEW r, NEW i, NEW p, Here(s, r, i, p), i.op \in {"br", "br_if", "br_table", "else"},
         NEW k \in 1 .. Slots(i), NEW j, j = HomeAt(s, i, k), NEW ts, ts = LabelTypes(s.ctrls[j]),
         NEW us, \A x \in 1 .. TopOf(s).height : us[x] = s.vals[x],
         NEW vs, NEW m, Popping(TopOf(s), us, ts, vs, m),
         i.op # "else" => Operands(s, i) = Len(vs), i.op = "else" => m = TopOf(s).height,
         NEW e, e = s.next + k - 1, NEW to, to = p + 1 + table[e].ip,
         NEW ws, ws = Moved(vs, table[e].vals, table[e].pop)
  PROVE  FrameGood(ws, to, e + table[e].stp, locals, handlers)
<1>1. /\ HistoryOK /\ AcceptedOK /\ p \in Nat /\ p \in 1 .. Len(code) /\ Len(code) \in Nat /\ p \in DOMAIN seen
      /\ s \in HeldSet /\ i \in Instr /\ HeldOK(s, p) /\ s.ctrls # <<>> /\ Effect(s, r, i, p)
      /\ p \in DOMAIN code /\ i = code[p] /\ s = seen[p] /\ Alive(s) /\ LocalsOK(locals, p) /\ HandlersOK(handlers, p)
  BY HereParts DEF Here
<1>2. /\ table[e].vals = CarriesAt(s, i, k) /\ table[e].pop = PopsAt(s, i, k) /\ to \in DOMAIN seen
      /\ e + table[e].stp = seen[to].next /\ \E skip \in {0, 1} : Landing(p, k, to, skip)
  BY EntryHere
<1>l. PICK skip \in {0, 1} : Landing(p, k, to, skip)
  BY <1>2
<1>t. PICK t : t = seen[to]
  OBVIOUS
<1>3. j \in 1 .. Len(s.ctrls) /\ ts \in Seq(Type) /\ LandsWith(s, j, t, ts)
  <2>1. /\ HistoryOK /\ p \in DOMAIN code /\ k \in 1 .. Slots(code[p]) /\ code[p].op # "if" /\ to \in DOMAIN seen
        /\ Landing(p, k, to, skip) /\ s = seen[p] /\ j = HomeIdx(p, k)
    BY <1>1, <1>2, <1>l DEF HomeIdx
  <2>2. j \in 1 .. Len(s.ctrls) /\ LabelTypes(s.ctrls[j]) \in Seq(Type) /\ LandsWith(s, j, seen[to], LabelTypes(s.ctrls[j]))
    BY ONLY <2>1, BranchLands
  <2> QED
    BY <2>2, <1>t
<1>h. PICK h : h = s.ctrls[j].height
  OBVIOUS
<1>4. h \in Nat /\ h <= TopOf(s).height /\ TopOf(s).height \in Nat
  BY <1>1, <1>3, <1>h, RecordTop
<1>5. Popped(TopOf(s), us, ts, vs, m)
  BY FitsPop
<1>6. /\ m \in Nat /\ TopOf(s).height <= m /\ m + Len(ts) = Len(vs) /\ us \in Seq(Type) /\ vs \in Seq(ValueSet)
      /\ Len(vs) = Len(us) /\ (\A x \in 1 .. Len(us) : Typed(vs[x], us[x])) /\ TopOf(s).height <= Len(us)
      /\ \A x \in 1 .. Len(ts) : Typed(vs[m + x], ts[x])
  BY <1>5, FitsPointwise DEF Popped, Popping
<1>7. Len(ts) \in Nat /\ Len(vs) \in Nat /\ Len(us) \in Nat /\ h <= m
  BY <1>3, <1>4, <1>6, TypeParts, ValueParts
<1>8. \A x \in 1 .. h : Typed(vs[x], s.vals[x])
  <2>1. \A x \in 1 .. h : x \in 1 .. TopOf(s).height /\ x \in 1 .. Len(us)
    BY <1>4, <1>6, <1>7
  <2> QED
    BY <1>6, <2>1
<1>9. CarriesAt(s, i, k) = Len(ts)
  <2>1. CASE i.op = "else"
    <3>1. j = Len(s.ctrls) /\ TopOf(s).op = "if"
      BY <1>1, <2>1 DEF HomeAt, Effect, ElseEffect
    <3> QED
      BY <2>1, <3>1 DEF CarriesAt, LabelTypes, TopOf
  <2> QED
    BY <2>1 DEF CarriesAt
<1>10. PopsAt(s, i, k) = m - h
  <2>1. CASE i.op = "else"
    <3>1. j = Len(s.ctrls)
      BY <2>1 DEF HomeAt
    <3>2. m = h
      BY <2>1, <3>1, <1>h DEF TopOf
    <3> QED
      BY <1>4, <2>1, <3>2 DEF PopsAt
  <2>2. CASE i.op # "else"
    <3>1. Operands(s, i) - h - Len(ts) = m - h /\ m - h >= 0
      BY <1>4, <1>6, <1>7, <2>2
    <3>2. PopsAt(s, i, k) = IF Operands(s, i) - h - Len(ts) > 0 THEN Operands(s, i) - h - Len(ts) ELSE 0
      BY <1>9, <1>h, <2>2 DEF PopsAt
    <3>d. PICK d : d = m - h
      OBVIOUS
    <3>3. d \in Int /\ d >= 0
      BY <1>4, <1>6, <3>1, <3>d
    <3>4. PopsAt(s, i, k) = IF d > 0 THEN d ELSE 0
      BY <3>1, <3>2, <3>d
    <3>5. PopsAt(s, i, k) = d
      BY ONLY <3>3, <3>4
    <3> QED
      BY <3>5, <3>d
  <2> QED
    BY <2>1, <2>2
<1>11. t \in HeldSet
  BY <1>1, <1>2, <1>t, Positions
<1>12. ws \in Seq(ValueSet) /\ FitsTypes(ws, t.vals)
  <2>1. PICK pop : pop = m - h
    OBVIOUS
  <2>2. ws = Moved(vs, Len(ts), pop)
    BY <1>2, <1>9, <1>10, <2>1
  <2>3. /\ h \in Nat /\ h = s.ctrls[j].height /\ t \in HeldSet /\ ts \in Seq(Type) /\ LandsWith(s, j, t, ts)
        /\ vs \in Seq(ValueSet) /\ m \in Nat /\ m + Len(ts) = Len(vs) /\ h <= m
        /\ (\A x \in 1 .. h : Typed(vs[x], s.vals[x])) /\ (\A x \in 1 .. Len(ts) : Typed(vs[m + x], ts[x]))
        /\ pop = m - h /\ ws = Moved(vs, Len(ts), pop)
    BY <1>3, <1>6, <1>7, <1>8, <1>11, <1>4, <1>h, <2>1, <2>2
  <2> QED
    BY ONLY <2>3, MovedFits
<1>13. Alive(t) /\ Known(t) \subseteq Known(s)
  BY <1>1, <1>3 DEF LandsWith
<1>14. OperandsOK(ws, to, e + table[e].stp)
  BY <1>1, <1>2, <1>12, <1>13, <1>t, Arrives
<1>15. LocalsOK(locals, to)
  BY <1>1, <1>13, <1>t, LocalsWeaken
<1>16. HandlersOK(handlers, to)
  BY <1>1, <1>2, <1>l, HandlersLand
<1> QED
  BY <1>14, <1>15, <1>16 DEF FrameGood

\* A branch taken from position p with cursor c and operands vs.
Taken(p, c, vs) ==
  FrameGood(Moved(vs, table[c].vals, table[c].pop), p + 1 + table[c].ip, c + table[c].stp, locals, handlers)

LEMMA HereLive ==
  ASSUME NEW s, NEW r, NEW i, NEW p, Here(s, r, i, p)
  PROVE  /\ TopOf(s).height \in Nat /\ TopOf(s).height <= Len(s.vals) /\ ~TopOf(s).dead /\ s.vals \in Seq(Type)
         /\ stack \in Seq(ValueSet) /\ FitsTypes(stack, s.vals) /\ i \in Instr /\ Decoded(i) /\ Effect(s, r, i, p)
         /\ s \in HeldSet /\ s.ctrls # <<>> /\ HeldOK(s, p) /\ stp = s.next /\ s.next \in Nat /\ Slots(i) \in Nat /\ p \in Nat
         /\ Len(stack) = Len(s.vals) /\ Len(s.ctrls) \in Nat /\ Len(s.vals) \in Nat
  BY HereParts, RecordParts DEF Here

\* A branch about to be taken: entry k of instruction i, with operands vs that fit us.
Carrying(s, r, i, p, k, us, vs, m) ==
  /\ Here(s, r, i, p) /\ i.op \in {"br", "br_if", "br_table", "else"} /\ k \in 1 .. Slots(i)
  /\ \A x \in 1 .. TopOf(s).height : us[x] = s.vals[x]
  /\ Popping(TopOf(s), us, LabelTypes(s.ctrls[HomeAt(s, i, k)]), vs, m)
  /\ i.op # "else" => Operands(s, i) = Len(vs)
  /\ i.op = "else" => m = TopOf(s).height
LEMMA TakesBranch ==
  ASSUME ~TryInLoop, NEW s, NEW r, NEW i, NEW p, NEW k, NEW us, NEW vs, NEW m, Carrying(s, r, i, p, k, us, vs, m),
         NEW c, c = s.next + k - 1
  PROVE  Taken(p, c, vs)
<1>j. PICK j : j = HomeAt(s, i, k)
  OBVIOUS
<1>t. PICK ts : ts = LabelTypes(s.ctrls[j])
  OBVIOUS
<1>w. PICK ws : ws = Moved(vs, table[c].vals, table[c].pop)
  OBVIOUS
<1>o. PICK to : to = p + 1 + table[c].ip
  OBVIOUS
<1>1. /\ ~TryInLoop /\ Here(s, r, i, p) /\ i.op \in {"br", "br_if", "br_table", "else"} /\ k \in 1 .. Slots(i)
      /\ j = HomeAt(s, i, k) /\ ts = LabelTypes(s.ctrls[j]) /\ (\A x \in 1 .. TopOf(s).height : us[x] = s.vals[x])
      /\ Popping(TopOf(s), us, ts, vs, m)
      /\ (i.op # "else" => Operands(s, i) = Len(vs)) /\ (i.op = "else" => m = TopOf(s).height)
      /\ c = s.next + k - 1 /\ to = p + 1 + table[c].ip /\ ws = Moved(vs, table[c].vals, table[c].pop)
  BY <1>j, <1>t, <1>w, <1>o DEF Carrying
<1>2. FrameGood(ws, to, c + table[c].stp, locals, handlers)
  BY ONLY <1>1, BranchRun
<1> QED
  BY <1>2, <1>w, <1>o DEF Taken

\* The types of the label of an entry.
LEMMA LabelOfEntry ==
  ASSUME NEW s, NEW r, NEW i, NEW p, Here(s, r, i, p), i.op \in {"br", "br_if", "br_table"}, NEW k \in 1 .. Slots(i)
  PROVE  /\ LabelOf(i, k) < Len(s.ctrls) /\ LabelAt(s, LabelOf(i, k)) = s.ctrls[HomeAt(s, i, k)]
         /\ LabelTypes(s.ctrls[HomeAt(s, i, k)]) \in Seq(Type)
<1>1. i \in Instr /\ Decoded(i) /\ s \in HeldSet /\ HeldOK(s, p) /\ s.ctrls # <<>> /\ Len(s.ctrls) \in Nat /\ Effect(s, r, i, p)
  BY HereLive
<1>2. HomeAt(s, i, k) = Len(s.ctrls) - LabelOf(i, k) /\ HomeAt(s, i, k) \in 1 .. Len(s.ctrls)
  BY <1>1, HomeInside DEF HomeAt
<1>3. LabelOf(i, k) < Len(s.ctrls)
  BY <1>1 DEF Effect, BrEffect, BrIfEffect, BrTableEffect, LabelOf, Slots
<1> QED
  BY <1>1, <1>2, <1>3, RecordParts, FrameFields DEF LabelAt

LEMMA BrRun ==
  ASSUME ~TryInLoop, NEW s, NEW r, NEW i, NEW p, Here(s, r, i, p), i.op = "br"
  PROVE  Taken(p, stp, stack)
<1>1. /\ TopOf(s).height \in Nat /\ TopOf(s).height <= Len(s.vals) /\ ~TopOf(s).dead /\ s.vals \in Seq(Type)
      /\ stack \in Seq(ValueSet) /\ FitsTypes(stack, s.vals) /\ Effect(s, r, i, p) /\ stp = s.next /\ s.next \in Nat
      /\ Len(stack) = Len(s.vals)
  BY HereLive
<1>k. PICK k : k = 1
  OBVIOUS
<1>2. k \in 1 .. Slots(i) /\ LabelOf(i, k) = i.label /\ stp = s.next + k - 1
  BY <1>1, <1>k DEF Slots, LabelOf
<1>t. PICK ts : ts = LabelTypes(s.ctrls[HomeAt(s, i, k)])
  OBVIOUS
<1>3. CanPop(TopOf(s), s.vals, ts) /\ ts \in Seq(Type)
  BY <1>1, <1>2, <1>t, LabelOfEntry DEF Effect, BrEffect
<1>m. PICK m : m = Len(Pop(TopOf(s), s.vals, ts))
  OBVIOUS
<1>4. Popping(TopOf(s), s.vals, ts, stack, m)
  BY <1>1, <1>3, <1>m DEF Popping
<1>5. Operands(s, i) = Len(stack)
  BY <1>1 DEF Operands
<1>6. Carrying(s, r, i, p, k, s.vals, stack, m)
  BY <1>2, <1>4, <1>5, <1>t DEF Carrying
<1> QED
  BY <1>2, <1>6, TakesBranch

\* The operands below the condition.
LEMMA BelowCondition ==
  ASSUME NEW s, NEW r, NEW i, NEW p, Here(s, r, i, p), i.op \in {"br_if", "br_table"},
         NEW us, us = Pop(TopOf(s), s.vals, <<Condition>>)
  PROVE  /\ Below(1) \in Seq(ValueSet) /\ FitsTypes(Below(1), us) /\ us \in Seq(Type) /\ TopOf(s).height <= Len(us)
         /\ Operands(s, i) = Len(Below(1)) /\ Len(us) \in Nat
         /\ \A x \in 1 .. TopOf(s).height : us[x] = s.vals[x]
<1>1. /\ TopOf(s).height \in Nat /\ TopOf(s).height <= Len(s.vals) /\ s.vals \in Seq(Type) /\ Effect(s, r, i, p)
  BY HereLive
<1>2. Condition \in Type /\ CanPop(TopOf(s), s.vals, <<Condition>>)
  BY <1>1, SideTableAssumption DEF Effect, BrIfEffect, BrTableEffect
<1>3. /\ Below(1) \in Seq(ValueSet) /\ FitsTypes(Below(1), us) /\ us \in Seq(Type) /\ Len(Below(1)) = Len(us)
      /\ TopOf(s).height <= Len(Below(1))
  BY <1>2, BelowOne
<1>4. \A x \in 1 .. Len(us) : us[x] = s.vals[x]
  <2>1. <<Condition>> \in Seq(Type)
    BY <1>2
  <2>t. PICK ts : ts = <<Condition>>
    OBVIOUS
  <2>f. PICK f : f = TopOf(s)
    OBVIOUS
  <2>2. f.height \in Nat /\ s.vals \in Seq(Type) /\ f.height <= Len(s.vals) /\ ts \in Seq(Type)
    BY <1>1, <2>1, <2>t, <2>f
  <2>3. \A k \in 1 .. Len(Pop(f, s.vals, ts)) : Pop(f, s.vals, ts)[k] = s.vals[k]
    BY ONLY <2>2, PopEffect
  <2> QED
    BY <2>3, <2>t, <2>f
<1>n. PICK n : n = TopOf(s).height
  OBVIOUS
<1>l. PICK l : l = Len(us)
  OBVIOUS
<1>5. n \in Nat /\ l \in Nat /\ n <= l
  BY <1>1, <1>3, <1>n, <1>l, TypeParts
<1>6. \A x \in 1 .. n : x \in 1 .. l
  BY ONLY <1>5
<1>7. \A x \in 1 .. TopOf(s).height : us[x] = s.vals[x]
  BY <1>4, <1>6, <1>n, <1>l
<1> QED
  BY <1>3, <1>5, <1>7, <1>n, <1>l DEF Operands

LEMMA BrIfTaken ==
  ASSUME ~TryInLoop, NEW s, NEW r, NEW i, NEW p, Here(s, r, i, p), i.op = "br_if"
  PROVE  Taken(p, stp, Below(1))
<1>1. /\ TopOf(s).height \in Nat /\ ~TopOf(s).dead /\ Effect(s, r, i, p) /\ stp = s.next /\ s.next \in Nat
  BY HereLive
<1>k. PICK k : k = 1
  OBVIOUS
<1>2. k \in 1 .. Slots(i) /\ LabelOf(i, k) = i.label /\ stp = s.next + k - 1
  BY <1>1, <1>k DEF Slots, LabelOf
<1>t. PICK ts : ts = LabelTypes(s.ctrls[HomeAt(s, i, k)])
  OBVIOUS
<1>u. PICK us : us = Pop(TopOf(s), s.vals, <<Condition>>)
  OBVIOUS
<1>3. CanPop(TopOf(s), us, ts) /\ ts \in Seq(Type)
  BY <1>1, <1>2, <1>t, <1>u, LabelOfEntry DEF Effect, BrIfEffect
<1>4. /\ Below(1) \in Seq(ValueSet) /\ FitsTypes(Below(1), us) /\ us \in Seq(Type) /\ TopOf(s).height <= Len(us)
      /\ Operands(s, i) = Len(Below(1)) /\ \A x \in 1 .. TopOf(s).height : us[x] = s.vals[x]
  BY <1>u, BelowCondition
<1>m. PICK m : m = Len(Pop(TopOf(s), us, ts))
  OBVIOUS
<1>5. Popping(TopOf(s), us, ts, Below(1), m)
  BY <1>1, <1>3, <1>4, <1>m DEF Popping
<1>6. Carrying(s, r, i, p, k, us, Below(1), m)
  BY <1>2, <1>4, <1>5, <1>t DEF Carrying
<1> QED
  BY <1>2, <1>6, TakesBranch

LEMMA BrTableRun ==
  ASSUME ~TryInLoop, NEW s, NEW r, NEW i, NEW p, Here(s, r, i, p), i.op = "br_table", NEW key \in 0 .. (Len(i.labels) - 1)
  PROVE  Taken(p, stp + key, Below(1))
<1>1. /\ TopOf(s).height \in Nat /\ ~TopOf(s).dead /\ Effect(s, r, i, p) /\ stp = s.next /\ s.next \in Nat
      /\ i.labels \in Seq(Nat)
  BY HereLive DEF Decoded
<1>k. PICK k : k = key + 1
  OBVIOUS
<1>2. /\ Len(i.labels) \in Nat /\ k \in 1 .. Slots(i) /\ LabelOf(i, k) = i.labels[k] /\ stp + key = s.next + k - 1
      /\ k \in DOMAIN i.labels /\ 1 \in 1 .. Slots(i) /\ LabelOf(i, 1) = i.labels[1]
  BY <1>1, <1>k DEF Slots, LabelOf
<1>t. PICK ts : ts = LabelTypes(s.ctrls[HomeAt(s, i, k)])
  OBVIOUS
<1>u. PICK us : us = Pop(TopOf(s), s.vals, <<Condition>>)
  OBVIOUS
<1>v. PICK t1 : t1 = LabelTypes(s.ctrls[HomeAt(s, i, 1)])
  OBVIOUS
<1>3. ts \in Seq(Type) /\ ts = LabelTypes(LabelAt(s, i.labels[k])) /\ t1 \in Seq(Type) /\ t1 = LabelTypes(LabelAt(s, i.labels[1]))
  BY <1>2, <1>t, <1>v, LabelOfEntry
<1>4. Len(ts) = Len(t1) /\ CanPop([TopOf(s) EXCEPT !.dead = TRUE], us, ts) /\ CanPop(TopOf(s), us, t1)
  BY <1>1, <1>2, <1>3, <1>u DEF Effect, BrTableEffect
<1>5. /\ Below(1) \in Seq(ValueSet) /\ FitsTypes(Below(1), us) /\ us \in Seq(Type) /\ TopOf(s).height <= Len(us)
      /\ Operands(s, i) = Len(Below(1)) /\ (\A x \in 1 .. TopOf(s).height : us[x] = s.vals[x]) /\ Len(us) \in Nat
  BY <1>u, BelowCondition
<1>6. CanPop(TopOf(s), us, ts)
  <2>1. [TopOf(s) EXCEPT !.dead = TRUE].height = TopOf(s).height
    <3>1. s \in HeldSet /\ HeldOK(s, p) /\ s.ctrls # <<>>
      BY HereLive
    <3>2. TopOf(s) \in FrameSet
      BY <3>1, RecordTop
    <3> QED
      BY <3>2, DeadFrameIs DEF DeadFrame, Like
  <2>2. Len(t1) + TopOf(s).height <= Len(us)
    <3>m. PICK m1 : m1 = Len(Pop(TopOf(s), us, t1))
      OBVIOUS
    <3>1. Popping(TopOf(s), us, t1, Below(1), m1)
      BY <1>1, <1>3, <1>4, <1>5, <3>m DEF Popping
    <3>2. Popped(TopOf(s), us, t1, Below(1), m1)
      BY ONLY <3>1, FitsPop
    <3>3. m1 \in Nat /\ TopOf(s).height <= m1 /\ m1 + Len(t1) = Len(us) /\ Len(t1) \in Nat
      BY <1>3, <1>5, <3>2, TypeParts DEF Popped, FitsTypes
    <3> QED
      BY <1>1, <1>5, <3>3
  <2>3. \A x \in DOMAIN ts : Len(ts) - x < Len(us) - TopOf(s).height
    BY <1>1, <1>3, <1>4, <1>5, <2>2, TypeParts
  <2> QED
    BY <1>4, <2>1, <2>3 DEF CanPop
<1>m. PICK m : m = Len(Pop(TopOf(s), us, ts))
  OBVIOUS
<1>7. Popping(TopOf(s), us, ts, Below(1), m)
  BY <1>1, <1>3, <1>5, <1>6, <1>m DEF Popping
<1>8. Carrying(s, r, i, p, k, us, Below(1), m)
  BY <1>2, <1>5, <1>7, <1>t DEF Carrying
<1> QED
  BY <1>2, <1>8, TakesBranch

LEMMA ElseRun ==
  ASSUME ~TryInLoop, NEW s, NEW r, NEW i, NEW p, Here(s, r, i, p), i.op = "else"
  PROVE  Taken(p, stp, stack)
<1>1. /\ TopOf(s).height \in Nat /\ TopOf(s).height <= Len(s.vals) /\ ~TopOf(s).dead /\ s.vals \in Seq(Type)
      /\ stack \in Seq(ValueSet) /\ FitsTypes(stack, s.vals) /\ Effect(s, r, i, p) /\ stp = s.next /\ s.next \in Nat
      /\ TopOf(s).bt.out \in Seq(Type)
  BY HereParts DEF Here
<1>k. PICK k : k = 1
  OBVIOUS
<1>2. k \in 1 .. Slots(i) /\ stp = s.next + k - 1 /\ HomeAt(s, i, k) = Len(s.ctrls)
  BY <1>1, <1>k DEF Slots, HomeAt
<1>t. PICK ts : ts = LabelTypes(s.ctrls[HomeAt(s, i, k)])
  OBVIOUS
<1>3. /\ ts = TopOf(s).bt.out /\ CanPop(TopOf(s), s.vals, ts) /\ Len(Pop(TopOf(s), s.vals, ts)) = TopOf(s).height
  BY <1>1, <1>2, <1>t DEF Effect, ElseEffect, EndsArm, LabelTypes, TopOf
<1>m. PICK m : m = Len(Pop(TopOf(s), s.vals, ts))
  OBVIOUS
<1>4. Popping(TopOf(s), s.vals, ts, stack, m)
  BY <1>1, <1>3, <1>m DEF Popping
<1>5. Carrying(s, r, i, p, k, s.vals, stack, m)
  BY <1>2, <1>3, <1>4, <1>t, <1>m DEF Carrying
<1> QED
  BY <1>2, <1>5, TakesBranch

LEMMA IfTaken ==
  ASSUME ~TryInLoop, NEW s, NEW r, NEW i, NEW p, Here(s, r, i, p), i.op = "if"
  PROVE  Taken(p, stp, Below(1))
<1>1. /\ HistoryOK /\ AcceptedOK /\ p \in DOMAIN code /\ i = code[p] /\ s = seen[p] /\ r = seen[p + 1] /\ Alive(s)
      /\ p <= Len(code) /\ LocalsOK(locals, p) /\ HandlersOK(handlers, p) /\ stp = s.next /\ s.next \in Nat
  BY HereParts DEF Here
<1>b. PICK bs : bs = Below(1)
  OBVIOUS
<1>2. bs \in Seq(ValueSet) /\ FitsTypes(bs, r.vals)
  BY <1>b, IfRun
<1>k. PICK k : k = 1
  OBVIOUS
<1>3. k \in 1 .. Slots(i) /\ stp = s.next + k - 1
  BY <1>1, <1>k DEF Slots
<1>o. PICK to : to = p + 1 + table[stp].ip
  OBVIOUS
<1>4. /\ table[stp].vals = CarriesAt(s, i, k) /\ table[stp].pop = PopsAt(s, i, k) /\ to \in DOMAIN seen
      /\ stp + table[stp].stp = seen[to].next /\ \E skip \in {0, 1} : Landing(p, k, to, skip)
  BY <1>3, <1>o, EntryHere
<1>l. PICK skip \in {0, 1} : Landing(p, k, to, skip)
  BY <1>4
<1>5. Moved(bs, table[stp].vals, table[stp].pop) = bs
  BY <1>4 DEF PopsAt, Moved
<1>6. FitsTypes(bs, seen[to].vals) /\ Known(seen[to]) \subseteq Known(s) /\ Alive(seen[to])
  <2>1. Landing(p, 1, to, skip)
    BY <1>l, <1>k
  <2> QED
    BY <1>1, <1>2, <1>4, <2>1, IfLands
<1>7. OperandsOK(bs, to, stp + table[stp].stp)
  BY <1>1, <1>2, <1>4, <1>6, Arrives
<1>8. LocalsOK(locals, to)
  BY <1>1, <1>6, LocalsWeaken
<1>9. HandlersOK(handlers, to)
  BY <1>1, <1>3, <1>4, <1>l, HandlersLand
<1> QED
  BY <1>5, <1>7, <1>8, <1>9, <1>b, <1>o DEF Taken, FrameGood

(***************************************************************************)
(* Handlers                                                                *)
(***************************************************************************)
LEMMA HandlerParts ==
  ASSUME NEW hs, NEW p, HandlersOK(hs, p)
  PROVE  /\ hs \in Seq(HandlerSet) /\ Len(hs) \in Nat /\ (\A k : k \in DOMAIN hs <=> k \in 1 .. Len(hs))
         /\ \A k \in 1 .. Len(hs) : /\ hs[k] \in HandlerSet /\ hs[k].at \in Nat /\ hs[k].end \in Nat
                                    /\ hs[k].sp \in Nat /\ hs[k].stp \in Nat /\ HandlerOK(hs[k], p) /\ hs[k].at <= p
         /\ \A k, l \in 1 .. Len(hs) : k < l => hs[k].at < hs[l].at /\ hs[l].end < hs[k].end
<1>1. hs \in Seq(HandlerSet)
  BY DEF HandlersOK
<1>2. Len(hs) \in Nat /\ (\A k : k \in DOMAIN hs <=> k \in 1 .. Len(hs)) /\ \A k \in 1 .. Len(hs) : hs[k] \in HandlerSet
  BY <1>1
<1>3. \A h \in HandlerSet : h.at \in Nat /\ h.end \in Nat /\ h.sp \in Nat /\ h.stp \in Nat
  BY DEF HandlerSet
<1>4. \A k \in 1 .. Len(hs) : HandlerOK(hs[k], p) /\ hs[k].at <= p
  BY <1>2 DEF HandlersOK, HandlerOK
<1>5. \A k, l \in 1 .. Len(hs) : k < l => hs[k].at < hs[l].at /\ hs[l].end < hs[k].end
  BY <1>2 DEF HandlersOK, Nested
<1> QED
  BY <1>1, <1>2, <1>3, <1>4, <1>5

\* prune_handlers leaves the handlers up to the topmost that still covers p.
LEMMA PrunedIs ==
  ASSUME NEW q, HandlersOK(handlers, q), NEW p \in Nat, NEW n, n = PrunedTo(p)
  PROVE  n \in 0 .. Len(handlers) /\ (n > 0 => p < handlers[n].end)
<1>1. /\ Len(handlers) \in Nat /\ \A k \in 1 .. Len(handlers) : handlers[k].end \in Nat
  BY HandlerParts
<1>L. PICK L : L = Len(handlers)
  OBVIOUS
<1>S. PICK S : S = {k \in 1 .. L : p < handlers[k].end}
  OBVIOUS
<1>2. \E m \in 0 .. L : (\A k \in (m + 1) .. L : p >= handlers[k].end) /\ (m > 0 => p < handlers[m].end)
  <2>1. CASE S = {}
    <3>1. \A k \in 1 .. L : p >= handlers[k].end
      BY <1>1, <1>L, <1>S, <2>1
    <3>2. 0 \in 0 .. L /\ 0 + 1 = 1 /\ ~(0 > 0)
      BY <1>1, <1>L
    <3> QED
      BY <3>1, <3>2
  <2>2. CASE S # {}
    <3>1. S \in SUBSET (0 .. L) /\ L \in Nat
      BY <1>1, <1>L, <1>S
    <3>2. PICK m \in S : \A k \in S : k <= m
      BY <2>2, <3>1, GreatestNumber
    <3>3. m \in 1 .. L /\ p < handlers[m].end
      BY <1>S, <3>2
    <3>4. ASSUME NEW k \in (m + 1) .. L
          PROVE  p >= handlers[k].end
      <4>1. k \in 1 .. L /\ ~(k <= m)
        BY <3>1, <3>3
      <4>2. ~(p < handlers[k].end)
        BY <1>S, <3>2, <4>1
      <4> QED
        BY <1>1, <1>L, <4>1, <4>2
    <3>5. m \in 0 .. L
      BY <3>1, <3>3
    <3> QED
      BY <3>3, <3>4, <3>5
  <2> QED
    BY <2>1, <2>2
<1>3. n \in 0 .. L /\ (n > 0 => p < handlers[n].end)
  BY <1>2, <1>L DEF PrunedTo
<1> QED
  BY <1>3, <1>L

\* The lower handlers alone.
LEMMA HandlersCut ==
  ASSUME NEW hs, NEW p, HandlersOK(hs, p), NEW n \in 0 .. Len(hs)
  PROVE  /\ HandlersOK(FirstN(hs, n), p) /\ Len(FirstN(hs, n)) = n
         /\ \A k \in 1 .. n : FirstN(hs, n)[k] = hs[k]
<1>1. /\ hs \in Seq(HandlerSet) /\ Len(hs) \in Nat
      /\ (\A k \in 1 .. Len(hs) : HandlerOK(hs[k], p))
      /\ \A k, l \in 1 .. Len(hs) : k < l => hs[k].at < hs[l].at /\ hs[l].end < hs[k].end
  BY HandlerParts
<1>f. PICK fs : fs = FirstN(hs, n)
  OBVIOUS
<1>2. fs \in Seq(HandlerSet) /\ Len(fs) = n /\ \A k \in 1 .. n : fs[k] = hs[k]
  BY <1>1, <1>f, FirstNEffect
<1>3. (\A k : k \in DOMAIN fs <=> k \in 1 .. n) /\ \A k \in 1 .. n : k \in 1 .. Len(hs)
  BY <1>1, <1>2
<1>4. \A k \in DOMAIN fs : HandlerOK(fs[k], p)
  BY <1>1, <1>2, <1>3
<1>5. Nested(fs)
  BY <1>1, <1>2, <1>3 DEF Nested
<1> QED
  BY <1>2, <1>4, <1>5, <1>f DEF HandlersOK

LEMMA HandlersEarlier ==
  ASSUME NEW hs, NEW p, HandlersOK(hs, p), NEW q, \A k \in 1 .. Len(hs) : hs[k].at <= q
  PROVE  HandlersOK(hs, q)
<1>1. \A k : k \in DOMAIN hs <=> k \in 1 .. Len(hs)
  BY HandlerParts
<1> QED
  BY <1>1 DEF HandlersOK, HandlerOK

\* A handler on top of others that cover its construct.
LEMMA HandlersPush ==
  ASSUME NEW hs, NEW p, HandlersOK(hs, p), NEW h \in HandlerSet, HandlerOK(h, p),
         \A k \in 1 .. Len(hs) : hs[k].at < h.at /\ h.end < hs[k].end
  PROVE  HandlersOK(Append(hs, h), p)
<1>1. /\ hs \in Seq(HandlerSet) /\ Len(hs) \in Nat
      /\ (\A k \in 1 .. Len(hs) : HandlerOK(hs[k], p))
      /\ \A k, l \in 1 .. Len(hs) : k < l => hs[k].at < hs[l].at /\ hs[l].end < hs[k].end
  BY HandlerParts
<1>f. PICK fs : fs = Append(hs, h)
  OBVIOUS
<1>n. PICK n : n = Len(hs)
  OBVIOUS
<1>2. fs \in Seq(HandlerSet) /\ Len(fs) = n + 1 /\ (\A k \in 1 .. n : fs[k] = hs[k]) /\ fs[n + 1] = h /\ n \in Nat
  BY <1>1, <1>f, <1>n, AppendEffect
<1>3. \A k \in DOMAIN fs : k \in 1 .. n \/ k = n + 1
  BY <1>2
<1>4. \A k \in DOMAIN fs : HandlerOK(fs[k], p)
  BY <1>1, <1>2, <1>3, <1>n
<1>5. ASSUME NEW k \in DOMAIN fs, NEW l \in DOMAIN fs, k < l
      PROVE  fs[k].at < fs[l].at /\ fs[l].end < fs[k].end
  <2>1. k \in 1 .. n
    BY <1>2, <1>5
  <2>2. l \in 1 .. n \/ l = n + 1
    BY <1>3
  <2> QED
    BY <1>1, <1>2, <1>5, <2>1, <2>2, <1>n
<1> QED
  BY <1>2, <1>4, <1>5, <1>f DEF HandlersOK, Nested

\* A try_table opened at position p: its body's frame.
LEMMA TryFrame ==
  ASSUME HistoryOK, NEW p \in DOMAIN code, code[p].op = "try_table", NEW s, s = seen[p], NEW r, r = seen[p + 1],
         NEW j, j = Len(r.ctrls)
  PROVE  /\ s \in HeldSet /\ r \in HeldSet /\ p \in Nat /\ p + 1 \in DOMAIN seen /\ p \in DOMAIN seen /\ Len(s.ctrls) \in Nat
         /\ j = Len(s.ctrls) + 1 /\ j \in 1 .. Len(r.ctrls) /\ j > 1
         /\ r.ctrls[j].start = p + 1 /\ TopOf(r) = r.ctrls[j] /\ s.ctrls # <<>>
         /\ TryTableEffect(s, r, code[p], p)
<1>1. /\ s \in HeldSet /\ r \in HeldSet /\ p + 1 \in DOMAIN seen /\ p \in DOMAIN seen /\ HeldOK(s, p) /\ Effect(s, r, code[p], p)
      /\ p \in 1 .. Len(code) /\ Len(code) \in Nat
  BY Positions
<1>2. TryTableEffect(s, r, code[p], p) /\ s.ctrls # <<>>
  BY <1>1 DEF Effect
<1>3. j = Len(s.ctrls) + 1 /\ TopOf(r).start = p + 1
  BY <1>2 DEF TryTableEffect, Enters
<1>4. Len(s.ctrls) \in Nat /\ Len(s.ctrls) >= 1
  BY <1>1, <1>2, RecordTop
<1> QED
  BY <1>1, <1>2, <1>3, <1>4 DEF TopOf

\* The frame of a handler is open until the end of its construct.
LEMMA HandlerOpen ==
  ASSUME HistoryOK, NEW g, NEW p \in Nat, HandlerOK(g, p), NEW a, a = g.at, NEW u, u = seen[a], NEW J, J = Len(u.ctrls),
         NEW x \in Nat, a <= x, x < g.end
  PROVE  /\ a \in DOMAIN seen /\ a \in Nat /\ x \in DOMAIN seen /\ u \in HeldSet /\ J \in 1 .. Len(u.ctrls) /\ u.ctrls[J].start = a
         /\ OpenIn(seen[x], J, a) /\ Frozen(u, seen[x], J) /\ g.end - 1 \in DOMAIN code /\ Len(seen[g.end - 1].ctrls) = J
<1>q. PICK q : q = a - 1
  OBVIOUS
<1>y. PICK y : y = g.end - 1
  OBVIOUS
<1>1. /\ a \in Nat /\ g.end \in Nat /\ q \in DOMAIN code /\ code[q].op = "try_table"
      /\ y \in DOMAIN code /\ Len(seen[y].ctrls) = J /\ OpenIn(seen[y], J, a)
  BY <1>q, <1>y DEF HandlerOK, ClosedBy
<1>2. q + 1 = a
  BY <1>1, <1>q
<1>3. u \in HeldSet /\ a \in DOMAIN seen /\ J \in 1 .. Len(u.ctrls) /\ u.ctrls[J].start = a
  BY <1>1, <1>2, TryFrame
<1>4. /\ Len(code) \in Nat /\ y \in 1 .. Len(code) /\ y \in DOMAIN seen /\ a \in 1 .. (Len(code) + 1)
  BY <1>1, <1>3, Positions
<1>5. x <= y /\ x \in 1 .. (Len(code) + 1) /\ a <= y
  BY <1>1, <1>4, <1>y
<1>6. x \in DOMAIN seen
  BY <1>5, Positions
<1>7. \A k \in a .. y : OpenIn(seen[k], J, a)
  <2>1. /\ HistoryOK /\ a \in DOMAIN seen /\ y \in DOMAIN seen /\ a <= y /\ u = seen[a] /\ J \in 1 .. Len(u.ctrls)
        /\ OpenIn(seen[y], J, u.ctrls[J].start)
    BY <1>1, <1>3, <1>4, <1>5
  <2>2. \A k \in a .. y : OpenIn(seen[k], J, u.ctrls[J].start)
    BY ONLY <2>1, StillOpen
  <2> QED
    BY <1>3, <2>2
<1>8. OpenIn(seen[x], J, a)
  <2>1. x \in a .. y
    BY <1>1, <1>4, <1>5
  <2> QED
    BY <1>7, <2>1
<1>9. Frozen(u, seen[x], J)
  <2>1. /\ HistoryOK /\ a \in DOMAIN seen /\ x \in DOMAIN seen /\ a <= x /\ u = seen[a] /\ J \in 1 .. Len(u.ctrls)
        /\ OpenIn(seen[x], J, u.ctrls[J].start)
    BY <1>3, <1>6, <1>8
  <2> QED
    BY ONLY <2>1, StillOpen
<1> QED
  BY <1>1, <1>3, <1>6, <1>8, <1>9, <1>y

\* A try_table read while the frame of a handler is open ends before that frame.
LEMMA EndsInside ==
  ASSUME HistoryOK, NEW g, NEW p \in DOMAIN code, HandlerOK(g, p), code[p].op = "try_table", p + 1 < g.end,
         NEW j, j = Len(seen[p + 1].ctrls), NEW e \in Nat, ClosedBy("end", e, j, p + 1)
  PROVE  e < g.end
<1>a. PICK a : a = g.at
  OBVIOUS
<1>J. PICK J : J = Len(seen[a].ctrls)
  OBVIOUS
<1>x. PICK x : x = g.end - 1
  OBVIOUS
<1>y. PICK y : y = e - 1
  OBVIOUS
<1>b. PICK b : b = p + 1
  OBVIOUS
<1>r. PICK r : r = seen[b]
  OBVIOUS
<1>1. /\ p \in Nat /\ b \in DOMAIN seen /\ b \in Nat /\ p \in DOMAIN seen /\ Len(seen[p].ctrls) \in Nat /\ j = Len(seen[p].ctrls) + 1
      /\ j \in 1 .. Len(r.ctrls) /\ j > 1 /\ r.ctrls[j].start = b /\ r \in HeldSet /\ seen[p] \in HeldSet
  BY <1>b, <1>r, TryFrame
<1>2. g.end \in Nat /\ a \in Nat /\ a <= p /\ p < g.end
  BY <1>1, <1>a DEF HandlerOK
<1>3. OpenIn(seen[p], J, a) /\ x \in DOMAIN code /\ Len(seen[x].ctrls) = J
  <2>1. /\ HistoryOK /\ p \in Nat /\ HandlerOK(g, p) /\ a = g.at /\ J = Len(seen[a].ctrls) /\ a <= p /\ p < g.end
    BY <1>1, <1>2, <1>a, <1>J
  <2>2. OpenIn(seen[p], J, a) /\ g.end - 1 \in DOMAIN code /\ Len(seen[g.end - 1].ctrls) = J
    BY ONLY <2>1, HandlerOpen
  <2> QED
    BY <2>2, <1>x
<1>4. J \in Nat /\ J < j
  <2>1. J \in 1 .. Len(seen[p].ctrls)
    BY <1>1, <1>3, RecordParts DEF OpenIn
  <2> QED
    BY <1>1, <2>1
<1>5. y \in DOMAIN code /\ Len(seen[y].ctrls) = j /\ OpenIn(seen[y], j, b)
  BY <1>b, <1>y DEF ClosedBy
<1>6. /\ y \in DOMAIN seen /\ HeldOK(seen[y], y) /\ Len(code) \in Nat /\ y \in 1 .. Len(code) /\ x \in 1 .. Len(code) /\ x \in DOMAIN seen
  BY <1>3, <1>5, Positions
<1>7. b <= y
  <2>1. FrameOK(seen[y], j, y) /\ seen[y].ctrls[j].start = b
    BY <1>5, <1>6 DEF HeldOK, OpenIn
  <2>2. b \in 2 .. y
    BY <1>1, <2>1 DEF FrameOK
  <2> QED
    BY <1>1, <1>6, <2>2
<1>8. SUFFICES ASSUME x <= y
               PROVE  FALSE
  BY <1>2, <1>6, <1>x, <1>y
<1>9. \A k \in b .. y : OpenIn(seen[k], j, b)
  <2>1. /\ HistoryOK /\ b \in DOMAIN seen /\ y \in DOMAIN seen /\ b <= y /\ r = seen[b] /\ j \in 1 .. Len(r.ctrls)
        /\ OpenIn(seen[y], j, r.ctrls[j].start)
    BY <1>1, <1>5, <1>6, <1>7, <1>r
  <2>2. \A k \in b .. y : OpenIn(seen[k], j, r.ctrls[j].start)
    BY ONLY <2>1, StillOpen
  <2> QED
    BY <1>1, <2>2
<1>10. x \in b .. y
  BY <1>1, <1>2, <1>6, <1>8, <1>b, <1>x
<1>11. j \in 1 .. Len(seen[x].ctrls)
  <2>1. seen[x] \in HeldSet
    BY <1>6, Positions
  <2> QED
    BY <1>9, <1>10, <2>1, RecordParts DEF OpenIn
<1> QED
  BY <1>3, <1>4, <1>11

\* try_table pushes a handler for its clauses.
LEMMA TryRun ==
  ASSUME NEW s, NEW r, NEW i, NEW p, Here(s, r, i, p), i.op = "try_table",
         NEW tt, tt = (CHOOSE t \in {trys[k] : k \in DOMAIN trys} : t.at = p + 1),
         NEW h, h = [sp |-> Len(stack) - Len(i.bt.in), stp |-> tt.stp, at |-> p + 1, end |-> tt.end, catches |-> i.catches],
         NEW hs, hs = Append(FirstN(handlers, PrunedTo(p + 1)), h)
  PROVE  HandlersOK(hs, p + 1)
<1>1. /\ TopOf(s).height \in Nat /\ TopOf(s).height <= Len(s.vals) /\ ~TopOf(s).dead /\ s.vals \in Seq(Type)
      /\ stack \in Seq(ValueSet) /\ FitsTypes(stack, s.vals) /\ i \in Instr /\ HandlersOK(handlers, p)
      /\ AcceptedOK /\ HistoryOK /\ p \in DOMAIN code /\ i = code[p] /\ s = seen[p] /\ r = seen[p + 1]
      /\ Len(stack) = Len(s.vals) /\ Len(s.vals) \in Nat
  BY HereLive, HereParts DEF Here
<1>b. PICK b : b = p + 1
  OBVIOUS
<1>J. PICK J : J = Len(r.ctrls)
  OBVIOUS
<1>2. /\ p \in Nat /\ b \in Nat /\ b - 1 = p /\ p <= b /\ TopOf(r) = r.ctrls[J] /\ TryTableEffect(s, r, i, p)
  BY <1>1, <1>b, <1>J, TryFrame
<1>i. PICK is : is = i.bt.in
  OBVIOUS
<1>3. is \in Seq(Type) /\ CanPop(TopOf(s), s.vals, is) /\ TopOf(r).height = Len(Pop(TopOf(s), s.vals, is))
  BY <1>1, <1>2, <1>i, TypesOfBlock DEF Opens, TryTableEffect, Enters
<1>m. PICK m : m = Len(Pop(TopOf(s), s.vals, is))
  OBVIOUS
<1>4. Popping(TopOf(s), s.vals, is, stack, m)
  BY <1>1, <1>3, <1>m DEF Popping
<1>5. m \in Nat /\ m + Len(is) = Len(stack)
  BY <1>4, FitsPop DEF Popped
<1>6. Len(stack) - Len(is) = m
  <2>1. Len(is) \in Nat
    BY <1>3, TypeParts
  <2> QED
    BY <1>5, <2>1
<1>7. /\ tt \in TrySet /\ tt.at = b /\ tt.stp = s.next /\ ClosedBy("end", tt.end, J, b)
  <2>1. PICK k \in DOMAIN trys : trys[k].at = b
    BY <1>1, <1>b DEF AcceptedOK, TrysOK
  <2>2. tt \in {trys[l] : l \in DOMAIN trys} /\ tt.at = b
    BY <2>1, <1>b
  <2>3. PICK l \in DOMAIN trys : tt = trys[l]
    BY <2>2
  <2>4. trys \in Seq(TrySet) /\ TryOK(<<>>, l)
    BY <1>1, <2>3 DEF AcceptedOK, TrysOK
  <2>5. trys[l].stp = s.next /\ ClosedBy("end", trys[l].end, J, b)
    <3>1. trys[l].at = b /\ trys[l].at - 1 = p
      BY <1>2, <2>2, <2>3
    <3>2. seen[trys[l].at] = r /\ seen[trys[l].at - 1] = s
      BY <1>1, <1>b, <3>1
    <3>3. \A j : j \notin DOMAIN <<>>
      OBVIOUS
    <3>4. /\ trys[l].stp = seen[trys[l].at - 1].next
          /\ ClosedBy("end", trys[l].end, Len(seen[trys[l].at].ctrls), trys[l].at)
      BY <2>4, <3>3 DEF TryOK
    <3> QED
      BY <3>1, <3>2, <3>4, <1>J
  <2>6. tt \in TrySet
    <3>1. \A x \in DOMAIN trys : trys[x] \in TrySet
      BY <2>4
    <3> QED
      BY <2>3, <3>1
  <2> QED
    BY <2>2, <2>3, <2>5, <2>6
<1>8. tt.end \in Nat /\ tt.stp \in Nat
  BY <1>7 DEF TrySet
<1>9. h.sp = m /\ h.stp = tt.stp /\ h.at = b /\ h.end = tt.end /\ h.catches = i.catches /\ h \in HandlerSet
  <2>1. i.catches \in {x.catches : x \in {y \in Instr : y.op = "try_table"}}
    BY <1>1
  <2>2. h = [sp |-> m, stp |-> tt.stp, at |-> b, end |-> tt.end, catches |-> i.catches]
    BY <1>6, <1>b, <1>i
  <2> QED
    BY <1>2, <1>5, <1>8, <2>1, <2>2 DEF HandlerSet
<1>10. HandlerOK(h, b)
  <2>1. TopOf(seen[h.at]).height = m /\ Len(seen[h.at].ctrls) = J /\ h.at - 1 = p
    BY <1>1, <1>2, <1>3, <1>9, <1>b, <1>J, <1>m
  <2>2. ClosedBy("end", h.end, Len(seen[h.at].ctrls), h.at)
    BY <1>7, <1>9, <2>1
  <2> QED
    <3>1. /\ h.at - 1 \in DOMAIN code /\ code[h.at - 1].op = "try_table" /\ h.stp = seen[h.at - 1].next
          /\ h.catches = code[h.at - 1].catches
      BY <1>1, <1>7, <1>9, <2>1
    <3>2. h.at \in Nat /\ h.end \in Nat /\ h.at <= b /\ h.sp = TopOf(seen[h.at]).height
      BY <1>2, <1>8, <1>9, <2>1
    <3> QED
      BY ONLY <2>2, <3>1, <3>2 DEF HandlerOK
<1>n. PICK n : n = PrunedTo(b)
  OBVIOUS
<1>11. n \in 0 .. Len(handlers) /\ (n > 0 => b < handlers[n].end)
  BY <1>1, <1>2, <1>n, PrunedIs
<1>12. /\ Len(handlers) \in Nat
       /\ (\A k \in 1 .. Len(handlers) : handlers[k].at \in Nat /\ handlers[k].end \in Nat /\ HandlerOK(handlers[k], p) /\ handlers[k].at <= p)
       /\ \A k, l \in 1 .. Len(handlers) : k < l => handlers[k].at < handlers[l].at /\ handlers[l].end < handlers[k].end
  BY <1>1, HandlerParts
<1>f. PICK fs : fs = FirstN(handlers, n)
  OBVIOUS
<1>13. HandlersOK(fs, b) /\ Len(fs) = n /\ \A k \in 1 .. n : fs[k] = handlers[k]
  <2>1. HandlersOK(handlers, b)
    BY <1>1, <1>2, HandlersLater
  <2> QED
    BY <1>11, <1>f, <2>1, HandlersCut
<1>14. ASSUME NEW k \in 1 .. n
       PROVE  handlers[k].at < b /\ tt.end < handlers[k].end
  <2>1. k \in 1 .. Len(handlers) /\ n \in 1 .. Len(handlers) /\ n > 0 /\ (k = n \/ k < n)
    BY <1>11, <1>12
  <2>2. handlers[k].end \in Nat /\ handlers[n].end \in Nat /\ b < handlers[n].end
    BY <1>11, <1>12, <2>1
  <2>3. b < handlers[k].end
    BY <1>2, <1>12, <2>1, <2>2
  <2>4. tt.end < handlers[k].end
    <3>g. PICK g : g = handlers[k]
      OBVIOUS
    <3>1. /\ HistoryOK /\ p \in DOMAIN code /\ HandlerOK(g, p) /\ code[p].op = "try_table" /\ p + 1 < g.end
          /\ J = Len(seen[p + 1].ctrls) /\ tt.end \in Nat /\ ClosedBy("end", tt.end, J, p + 1)
      BY <1>1, <1>7, <1>8, <1>12, <2>1, <2>3, <3>g, <1>b, <1>J
    <3>2. tt.end < g.end
      BY ONLY <3>1, EndsInside
    <3> QED
      BY <3>2, <3>g
  <2>5. handlers[k].at < b
    BY <1>2, <1>12, <2>1, <1>b
  <2> QED
    BY <2>4, <2>5
<1>15. \A k \in 1 .. Len(fs) : fs[k].at < h.at /\ h.end < fs[k].end
  BY <1>9, <1>13, <1>14
<1>16. HandlersOK(Append(fs, h), b)
  BY <1>9, <1>10, <1>13, <1>15, HandlersPush
<1> QED
  BY <1>16, <1>b, <1>f, <1>n

\* The handler of a throw at a live position: its construct is still open, so what
\* was below it is below the operands, and no local is known there that is not here.
Handles(s, p, k, h, q, w, sp) ==
  /\ q = h.at - 1 /\ q \in DOMAIN code /\ code[q].op = "try_table" /\ w = seen[q] /\ Alive(w) /\ Known(w) \subseteq Known(s)
  /\ h.stp = w.next /\ h.catches = code[q].catches /\ h.sp = sp /\ TryTableEffect(w, seen[q + 1], code[q], q)
  /\ sp = Len(Pop(TopOf(w), w.vals, code[q].bt.in)) /\ sp \in Nat /\ sp <= Len(stack)
  /\ \A x \in 1 .. sp : s.vals[x] = w.vals[x]
  /\ HandlersOK(FirstN(handlers, k - 1), q)
LEMMA ThrowHandler ==
  ASSUME NEW s, NEW r, NEW i, NEW p, Here(s, r, i, p), NEW k \in 1 .. PrunedTo(p + 1), NEW h, h = handlers[k],
         NEW q, q = h.at - 1, NEW w, w = seen[q], NEW sp, sp = h.sp
  PROVE  Handles(s, p, k, h, q, w, sp)
<1>1. /\ s \in HeldSet /\ s.ctrls # <<>> /\ HandlersOK(handlers, p) /\ Alive(s) /\ HistoryOK /\ p \in DOMAIN code /\ s = seen[p]
      /\ Len(stack) = Len(s.vals) /\ Len(s.vals) \in Nat /\ p \in Nat
  BY HereLive, HereParts DEF Here
<1>n. PICK n : n = PrunedTo(p + 1)
  OBVIOUS
<1>2. n \in 0 .. Len(handlers) /\ (n > 0 => p + 1 < handlers[n].end)
  <2>1. p + 1 \in Nat
    BY <1>1
  <2> QED
    BY <1>1, <1>n, <2>1, PrunedIs
<1>3. /\ Len(handlers) \in Nat
      /\ (\A x \in 1 .. Len(handlers) : handlers[x] \in HandlerSet /\ handlers[x].at \in Nat /\ handlers[x].end \in Nat
                                        /\ HandlerOK(handlers[x], p) /\ handlers[x].at <= p)
      /\ \A x, y \in 1 .. Len(handlers) : x < y => handlers[x].at < handlers[y].at /\ handlers[y].end < handlers[x].end
  BY <1>1, HandlerParts
<1>4. k \in 1 .. Len(handlers) /\ n \in 1 .. Len(handlers) /\ n > 0 /\ (k = n \/ k < n) /\ k \in Nat
  BY <1>2, <1>3, <1>n
<1>5. h.at \in Nat /\ h.end \in Nat /\ HandlerOK(h, p) /\ h.at <= p /\ handlers[n].end \in Nat
  BY <1>3, <1>4
<1>6. p < h.end
  <2>1. p + 1 < handlers[n].end /\ (handlers[n].end < h.end \/ handlers[n].end = h.end)
    BY <1>2, <1>3, <1>4
  <2> QED
    BY <1>1, <1>5, <2>1
<1>a. PICK a : a = h.at
  OBVIOUS
<1>u. PICK u : u = seen[a]
  OBVIOUS
<1>J. PICK J : J = Len(u.ctrls)
  OBVIOUS
<1>7. /\ u \in HeldSet /\ OpenIn(s, J, a) /\ Frozen(u, s, J) /\ J \in 1 .. Len(u.ctrls)
  <2>1. /\ HistoryOK /\ p \in Nat /\ HandlerOK(h, p) /\ a = h.at /\ u = seen[a] /\ J = Len(u.ctrls) /\ a <= p /\ p < h.end
    BY <1>1, <1>5, <1>6, <1>a, <1>u, <1>J
  <2>2. u \in HeldSet /\ OpenIn(seen[p], J, a) /\ Frozen(u, seen[p], J) /\ J \in 1 .. Len(u.ctrls)
    BY ONLY <2>1, HandlerOpen
  <2> QED
    BY <1>1, <2>2
<1>8. /\ q \in DOMAIN code /\ code[q].op = "try_table" /\ h.stp = w.next /\ h.catches = code[q].catches /\ h.sp = TopOf(u).height
  BY <1>5, <1>a, <1>u DEF HandlerOK
<1>9. q + 1 = a
  BY <1>5, <1>a
<1>10. /\ w \in HeldSet /\ J = Len(w.ctrls) + 1 /\ TopOf(u) = u.ctrls[J] /\ TryTableEffect(w, u, code[q], q) /\ w.ctrls # <<>>
       /\ Len(w.ctrls) \in Nat /\ HeldOK(w, q) /\ code[q] \in Instr /\ q \in DOMAIN seen
  <2>1. u = seen[q + 1]
    BY <1>9, <1>u
  <2>2. /\ HistoryOK /\ q \in DOMAIN code /\ code[q].op = "try_table" /\ w = seen[q] /\ u = seen[q + 1] /\ J = Len(u.ctrls)
    BY <1>1, <1>8, <2>1, <1>J
  <2>3. /\ w \in HeldSet /\ J = Len(w.ctrls) + 1 /\ TopOf(u) = u.ctrls[J] /\ TryTableEffect(w, u, code[q], q) /\ w.ctrls # <<>>
        /\ Len(w.ctrls) \in Nat /\ q \in DOMAIN seen
    BY ONLY <2>2, TryFrame
  <2> QED
    BY <1>1, <1>8, <2>3, Positions
<1>i. PICK is : is = code[q].bt.in
  OBVIOUS
<1>p. PICK ps : ps = Pop(TopOf(w), w.vals, is)
  OBVIOUS
<1>11. /\ u.vals = ps \o is /\ u.inits = w.inits /\ Keeps(w, u, Len(w.ctrls)) /\ TopOf(u).height = Len(ps)
       /\ TopOf(u).inits = Len(w.inits)
  BY <1>10, <1>i, <1>p DEF TryTableEffect, Enters
<1>12. is \in Seq(Type)
  BY <1>8, <1>10, <1>i, TypesOfBlock DEF Opens
<1>13. /\ ps \in Seq(Type) /\ Len(ps) \in Nat /\ \A x \in 1 .. Len(ps) : ps[x] = w.vals[x]
  <2>f. PICK f : f = TopOf(w)
    OBVIOUS
  <2>1. f.height \in Nat /\ f.height <= Len(w.vals) /\ w.vals \in Seq(Type) /\ is \in Seq(Type)
    BY <1>10, <1>12, <2>f, RecordTop, RecordParts
  <2>2. /\ Pop(f, w.vals, is) \in Seq(Type) /\ Len(Pop(f, w.vals, is)) \in Nat
        /\ \A x \in 1 .. Len(Pop(f, w.vals, is)) : Pop(f, w.vals, is)[x] = w.vals[x]
    BY ONLY <2>1, PopEffect
  <2> QED
    BY <2>2, <2>f, <1>p
<1>14. sp = Len(ps) /\ sp \in Nat
  BY <1>8, <1>11, <1>13
<1>15. \A x \in 1 .. sp : u.vals[x] = w.vals[x]
  <2>1. \A x \in 1 .. Len(ps) : (ps \o is)[x] = ps[x]
    <3>1. ps \in Seq(Type) /\ is \in Seq(Type)
      BY <1>12, <1>13
    <3> QED
      BY ONLY <3>1, BehindTypes
  <2> QED
    BY <1>11, <1>13, <1>14, <2>1
<1>16. sp <= Len(stack) /\ \A x \in 1 .. sp : s.vals[x] = w.vals[x]
  <2>1. Agree(u.vals, s.vals, sp)
    BY <1>7, <1>8, <1>10 DEF Frozen
  <2>2. sp <= Len(s.vals) /\ \A x \in 1 .. sp : u.vals[x] = s.vals[x]
    BY <2>1 DEF Agree
  <2> QED
    BY <1>1, <1>15, <2>2
<1>17. Alive(w)
  <2>1. ASSUME NEW x \in DOMAIN w.ctrls
        PROVE  ~w.ctrls[x].dead
    <3>1. x \in 1 .. Len(w.ctrls) /\ x \in 1 .. (J - 1)
      BY <1>10, <2>1, RecordParts
    <3>2. w.ctrls[x].dead = u.ctrls[x].dead
      BY <1>11, <3>1 DEF Keeps
    <3>3. u.ctrls[x].dead = s.ctrls[x].dead
      BY <1>7, <3>1 DEF Frozen, Keeps
    <3>4. x \in DOMAIN s.ctrls
      <4>1. J \in 1 .. Len(s.ctrls) /\ Len(s.ctrls) \in Nat
        BY <1>1, <1>7, RecordParts DEF OpenIn
      <4>2. x \in 1 .. Len(s.ctrls)
        BY <3>1, <4>1
      <4> QED
        BY <1>1, <4>2, RecordParts
    <3> QED
      BY <1>1, <3>2, <3>3, <3>4 DEF Alive
  <2> QED
    BY <2>1 DEF Alive
<1>18. Known(w) \subseteq Known(s)
  <2>m. PICK m : m = Len(u.inits)
    OBVIOUS
  <2>1. Agree(u.inits, s.inits, m) /\ m \in Nat
    BY <1>7, <1>10, <1>11, <2>m, RecordParts DEF Frozen
  <2>2. m <= Len(s.inits) /\ m <= Len(u.inits) /\ Agree(s.inits, u.inits, m) /\ Len(s.inits) \in Nat
    BY <1>1, <2>1, RecordParts DEF Agree
  <2>3. m \in 0 .. Len(s.inits)
    BY <2>1, <2>2
  <2>4. Known(u) \subseteq Known(s)
    BY <1>1, <1>7, <2>2, <2>3, <2>m, KnownAmong
  <2>5. Known(u) = Known(w)
    BY <1>11, KnownSame
  <2> QED
    BY <2>4, <2>5
<1>19. HandlersOK(FirstN(handlers, k - 1), q)
  <2>f. PICK fs : fs = FirstN(handlers, k - 1)
    OBVIOUS
  <2>m. PICK m : m = k - 1
    OBVIOUS
  <2>1. m \in 0 .. Len(handlers) /\ m \in Nat
    BY <1>3, <1>4, <2>m
  <2>2. HandlersOK(fs, p) /\ Len(fs) = m /\ \A x \in 1 .. m : fs[x] = handlers[x]
    BY <1>1, <2>1, <2>f, <2>m, HandlersCut
  <2>3. ASSUME NEW x \in 1 .. m
        PROVE  fs[x].at <= q
    <3>1. x \in 1 .. Len(handlers) /\ x < k
      BY <1>3, <1>4, <2>1, <2>m
    <3>2. handlers[x].at < h.at /\ handlers[x].at \in Nat
      BY <1>3, <1>4, <3>1
    <3> QED
      BY <1>5, <2>2, <2>3, <3>2
  <2> QED
    BY <2>2, <2>3, <2>f, HandlersEarlier
<1> QED
  BY <1>8, <1>9, <1>10, <1>14, <1>16, <1>17, <1>18, <1>19, <1>u, <1>i, <1>p DEF Handles

LEMMA FitsConcat ==
  ASSUME NEW a, NEW as, NEW b, NEW bs, a \in Seq(ValueSet), b \in Seq(ValueSet), as \in Seq(Type), bs \in Seq(Type),
         FitsTypes(a, as), FitsTypes(b, bs)
  PROVE  a \o b \in Seq(ValueSet) /\ FitsTypes(a \o b, as \o bs) /\ as \o bs \in Seq(Type)
<1>m. PICK m : m = Len(as)
  OBVIOUS
<1>v. PICK vs : vs = a \o b
  OBVIOUS
<1>1. /\ vs \in Seq(ValueSet) /\ Len(vs) = Len(a) + Len(b)
      /\ (\A k \in 1 .. Len(a) : vs[k] = a[k]) /\ (\A k \in 1 .. Len(b) : vs[Len(a) + k] = b[k])
  <2>1. /\ a \o b \in Seq(ValueSet) /\ Len(a \o b) = Len(a) + Len(b)
        /\ (\A k \in 1 .. Len(a) : (a \o b)[k] = a[k]) /\ (\A k \in 1 .. Len(b) : (a \o b)[Len(a) + k] = b[k])
    BY BehindEffect
  <2> QED
    BY <2>1, <1>v
<1>2. /\ Len(a) = Len(as) /\ (\A k \in 1 .. Len(as) : Typed(a[k], as[k]))
      /\ Len(b) = Len(bs) /\ (\A k \in 1 .. Len(bs) : Typed(b[k], bs[k]))
  BY FitsPointwise
<1>3. /\ as \in Seq(Type) /\ bs \in Seq(Type) /\ vs \in Seq(ValueSet) /\ m = Len(as) /\ Len(vs) = m + Len(bs)
      /\ (\A k \in 1 .. m : Typed(vs[k], as[k])) /\ (\A k \in 1 .. Len(bs) : Typed(vs[m + k], bs[k]))
  BY <1>1, <1>2, <1>m
<1>4. FitsTypes(vs, as \o bs)
  BY ONLY <1>3, FitsBehind
<1> QED
  BY <1>1, <1>4, <1>v, BehindTypes

\* What a clause carries has the types it was checked with.
LEMMA CarriedFits ==
  ASSUME NEW tag \in DOMAIN TagType, NEW cc, ClauseDecoded(cc), Catches(cc, tag), NEW fields \in Seq(ValueSet),
         FitsTypes(fields, TagType[tag]), NEW exn \in ValueSet, Typed(exn, ExnRef)
  PROVE  Carried(cc, fields, exn) \in Seq(ValueSet) /\ FitsTypes(Carried(cc, fields, exn), ClauseTypes(cc))
         /\ ClauseTypes(cc) \in Seq(Type)
<1>a. PICK a : a = IF cc.kind \in {"catch", "catch_ref"} THEN fields ELSE <<>>
  OBVIOUS
<1>b. PICK b : b = IF cc.kind \in {"catch_ref", "catch_all_ref"} THEN <<exn>> ELSE <<>>
  OBVIOUS
<1>c. PICK as : as = IF cc.kind \in {"catch", "catch_ref"} THEN TagType[cc.tag] ELSE <<>>
  OBVIOUS
<1>d. PICK bs : bs = IF cc.kind \in {"catch_ref", "catch_all_ref"} THEN <<ExnRef>> ELSE <<>>
  OBVIOUS
<1>0. <<>> \in Seq(ValueSet) /\ <<>> \in Seq(Type) /\ FitsTypes(<<>>, <<>>)
  BY DEF FitsTypes
<1>1. a \in Seq(ValueSet) /\ as \in Seq(Type) /\ FitsTypes(a, as)
  <2>1. CASE cc.kind \in {"catch", "catch_ref"}
    <3>1. cc.tag = tag
      BY <2>1 DEF Catches
    <3>2. TagType[tag] \in Seq(Type)
      BY SideTableAssumption
    <3> QED
      BY <2>1, <3>1, <3>2, <1>a, <1>c
  <2>2. CASE cc.kind \notin {"catch", "catch_ref"}
    BY <2>2, <1>0, <1>a, <1>c
  <2> QED
    BY <2>1, <2>2
<1>2. b \in Seq(ValueSet) /\ bs \in Seq(Type) /\ FitsTypes(b, bs)
  <2>1. CASE cc.kind \in {"catch_ref", "catch_all_ref"}
    <3>1. ExnRef \in Type
      BY SideTableAssumption
    <3>2. b = <<exn>> /\ bs = <<ExnRef>>
      BY <2>1, <1>b, <1>d
    <3>3. b \in Seq(ValueSet) /\ bs \in Seq(Type) /\ Len(b) = 1 /\ Len(bs) = 1 /\ b[1] = exn /\ bs[1] = ExnRef
      BY <3>1, <3>2
    <3>4. \A k \in 1 .. Len(bs) : Typed(b[k], bs[k])
      <4>1. \A k \in 1 .. Len(bs) : k = 1
        BY <3>3
      <4> QED
        BY <3>3, <4>1
    <3> QED
      BY <3>3, <3>4, FitsPointwise
  <2>2. CASE cc.kind \notin {"catch_ref", "catch_all_ref"}
    BY <2>2, <1>0, <1>b, <1>d
  <2> QED
    BY <2>1, <2>2
<1>3. a \o b \in Seq(ValueSet) /\ FitsTypes(a \o b, as \o bs) /\ as \o bs \in Seq(Type)
  <2>1. /\ a \in Seq(ValueSet) /\ b \in Seq(ValueSet) /\ as \in Seq(Type) /\ bs \in Seq(Type)
        /\ FitsTypes(a, as) /\ FitsTypes(b, bs)
    BY <1>1, <1>2
  <2> QED
    BY ONLY <2>1, FitsConcat
<1>4. Carried(cc, fields, exn) = a \o b /\ ClauseTypes(cc) = as \o bs
  BY <1>a, <1>b, <1>c, <1>d DEF Carried, ClauseTypes
<1> QED
  BY <1>3, <1>4

\* The fields of the exception, on top of the operands of a throw.
LEMMA FieldsFit ==
  ASSUME NEW s, NEW r, NEW i, NEW p, Here(s, r, i, p), i.op = "throw", NEW fields, fields = LastN(stack, Len(TagType[i.tag]))
  PROVE  i.tag \in DOMAIN TagType /\ fields \in Seq(ValueSet) /\ FitsTypes(fields, TagType[i.tag])
<1>1. /\ TopOf(s).height \in Nat /\ TopOf(s).height <= Len(s.vals) /\ ~TopOf(s).dead /\ s.vals \in Seq(Type)
      /\ stack \in Seq(ValueSet) /\ FitsTypes(stack, s.vals) /\ Effect(s, r, i, p) /\ Decoded(i)
  BY HereLive
<1>t. PICK ts : ts = TagType[i.tag]
  OBVIOUS
<1>2. i.tag \in DOMAIN TagType /\ ts \in Seq(Type) /\ CanPop(TopOf(s), s.vals, ts)
  BY <1>1, <1>t, SideTableAssumption DEF Effect, Decoded
<1>m. PICK m : m = Len(Pop(TopOf(s), s.vals, ts))
  OBVIOUS
<1>3. Popping(TopOf(s), s.vals, ts, stack, m)
  BY <1>1, <1>2, <1>m DEF Popping
<1>4. m \in Nat /\ m + Len(ts) = Len(stack) /\ (\A k \in 1 .. Len(ts) : Typed(stack[m + k], ts[k])) /\ Len(ts) \in Nat /\ Len(stack) \in Nat
  BY <1>1, <1>2, <1>3, FitsPop, TypeParts, ValueParts DEF Popped
<1>5. Len(ts) \in 0 .. Len(stack) /\ Len(stack) - Len(ts) = m
  BY <1>4
<1>6. fields \in Seq(ValueSet) /\ Len(fields) = Len(ts) /\ \A k \in 1 .. Len(ts) : fields[k] = stack[m + k]
  BY <1>1, <1>5, <1>t, LastNEffect
<1>7. FitsTypes(fields, ts)
  BY <1>2, <1>4, <1>6, FitsPointwise
<1> QED
  BY <1>2, <1>6, <1>7, <1>t

LEMMA BehindValues ==
  ASSUME NEW a \in Seq(ValueSet), NEW b \in Seq(ValueSet)
  PROVE  /\ a \o b \in Seq(ValueSet) /\ Len(a \o b) = Len(a) + Len(b)
         /\ (\A k \in 1 .. Len(a) : (a \o b)[k] = a[k]) /\ (\A k \in 1 .. Len(b) : (a \o b)[Len(a) + k] = b[k])
BY BehindEffect

\* A caught exception: clause c of the handler it finds takes entry e of the table, with
\* the operands below the construct and what the clause carries.
Throwing(s, r, i, p, k, h, c) ==
  /\ Here(s, r, i, p) /\ i.op = "throw" /\ k \in 1 .. PrunedTo(p + 1) /\ h = handlers[k]
  /\ c \in DOMAIN h.catches /\ Catches(h.catches[c], i.tag)
CarriedBy(h, c, i, p) == Carried(h.catches[c], LastN(stack, Len(TagType[i.tag])), Value(ExnRef, p))
Caught(p, k, h, e, vs) ==
  FrameGood(Moved(vs, table[e].vals, table[e].pop), h.at + table[e].ip, e + table[e].stp, locals, FirstN(handlers, k - 1))
LEMMA CatchRun ==
  ASSUME ~TryInLoop, NEW s, NEW r, NEW i, NEW p, NEW k, NEW h, NEW c, Throwing(s, r, i, p, k, h, c),
         NEW e, e = h.stp + c - 1, NEW vs, vs = FirstN(stack, h.sp) \o CarriedBy(h, c, i, p)
  PROVE  Caught(p, k, h, e, vs)
<1>0. /\ Here(s, r, i, p) /\ i.op = "throw" /\ k \in 1 .. PrunedTo(p + 1) /\ h = handlers[k]
      /\ c \in DOMAIN h.catches /\ Catches(h.catches[c], i.tag)
  BY DEF Throwing
<1>q. PICK q : q = h.at - 1
  OBVIOUS
<1>w. PICK w : w = seen[q]
  OBVIOUS
<1>m. PICK m : m = h.sp
  OBVIOUS
<1>1. /\ q \in DOMAIN code /\ code[q].op = "try_table" /\ Alive(w) /\ Known(w) \subseteq Known(s)
      /\ h.stp = w.next /\ h.catches = code[q].catches /\ TryTableEffect(w, seen[q + 1], code[q], q)
      /\ m = Len(Pop(TopOf(w), w.vals, code[q].bt.in)) /\ m \in Nat /\ m <= Len(stack)
      /\ (\A x \in 1 .. m : s.vals[x] = w.vals[x]) /\ HandlersOK(FirstN(handlers, k - 1), q)
  <2>1. Handles(s, p, k, h, q, w, m)
    BY <1>0, <1>q, <1>w, <1>m, ThrowHandler
  <2> QED
    BY <2>1 DEF Handles
<1>2. /\ HistoryOK /\ AcceptedOK /\ p \in Nat /\ p \in 1 .. Len(code) /\ Len(code) \in Nat /\ p \in DOMAIN seen
      /\ s = seen[p] /\ LocalsOK(locals, p) /\ stack \in Seq(ValueSet) /\ FitsTypes(stack, s.vals) /\ s.vals \in Seq(Type)
      /\ Len(stack) \in Nat
  BY <1>0, HereParts, HereLive, ValueParts DEF Here
<1>o. PICK o : o = code[q]
  OBVIOUS
<1>3. /\ w \in HeldSet /\ HeldOK(w, q) /\ o \in Instr /\ o.op = "try_table" /\ q \in DOMAIN seen /\ q \in Nat
      /\ q \in 1 .. Len(code) /\ w.ctrls # <<>> /\ Decoded(o) /\ o.bt.in \in Seq(Type)
  <2>1. w \in HeldSet /\ HeldOK(w, q) /\ o \in Instr /\ q \in DOMAIN seen /\ q \in 1 .. Len(code) /\ Effect(w, seen[q + 1], o, q)
    BY <1>1, <1>2, <1>o, <1>w, Positions
  <2> QED
    BY <1>1, <2>1, <1>o, TypesOfBlock DEF Opens, Effect
<1>4. /\ c \in 1 .. Slots(o) /\ c \in DOMAIN o.catches /\ ClauseDecoded(o.catches[c]) /\ ClauseFitsAt(w, o.catches[c])
      /\ LabelOf(o, c) = o.catches[c].label
  <2>1. c \in DOMAIN o.catches
    BY <1>0, <1>1, <1>o
  <2>2. Slots(o) = Len(o.catches) /\ DOMAIN o.catches = 1 .. Len(o.catches)
    BY <1>3 DEF Slots, Decoded
  <2>3. ClauseDecoded(o.catches[c])
    BY <1>3, <2>1 DEF Decoded
  <2>4. ClauseFitsAt(w, o.catches[c])
    BY <1>1, <1>o, <2>1 DEF TryTableEffect
  <2> QED
    BY <1>3, <2>1, <2>2, <2>3, <2>4 DEF LabelOf
<1>d. PICK d : d = o.catches[c]
  OBVIOUS
<1>j. PICK j : j = HomeAt(w, o, c)
  OBVIOUS
<1>ts. PICK ts : ts = LabelTypes(w.ctrls[j])
  OBVIOUS
<1>5. d = h.catches[c] /\ LabelAt(w, d.label) = w.ctrls[j] /\ ClauseDecoded(d) /\ Catches(d, i.tag)
  BY <1>0, <1>1, <1>3, <1>4, <1>d, <1>j, <1>o DEF HomeAt, LabelAt
<1>6. Len(ClauseTypes(d)) = Len(ts) /\ \A x \in DOMAIN ts : Matches(ClauseTypes(d)[x], ts[x])
  BY <1>4, <1>5, <1>d, <1>ts DEF ClauseFitsAt
<1>to. PICK to : to = h.at + table[e].ip
  OBVIOUS
<1>7. /\ table[e].vals = CarriesAt(w, o, c) /\ table[e].pop = PopsAt(w, o, c) /\ to \in DOMAIN seen
      /\ e + table[e].stp = seen[to].next /\ \E skip \in {0, 1} : Landing(q, c, to, skip)
  <2>1. h.at = q + 1
    <3>1. h.at \in Nat
      <4>1. k \in 1 .. Len(handlers) /\ HandlersOK(handlers, p)
        <5>1. PrunedTo(p + 1) \in 0 .. Len(handlers) /\ HandlersOK(handlers, p)
          <6>1. HandlersOK(handlers, p) /\ p \in Nat /\ p + 1 \in Nat
            BY <1>0, <1>2 DEF Here
          <6> QED
            BY <6>1, PrunedIs
        <5>2. Len(handlers) \in Nat
          BY <5>1, HandlerParts
        <5> QED
          BY <1>0, <5>1, <5>2
      <4> QED
        BY <1>0, <4>1, HandlerParts
    <3> QED
      BY <3>1, <1>q
  <2>2. e = seen[q].next + c - 1 /\ to = EntryTo(q, c)
    BY <1>1, <2>1, <1>w, <1>to DEF EntryTo
  <2>3. EntryFits(q, c, e, to)
    BY <1>1, <1>2, <1>4, <1>o, <2>2 DEF AcceptedOK, TableOK
  <2> QED
    BY <2>3, <1>w, <1>o DEF EntryFits, Carries, Pops
<1>l. PICK skip \in {0, 1} : Landing(q, c, to, skip)
  BY <1>7
<1>t. PICK t : t = seen[to]
  OBVIOUS
<1>8. j \in 1 .. Len(w.ctrls) /\ ts \in Seq(Type) /\ LandsWith(w, j, t, ts)
  <2>1. /\ HistoryOK /\ q \in DOMAIN code /\ c \in 1 .. Slots(code[q]) /\ code[q].op # "if" /\ to \in DOMAIN seen
        /\ Landing(q, c, to, skip) /\ w = seen[q] /\ j = HomeIdx(q, c)
    BY <1>1, <1>2, <1>3, <1>4, <1>7, <1>l, <1>o, <1>w, <1>j DEF HomeIdx
  <2>2. j \in 1 .. Len(w.ctrls) /\ LabelTypes(w.ctrls[j]) \in Seq(Type) /\ LandsWith(w, j, seen[to], LabelTypes(w.ctrls[j]))
    BY ONLY <2>1, BranchLands
  <2> QED
    BY <2>2, <1>t, <1>ts
<1>h. PICK g : g = w.ctrls[j].height
  OBVIOUS
<1>9. g \in Nat /\ g <= m
  <2>f. PICK f : f = TopOf(w)
    OBVIOUS
  <2>1. g \in Nat /\ f.height \in Nat /\ g <= f.height /\ f.height <= Len(w.vals) /\ w.vals \in Seq(Type)
    BY <1>3, <1>8, <1>h, <2>f, RecordTop, RecordParts
  <2>2. f.height <= Len(Pop(f, w.vals, o.bt.in)) /\ Len(Pop(f, w.vals, o.bt.in)) \in Nat
    <3>1. f.height \in Nat /\ w.vals \in Seq(Type) /\ f.height <= Len(w.vals) /\ o.bt.in \in Seq(Type)
      BY <1>3, <2>1
    <3> QED
      BY ONLY <3>1, PopEffect
  <2> QED
    BY <1>1, <1>o, <2>1, <2>2, <2>f
<1>a. PICK as : as = FirstN(stack, m)
  OBVIOUS
<1>b. PICK bs : bs = CarriedBy(h, c, i, p)
  OBVIOUS
<1>10. as \in Seq(ValueSet) /\ Len(as) = m /\ \A x \in 1 .. m : as[x] = stack[x]
  <2>1. m \in 0 .. Len(stack)
    BY <1>1, <1>2
  <2> QED
    BY <1>2, <2>1, <1>a, FirstNEffect
<1>11. bs \in Seq(ValueSet) /\ FitsTypes(bs, ClauseTypes(d)) /\ ClauseTypes(d) \in Seq(Type)
  <2>f. PICK fields : fields = LastN(stack, Len(TagType[i.tag]))
    OBVIOUS
  <2>v. PICK exn : exn = Value(ExnRef, p)
    OBVIOUS
  <2>1. i.tag \in DOMAIN TagType /\ fields \in Seq(ValueSet) /\ FitsTypes(fields, TagType[i.tag])
    BY <1>0, <2>f, FieldsFit
  <2>2. exn \in ValueSet /\ Typed(exn, ExnRef)
    BY <1>2, <2>v, NewValue, SideTableAssumption
  <2>3. bs = Carried(d, fields, exn)
    BY <1>5, <1>b, <2>f, <2>v DEF CarriedBy
  <2> QED
    BY <1>5, <2>1, <2>2, <2>3, CarriedFits
<1>12. /\ Len(bs) = Len(ts) /\ Len(ts) \in Nat /\ \A x \in 1 .. Len(ts) : bs[x] \in ValueSet /\ Typed(bs[x], ts[x])
  <2>1. /\ Len(bs) = Len(ClauseTypes(d)) /\ (\A x \in 1 .. Len(bs) : Typed(bs[x], ClauseTypes(d)[x]))
        /\ (\A x \in 1 .. Len(bs) : bs[x] \in ValueSet /\ bs[x].type \in Type)
        /\ (\A x \in 1 .. Len(bs) : ClauseTypes(d)[x] \in Type)
    BY <1>11, FitsPointwise, ValueParts, TypeParts
  <2>2. Len(ts) \in Nat /\ (\A x : x \in DOMAIN ts <=> x \in 1 .. Len(ts)) /\ \A x \in 1 .. Len(ts) : ts[x] \in Type
    BY <1>8, TypeParts
  <2>3. ASSUME NEW x \in 1 .. Len(ts)
        PROVE  bs[x] \in ValueSet /\ Typed(bs[x], ts[x])
    <3>1. x \in 1 .. Len(bs) /\ Matches(ClauseTypes(d)[x], ts[x])
      BY <1>6, <2>1, <2>2
    <3> QED
      BY <2>1, <2>2, <3>1, TypedWeakens
  <2> QED
    BY <1>6, <2>1, <2>2, <2>3
<1>13. /\ vs \in Seq(ValueSet) /\ m + Len(ts) = Len(vs) /\ (\A x \in 1 .. m : vs[x] = as[x])
       /\ \A x \in 1 .. Len(ts) : vs[m + x] = bs[x]
  <2>1. /\ as \o bs \in Seq(ValueSet) /\ Len(as \o bs) = Len(as) + Len(bs)
        /\ (\A x \in 1 .. Len(as) : (as \o bs)[x] = as[x]) /\ (\A x \in 1 .. Len(bs) : (as \o bs)[Len(as) + x] = bs[x])
    <3>1. as \in Seq(ValueSet) /\ bs \in Seq(ValueSet)
      BY <1>10, <1>11
    <3> QED
      BY ONLY <3>1, BehindValues
  <2>2. vs = as \o bs
    BY <1>a, <1>b, <1>m
  <2> QED
    BY <1>10, <1>12, <2>1, <2>2
<1>14. \A x \in 1 .. g : Typed(vs[x], w.vals[x])
  <2>1. Len(stack) = Len(s.vals) /\ \A x \in 1 .. Len(s.vals) : Typed(stack[x], s.vals[x])
    BY <1>2, FitsPointwise
  <2>2. ASSUME NEW x \in 1 .. g
        PROVE  Typed(vs[x], w.vals[x])
    <3>1. x \in 1 .. m /\ x \in 1 .. Len(s.vals)
      BY <1>1, <1>2, <1>9, <2>1
    <3> QED
      BY <1>1, <1>10, <1>13, <2>1, <3>1
  <2> QED
    BY <2>2
<1>15. CarriesAt(w, o, c) = Len(ts) /\ PopsAt(w, o, c) = m - g
  <2>1. CarriesAt(w, o, c) = Len(ts)
    BY <1>3, <1>j, <1>ts DEF CarriesAt
  <2>2. Operands(w, o) = m
    BY <1>1, <1>3, <1>o DEF Operands
  <2>d. PICK n : n = m - g
    OBVIOUS
  <2>3. n \in Nat /\ n - 0 = n
    BY <1>1, <1>9, <2>d
  <2>4. PopsAt(w, o, c) = IF n - 0 > 0 THEN n - 0 ELSE 0
    BY <1>3, <1>h, <1>j, <2>2, <2>d DEF PopsAt
  <2>5. PopsAt(w, o, c) = n
    BY ONLY <2>3, <2>4
  <2> QED
    BY <2>1, <2>5, <2>d
<1>x. PICK ws : ws = Moved(vs, table[e].vals, table[e].pop)
  OBVIOUS
<1>16. ws \in Seq(ValueSet) /\ FitsTypes(ws, t.vals)
  <2>1. PICK pop : pop = m - g
    OBVIOUS
  <2>2. ws = Moved(vs, Len(ts), pop) /\ t \in HeldSet
    BY <1>2, <1>7, <1>15, <1>x, <1>t, <2>1, Positions
  <2>4. \A x \in 1 .. Len(ts) : Typed(vs[m + x], ts[x])
    BY <1>12, <1>13
  <2>3. /\ g \in Nat /\ g = w.ctrls[j].height /\ t \in HeldSet /\ ts \in Seq(Type) /\ LandsWith(w, j, t, ts)
        /\ vs \in Seq(ValueSet) /\ m \in Nat /\ m + Len(ts) = Len(vs) /\ g <= m
        /\ (\A x \in 1 .. g : Typed(vs[x], w.vals[x])) /\ (\A x \in 1 .. Len(ts) : Typed(vs[m + x], ts[x]))
        /\ pop = m - g /\ ws = Moved(vs, Len(ts), pop)
    BY <1>1, <1>8, <1>9, <1>13, <1>14, <1>h, <2>1, <2>2, <2>4
  <2> QED
    BY ONLY <2>3, MovedFits
<1>17. Alive(t) /\ Known(t) \subseteq Known(s)
  BY <1>1, <1>8 DEF LandsWith
<1>18. OperandsOK(ws, to, e + table[e].stp)
  BY <1>2, <1>7, <1>16, <1>17, <1>t, Arrives
<1>19. LocalsOK(locals, to)
  BY <1>2, <1>17, <1>t, LocalsWeaken
<1>20. HandlersOK(FirstN(handlers, k - 1), to)
  <2>1. c \in 1 .. Slots(code[q])
    BY <1>4, <1>o
  <2>2. /\ ~TryInLoop /\ HistoryOK /\ q \in DOMAIN code /\ c \in 1 .. Slots(code[q]) /\ to \in DOMAIN seen
        /\ Landing(q, c, to, skip) /\ HandlersOK(FirstN(handlers, k - 1), q)
    BY <1>1, <1>2, <1>7, <1>l, <2>1
  <2> QED
    BY ONLY <2>2, HandlersLand
<1> QED
  BY <1>18, <1>19, <1>20, <1>x, <1>to DEF Caught, FrameGood

(***************************************************************************)
(* The run of an accepted body                                             *)
(***************************************************************************)
LEMMA StartsGood == AcceptedOK => FrameGood(<<>>, 1, 1, FirstLocals, <<>>)
<1> SUFFICES ASSUME AcceptedOK
             PROVE  FrameGood(<<>>, 1, 1, FirstLocals, <<>>)
  OBVIOUS
<1>1. HistoryOK /\ code # <<>> /\ FirstRecord(seen[1]) /\ Len(code) \in Nat /\ code \in Seq(Instr)
  BY Positions DEF AcceptedOK, HistoryOK
<1>2. Len(code) >= 1 /\ 1 \in DOMAIN seen
  BY <1>1, Positions
<1>3. seen[1].vals = <<>> /\ Alive(seen[1]) /\ seen[1].next = 1 /\ Known(seen[1]) = Preset
  BY <1>1 DEF FirstRecord
<1>4. OperandsOK(<<>>, 1, 1)
  <2>1. <<>> \in Seq(ValueSet) /\ FitsTypes(<<>>, <<>>)
    BY DEF FitsTypes
  <2>2. 1 \in 1 .. (Len(table) + 1)
    BY <1>2, <1>3, Cursors
  <2>3. ~(1 > Len(code))
    BY <1>1, <1>2
  <2> QED
    BY <1>2, <1>3, <2>1, <2>2, <2>3 DEF OperandsOK
<1>5. LocalsOK(FirstLocals, 1)
  <2>1. LocalType \in Seq(Type)
    BY SideTableAssumption
  <2>2. ASSUME NEW x \in DOMAIN LocalType
        PROVE  /\ Typed(FirstLocals[x], LocalType[x])
               /\ FirstLocals[x] \in ValueSet \/ FirstLocals[x] = NeverSet(LocalType[x])
               /\ x \in Preset => FirstLocals[x] \in ValueSet
    <3>1. LocalType[x] \in Type
      BY <2>1
    <3>2. CASE x \in Preset
      <4>1. FirstLocals[x] = Value(LocalType[x], 0)
        BY <3>2 DEF Preset, FirstLocals
      <4> QED
        BY <3>1, <4>1, NewValue
    <3>3. CASE x \notin Preset
      <4>1. FirstLocals[x] = NeverSet(LocalType[x])
        BY <3>3 DEF Preset, FirstLocals
      <4>2. Typed(NeverSet(LocalType[x]), LocalType[x])
        BY <3>1, MatchesSelf DEF NeverSet, Typed
      <4> QED
        BY <3>3, <4>1, <4>2
    <3> QED
      BY <3>2, <3>3
  <2>3. Preset \subseteq DOMAIN LocalType
    BY DEF Preset
  <2>4. DOMAIN FirstLocals = DOMAIN LocalType
    BY DEF FirstLocals
  <2> QED
    BY <1>3, <2>2, <2>3, <2>4 DEF LocalsOK
<1>6. HandlersOK(<<>>, 1)
  BY DEF HandlersOK, Nested
<1> QED
  BY <1>4, <1>5, <1>6 DEF FrameGood

LEMMA AcceptStarts ==
  ASSUME ValidatorInv, MachineInv, Accept
  PROVE  MachineInv'
<1>1. AcceptedOK'
  BY Accepted
<1>2. (AcceptedOK => FrameGood(<<>>, 1, 1, FirstLocals, <<>>))'
  BY StartsGood, PTL
<1>3. FrameGood(<<>>, 1, 1, FirstLocals, <<>>)'
  BY <1>1, <1>2
<1>4. /\ phase = "validate" /\ phase' = "run" /\ pc' = pc /\ stp' = stp /\ stack' = stack /\ handlers' = handlers
      /\ locals' = locals /\ outcome' = outcome
  BY DEF Accept, frame
<1>5. pc = 1 /\ stp = 1 /\ stack = <<>> /\ handlers = <<>> /\ locals = FirstLocals /\ outcome.kind = "none"
  BY <1>4 DEF MachineInv
<1>6. FrameGood(stack, pc, stp, locals, handlers)'
  BY <1>3, <1>4, <1>5 DEF FrameGood, OperandsOK, LocalsOK, HandlersOK, FitsTypes, Typed, Nested, HandlerOK
<1> QED
  BY <1>1, <1>4, <1>5, <1>6 DEF MachineInv

\* Validating on, or giving up, leaves the frame as it is.
LEMMA FrameWaits ==
  ASSUME MachineInv, phase = "validate", phase' \in {"validate", "rejected"}, UNCHANGED <<frame, outcome>>
  PROVE  MachineInv'
BY DEF MachineInv, frame

LEMMA FitsSame ==
  ASSUME code' = code, seen' = seen, NEW vs, FitsTypes(vs, Results)
  PROVE  FitsTypes(vs, Results)'
<1>1. ElselessIfsFit' <=> ElselessIfsFit
  BY DEF ElselessIfsFit
<1> QED
  BY <1>1 DEF FitsTypes, Typed

\* The end of the run.
LEMMA RunEnds ==
  ASSUME phase' = "done", code' = code, seen' = seen, NEW o, outcome' = o,
         o.kind = "return" => FitsTypes(o.vals, Results)
  PROVE  MachineInv'
<1>1. o.kind = "return" => FitsTypes(o.vals, Results)'
  BY FitsSame
<1>2. outcome'.kind = "return" => FitsTypes(outcome.vals, Results)'
  BY <1>1 DEF FitsTypes, Typed
<1> QED
  BY <1>2 DEF MachineInv

LEMMA TransferKeeps ==
  ASSUME MachineInv, phase = "run", NEW at, NEW c, NEW vs, Transfer(at, c, vs), NEW hs, handlers' = hs,
         FrameGood(Moved(vs, table[c].vals, table[c].pop), at + table[c].ip, c + table[c].stp, locals, hs)
  PROVE  MachineInv'
<1>1. /\ stack' = Moved(vs, table[c].vals, table[c].pop) /\ pc' = at + table[c].ip /\ stp' = c + table[c].stp
      /\ phase' = phase /\ code' = code /\ seen' = seen /\ table' = table /\ trys' = trys /\ locals' = locals
      /\ outcome' = outcome
  BY DEF Transfer, Moved, validator
<1>2. FrameGood(stack', pc', stp', locals', handlers')
  BY <1>1
<1> QED
  BY <1>1, <1>2, RunKeeps

LEMMA StepKeeps ==
  ASSUME MachineInv, phase = "run", Step, FrameGood(stack', pc + 1, stp', locals', handlers')
  PROVE  MachineInv'
<1>1. /\ pc' = pc + 1 /\ phase' = phase /\ code' = code /\ seen' = seen /\ table' = table /\ trys' = trys
      /\ outcome' = outcome
  BY DEF Step, validator
<1>2. FrameGood(stack', pc', stp', locals', handlers')
  BY <1>1
<1> QED
  BY <1>1, <1>2, RunKeeps

\* Going on to the next instruction with operands vs.
LEMMA FallsThrough ==
  ASSUME MachineInv, NEW s, NEW r, NEW i, NEW p, Here(s, r, i, p), Step,
         i.op \notin {"br", "br_table", "return", "throw", "unreachable", "else", "local_set"},
         NEW vs \in Seq(ValueSet), FitsTypes(vs, r.vals), stack' = vs, stp' = r.next, locals' = locals, handlers' = handlers
  PROVE  MachineInv'
<1>1. OperandsOK(vs, p + 1, r.next) /\ HandlersOK(handlers, p + 1) /\ LocalsOK(locals, p + 1)
  BY Falls
<1>2. p = pc /\ phase = "run"
  BY DEF Here
<1>3. FrameGood(stack', pc + 1, stp', locals', handlers')
  BY <1>1, <1>2 DEF FrameGood
<1> QED
  BY <1>2, <1>3, StepKeeps

\* The instruction the machine is at.
LEMMA AtHere ==
  ASSUME MachineInv, NEW o, At(o), NEW s, s = seen[pc], NEW r, r = seen[pc + 1], NEW i, i = code[pc]
  PROVE  Here(s, r, i, pc) /\ phase = "run" /\ i.op = o /\ stp = s.next /\ r.next = s.next + Slots(i) /\ s.next \in Nat
         /\ stack \in Seq(ValueSet)
<1>1. Here(s, r, i, pc) /\ phase = "run" /\ i.op = o
  BY Arrived DEF At
<1> QED
  BY <1>1, HereParts DEF Here

LEMMA QuietSteps ==
  ASSUME MachineInv, RunConst \/ RunDrop \/ RunLocalGet \/ RunMarker
  PROVE  MachineInv'
<1>s. PICK s : s = seen[pc]
  OBVIOUS
<1>r. PICK r : r = seen[pc + 1]
  OBVIOUS
<1>i. PICK i : i = code[pc]
  OBVIOUS
<1>1. Step /\ stp' = stp /\ locals' = locals /\ handlers' = handlers
  BY DEF RunConst, RunDrop, RunLocalGet, RunMarker, Quiet
<1>2. /\ Here(s, r, i, pc) /\ i.op \in {"const", "drop", "local_get", "block", "loop", "end"} /\ stp = s.next
      /\ r.next = s.next + Slots(i) /\ s.next \in Nat /\ stack \in Seq(ValueSet)
  <2>1. \E o \in {"const", "drop", "local_get", "block", "loop", "end"} : At(o)
    BY DEF RunConst, RunDrop, RunLocalGet, RunMarker
  <2> QED
    BY <2>1, <1>s, <1>r, <1>i, AtHere
<1>3. stp' = r.next
  BY <1>1, <1>2 DEF Slots
<1>4. stack' \in Seq(ValueSet) /\ FitsTypes(stack', r.vals)
  <2>1. CASE RunConst
    <3>1. i.op = "const" /\ stack' = Pushed(Value(i.type, pc))
      BY <2>1, <1>i DEF RunConst, At
    <3> QED
      BY <1>2, <3>1, ConstRun
  <2>2. CASE RunDrop
    <3>1. i.op = "drop" /\ stack' = Below(1)
      BY <2>2, <1>i DEF RunDrop, At
    <3> QED
      BY <1>2, <3>1, DropRun
  <2>3. CASE RunLocalGet
    <3>1. i.op = "local_get" /\ stack' = Pushed(locals[i.local])
      BY <2>3, <1>i DEF RunLocalGet, At
    <3> QED
      BY <1>2, <3>1, LocalGetRun
  <2>4. CASE RunMarker
    <3>1. i.op \in {"block", "loop", "end", "try_table"} /\ stack' = stack
      BY <2>4, <1>i DEF RunMarker, At
    <3> QED
      BY <1>2, <3>1, MarkerRun
  <2> QED
    BY <2>1, <2>2, <2>3, <2>4
<1>v. PICK vs : vs = stack'
  OBVIOUS
<1> QED
  BY <1>1, <1>2, <1>3, <1>4, <1>v, FallsThrough

LEMMA LocalSetStep ==
  ASSUME MachineInv, RunLocalSet
  PROVE  MachineInv'
<1>s. PICK s : s = seen[pc]
  OBVIOUS
<1>r. PICK r : r = seen[pc + 1]
  OBVIOUS
<1>i. PICK i : i = code[pc]
  OBVIOUS
<1>l. PICK ls : ls = [locals EXCEPT ![i.local] = stack[Len(stack)]]
  OBVIOUS
<1>1. /\ At("local_set") /\ Step /\ stp' = stp /\ handlers' = handlers /\ stack' = Below(1) /\ locals' = ls
  BY <1>i, <1>l DEF RunLocalSet
<1>2. /\ Here(s, r, i, pc) /\ phase = "run" /\ i.op = "local_set" /\ stp = s.next
      /\ r.next = s.next + Slots(i) /\ s.next \in Nat
  BY <1>1, <1>s, <1>r, <1>i, AtHere
<1>3. stp' = r.next
  BY <1>1, <1>2 DEF Slots
<1>4. Below(1) \in Seq(ValueSet) /\ FitsTypes(Below(1), r.vals) /\ LocalsOK(ls, pc + 1)
  BY <1>2, <1>l, LocalSetRun
<1>5. OperandsOK(Below(1), pc + 1, r.next) /\ HandlersOK(handlers, pc + 1)
  BY <1>2, <1>4, Falls
<1>6. FrameGood(stack', pc + 1, stp', locals', handlers')
  BY <1>1, <1>3, <1>4, <1>5 DEF FrameGood
<1> QED
  BY <1>1, <1>2, <1>6, StepKeeps

\* The branches that may not be taken.
LEMMA ConditionalSteps ==
  ASSUME ~TryInLoop, MachineInv, RunIf \/ RunBrIf
  PROVE  MachineInv'
<1>s. PICK s : s = seen[pc]
  OBVIOUS
<1>r. PICK r : r = seen[pc + 1]
  OBVIOUS
<1>i. PICK i : i = code[pc]
  OBVIOUS
<1>1. /\ Here(s, r, i, pc) /\ phase = "run" /\ i.op \in {"if", "br_if"} /\ stp = s.next
      /\ r.next = s.next + Slots(i) /\ s.next \in Nat /\ handlers' = handlers
  <2>1. (\E o \in {"if", "br_if"} : At(o)) /\ handlers' = handlers
    BY DEF RunIf, RunBrIf
  <2> QED
    BY <2>1, <1>s, <1>r, <1>i, AtHere
<1>2. CASE Transfer(pc + 1, stp, Below(1))
  <2>1. Taken(pc, stp, Below(1))
    BY <1>1, IfTaken, BrIfTaken
  <2>2. /\ FrameGood(Moved(Below(1), table[stp].vals, table[stp].pop), pc + 1 + table[stp].ip, stp + table[stp].stp,
                     locals, handlers)
    BY <2>1 DEF Taken
  <2>v. PICK vs : vs = Below(1)
    OBVIOUS
  <2>h. PICK hs : hs = handlers
    OBVIOUS
  <2>c. PICK c : c = stp
    OBVIOUS
  <2>a. PICK at : at = pc + 1
    OBVIOUS
  <2>3. /\ Transfer(at, c, vs) /\ handlers' = hs /\ phase = "run" /\ MachineInv
        /\ FrameGood(Moved(vs, table[c].vals, table[c].pop), at + table[c].ip, c + table[c].stp, locals, hs)
    BY <1>1, <1>2, <2>2, <2>v, <2>h, <2>c, <2>a
  <2> QED
    BY ONLY <2>3, TransferKeeps
<1>3. CASE stack' = Below(1) /\ stp' = stp + 1 /\ Step /\ UNCHANGED locals
  <2>v. PICK vs : vs = Below(1)
    OBVIOUS
  <2>1. vs \in Seq(ValueSet) /\ FitsTypes(vs, r.vals)
    BY <1>1, <2>v, IfRun, BrIfRun
  <2>2. stp' = r.next
    BY <1>1, <1>3 DEF Slots
  <2>3. stack' = vs /\ locals' = locals /\ Step
    BY <1>3, <2>v
  <2> QED
    BY <1>1, <2>1, <2>2, <2>3, FallsThrough
<1> QED
  BY <1>2, <1>3 DEF RunIf, RunBrIf

\* The branches that are.
LEMMA BranchSteps ==
  ASSUME ~TryInLoop, MachineInv, RunElse \/ RunBr \/ RunBrTable
  PROVE  MachineInv'
<1>s. PICK s : s = seen[pc]
  OBVIOUS
<1>r. PICK r : r = seen[pc + 1]
  OBVIOUS
<1>i. PICK i : i = code[pc]
  OBVIOUS
<1>1. /\ Here(s, r, i, pc) /\ phase = "run" /\ i.op \in {"else", "br", "br_table"} /\ handlers' = handlers
      /\ (RunElse => i.op = "else") /\ (RunBr => i.op = "br") /\ (RunBrTable => i.op = "br_table")
  <2>1. (\E o \in {"else", "br", "br_table"} : At(o)) /\ handlers' = handlers
    BY DEF RunElse, RunBr, RunBrTable
  <2> QED
    BY <2>1, <1>s, <1>r, <1>i, AtHere DEF RunElse, RunBr, RunBrTable, At
<1>2. \E c, vs : Transfer(pc + 1, c, vs) /\ Taken(pc, c, vs)
  <2>1. CASE RunElse
    <3>1. Transfer(pc + 1, stp, stack) /\ Taken(pc, stp, stack)
      BY <1>1, <2>1, ElseRun DEF RunElse
    <3> QED
      BY <3>1
  <2>2. CASE RunBr
    <3>1. Transfer(pc + 1, stp, stack) /\ Taken(pc, stp, stack)
      BY <1>1, <2>2, BrRun DEF RunBr
    <3> QED
      BY <3>1
  <2>3. CASE RunBrTable
    <3>1. PICK key \in 0 .. (Len(i.labels) - 1) : Transfer(pc + 1, stp + key, Below(1))
      BY <1>i, <2>3 DEF RunBrTable
    <3>2. Taken(pc, stp + key, Below(1))
      BY <1>1, <2>3, BrTableRun
    <3> QED
      BY <3>1, <3>2
  <2> QED
    BY <2>1, <2>2, <2>3
<1>3. PICK c, vs : Transfer(pc + 1, c, vs) /\ Taken(pc, c, vs)
  BY <1>2
<1>h. PICK hs : hs = handlers
  OBVIOUS
<1>a. PICK at : at = pc + 1
  OBVIOUS
<1>4. /\ Transfer(at, c, vs) /\ handlers' = hs /\ phase = "run" /\ MachineInv
      /\ FrameGood(Moved(vs, table[c].vals, table[c].pop), at + table[c].ip, c + table[c].stp, locals, hs)
  BY <1>1, <1>3, <1>h, <1>a DEF Taken
<1> QED
  BY ONLY <1>4, TransferKeeps

LEMMA ReturnStep ==
  ASSUME MachineInv, RunReturn
  PROVE  MachineInv'
<1>s. PICK s : s = seen[pc]
  OBVIOUS
<1>r. PICK r : r = seen[pc + 1]
  OBVIOUS
<1>i. PICK i : i = code[pc]
  OBVIOUS
<1>1. Here(s, r, i, pc) /\ phase = "run" /\ i.op = "return"
  <2>1. At("return")
    BY DEF RunReturn
  <2> QED
    BY <2>1, <1>s, <1>r, <1>i, AtHere
<1>2. FrameGood(stack, Len(code) + 1, stp, locals, handlers)
  BY <1>1, ReturnRun
<1>3. /\ pc' = Len(code) + 1 /\ stack' = stack /\ stp' = stp /\ locals' = locals /\ handlers' = handlers
      /\ phase' = phase /\ code' = code /\ seen' = seen /\ table' = table /\ trys' = trys /\ outcome' = outcome
  BY DEF RunReturn, validator
<1>4. FrameGood(stack', pc', stp', locals', handlers')
  BY <1>2, <1>3
<1> QED
  BY <1>1, <1>3, <1>4, RunKeeps

LEMMA TryTableStep ==
  ASSUME MachineInv, RunTryTable
  PROVE  MachineInv'
<1>s. PICK s : s = seen[pc]
  OBVIOUS
<1>r. PICK r : r = seen[pc + 1]
  OBVIOUS
<1>i. PICK i : i = code[pc]
  OBVIOUS
<1>1. /\ Here(s, r, i, pc) /\ phase = "run" /\ i.op = "try_table" /\ stp = s.next
      /\ r.next = s.next + Slots(i) /\ s.next \in Nat /\ stack \in Seq(ValueSet)
  <2>1. At("try_table")
    BY DEF RunTryTable
  <2> QED
    BY <2>1, <1>s, <1>r, <1>i, AtHere
<1>t. PICK tt : tt = (CHOOSE t \in {trys[k] : k \in DOMAIN trys} : t.at = pc + 1)
  OBVIOUS
<1>h. PICK h : h = [sp |-> Len(stack) - Len(i.bt.in), stp |-> tt.stp, at |-> pc + 1, end |-> tt.end, catches |-> i.catches]
  OBVIOUS
<1>2. /\ handlers' = Append(FirstN(handlers, PrunedTo(pc + 1)), h)
      /\ stp' = stp + Len(i.catches) /\ Step /\ stack' = stack /\ locals' = locals
  BY <1>i, <1>t, <1>h DEF RunTryTable
<1>3. stp' = r.next
  BY <1>1, <1>2 DEF Slots
<1>4. FitsTypes(stack, r.vals)
  BY <1>1, MarkerRun
<1>5. OperandsOK(stack, pc + 1, r.next) /\ LocalsOK(locals, pc + 1)
  BY <1>1, <1>4, Falls
<1>6. HandlersOK(handlers', pc + 1)
  <2>p. PICK p : p = pc
    OBVIOUS
  <2>q. PICK hs : hs = Append(FirstN(handlers, PrunedTo(p + 1)), h)
    OBVIOUS
  <2>1. /\ Here(s, r, i, p) /\ i.op = "try_table" /\ tt = (CHOOSE t \in {trys[k] : k \in DOMAIN trys} : t.at = p + 1)
        /\ h = [sp |-> Len(stack) - Len(i.bt.in), stp |-> tt.stp, at |-> p + 1, end |-> tt.end, catches |-> i.catches]
        /\ hs = Append(FirstN(handlers, PrunedTo(p + 1)), h)
    BY <1>1, <1>t, <1>h, <2>p, <2>q
  <2>2. HandlersOK(hs, p + 1)
    BY ONLY <2>1, TryRun
  <2> QED
    BY <1>2, <2>2, <2>p, <2>q
<1>7. FrameGood(stack', pc + 1, stp', locals', handlers')
  BY <1>2, <1>3, <1>5, <1>6 DEF FrameGood
<1> QED
  BY <1>1, <1>2, <1>7, StepKeeps

\* The clause a handler catches with is its first that matches.
LEMMA FirstClause ==
  ASSUME NEW s, NEW r, NEW i, NEW p, Here(s, r, i, p), NEW k \in 1 .. PrunedTo(p + 1), NEW h, h = handlers[k], NEW tag,
         \E d \in DOMAIN h.catches : Catches(h.catches[d], tag),
         NEW c, c = CHOOSE d \in DOMAIN h.catches :
                      Catches(h.catches[d], tag) /\ \A b \in 1 .. (d - 1) : ~Catches(h.catches[b], tag)
  PROVE  c \in DOMAIN h.catches /\ Catches(h.catches[c], tag)
<1>q. PICK q : q = h.at - 1
  OBVIOUS
<1>1. q \in DOMAIN code /\ code[q].op = "try_table" /\ h.catches = code[q].catches
  <2>w. PICK w : w = seen[q]
    OBVIOUS
  <2>m. PICK m : m = h.sp
    OBVIOUS
  <2>1. Handles(s, p, k, h, q, w, m)
    BY <1>q, <2>w, <2>m, ThrowHandler
  <2> QED
    BY <2>1 DEF Handles
<1>2. code[q] \in Instr /\ Decoded(code[q])
  BY <1>1, HereParts, Positions, TypesOfBlock
<1>n. PICK n : n = Len(h.catches)
  OBVIOUS
<1>3. (\A d : d \in DOMAIN h.catches <=> d \in 1 .. n) /\ n \in Nat
  BY <1>1, <1>2, <1>n DEF Decoded
<1>S. PICK S : S = {d \in 1 .. n : Catches(h.catches[d], tag)}
  OBVIOUS
<1>4. S \in SUBSET Nat /\ S # {}
  BY <1>3, <1>S
<1>5. PICK m \in S : \A d \in S : m <= d
  BY <1>4, LeastNumber
<1>6. m \in 1 .. n /\ Catches(h.catches[m], tag) /\ m \in Nat
  BY <1>3, <1>5, <1>S
<1>7. ASSUME NEW b \in 1 .. (m - 1), Catches(h.catches[b], tag)
      PROVE  FALSE
  <2>1. b \in 1 .. n /\ b < m /\ b \in Nat
    BY <1>3, <1>6
  <2>2. m <= b
    BY <1>5, <1>7, <1>S, <2>1
  <2> QED
    BY <1>6, <2>1, <2>2
<1>8. \E d \in DOMAIN h.catches : Catches(h.catches[d], tag) /\ \A b \in 1 .. (d - 1) : ~Catches(h.catches[b], tag)
  BY <1>3, <1>6, <1>7
<1> QED
  BY <1>8

LEMMA ThrowStep ==
  ASSUME ~TryInLoop, MachineInv, RunThrow
  PROVE  MachineInv'
<1>s. PICK s : s = seen[pc]
  OBVIOUS
<1>r. PICK r : r = seen[pc + 1]
  OBVIOUS
<1>i. PICK i : i = code[pc]
  OBVIOUS
<1>t. PICK tag : tag = i.tag
  OBVIOUS
<1>1. Here(s, r, i, pc) /\ phase = "run" /\ i.op = "throw"
  <2>1. At("throw")
    BY DEF RunThrow
  <2> QED
    BY <2>1, <1>s, <1>r, <1>i, AtHere
<1>f. PICK fields : fields = LastN(stack, Len(TagType[tag]))
  OBVIOUS
<1>x. PICK exn : exn = Value(ExnRef, pc)
  OBVIOUS
<1>2. CASE \E k \in Catching(tag) :
             /\ \A j \in Catching(tag) : j <= k
             /\ LET h == handlers[k]
                    c == CHOOSE c \in DOMAIN h.catches :
                           Catches(h.catches[c], tag) /\ \A d \in 1 .. (c - 1) : ~Catches(h.catches[d], tag)
                IN Transfer(h.at, h.stp + c - 1, FirstN(stack, h.sp) \o Carried(h.catches[c], fields, exn))
             /\ handlers' = FirstN(handlers, k - 1)
  <2>1. PICK k \in Catching(tag) :
             /\ LET h == handlers[k]
                    c == CHOOSE c \in DOMAIN h.catches :
                           Catches(h.catches[c], tag) /\ \A d \in 1 .. (c - 1) : ~Catches(h.catches[d], tag)
                IN Transfer(h.at, h.stp + c - 1, FirstN(stack, h.sp) \o Carried(h.catches[c], fields, exn))
             /\ handlers' = FirstN(handlers, k - 1)
    BY <1>2
  <2>h. PICK h : h = handlers[k]
    OBVIOUS
  <2>c. PICK c : c = CHOOSE d \in DOMAIN h.catches :
                       Catches(h.catches[d], tag) /\ \A b \in 1 .. (d - 1) : ~Catches(h.catches[b], tag)
    OBVIOUS
  <2>2. k \in 1 .. PrunedTo(pc + 1) /\ \E d \in DOMAIN h.catches : Catches(h.catches[d], tag)
    BY <2>h DEF Catching
  <2>3. c \in DOMAIN h.catches /\ Catches(h.catches[c], tag)
    BY <1>1, <2>2, <2>h, <2>c, FirstClause
  <2>4. Transfer(h.at, h.stp + c - 1, FirstN(stack, h.sp) \o Carried(h.catches[c], fields, exn))
    BY <2>1, <2>h, <2>c
  <2>p. PICK p : p = pc
    OBVIOUS
  <2>e. PICK e : e = h.stp + c - 1
    OBVIOUS
  <2>v. PICK vs : vs = FirstN(stack, h.sp) \o CarriedBy(h, c, i, p)
    OBVIOUS
  <2>5. CarriedBy(h, c, i, p) = Carried(h.catches[c], fields, exn)
    BY <1>f, <1>x, <1>t, <2>p DEF CarriedBy
  <2>6. Throwing(s, r, i, p, k, h, c)
    BY <1>1, <1>t, <2>2, <2>3, <2>h, <2>p DEF Throwing
  <2>7. Caught(p, k, h, e, vs)
    BY <2>6, <2>e, <2>v, CatchRun
  <2>q. PICK hs : hs = FirstN(handlers, k - 1)
    OBVIOUS
  <2>a. PICK at : at = h.at
    OBVIOUS
  <2>8. /\ Transfer(at, e, vs) /\ handlers' = hs /\ phase = "run" /\ MachineInv
        /\ FrameGood(Moved(vs, table[e].vals, table[e].pop), at + table[e].ip, e + table[e].stp, locals, hs)
    BY <1>1, <2>1, <2>4, <2>5, <2>7, <2>e, <2>v, <2>q, <2>a DEF Caught
  <2> QED
    BY ONLY <2>8, TransferKeeps
<1>3. CASE outcome' = Outcome("exception", <<exn>>) /\ FrameOver /\ UNCHANGED <<code, seen>>
  <2>o. PICK o : o = Outcome("exception", <<exn>>)
    OBVIOUS
  <2>1. phase' = "done" /\ code' = code /\ seen' = seen /\ outcome' = o /\ o.kind # "return"
    BY <1>3, <2>o DEF FrameOver, Outcome
  <2> QED
    BY <2>1, RunEnds
<1> QED
  BY <1>2, <1>3, <1>i, <1>t, <1>f, <1>x DEF RunThrow

LEMMA TrapStep ==
  ASSUME MachineInv, RunTrap
  PROVE  MachineInv'
<1>o. PICK o : o = Outcome("trap", <<>>)
  OBVIOUS
<1>1. phase' = "done" /\ code' = code /\ seen' = seen /\ outcome' = o /\ o.kind # "return"
  BY <1>o DEF RunTrap, FrameOver, Outcome
<1> QED
  BY <1>1, RunEnds

LEMMA FinishStep ==
  ASSUME MachineInv, RunFinish
  PROVE  MachineInv'
<1>o. PICK o : o = Outcome("return", LastN(stack, Len(Results)))
  OBVIOUS
<1>1. phase' = "done" /\ code' = code /\ seen' = seen /\ outcome' = o /\ o.vals = LastN(stack, Len(Results)) /\ phase = "run"
      /\ pc > Len(code)
  BY <1>o DEF RunFinish, FrameOver, Outcome
<1>2. FitsTypes(LastN(stack, Len(Results)), Results)
  BY <1>1 DEF MachineInv, FrameGood, OperandsOK
<1> QED
  BY <1>1, <1>2, RunEnds

LEMMA RunStep ==
  ASSUME ~TryInLoop, MachineInv, Run
  PROVE  MachineInv'
BY QuietSteps, LocalSetStep, ConditionalSteps, BranchSteps, ReturnStep, TryTableStep, ThrowStep, TrapStep, FinishStep DEF Run

LEMMA MachineStutters ==
  ASSUME MachineInv, UNCHANGED vars
  PROVE  MachineInv'
<1>1. /\ phase' = phase /\ code' = code /\ seen' = seen /\ table' = table /\ trys' = trys /\ outcome' = outcome
      /\ stack' = stack /\ pc' = pc /\ stp' = stp /\ locals' = locals /\ handlers' = handlers
  BY DEF vars, validator, frame
<1>2. CASE phase = "run"
  <2>1. FrameGood(stack', pc', stp', locals', handlers')
    BY <1>1, <1>2 DEF MachineInv
  <2> QED
    BY <1>1, <1>2, <2>1, RunKeeps
<1>3. CASE phase # "run"
  <2>1. outcome.kind = "return" => FitsTypes(outcome.vals, Results)
    BY DEF MachineInv
  <2>2. PICK o : o = outcome
    OBVIOUS
  <2>3. o.kind = "return" => FitsTypes(o.vals, Results)'
    BY <1>1, <2>1, <2>2, FitsSame
  <2>4. outcome'.kind = "return" => FitsTypes(outcome.vals, Results)'
    BY <1>1, <2>2, <2>3 DEF FitsTypes, Typed
  <2> QED
    BY <1>1, <1>3, <2>4 DEF MachineInv
<1> QED
  BY <1>2, <1>3

LEMMA MachineStep ==
  ASSUME ~TryInLoop, ValidatorInv, MachineInv, [Next]_vars
  PROVE  MachineInv'
<1>1. CASE \E i \in Instr : Read(i)
  <2>1. PICK i \in Instr : Read(i)
    BY <1>1
  <2>2. Reading(i)
    BY <2>1, ReadsDo
  <2> QED
    BY <2>2, FrameWaits DEF Reading
<1>2. CASE Accept
  BY <1>2, AcceptStarts
<1>3. CASE Reject
  BY <1>3, FrameWaits DEF Reject
<1>4. CASE Run
  BY <1>4, RunStep
<1>5. CASE UNCHANGED vars
  BY <1>5, MachineStutters
<1> QED
  BY <1>1, <1>2, <1>3, <1>4, <1>5 DEF Next

LEMMA MachineStarts ==
  ASSUME Init
  PROVE  MachineInv
BY DEF Init, MachineInv, Outcome

\* While an accepted body runs without labels, each position reached is one the pass
\* took for reachable, with the operands, locals, cursor and handlers the pass computed
\* there (opgen_do_transfer, jav_try_table, do_throw), when no try_table stands in a loop.
THEOREM MachineKeeps ==
  ASSUME ~TryInLoop
  PROVE  Spec => [](ValidatorInv /\ MachineInv)
<1>1. Init => ValidatorInv /\ MachineInv
  BY FirstHistory, MachineStarts
<1>2. ValidatorInv /\ MachineInv /\ [Next]_vars => (ValidatorInv /\ MachineInv)'
  BY ValidatorStep, MachineStep
<1> QED
  BY <1>1, <1>2, PTL DEF Spec

(***************************************************************************)
(* The properties                                                          *)
(***************************************************************************)
\* At an instruction the operands are what the pass had there, if each if without an
\* else passes its parameters on as results of their types (only the numbers of the two
\* are compared in tc_no_else_allowed); at the end they are results.
LEMMA OperandsFit ==
  ASSUME MachineInv, ElselessIfsFit
  PROVE  OperandsAsValidated
<1>1. \A v, t : Typed(v, t) <=> Matches(v.type, t)
  BY DEF Typed
<1>2. ASSUME phase = "run", pc <= Len(code)
      PROVE  /\ Alive(seen[pc]) /\ FitsTypes(stack, seen[pc].vals)
  BY <1>2 DEF MachineInv, FrameGood, OperandsOK
<1>3. ASSUME outcome.kind = "return"
      PROVE  Len(outcome.vals) = Len(Results) /\ \A k \in DOMAIN Results : Matches(outcome.vals[k].type, Results[k])
  BY <1>1, <1>3 DEF MachineInv, FitsTypes
<1>4. ASSUME phase = "run", pc <= Len(code)
      PROVE  /\ \A j \in DOMAIN seen[pc].ctrls : ~seen[pc].ctrls[j].dead
             /\ Len(stack) = Len(seen[pc].vals)
             /\ \A k \in DOMAIN seen[pc].vals : Matches(stack[k].type, seen[pc].vals[k])
  BY <1>1, <1>2, <1>4 DEF Alive, FitsTypes
<1> QED
  BY <1>3, <1>4 DEF OperandsAsValidated

LEMMA ReadsWritten ==
  ASSUME MachineInv
  PROVE  ReadsAreOfSetLocals
<1> SUFFICES ASSUME At("local_get")
             PROVE  locals[code[pc].local] # NeverSet(LocalType[code[pc].local])
  BY DEF ReadsAreOfSetLocals
<1>s. PICK s : s = seen[pc]
  OBVIOUS
<1>r. PICK r : r = seen[pc + 1]
  OBVIOUS
<1>i. PICK i : i = code[pc]
  OBVIOUS
<1>1. Here(s, r, i, pc) /\ i.op = "local_get"
  BY <1>s, <1>r, <1>i, AtHere
<1>2. locals[i.local] \in ValueSet
  BY <1>1, LocalGetRun
<1>3. locals[i.local].from \in Nat
  BY <1>2 DEF ValueSet
<1>4. NeverSet(LocalType[i.local]).from \notin Nat
  BY DEF NeverSet
<1> QED
  BY <1>3, <1>4, <1>i

\* What remains of the type invariant: the bounds of the pass.
PassBounds ==
  /\ phase \in {"validate", "run", "done", "rejected"}
  /\ Len(code) <= MaxLen
  /\ phase # "rejected" => Len(seen) = Len(code) + 1
  /\ phase # "validate" => st = <<>>

LEMMA BoundsStart ==
  ASSUME Init
  PROVE  PassBounds
<1>1. code = <<>> /\ Len(seen) = 1 /\ phase = "validate"
  BY DEF Init
<1> QED
  BY <1>1, SideTableAssumption DEF PassBounds

LEMMA BoundsStep ==
  ASSUME ValidatorInv, PassBounds, [Next]_vars
  PROVE  PassBounds'
<1>1. CASE \E i \in Instr : Read(i)
  <2>1. PICK i \in Instr : Read(i)
    BY <1>1
  <2>s. PICK s : s = Held
    OBVIOUS
  <2>p. PICK p : p = Len(code) + 1
    OBVIOUS
  <2>r. PICK r : r = Held'
    OBVIOUS
  <2>2. Reads(s, i, p) /\ Reading(i) /\ seen' = Append(seen, r)
    BY <2>1, <2>s, <2>p, <2>r, ReadsDo
  <2>3. Len(code) \in Nat /\ ctrls # <<>> /\ Len(ctrls) \in Nat /\ Len(ctrls) >= 1
    <3>1. s \in HeldSet /\ s.ctrls = ctrls /\ s.ctrls # <<>> /\ Len(code) \in Nat
      BY <2>2 DEF Reads
    <3>2. Len(s.ctrls) \in Nat /\ (s.ctrls = <<>> <=> Len(s.ctrls) = 0)
      BY <3>1, RecordParts
    <3> QED
      BY <3>1, <3>2
  <2>4. Room(i) /\ phase = "validate" /\ phase' = "validate" /\ code' = Append(code, i)
    BY <2>2 DEF Reading
  <2>5. Len(code) + 1 <= MaxLen
    <3>n. PICK n : n = (IF Opens(i) THEN 2 ELSE IF i.op = "end" THEN 0 ELSE 1)
      OBVIOUS
    <3>1. n \in Nat /\ Len(code) + Len(ctrls) + n <= MaxLen /\ MaxLen \in Nat
      BY <2>4, <3>n, SideTableAssumption DEF Room
    <3> QED
      BY <2>3, <3>1
  <2>6. ValidatorInv /\ HistoryOK
    BY <2>4 DEF ValidatorInv
  <2>7. Len(code') = Len(code) + 1 /\ Len(seen') = Len(seen) + 1
    BY <2>2, <2>4, <2>6 DEF HistoryOK
  <2> QED
    BY <2>3, <2>4, <2>5, <2>6, <2>7 DEF PassBounds, HistoryOK
<1>2. CASE Accept
  BY <1>2 DEF Accept, PassOver, PassBounds
<1>3. CASE Reject
  <2>1. Len(<<>>) = 0 /\ MaxLen \in Nat
    BY SideTableAssumption
  <2> QED
    BY <1>3, <2>1 DEF Reject, PassOver, PassBounds
<1>4. CASE Run
  <2>1. phase = "run" /\ phase' \in {"run", "done"} /\ code' = code /\ seen' = seen /\ st' = st
    BY <1>4 DEF Run, RunConst, RunDrop, RunLocalGet, RunLocalSet, RunMarker, RunIf, RunElse, RunBr, RunBrIf, validator,
                RunBrTable, RunReturn, RunTrap, RunTryTable, RunThrow, RunFinish, At, Step, Transfer, FrameOver
  <2> QED
    BY <2>1 DEF PassBounds
<1>5. CASE UNCHANGED vars
  BY <1>5 DEF vars, validator, PassBounds
<1> QED
  BY <1>1, <1>2, <1>3, <1>4, <1>5 DEF Next

\* A handler that is still in force has its operands on the stack.
LEMMA HandlerOperands ==
  ASSUME MachineInv, phase = "run", NEW k \in DOMAIN handlers, pc < handlers[k].end
  PROVE  handlers[k].sp <= Len(stack)
<1>h. PICK h : h = handlers[k]
  OBVIOUS
<1>p. PICK p : p = pc
  OBVIOUS
<1>1. AcceptedOK /\ HistoryOK /\ OperandsOK(stack, p, stp) /\ HandlersOK(handlers, p)
  BY <1>p DEF MachineInv, FrameGood, AcceptedOK
<1>2. p \in DOMAIN seen /\ p \in Nat /\ Len(code) \in Nat
  BY <1>1, Positions DEF OperandsOK
<1>3. HandlerOK(h, p) /\ h.at \in Nat /\ h.end \in Nat /\ h.at <= p
  BY <1>1, <1>h, HandlerParts
<1>a. PICK a : a = h.at
  OBVIOUS
<1>u. PICK u : u = seen[a]
  OBVIOUS
<1>J. PICK J : J = Len(u.ctrls)
  OBVIOUS
<1>4. Frozen(u, seen[p], J) /\ h.end - 1 \in DOMAIN code
  <2>1. HistoryOK /\ p \in Nat /\ HandlerOK(h, p) /\ a = h.at /\ u = seen[a] /\ J = Len(u.ctrls) /\ a <= p /\ p < h.end
    BY <1>1, <1>2, <1>3, <1>a, <1>u, <1>J, <1>h, <1>p
  <2> QED
    BY ONLY <2>1, HandlerOpen
<1>5. p <= Len(code)
  <2>1. h.end - 1 \in 1 .. Len(code) /\ p < h.end
    BY <1>1, <1>4, <1>h, <1>p, Positions
  <2> QED
    BY <1>2, <1>3, <2>1
<1>s. PICK s : s = seen[p]
  OBVIOUS
<1>6. Len(stack) = Len(s.vals)
  BY <1>1, <1>5, <1>s DEF OperandsOK, FitsTypes
<1>7. h.sp = u.ctrls[J].height /\ Agree(u.vals, s.vals, u.ctrls[J].height)
  BY <1>3, <1>4, <1>a, <1>u, <1>J, <1>s DEF HandlerOK, TopOf, Frozen
<1> QED
  BY <1>6, <1>7, <1>h DEF Agree

LEMMA TypesHold ==
  ASSUME ValidatorInv, MachineInv, PassBounds
  PROVE  SideTableTypeOK
<1>1. ASSUME NEW e \in DOMAIN st
      PROVE  st[e].pop >= 0 /\ st[e].to \in 0 .. (Len(code) + 1)
  <2>1. phase = "validate" /\ HistoryOK /\ EntriesOK(ctrls)
    <3>1. phase = "validate"
      BY <1>1 DEF PassBounds
    <3> QED
      BY <3>1 DEF ValidatorInv
  <2>2. st[e] \in EntrySet /\ EntryOK(ctrls, e)
    BY <1>1, <2>1 DEF EntriesOK
  <2>3. st[e].pop \in Nat /\ st[e].to \in Nat
    BY <2>2 DEF EntrySet
  <2>p. PICK p : p = Source(e)
    OBVIOUS
  <2>k. PICK k : k = Nth(e)
    OBVIOUS
  <2>t. PICK to : to = st[e].to
    OBVIOUS
  <2>4. p \in DOMAIN code /\ k \in 1 .. Slots(code[p]) /\ (to = 0 \/ Landing(p, k, to, st[e].skip))
    BY <2>2, <2>p, <2>k, <2>t DEF EntryOK
  <2>5. Len(code) \in Nat
    BY <2>1, Positions
  <2>6. CASE to = 0
    BY <2>3, <2>5, <2>6, <2>t
  <2>7. CASE Landing(p, k, to, st[e].skip)
    <3>s. PICK skip : skip = st[e].skip
      OBVIOUS
    <3>1. to \in DOMAIN seen
      BY <2>1, <2>3, <2>4, <2>7, <2>t, <3>s, LandsInside
    <3>2. to \in 1 .. (Len(code) + 1)
      BY <2>1, <3>1, Positions
    <3> QED
      BY <2>3, <2>5, <2>t, <3>2
  <2> QED
    BY <2>4, <2>6, <2>7
<1>2. ASSUME phase = "run"
      PROVE  pc \in 1 .. (Len(code) + 1) /\ stp \in 1 .. (Len(table) + 1)
  <2>1. AcceptedOK /\ HistoryOK /\ OperandsOK(stack, pc, stp)
    BY <1>2 DEF MachineInv, FrameGood, AcceptedOK
  <2> QED
    BY <2>1, Positions DEF OperandsOK
<1>3. phase = "run" => \A k \in DOMAIN handlers : pc < handlers[k].end => handlers[k].sp <= Len(stack)
  BY HandlerOperands
<1> QED
  BY <1>1, <1>2, <1>3 DEF SideTableTypeOK, PassBounds

\* Entries point inside the body and pop no less than nothing; code position and table
\* cursor stay inside the code and the table whichever branch or catch is taken, and a
\* handler in force finds its operands on the stack.
THEOREM BodiesStayInside ==
  ASSUME ~TryInLoop
  PROVE  Spec => []SideTableTypeOK
<1>1. Init => ValidatorInv /\ MachineInv /\ PassBounds
  BY FirstHistory, MachineStarts, BoundsStart
<1>2. ValidatorInv /\ MachineInv /\ PassBounds /\ [Next]_vars => (ValidatorInv /\ MachineInv /\ PassBounds)'
  BY ValidatorStep, MachineStep, BoundsStep
<1>3. ValidatorInv /\ MachineInv /\ PassBounds => SideTableTypeOK
  BY TypesHold
<1> QED
  BY <1>1, <1>2, <1>3, PTL DEF Spec

\* Type soundness: an instruction about to run is one the pass took for reachable, with
\* the operands it computed there in number and type, and the results are of the
\* function's types, if each if without an else passes its parameters on as results of
\* their types (the pass compares their numbers only).
THEOREM BodiesAreSound ==
  ASSUME ~TryInLoop
  PROVE  Spec => [](ElselessIfsFit => OperandsAsValidated)
<1>1. Spec => [](ValidatorInv /\ MachineInv)
  BY MachineKeeps
<1>2. ValidatorInv /\ MachineInv => (ElselessIfsFit => OperandsAsValidated)
  BY OperandsFit
<1> QED
  BY <1>1, <1>2, PTL

\* The rollback of local initialisation at else and end suffices: whatever branch or
\* catch led to a local_get, the local it reads was written or has a default.
THEOREM ReadsFindValues ==
  ASSUME ~TryInLoop
  PROVE  Spec => []ReadsAreOfSetLocals
<1>1. Spec => [](ValidatorInv /\ MachineInv)
  BY MachineKeeps
<1>2. ValidatorInv /\ MachineInv => ReadsAreOfSetLocals
  BY ReadsWritten
<1> QED
  BY <1>1, <1>2, PTL
=============================================================================
