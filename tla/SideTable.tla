----------------------------- MODULE SideTable -----------------------------
(***************************************************************************)
(* The function-body validator of validate.c, which type-checks a body in  *)
(* one pass and leaves a side table of its branches, and the machine that  *)
(* runs the body with that table (opgen_do_transfer, jav_try_table,        *)
(* do_throw).  At run time there are no labels: each branch takes the next *)
(* entry of the table, which says how far to move the code position and    *)
(* the table cursor and how many operands to keep and to pop.              *)
(*                                                                         *)
(* The body is not given: the validator reads any instruction at each      *)
(* place, so that a run covers every body up to MaxLen instructions.       *)
(* Positions count instructions; the table is numbered from 1.             *)
(***************************************************************************)
EXTENDS BodyCode

CONSTANTS
  Instr,      \* the instructions a body is made of
  SubType,    \* pairs (a, e) with a <: e
  Condition,  \* the type of a condition (i32)
  TryInLoop,  \* may a try_table stand inside a loop (FALSE is a precondition, see README)
  MAX_STACK,  \* the operand types a frame may hold (engine limit)
  MaxLen,     \* bound on the length of a body
  MaxDead     \* bound on its unreachable instructions other than else and end

\* What the decoder makes of the bytes: types are types, indices are in range
\* (br_table counts the labels before its last one).
Type == {p[1] : p \in SubType}
ClauseDecoded(c) ==
  /\ c.kind \in {"catch", "catch_ref", "catch_all", "catch_all_ref"} /\ c.label \in Nat
  /\ c.kind \in {"catch", "catch_ref"} => c.tag \in DOMAIN TagType
Decoded(i) ==
  /\ Opens(i) => i.bt.in \in Seq(Type) /\ i.bt.out \in Seq(Type)
  /\ i.op \in {"br", "br_if"} => i.label \in Nat
  /\ i.op = "br_table" => i.labels \in Seq(Nat) /\ i.labels # <<>>
  /\ i.op = "throw" => i.tag \in DOMAIN TagType
  /\ i.op \in {"local_get", "local_set"} => i.local \in DOMAIN LocalType
  /\ i.op = "const" => i.type \in Type
  /\ i.op = "try_table" => /\ DOMAIN i.catches = 1 .. Len(i.catches) /\ Len(i.catches) \in Nat
                           /\ \A k \in DOMAIN i.catches : ClauseDecoded(i.catches[k])

\* jav_rt_sub, which tc_matches asks, is reflexive and transitive.
ASSUME SideTableAssumption ==
  /\ MaxLen \in Nat /\ MaxDead \in Nat /\ MAX_STACK \in Nat
  /\ TryInLoop \in BOOLEAN
  /\ Results \in Seq(Type) /\ LocalType \in Seq(Type)
  /\ NParams \in 0 .. Len(LocalType)
  /\ \A g \in DOMAIN TagType : TagType[g] \in Seq(Type)
  /\ {Condition, ExnRef} \subseteq Type
  /\ SubType \subseteq Type \X Type
  /\ \A t \in Type : <<t, t>> \in SubType
  /\ \A a, b, c \in Type : <<a, b>> \in SubType /\ <<b, c>> \in SubType => <<a, c>> \in SubType
  /\ \A i \in Instr : Decoded(i)

VARIABLES
  phase,    \* "validate", "run", "done", "rejected"
  code,     \* the body read so far
  seen,     \* what the validator held at each position, the last one now (history, for the properties)
  vals,     \* operand types
  ctrls,    \* control frames, innermost last
  set,      \* locals_init: the locals known to be written
  inits,    \* locals written since their frame's entry, for the rollback
  st,       \* side-table entries under construction
  trys,     \* try_table metadata
  table,    \* the finished side table
  pc, stp, stack, locals, handlers,   \* the running frame
  outcome

validator == <<vals, ctrls, set, inits, st, trys>>
frame == <<pc, stp, stack, locals, handlers>>
vars == <<phase, code, seen, validator, table, frame, outcome>>

-----------------------------------------------------------------------------
(* The validator's helpers                                                 *)

Matches(a, e) == <<a, e>> \in SubType

\* What `seen` keeps of the pass at a position: the next entry's number besides.
Held == [vals |-> vals, ctrls |-> ctrls, inits |-> inits, next |-> Len(st) + 1]
\* A frame of the history that is unreachable.
DeadAt(p) == seen[p].ctrls[Len(seen[p].ctrls)].dead

Top == ctrls[Len(ctrls)]
Label(l) == ctrls[Len(ctrls) - l]
LabelTypes(f) == IF f.op = "loop" THEN f.bt.in ELSE f.bt.out

\* tc_pop_vals: types ts can be popped from vs in frame f; below the frame's
\* height a dead frame yields anything.
CanPop(f, vs, ts) ==
  \A i \in DOMAIN ts :
    LET d == Len(ts) - i IN
    IF d < Len(vs) - f.height THEN Matches(vs[Len(vs) - d], ts[i]) ELSE f.dead
Pop(f, vs, ts) ==
  FirstN(vs, IF Len(vs) - Len(ts) >= f.height THEN Len(vs) - Len(ts) ELSE f.height)

Frame(op, bt, vs) ==
  [op |-> op, bt |-> bt, height |-> Len(vs), inits |-> Len(inits), dead |-> FALSE,
   start |-> Len(code) + 2, fixups |-> {}, else |-> 0, try |-> 0]

\* Mutants of Entry: the count is not clamped in dead code; the kept operands are
\* popped as well.
EntryUnclamped(at, f, vs) ==
  LET n == Len(LabelTypes(f)) IN
  [from |-> at, to |-> IF f.op = "loop" THEN f.start ELSE 0,
   vals |-> n, pop |-> Len(vs) - f.height - n, skip |-> 0]
EntryPopsAll(at, f, vs) ==
  [EntryUnclamped(at, f, vs) EXCEPT !.pop = Len(vs) - f.height]

\* A new side-table entry, branching from position at to frame f.
Entry(at, f, vs) ==
  LET n == Len(LabelTypes(f))
      pop == Len(vs) - f.height - n
  IN [from |-> at, to |-> IF f.op = "loop" THEN f.start ELSE 0,
      vals |-> n, pop |-> IF pop > 0 THEN pop ELSE 0, skip |-> 0]

\* Frames with the entries E waiting for the end of the frame l labels out;
\* an entry for a loop is complete already.
Waiting(cs, l, E) ==
  [cs EXCEPT ![Len(cs) - l].fixups = IF cs[Len(cs) - l].op = "loop" THEN @ ELSE @ \cup E]

\* tc_unreachable
Dead(cs) == [cs EXCEPT ![Len(cs)].dead = TRUE]

\* Mutant of ResetLocals: the locals stay marked.
ResetLocalsKept(n) ==
  /\ set' = set
  /\ inits' = FirstN(inits, n)

\* tc_reset_locals
ResetLocals(n) ==
  /\ set' = set \ {inits[i] : i \in (n + 1) .. Len(inits)}
  /\ inits' = FirstN(inits, n)

\* Entries whose target, the position behind this instruction, is now known.
Patched(es, E) == [e \in DOMAIN es |-> IF e \in E THEN [es[e] EXCEPT !.to = Len(code) + 2] ELSE es[e]]

\* The bounds: after instruction i every open frame can still be closed, and few
\* instructions are unreachable.
Room(i) ==
  /\ Len(code) + Len(ctrls) + (IF Opens(i) THEN 2 ELSE IF i.op = "end" THEN 0 ELSE 1) <= MaxLen
  /\ Top.dead /\ i.op \notin {"else", "end"} =>
       Cardinality({k \in DOMAIN code : DeadAt(k) /\ code[k].op \notin {"else", "end"}}) < MaxDead

\* Reading instruction i: the position behind it is Len(code) + 2.
Reading(i) ==
  /\ phase = "validate"
  /\ ctrls # <<>>
  /\ Room(i)
  /\ i \in Instr
  /\ code' = Append(code, i)
  /\ UNCHANGED <<phase, table, frame, outcome>>
Behind == Len(code) + 2

-----------------------------------------------------------------------------
(* The validator's cases, in the order of jav_typecheck_ex                 *)

ReadUnreachable(i) ==
  /\ i.op = "unreachable" /\ Reading(i)
  /\ vals' = FirstN(vals, Top.height)
  /\ ctrls' = Dead(ctrls)
  /\ UNCHANGED <<set, inits, st, trys>>

ReadBlock(i) ==
  /\ i.op \in {"block", "loop"} /\ Reading(i)
  /\ CanPop(Top, vals, i.bt.in)
  /\ ctrls' = Append(ctrls, Frame(i.op, i.bt, Pop(Top, vals, i.bt.in)))
  /\ vals' = Pop(Top, vals, i.bt.in) \o i.bt.in
  /\ UNCHANGED <<set, inits, st, trys>>

ReadIf(i) ==
  /\ i.op = "if" /\ Reading(i)
  /\ LET ts == i.bt.in \o <<Condition>> IN
     /\ CanPop(Top, vals, ts)
     /\ vals' = Pop(Top, vals, ts) \o i.bt.in
     /\ ctrls' = Append(ctrls, [Frame("if", i.bt, Pop(Top, vals, ts)) EXCEPT !.else = Len(st) + 1])
  /\ st' = Append(st, [from |-> Behind, to |-> 0, vals |-> 0, pop |-> 0, skip |-> 0])
  /\ UNCHANGED <<set, inits, trys>>

\* The if's entry goes to the else arm, past the entry of the else itself, which
\* takes the then-arm to the end.
ReadElse(i) ==
  /\ i.op = "else" /\ Reading(i)
  /\ Top.op = "if"
  /\ CanPop(Top, vals, Top.bt.out)
  /\ Len(Pop(Top, vals, Top.bt.out)) = Top.height
  /\ st' = Append([Patched(st, {Top.else}) EXCEPT ![Top.else].skip = 1],
                  [from |-> Behind, to |-> 0, vals |-> Len(Top.bt.out), pop |-> 0, skip |-> 0])
  /\ ResetLocals(Top.inits)
  /\ ctrls' = [ctrls EXCEPT ![Len(ctrls)] =
                 [Top EXCEPT !.op = "else", !.else = 0, !.dead = FALSE,
                             !.fixups = Top.fixups \cup {Len(st) + 1}]]
  /\ vals' = Pop(Top, vals, Top.bt.out) \o Top.bt.in
  /\ UNCHANGED trys

ReadThrow(i) ==
  /\ i.op = "throw" /\ Reading(i)
  /\ CanPop(Top, vals, TagType[i.tag])
  /\ vals' = FirstN(vals, Top.height)
  /\ ctrls' = Dead(ctrls)
  /\ UNCHANGED <<set, inits, st, trys>>

\* A body that never had its else is closed by comparing two lengths.
NoElseAllowed(f) == f.op = "if" => Len(f.bt.in) = Len(f.bt.out)

ReadEnd(i) ==
  /\ i.op = "end" /\ Reading(i)
  /\ CanPop(Top, vals, Top.bt.out)
  /\ Len(Pop(Top, vals, Top.bt.out)) = Top.height
  /\ NoElseAllowed(Top)
  /\ st' = Patched(st, Top.fixups \cup {Top.else})
  /\ trys' = IF Top.try = 0 THEN trys ELSE [trys EXCEPT ![Top.try].end = Behind]
  /\ ResetLocals(Top.inits)
  /\ vals' = Pop(Top, vals, Top.bt.out) \o Top.bt.out
  /\ ctrls' = FirstN(ctrls, Len(ctrls) - 1)

\* br and br_if
ReadBr(i) ==
  /\ i.op = "br" /\ Reading(i)
  /\ i.label < Len(ctrls)
  /\ LET f == Label(i.label) IN
     /\ CanPop(Top, vals, LabelTypes(f))
     /\ st' = Append(st, Entry(Behind, f, vals))
  /\ vals' = FirstN(vals, Top.height)
  /\ ctrls' = Dead(Waiting(ctrls, i.label, {Len(st) + 1}))
  /\ UNCHANGED <<set, inits, trys>>

ReadBrIf(i) ==
  /\ i.op = "br_if" /\ Reading(i)
  /\ i.label < Len(ctrls)
  /\ CanPop(Top, vals, <<Condition>>)
  /\ LET f == Label(i.label)
         vs == Pop(Top, vals, <<Condition>>)
     IN /\ CanPop(Top, vs, LabelTypes(f))
        /\ st' = Append(st, Entry(Behind, f, vs))
        /\ vals' = Pop(Top, vs, LabelTypes(f)) \o LabelTypes(f)
  /\ ctrls' = Waiting(ctrls, i.label, {Len(st) + 1})
  /\ UNCHANGED <<set, inits, trys>>

\* One entry per label, all branching from behind the label vector.
ReadBrTable(i) ==
  /\ i.op = "br_table" /\ Reading(i)
  /\ CanPop(Top, vals, <<Condition>>)
  /\ LET vs == Pop(Top, vals, <<Condition>>)
         n == Len(i.labels)
     IN /\ \A k \in 1 .. n :
             /\ i.labels[k] < Len(ctrls)
             /\ Len(LabelTypes(Label(i.labels[k]))) = Len(LabelTypes(Label(i.labels[1])))
             /\ CanPop([Top EXCEPT !.dead = TRUE], vs, LabelTypes(Label(i.labels[k])))
        /\ CanPop(Top, vs, LabelTypes(Label(i.labels[1])))
        /\ st' = st \o [k \in 1 .. n |-> Entry(Behind, Label(i.labels[k]), vs)]
        /\ ctrls' = Dead([j \in DOMAIN ctrls |->
             [ctrls[j] EXCEPT !.fixups = IF ctrls[j].op = "loop" THEN @ ELSE
                @ \cup {Len(st) + k : k \in {m \in 1 .. n : Len(ctrls) - i.labels[m] = j}}]])
  /\ vals' = FirstN(vals, Top.height)
  /\ UNCHANGED <<set, inits, trys>>

ReadReturn(i) ==
  /\ i.op = "return" /\ Reading(i)
  /\ CanPop(Top, vals, Results)
  /\ vals' = FirstN(vals, Top.height)
  /\ ctrls' = Dead(ctrls)
  /\ UNCHANGED <<set, inits, st, trys>>

ReadDrop(i) ==
  /\ i.op = "drop" /\ Reading(i)
  /\ Len(vals) > Top.height \/ Top.dead
  /\ vals' = FirstN(vals, IF Len(vals) > Top.height THEN Len(vals) - 1 ELSE Top.height)
  /\ UNCHANGED <<ctrls, set, inits, st, trys>>

\* What a clause carries to its label.
ClauseTypes(c) ==
  (IF c.kind \in {"catch", "catch_ref"} THEN TagType[c.tag] ELSE <<>>)
    \o (IF c.kind \in {"catch_ref", "catch_all_ref"} THEN <<ExnRef>> ELSE <<>>)

ClauseFits(c) ==
  /\ c.label < Len(ctrls)
  /\ LET ts == LabelTypes(Label(c.label)) IN
     /\ Len(ClauseTypes(c)) = Len(ts)
     /\ \A k \in DOMAIN ts : Matches(ClauseTypes(c)[k], ts[k])

\* One entry per clause, branching from the start of the body; the operands to
\* pop are counted from the height below the parameters.
ReadTryTable(i) ==
  /\ i.op = "try_table" /\ Reading(i)
  /\ CanPop(Top, vals, i.bt.in)
  /\ \A k \in DOMAIN i.catches : ClauseFits(i.catches[k])
  /\ TryInLoop \/ \A j \in DOMAIN ctrls : ctrls[j].op # "loop"
  /\ LET base == Pop(Top, vals, i.bt.in)
         n == Len(i.catches)
         Pending(j) == {Len(st) + k : k \in {m \in 1 .. n : Len(ctrls) - i.catches[m].label = j}}
         Clause(c) == LET f == Label(c.label) IN
           [Entry(Behind, f, base) EXCEPT !.pop = Len(base) - f.height]
     IN /\ st' = st \o [k \in 1 .. n |-> Clause(i.catches[k])]
        /\ trys' = Append(trys, [at |-> Behind, stp |-> Len(st) + 1, end |-> 0])
        /\ ctrls' = Append([j \in DOMAIN ctrls |->
             [ctrls[j] EXCEPT !.fixups = IF ctrls[j].op = "loop" THEN @ ELSE @ \cup Pending(j)]],
             [Frame("try_table", i.bt, base) EXCEPT !.try = Len(trys) + 1])
        /\ vals' = base \o i.bt.in
  /\ UNCHANGED <<set, inits>>

ReadLocalGet(i) ==
  /\ i.op = "local_get" /\ Reading(i)
  /\ i.local \in set
  /\ vals' = Append(vals, LocalType[i.local])
  /\ UNCHANGED <<ctrls, set, inits, st, trys>>

ReadLocalSet(i) ==
  /\ i.op = "local_set" /\ Reading(i)
  /\ CanPop(Top, vals, <<LocalType[i.local]>>)
  /\ vals' = Pop(Top, vals, <<LocalType[i.local]>>)
  /\ set' = set \cup {i.local}
  /\ inits' = IF i.local \in set THEN inits ELSE Append(inits, i.local)
  /\ UNCHANGED <<ctrls, st, trys>>

ReadConst(i) ==
  /\ i.op = "const" /\ Reading(i)
  /\ vals' = Append(vals, i.type)
  /\ UNCHANGED <<ctrls, set, inits, st, trys>>

\* tc_push_vt fails at the engine's limit.
Read(i) ==
  /\ \/ ReadUnreachable(i) \/ ReadBlock(i) \/ ReadIf(i) \/ ReadElse(i) \/ ReadThrow(i)
     \/ ReadEnd(i) \/ ReadBr(i) \/ ReadBrIf(i) \/ ReadBrTable(i) \/ ReadReturn(i)
     \/ ReadDrop(i) \/ ReadTryTable(i) \/ ReadLocalGet(i) \/ ReadLocalSet(i) \/ ReadConst(i)
  /\ Len(vals') <= MAX_STACK
  /\ seen' = Append(seen, Held')

-----------------------------------------------------------------------------
(* The end of validation                                                   *)

\* Nothing of the pass survives it but the table and the try metadata.
PassOver ==
  /\ vals' = <<>> /\ ctrls' = <<>> /\ set' = {} /\ inits' = <<>> /\ st' = <<>>

\* Mutant of Deltas: an if without its else's entry skipped.
DeltasUnskipped(es) ==
  [e \in DOMAIN es |->
     [ip |-> es[e].to - es[e].from,
      stp |-> Cardinality({d \in DOMAIN es : es[d].from < es[e].to}) + 1 - e,
      vals |-> es[e].vals, pop |-> es[e].pop]]

\* The distances: for the cursor, the number of entries that branch from before
\* the target.
Deltas(es) ==
  [e \in DOMAIN es |->
     [ip |-> es[e].to - es[e].from,
      stp |-> Cardinality({d \in DOMAIN es : es[d].from < es[e].to}) + 1 - e + es[e].skip,
      vals |-> es[e].vals, pop |-> es[e].pop]]

Accept ==
  /\ phase = "validate"
  /\ ctrls = <<>>
  /\ phase' = "run"
  /\ table' = Deltas(st)
  /\ PassOver
  /\ UNCHANGED <<code, seen, trys, frame, outcome>>

\* An instruction that fits no case, or the end of the bytes inside a construct:
\* validation fails and everything is freed.
Reject ==
  /\ phase = "validate"
  /\ ctrls # <<>>
  /\ phase' = "rejected"
  /\ code' = <<>> /\ seen' = <<>> /\ trys' = <<>>
  /\ PassOver
  /\ UNCHANGED <<table, frame, outcome>>

-----------------------------------------------------------------------------
(* The machine                                                             *)

Outcome(k, vs) == [kind |-> k, vals |-> vs]

At(op) ==
  /\ phase = "run"
  /\ pc <= Len(code)
  /\ code[pc].op = op

Pushed(v) == Append(stack, v)
Below(n) == FirstN(stack, Len(stack) - n)

Step == pc' = pc + 1 /\ UNCHANGED <<phase, code, seen, validator, table, outcome>>
Quiet == UNCHANGED <<stp, locals, handlers>>

\* opgen_do_transfer from position at with cursor c and operands s.
Transfer(at, c, s) ==
  LET e == table[c] IN
  /\ stack' = IF e.pop = 0 THEN s
              ELSE FirstN(s, Len(s) - e.vals - e.pop) \o LastN(s, e.vals)
  /\ pc' = at + e.ip
  /\ stp' = c + e.stp
  /\ UNCHANGED <<phase, code, seen, validator, table, locals, outcome>>

RunConst == At("const") /\ stack' = Pushed(Value(code[pc].type, pc)) /\ Step /\ Quiet
RunDrop == At("drop") /\ stack' = Below(1) /\ Step /\ Quiet
RunLocalGet == At("local_get") /\ stack' = Pushed(locals[code[pc].local]) /\ Step /\ Quiet
RunLocalSet ==
  /\ At("local_set")
  /\ locals' = [locals EXCEPT ![code[pc].local] = stack[Len(stack)]]
  /\ stack' = Below(1)
  /\ Step /\ UNCHANGED <<stp, handlers>>

\* block, loop and end do nothing at run time.
RunMarker == (At("block") \/ At("loop") \/ At("end")) /\ Step /\ UNCHANGED stack /\ Quiet

RunIf ==
  /\ At("if")
  /\ \/ Transfer(pc + 1, stp, Below(1))
     \/ stack' = Below(1) /\ stp' = stp + 1 /\ Step /\ UNCHANGED locals
  /\ UNCHANGED handlers
RunElse == At("else") /\ Transfer(pc + 1, stp, stack) /\ UNCHANGED handlers
RunBr == At("br") /\ Transfer(pc + 1, stp, stack) /\ UNCHANGED handlers
RunBrIf ==
  /\ At("br_if")
  /\ \/ Transfer(pc + 1, stp, Below(1))
     \/ stack' = Below(1) /\ stp' = stp + 1 /\ Step /\ UNCHANGED locals
  /\ UNCHANGED handlers
RunBrTable ==
  /\ At("br_table")
  /\ \E key \in 0 .. (Len(code[pc].labels) - 1) : Transfer(pc + 1, stp + key, Below(1))
  /\ UNCHANGED handlers

\* func_return jumps to the end of the code and leaves the operands.
RunReturn ==
  /\ At("return")
  /\ pc' = Len(code) + 1
  /\ UNCHANGED <<phase, code, seen, validator, table, stp, stack, locals, handlers, outcome>>

\* The frame is gone: the caller's is restored.
FrameOver == phase' = "done" /\ stack' = <<>> /\ handlers' = <<>>

RunTrap ==
  /\ At("unreachable")
  /\ outcome' = Outcome("trap", <<>>)
  /\ FrameOver
  /\ UNCHANGED <<code, seen, validator, table, pc, stp, locals>>

\* prune_handlers at position p
PrunedTo(p) == CHOOSE n \in 0 .. Len(handlers) :
                 /\ \A k \in (n + 1) .. Len(handlers) : p >= handlers[k].end
                 /\ n > 0 => p < handlers[n].end

RunTryTable ==
  /\ At("try_table")
  /\ LET tt == CHOOSE t \in {trys[k] : k \in DOMAIN trys} : t.at = pc + 1 IN
     handlers' = Append(FirstN(handlers, PrunedTo(pc + 1)),
                        [sp |-> Len(stack) - Len(code[pc].bt.in), stp |-> tt.stp,
                         at |-> pc + 1, end |-> tt.end, catches |-> code[pc].catches])
  /\ stp' = stp + Len(code[pc].catches)
  /\ Step /\ UNCHANGED <<stack, locals>>

Catches(c, tag) == c.kind \in {"catch_all", "catch_all_ref"} \/ c.tag = tag
Catching(tag) ==
  {k \in 1 .. PrunedTo(pc + 1) : \E c \in DOMAIN handlers[k].catches : Catches(handlers[k].catches[c], tag)}
Carried(c, fields, exn) ==
  (IF c.kind \in {"catch", "catch_ref"} THEN fields ELSE <<>>)
    \o (IF c.kind \in {"catch_ref", "catch_all_ref"} THEN <<exn>> ELSE <<>>)

\* do_throw: the topmost handler with a matching clause is consumed with those
\* above it, the operands are cut to its height and the clause's entry is taken.
RunThrow ==
  /\ At("throw")
  /\ LET tag == code[pc].tag
         fields == LastN(stack, Len(TagType[tag]))
         exn == Value(ExnRef, pc)
     IN \/ \E k \in Catching(tag) :
             /\ \A j \in Catching(tag) : j <= k
             /\ LET h == handlers[k]
                    c == CHOOSE c \in DOMAIN h.catches :
                           Catches(h.catches[c], tag) /\ \A d \in 1 .. (c - 1) : ~Catches(h.catches[d], tag)
                IN Transfer(h.at, h.stp + c - 1, FirstN(stack, h.sp) \o Carried(h.catches[c], fields, exn))
             /\ handlers' = FirstN(handlers, k - 1)
        \/ /\ Catching(tag) = {}
           /\ outcome' = Outcome("exception", <<exn>>)
           /\ pc' = Len(code) + 1
           /\ FrameOver
           /\ UNCHANGED <<code, seen, validator, table, stp, locals>>

\* Behind the last instruction the run ends, and jav_call_fn takes the topmost
\* operands as the results.
RunFinish ==
  /\ phase = "run"
  /\ pc > Len(code)
  /\ outcome' = Outcome("return", LastN(stack, Len(Results)))
  /\ FrameOver
  /\ UNCHANGED <<code, seen, validator, table, pc, stp, locals>>

Run ==
  \/ RunConst \/ RunDrop \/ RunLocalGet \/ RunLocalSet \/ RunMarker \/ RunIf \/ RunElse
  \/ RunBr \/ RunBrIf \/ RunBrTable \/ RunReturn \/ RunTrap \/ RunTryTable \/ RunThrow \/ RunFinish

-----------------------------------------------------------------------------
Init ==
  /\ phase = "validate"
  /\ code = <<>> /\ vals = <<>> /\ inits = <<>>
  /\ st = <<>> /\ trys = <<>> /\ table = <<>>
  /\ set = {x \in DOMAIN LocalType : x <= NParams \/ LocalType[x] \in Defaultable}
  /\ ctrls = <<[op |-> "block", bt |-> [in |-> <<>>, out |-> Results], height |-> 0, inits |-> 0,
                dead |-> FALSE, start |-> 1, fixups |-> {}, else |-> 0, try |-> 0]>>
  /\ seen = <<Held>>
  /\ pc = 1 /\ stp = 1 /\ stack = <<>> /\ handlers = <<>>
  /\ locals = FirstLocals
  /\ outcome = Outcome("none", <<>>)

Next == (\E i \in Instr : Read(i)) \/ Accept \/ Reject \/ Run

Spec == Init /\ [][Next]_vars
-----------------------------------------------------------------------------
(* Properties                                                              *)

\* Types and bounds of the whole state: entries and handlers stay inside the code
\* and the table, the cursor too.
SideTableTypeOK ==
  /\ phase \in {"validate", "run", "done", "rejected"}
  /\ Len(code) <= MaxLen /\ (phase # "rejected" => Len(seen) = Len(code) + 1)
  /\ \A e \in DOMAIN st : st[e].pop >= 0 /\ st[e].to \in 0 .. (Len(code) + 1)
  /\ phase = "run" =>
       /\ pc \in 1 .. (Len(code) + 1)
       /\ stp \in 1 .. (Len(table) + 1)
       /\ \A k \in DOMAIN handlers : pc < handlers[k].end => handlers[k].sp <= Len(stack)

\* Type soundness: the instruction about to run is one the validator took for
\* reachable, with all that is around it, and the operands are, in number and type, what it had computed
\* there; at the end the results have the function's result types.
OperandsAsValidated ==
  /\ phase = "run" /\ pc <= Len(code) =>
       LET ts == seen[pc].vals IN
       /\ \A j \in DOMAIN seen[pc].ctrls : ~seen[pc].ctrls[j].dead
       /\ Len(stack) = Len(ts)
       /\ \A k \in DOMAIN ts : Matches(stack[k].type, ts[k])
  /\ outcome.kind = "return" =>
       /\ Len(outcome.vals) = Len(Results)
       /\ \A k \in DOMAIN Results : Matches(outcome.vals[k].type, Results[k])

\* The rollback of local initialisation at else and end: whatever path was taken,
\* no local without a default is read before it was written.
ReadsAreOfSetLocals ==
  At("local_get") => locals[code[pc].local] # NeverSet(LocalType[code[pc].local])

\* Label-free execution through the side table implements structured control: the
\* same branches, operands and catches, with the labels of the constructs the
\* validator had open at the place.
LabelsAround(p) ==
  [k \in DOMAIN seen[p].ctrls |-> [at |-> seen[p].ctrls[k].start - 1, height |-> seen[p].ctrls[k].height]]
Structured == INSTANCE StructuredBody WITH
  code <- IF phase \in {"run", "done"} THEN code ELSE <<>>,
  stack <- IF pc > Len(code) THEN LastN(stack, IF Len(stack) < Len(Results) THEN Len(stack) ELSE Len(Results)) ELSE stack,
  labels <- IF phase = "run" THEN LabelsAround(pc) ELSE <<>>
ImplementsStructured == Structured!Spec
=============================================================================
