------------------------------- MODULE Calls -------------------------------
(***************************************************************************)
(* Calls, tail calls, exceptions, traps and re-entrant host callbacks      *)
(* (wasm/src/jav_runtime.c: jav_call_fn, do_throw, jav_try_table;          *)
(* wasm_capi.c: wasm_func_call, capi_host_invoke; the start function of    *)
(* jav_instance.c).                                                        *)
(*                                                                         *)
(* The C stack of nested jav_call_fn activations is cstack.  The program   *)
(* is a skeleton, Prog: each function has the structured instructions of   *)
(* its body at fixed places, and at every place marked "any" it may do     *)
(* anything a validated body may do there.  Of the operand stack only the  *)
(* height is kept: sp counts from the bottom of the value stack.  Blocks,  *)
(* loops and try_tables take one operand and leave one, a tag carries one, *)
(* a function takes and leaves its arity.                                  *)
(***************************************************************************)
EXTENDS Integers, Sequences, FiniteSets, FiniteSetsExt

CONSTANTS
  Func, Tag,
  Prog,          \* Func -> [host, arity, locals, inst, body]
  MaxDepth,      \* max_call_depth
  MaxStack,      \* MAX_STACK: operand slots reserved for a frame
  StackPool,     \* POOL_SLOTS of the value stack
  LocalsPool,    \* POOL_SLOTS of the locals store
  HostIgnoresTraps,  \* a host callback may return normally although a call it made trapped
  None

Instruction ==
  [op : {"push", "drop", "any", "end"}] \cup [op : {"block", "loop"}, end : Nat]
  \cup [op : {"try"}, end : Nat, catch : SUBSET Tag, label : Nat]

ASSUME CallsAssumption ==
  /\ None \notin Func
  /\ MaxDepth \in Nat /\ MaxStack \in Nat /\ StackPool \in Nat /\ LocalsPool \in Nat
  /\ HostIgnoresTraps \in BOOLEAN
  /\ \A f \in Func : /\ Prog[f].host \in BOOLEAN /\ Prog[f].body \in Seq(Instruction)
                     /\ Prog[f].arity \in Nat /\ Prog[f].locals \in Nat
                     /\ Prog[f].arity <= Prog[f].locals

VARIABLES
  frame,       \* vm->frame: fn, pc (code.pos), base (stack), lbase, nloc (locals), ctx
  sp,          \* frame.stack + frame.sp: the live height of the value stack
  cstack,      \* the running jav_call_fn activations, innermost last
  handlers,    \* vm->handlers
  depth,       \* vm->call_depth
  trapped,     \* vm->trapped
  tail,        \* tail_fn when tail_pending, else None
  pending      \* pending_exn when unwinding, else None

vars == <<frame, sp, cstack, handlers, depth, trapped, tail, pending>>

Body(f)  == Prog[f].body
End(f)   == Len(Body(f)) + 1     \* code.length
Arity(f) == Prog[f].arity
Wasm     == {f \in Func : ~ Prog[f].host}

\* The embedder's frame: vm->frame before any call.
RootFrame == [fn |-> None, pc |-> 0, base |-> 0, lbase |-> 0, nloc |-> 0, ctx |-> None]

Init ==
  /\ frame = RootFrame /\ sp = 0 /\ cstack = << >> /\ handlers = << >>
  /\ depth = 0 /\ trapped = FALSE /\ tail = None /\ pending = None

Keep(s, n) == SubSeq(s, 1, n)

\* A host callback or the embedder itself is running C code.
InHost == frame.fn = None \/ frame.fn \notin Wasm
InWasm == ~ InHost

\* The nesting of API calls: 0 while no guest code runs.
Level(cs) == Cardinality({i \in DOMAIN cs : cs[i].kind # "op"})
-----------------------------------------------------------------------------
(***************************************************************************)
(* The validator's view of a body (validate.c): heights, labels, scopes.   *)
(***************************************************************************)

\* Operands of the frame before the instruction at place q.
Height(f, q) == Cardinality({i \in 1 .. q - 1 : Body(f)[i].op = "push"})
                - Cardinality({i \in 1 .. q - 1 : Body(f)[i].op = "drop"})

Constructs(f) == {c \in DOMAIN Body(f) : Body(f)[c].op \in {"block", "loop", "try"}}

\* The constructs whose body holds the instruction at place q.
Around(f, q) == {c \in Constructs(f) : c < q /\ q < Body(f)[c].end - 1}

\* The label of construct c: a loop's is its start, any other's its end.
LabelOf(f, c) == IF Body(f)[c].op = "loop" THEN c + 1 ELSE Body(f)[c].end

Tries(f) == {c \in Constructs(f) : Body(f)[c].op = "try"}

\* What the validator has checked of every body: constructs nest, they leave the
\* height they found, a catch leads to a construct around the try_table, and no
\* operand is taken that is not there.
Validated(f) ==
  /\ \A c \in Constructs(f) :
       /\ Body(f)[c].end \in c + 2 .. End(f) /\ Body(f)[Body(f)[c].end - 1].op = "end"
       /\ Height(f, Body(f)[c].end) = Height(f, c)
  /\ \A c, d \in Constructs(f) : c < d /\ d < Body(f)[c].end => Body(f)[d].end < Body(f)[c].end
  /\ \A t \in Tries(f) : Body(f)[t].label \in Around(f, t)
  /\ \A q \in 1 .. End(f) : Height(f, q) >= 0

ASSUME ValidAssumption == \A f \in Wasm : Validated(f)
-----------------------------------------------------------------------------
(***************************************************************************)
(* Handlers.                                                               *)
(***************************************************************************)

\* Mutant of Prune: nothing is pruned.
PruneNothing(hs, d, pos) == hs

\* prune_handlers
Prune(hs, d, pos) ==
  Keep(hs, Max({0} \cup {k \in DOMAIN hs :
                          hs[k].depth # d \/ pos < Body(hs[k].fn)[hs[k].try].end}))

\* Mutant of BelowDepth: off by one.
UpToDepth(hs, d) ==
  Keep(hs, Max({0} \cup {k \in DOMAIN hs : hs[k].depth <= d}))

\* jav_call_fn: drop what the finished callee left installed.
BelowDepth(hs, d) ==
  Keep(hs, Max({0} \cup {k \in DOMAIN hs : hs[k].depth < d}))

\* The handlers of depth d that catch a tag.
Catching(hs, d, tag) ==
  {k \in DOMAIN hs : /\ \A j \in k .. Len(hs) : hs[j].depth = d
                     /\ tag \in Body(hs[k].fn)[hs[k].try].catch}

\* do_throw in frame fr at depth d, with operands up to h and handlers hs0: ride
\* the side table to the catch label, or end the function and go on unwinding.
DoThrow(fr, h, hs0, d, exn) ==
  LET hs == Prune(hs0, d, fr.pc)
      Caught == Catching(hs, d, exn.tag) IN
  IF Caught # {}
  THEN LET hd    == hs[Max(Caught)]
           label == Body(hd.fn)[hd.try].label
           pop   == Height(hd.fn, hd.try) - Height(hd.fn, label)
       IN /\ sp' = fr.base + hd.sp + 1 - pop
          /\ frame' = [fr EXCEPT !.pc = LabelOf(hd.fn, label)]
          /\ handlers' = Keep(hs, Max(Caught) - 1)
          /\ pending' = None
  ELSE /\ pending' = exn
       /\ handlers' = BelowDepth(hs, d)
       /\ frame' = [fr EXCEPT !.pc = IF fr.fn \in Wasm THEN End(fr.fn) ELSE @]
       /\ sp' = h
-----------------------------------------------------------------------------
(***************************************************************************)
(* Entering a function: jav_call_fn down to the run of the callee.         *)
(***************************************************************************)

\* The reserve guards.
Room(g, base, lbase) ==
  base + MaxStack <= StackPool /\ lbase + Prog[g].locals <= LocalsPool

\* Mutants of Start: the trap flag of an earlier run is left standing; the
\* tail call is not acknowledged; the callee runs in the caller's instance.
StartKeepingTrap(g, base, lbase, ctx) ==
  /\ frame' = [fn |-> g, pc |-> 1, base |-> base, lbase |-> lbase,
               nloc |-> Prog[g].locals,
               ctx |-> IF Prog[g].host THEN ctx ELSE Prog[g].inst]
  /\ sp' = base /\ tail' = None /\ trapped' = trapped

StartKeepingTail(g, base, lbase, ctx) ==
  /\ frame' = [fn |-> g, pc |-> 1, base |-> base, lbase |-> lbase,
               nloc |-> Prog[g].locals,
               ctx |-> IF Prog[g].host THEN ctx ELSE Prog[g].inst]
  /\ sp' = base /\ tail' = tail /\ trapped' = (trapped /\ Prog[g].host)

StartInCallersContext(g, base, lbase, ctx) ==
  /\ frame' = [fn |-> g, pc |-> 1, base |-> base, lbase |-> lbase,
               nloc |-> Prog[g].locals, ctx |-> ctx]
  /\ sp' = base /\ tail' = None /\ trapped' = (trapped /\ Prog[g].host)

\* The callee frame at the given bases; a host function keeps the context.
\* interp_run and jit_enter clear the trap flag, a host thunk does not.
Start(g, base, lbase, ctx) ==
  /\ frame' = [fn |-> g, pc |-> 1, base |-> base, lbase |-> lbase,
               nloc |-> Prog[g].locals,
               ctx |-> IF Prog[g].host THEN ctx ELSE Prog[g].inst]
  /\ sp' = base /\ tail' = None /\ trapped' = (trapped /\ Prog[g].host)

\* A call from frame caller, whose operands up to base are below the callee's.
Enter(g, kind, caller, base) ==
  /\ depth < MaxDepth
  /\ Room(g, base, caller.lbase + caller.nloc)
  /\ cstack' = Append(cstack, [kind |-> kind, saved |-> caller, outer |-> frame,
                               raised |-> FALSE, owes |-> FALSE])
  /\ depth' = depth + 1
  /\ Start(g, base, caller.lbase + caller.nloc, caller.ctx)
  /\ UNCHANGED <<handlers, pending>>

\* The innermost activation of cs has seen a trap: raised in its own run, or
\* returned to a callback as the result of a call it made.
Raise(cs) == [cs EXCEPT ![Len(cs)].raised = TRUE]
Owe(cs)   == IF cs = << >> THEN cs ELSE [cs EXCEPT ![Len(cs)].owes = TRUE]

\* The same call where a guard of jav_call_fn refuses it: exhaustion.
Refuse(g, kind, caller, base) ==
  /\ depth = MaxDepth \/ ~ Room(g, base, caller.lbase + caller.nloc)
  /\ trapped' = TRUE
  /\ sp' = base
  /\ IF kind = "op"
     THEN frame' = [caller EXCEPT !.pc = End(caller.fn)] /\ cstack' = Raise(cstack)
     ELSE frame' = (IF kind = "call" THEN frame ELSE caller) /\ cstack' = Owe(cstack)
  /\ UNCHANGED <<handlers, depth, tail, pending>>

CallFn(g, kind, caller, base) == Enter(g, kind, caller, base) \/ Refuse(g, kind, caller, base)

\* The frame wasm_func_call and jav_instantiate call from: the current one,
\* emptied and bound to the instance of the function.
EntryFrame(g) == [frame EXCEPT !.nloc = 0,
                               !.ctx = IF Prog[g].host THEN @ ELSE Prog[g].inst]

\* wasm_func_call, from the embedder or from a host callback.
ApiCall(g) == InHost /\ CallFn(g, "call", EntryFrame(g), frame.base)

\* jav_instantiate: the start function of a new instance, [] -> [].
ApiStart(g) ==
  /\ InHost
  /\ g \in Wasm /\ Arity(g) = 0
  /\ CallFn(g, "start", EntryFrame(g), frame.base)
-----------------------------------------------------------------------------
(***************************************************************************)
(* The instructions of a body.                                             *)
(***************************************************************************)

Instr == Body(frame.fn)[frame.pc]
Next1 == [frame EXCEPT !.pc = @ + 1]
AtAny == InWasm /\ frame.pc < End(frame.fn) /\ Instr.op = "any"

\* push, drop, and the structured instructions that only advance.
Plain ==
  /\ InWasm /\ frame.pc < End(frame.fn)
  /\ Instr.op \in {"push", "drop", "block", "loop", "end", "any"}
  /\ sp' = CASE Instr.op = "push" -> sp + 1
             [] Instr.op = "drop" -> sp - 1
             [] OTHER -> sp
  /\ frame' = Next1
  /\ UNCHANGED <<cstack, handlers, depth, trapped, tail, pending>>

\* Mutant of TryTable: the handler keeps the height with the try's parameter.
TryTableAboveParams ==
  /\ InWasm /\ frame.pc < End(frame.fn) /\ Instr.op = "try"
  /\ handlers' = Append(Prune(handlers, depth, frame.pc + 1),
                        [depth |-> depth, fn |-> frame.fn, try |-> frame.pc,
                         sp |-> sp - frame.base])
  /\ frame' = Next1
  /\ UNCHANGED <<sp, cstack, depth, trapped, tail, pending>>

\* jav_try_table: install a handler over the body.
TryTable ==
  /\ InWasm /\ frame.pc < End(frame.fn) /\ Instr.op = "try"
  /\ handlers' = Append(Prune(handlers, depth, frame.pc + 1),
                        [depth |-> depth, fn |-> frame.fn, try |-> frame.pc,
                         sp |-> sp - frame.base - 1])
  /\ frame' = Next1
  /\ UNCHANGED <<sp, cstack, depth, trapped, tail, pending>>

\* br to the label of an enclosing construct: keep the top operand, drop the
\* pop operands beneath it.
Br(c) ==
  /\ AtAny /\ c \in Around(frame.fn, frame.pc)
  /\ sp' = sp - (Height(frame.fn, frame.pc) - Height(frame.fn, c))
  /\ frame' = [frame EXCEPT !.pc = LabelOf(frame.fn, c)]
  /\ UNCHANGED <<cstack, handlers, depth, trapped, tail, pending>>

\* return
Return ==
  /\ AtAny /\ frame' = [frame EXCEPT !.pc = End(frame.fn)]
  /\ UNCHANGED <<sp, cstack, handlers, depth, trapped, tail, pending>>

\* call, call_ref, call_indirect
Call(g) ==
  /\ AtAny /\ Height(frame.fn, frame.pc) >= Arity(g)
  /\ CallFn(g, "op", Next1, sp - Arity(g))

\* return_call*
TailCall(g) ==
  /\ AtAny /\ Height(frame.fn, frame.pc) >= Arity(g) /\ Arity(g) = Arity(frame.fn)
  /\ tail' = g
  /\ frame' = [frame EXCEPT !.pc = End(frame.fn)]
  /\ UNCHANGED <<sp, cstack, handlers, depth, trapped, pending>>

\* throw, throw_ref
Throw(t) ==
  /\ AtAny /\ Height(frame.fn, frame.pc) >= 1
  /\ DoThrow(Next1, sp - 1, handlers, depth, [tag |-> t, level |-> Level(cstack)])
  /\ UNCHANGED <<cstack, depth, trapped, tail>>

\* A trapping instruction.
Trap ==
  /\ AtAny
  /\ trapped' = TRUE
  /\ frame' = [frame EXCEPT !.pc = End(frame.fn)]
  /\ cstack' = Raise(cstack)
  /\ UNCHANGED <<sp, handlers, depth, tail, pending>>
-----------------------------------------------------------------------------
(***************************************************************************)
(* The end of a run: the rest of jav_call_fn, and of its API caller.       *)
(***************************************************************************)

\* wasm_func_call restores the frame it found; jav_instantiate does not.
AfterApi(a) == IF a.kind = "call" THEN a.outer ELSE a.saved

\* Mutant of Unreported: jav_classify_outcome does not consume the exception.
NotConsumed(kind) == pending

\* What is still unwinding after an API call: jav_classify_outcome consumes
\* the exception of wasm_func_call; jav_instantiate looks for a trap only.
Unreported(kind) == IF kind = "call" THEN None ELSE pending

\* The chain is done with status st.  The results are the callee's topmost
\* operands, slid down to its base.
Finish(st) ==
  LET a  == cstack[Len(cstack)]
      cs == Keep(cstack, Len(cstack) - 1)
      hs == BelowDepth(handlers, depth)
      base == frame.base IN
  /\ depth' = depth - 1
  /\ CASE pending # None ->
            /\ UNCHANGED trapped
            /\ cstack' = cs
            /\ IF a.kind = "op"
               THEN DoThrow(a.saved, base, hs, depth - 1, pending)
               ELSE /\ handlers' = hs /\ sp' = base /\ frame' = AfterApi(a)
                    /\ pending' = Unreported(a.kind)
       [] pending = None /\ st = "trap" ->
            /\ trapped' = TRUE
            /\ handlers' = hs /\ sp' = base /\ UNCHANGED pending
            /\ IF a.kind = "op"
               THEN /\ frame' = [a.saved EXCEPT !.pc = End(a.saved.fn)]
                    /\ cstack' = Raise(cs)
               ELSE frame' = AfterApi(a) /\ cstack' = Owe(cs)
       [] OTHER ->
            /\ handlers' = hs /\ cstack' = cs /\ UNCHANGED <<trapped, pending>>
            /\ sp' = IF a.kind = "op" THEN base + Arity(frame.fn) ELSE base
            /\ frame' = IF a.kind = "op" THEN a.saved ELSE AfterApi(a)

\* The run of frame.fn ended with st: a pending tail call reuses the frame,
\* unless there is no room for it; otherwise the chain is done.
RunEnds(st) ==
  IF st = "ok" /\ pending = None /\ tail # None
  THEN /\ handlers' = BelowDepth(handlers, depth)
       /\ \/ /\ Room(tail, frame.base, frame.lbase)
             /\ Start(tail, frame.base, frame.lbase, frame.ctx)
             /\ UNCHANGED <<cstack, depth, pending>>
          \/ /\ ~ Room(tail, frame.base, frame.lbase)
             /\ Finish("trap")
             /\ UNCHANGED tail
  ELSE Finish(st) /\ UNCHANGED tail

\* interp_run, jit_enter: the outcome is read off vm->trapped.
WasmEnds ==
  /\ InWasm /\ frame.pc = End(frame.fn)
  /\ RunEnds(IF trapped THEN "trap" ELSE "ok")

\* capi_host_invoke: the callback returned results, or a trap.
HostReturns ==
  /\ InHost /\ cstack # << >>
  /\ cstack[Len(cstack)].owes => HostIgnoresTraps
  /\ RunEnds("ok")

HostTraps ==
  /\ InHost /\ cstack # << >>
  /\ RunEnds("trap")
-----------------------------------------------------------------------------
Next ==
  \/ \E g \in Func : ApiCall(g) \/ ApiStart(g) \/ Call(g) \/ TailCall(g)
  \/ Plain \/ TryTable \/ Return \/ Trap
  \/ InWasm /\ \E c \in Constructs(frame.fn) : Br(c)
  \/ \E t \in Tag : Throw(t)
  \/ WasmEnds \/ HostReturns \/ HostTraps

Spec == Init /\ [][Next]_vars
-----------------------------------------------------------------------------
\* Every variable has its type; the call depth is the number of activations
\* however they ended, and handlers are stacked in the order of their frames.
CallsTypeOK ==
  /\ frame.fn \in Func \cup {None} /\ frame.base <= sp
  /\ InWasm => frame.pc \in 1 .. End(frame.fn)
  /\ depth = Len(cstack) /\ depth <= MaxDepth
  /\ cstack = << >> => frame.fn = None
  /\ \A k \in DOMAIN handlers :
       /\ handlers[k].depth \in 1 .. depth
       /\ k > 1 => handlers[k - 1].depth <= handlers[k].depth
  /\ trapped \in BOOLEAN /\ tail \in Func \cup {None}

\* Once prune_handlers has run, the handlers of the running frame are the
\* try_tables around the instruction, outermost first, so a throw, here or out
\* of a callee, never finds a handler of a block that was left
\* (prune_handlers' comment).
HandlersMatchScopes ==
  LET hs == Prune(handlers, depth, frame.pc + 1)
      own == {k \in DOMAIN hs : hs[k].depth = depth} IN
  /\ AtAny => /\ \A k \in own : hs[k].fn = frame.fn
              /\ {hs[k].try : k \in own} = Tries(frame.fn) \cap Around(frame.fn, frame.pc)
              /\ \A j, k \in own : j < k => hs[j].try < hs[k].try
  /\ InHost => own = {}

\* The operand stack of a running frame has the height the validator gave the
\* place, after calls, branches, catches and re-entrant calls alike.
StackMatchesTypes ==
  InWasm /\ frame.pc < End(frame.fn) => sp - frame.base = Height(frame.fn, frame.pc)

\* Every function on the stack keeps the context of its own instance, the
\* running one and those a callee or a re-entrant call has suspended
\* (jav_frame.h: "a re-entrant call ... can no longer corrupt the caller's
\* context").
ContextIsOwn ==
  /\ InWasm => frame.ctx = Prog[frame.fn].inst
  /\ \A i \in DOMAIN cstack :
       cstack[i].kind = "op" => cstack[i].saved.ctx = Prog[cstack[i].saved.fn].inst

\* A run is reported as trapped exactly when a trap was raised in it: neither
\* lost, nor left standing from a call that is over (jit_enter's comment).
TrapIsOwn ==
  InWasm /\ frame.pc = End(frame.fn) => (trapped <=> cstack[Len(cstack)].raised)

\* An exception unwinds within the API call it was thrown in: it is caught
\* there or reported as that call's outcome (jav_classify_outcome).
ExceptionsStayInTheirCall ==
  pending # None => cstack # << >> /\ pending.level = Level(cstack)

\* return_call replaces the function that executed it: a host callback, which
\* cannot execute one, returns to its caller.
HostNotReplaced ==
  [][cstack' = cstack /\ frame'.fn # frame.fn => InWasm]_vars

\* The argument slots of a host callback stay in the region the collector
\* scans and are not reused while it runs (capi_host_invoke: "host-call args:
\* already rooted as live stack slots").
HostArgumentsKept ==
  \A i \in DOMAIN cstack :
    cstack[i].kind # "op" /\ cstack[i].outer.fn # None =>
      frame.lbase >= cstack[i].outer.lbase + cstack[i].outer.nloc
-----------------------------------------------------------------------------
(***************************************************************************)
(* Why these hold: the inductive invariants.                               *)
(***************************************************************************)

Frame      == [fn : Func \cup {None}, pc : Nat, base : Int, lbase : Nat, nloc : Nat,
               ctx : {Prog[f].inst : f \in Func} \cup {None}]
Activation == [kind : {"op", "call", "start"}, saved : Frame, outer : Frame,
               raised : BOOLEAN, owes : BOOLEAN]
Handler    == [depth : Nat, fn : Wasm, try : Nat, sp : Int]

CallsShapes ==
  /\ frame \in Frame /\ sp \in Int /\ cstack \in Seq(Activation) /\ handlers \in Seq(Handler)
  /\ depth = Len(cstack) /\ depth <= MaxDepth
  /\ trapped \in BOOLEAN /\ tail \in Func \cup {None}
  /\ pending \in [tag : Tag, level : Nat] \cup {None}

\* The frame of the i-th activation, running or to be resumed; the embedder's is
\* number 0.
Resumed(i) == IF i = depth THEN frame ELSE cstack[i + 1].saved

\* A frame is in its own context; one that made a call resumes behind it, in
\* the frame it called from.
FramesNest ==
  /\ \A i \in 0 .. depth :
       /\ Resumed(i).fn \in Wasm => /\ Resumed(i).pc \in 1 .. End(Resumed(i).fn)
                                   /\ Resumed(i).ctx = Prog[Resumed(i).fn].inst
       /\ Resumed(i).fn = None <=> i = 0
  /\ \A i \in DOMAIN cstack :
       LET s == cstack[i].saved IN
       /\ cstack[i].outer.fn = s.fn /\ cstack[i].outer.base = s.base
       /\ IF cstack[i].kind = "op"
          THEN s.fn \in Wasm /\ s.pc >= 2 /\ Body(s.fn)[s.pc - 1].op = "any"
          ELSE s.fn \notin Wasm

\* Handlers are stacked in the order of their frames, and each is of a try_table
\* of the function of its frame.
HandlersOwned ==
  /\ \A j, k \in DOMAIN handlers : j < k => handlers[j].depth <= handlers[k].depth
  /\ \A k \in DOMAIN handlers :
       handlers[k].depth \in 1 .. depth /\ handlers[k].try \in Tries(handlers[k].fn)
  /\ \A i \in 1 .. depth, k \in DOMAIN handlers :
       handlers[k].depth = i => handlers[k].fn = Resumed(i).fn

ContextInv == CallsShapes /\ FramesNest /\ HandlersOwned

\* The handlers of depth d in hs, for a frame of f at place q: of try_tables
\* before q, each inside the one below it, and every one around q among them.
Installed(hs, d, f, q) ==
  LET own == {k \in DOMAIN hs : hs[k].depth = d} IN
  /\ \A k \in own : hs[k].try < q
  /\ \A j, k \in own : j < k => /\ hs[j].try < hs[k].try
                              /\ Body(f)[hs[k].try].end < Body(f)[hs[j].try].end
  /\ \A t \in Tries(f) \cap Around(f, q) : \E k \in own : hs[k].try = t

HandlersNest ==
  \A d \in 1 .. depth :
    Resumed(d).fn \in Wasm => Installed(handlers, d, Resumed(d).fn, Resumed(d).pc)

\* A loop leaves the handlers of the try_tables inside it installed when it is
\* repeated, so the theorems about them exclude such loops.
LoopsHoldNoTry ==
  \A f \in Wasm : \A t \in Tries(f) : \A c \in Around(f, t) : Body(f)[c].op # "loop"

ScopesInv == ContextInv /\ HandlersNest

\* A frame waits for the results of its callee above the operands that it keeps.
CallsLinked ==
  \A i \in DOMAIN cstack :
    LET s == cstack[i].saved
        t == Resumed(i) IN
    IF cstack[i].kind = "op"
    THEN s.base <= t.base /\ t.base + Arity(t.fn) = s.base + Height(s.fn, s.pc)
    ELSE t.base = s.base

\* A handler has the height of the operands beneath the parameter of its try_table.
HandlerHeights ==
  \A k \in DOMAIN handlers : handlers[k].sp = Height(handlers[k].fn, handlers[k].try) - 1

HeightsAgree ==
  /\ frame.base <= sp
  /\ InWasm /\ frame.pc < End(frame.fn) => sp = frame.base + Height(frame.fn, frame.pc)
  /\ CallsLinked /\ HandlerHeights

Top == cstack[Len(cstack)]

\* The trap flag stands when the running function has raised a trap and, in a
\* callback, only if a call it made, or one that its callers made, trapped.
TrapsAgree ==
  /\ \A i \in DOMAIN cstack : cstack[i].raised => i = depth /\ InWasm
  /\ InWasm => /\ trapped <=> Top.raised
               /\ trapped => frame.pc = End(frame.fn)
  /\ InHost /\ trapped =>
       \E i \in 0 .. depth : /\ i > 0 => cstack[i].owes
                             /\ \A j \in i + 1 .. depth : cstack[j].kind # "op"

\* A tail call is pending from the instruction to its start, or until the
\* callback learns that the trap of its refusal is its own.
TailsAgree ==
  tail # None =>
    IF InWasm THEN frame.pc = End(frame.fn) /\ (trapped \/ Arity(tail) = Arity(frame.fn))
              ELSE cstack # << >> => Top.owes

\* Unwinding passes through guest code alone.
Unwinds ==
  pending # None =>
    /\ InWasm /\ frame.pc = End(frame.fn) /\ ~ trapped /\ tail = None
    /\ pending.level = Level(cstack)

CallsInv == ContextInv /\ HeightsAgree /\ TrapsAgree /\ TailsAgree /\ Unwinds

\* The precondition of CallsInv: no exception leaves a start function.
StartsCatch == pending # None /\ cstack # << >> => Top.kind # "start"
=============================================================================
