----------------------------- MODULE Interpreter -----------------------------
(***************************************************************************)
(* The bytecode interpreter of src/vm/interpreter.c with the primitives    *)
(* that call back into it (on:do:, ensure:, signal, Future>>wait in        *)
(* primitive_table.c) and the handler chain of handler.c.  One step is one *)
(* instruction.                                                            *)
(*                                                                         *)
(* loops is the C stack: one entry for every running interpret_loop_ex,    *)
(* with its chain of frames, whose actor it works for, and what the caller *)
(* does with the result (cont).  A frame holds its method, receiver, pc,   *)
(* inline slots, its part of the expression stack, its context (an index   *)
(* into ctxs, 0 for none) and the flag that marks the home frame of a      *)
(* context.  Garbage collection moves no value here: ActorHeap models it.  *)
(***************************************************************************)
EXTENDS Kernel

CONSTANT Quota    \* reductions an actor may use before it is preempted

VARIABLES methods,   \* the method dictionaries of all classes, and the method that is run
          vm         \* the machine

MainMethod == <<"main">>
MethodOf(m) == methods[m]

Top(s) == Last(s.loops)
Frame(s) == Last(Top(s).frames)
Who(s) == Top(s).who
Scheduled(s) == Top(s).sched

SetFrames(s, fs) == [s EXCEPT !.loops[Len(s.loops)].frames = fs]
SetFrame(s, f) == SetFrames(s, Append(Front(Top(s).frames), f))
PushValue(s, v) == SetFrame(s, [Frame(s) EXCEPT !.stack = Append(@, v)])
Halt(s, status) == [s EXCEPT !.status = status]

-----------------------------------------------------------------------------
(* Decoding.  insn.len is in units. *)

Insn ==
    LET f == Frame(vm)
        code == MethodOf(f.method).code
        u == code[f.pc + 1]
    IN  IF u[1] = "WIDE"
        THEN [op |-> code[f.pc + 2][1], n |-> u[2] * Byte + code[f.pc + 2][2], len |-> 2]
        ELSE [op |-> u[1], n |-> u[2], len |-> 1]

InCode ==
    LET f == Frame(vm)
    IN  f.pc \in 0 .. Len(MethodOf(f.method).code) - 1

(* The method's literal; the index is cut to a byte. *)
LiteralAt(f, n) == MethodOf(f.method).lits[(n % Byte) + 1]

(* Values an instruction takes from the expression stack. *)
Needs(insn) ==
    CASE insn.op \in {"SEND", "SEND_SUPER"} -> SelectorArity(LiteralAt(Frame(vm), insn.n)[2]) + 1
      [] insn.op \in {"STORE_TEMP", "STORE_INSTVAR", "STORE_GLOBAL", "POP_STORE_TEMP",
                      "POP_STORE_INSTVAR", "POP_STORE_GLOBAL", "RETURN_TOP", "JUMP_TRUE",
                      "JUMP_FALSE", "POP", "DUP", "NON_LOCAL_RETURN"} -> 1
      [] OTHER -> 0

(* An instruction can be executed if the code and the stack are there for  *)
(* it; sta_stack_pop does not check.                                       *)
Runs(ops) ==
    /\ vm.status = "running"
    /\ InCode
    /\ Insn.op \in ops
    /\ Len(Frame(vm).stack) >= Needs(Insn)

(* The frame past the instruction and the values it takes. *)
Advance(f, insn, pops) ==
    [f EXCEPT !.pc = @ + insn.len, !.stack = SubSeq(@, 1, Len(@) - pops)]

-----------------------------------------------------------------------------
(* Frames, contexts and block activation. *)

NewFrame(m, rcv, args) ==
    LET nils == [i \in 1 .. (MethodOf(m).ntemps - Len(args)) |-> Nil]
    IN  [method |-> m, rcv |-> rcv, pc |-> 0, slots |-> args \o nils, stack |-> <<>>,
         ctx |-> 0, home |-> FALSE]

(* A method that needs a context keeps its variables there and is the home *)
(* of its blocks' non-local returns.                                       *)
Contextual(m) == MethodOf(m).ctx

InContext(s, f) == [f EXCEPT !.ctx = Len(s.ctxs) + 1, !.home = TRUE]

PushFrame(s, f) ==
    IF Contextual(f.method)
    THEN [SetFrames(s, Append(Top(s).frames, InContext(s, f))) EXCEPT !.ctxs = Append(@, f.slots)]
    ELSE SetFrames(s, Append(Top(s).frames, f))

Overwrite(slots, at, vals) ==
    [i \in DOMAIN slots |-> IF i - at \in DOMAIN vals THEN vals[i - at] ELSE slots[i]]

(* The frame of a block: it shares the context of its closure, where the   *)
(* arguments go too, or has slots of its own.                              *)
BlockFrame(clo, args) ==
    LET f == NewFrame(clo[2], clo[3], <<>>)
    IN  [f EXCEPT !.pc = clo[4], !.ctx = clo[6],
                  !.slots = IF clo[6] = 0 THEN Overwrite(@, clo[5], args) ELSE @]

BindBlockArgs(s, clo, args) ==
    IF clo[6] = 0 THEN s ELSE [s EXCEPT !.ctxs[clo[6]] = Overwrite(@, clo[5], args)]

(* sta_eval_block: a loop of its own, on the root actor, with no sender.   *)
EvalBlock(s, clo, args, cont) ==
    [BindBlockArgs(s, clo, args) EXCEPT
        !.loops = Append(@, [who |-> "root", sched |-> FALSE, cont |-> cont,
                             frames |-> <<BlockFrame(clo, args)>>])]

-----------------------------------------------------------------------------
(* The handler chain, innermost entry last.  An entry lives in a C frame,  *)
(* at some depth of the stack of loops, which on:do: jumps back to; depth  *)
(* 0 is that of an actor's catch-all.                                      *)

PushHandler(s, who, entry) == [s EXCEPT !.chain[who] = Append(@, entry)]
PopHandler(s, who) == [s EXCEPT !.chain[who] = IF @ = <<>> THEN @ ELSE Front(@)]

OnEntry(class, block, depth) == [ensure |-> FALSE, class |-> class, block |-> block, depth |-> depth]
EnsureEntry(block, depth) == [ensure |-> TRUE, class |-> Nil, block |-> block, depth |-> depth]
CatchAll == OnEntry(<<"class", "Exception">>, Nil, 0)

(* The position of the innermost on:do: entry for an exception, 0 if none. *)
HandlerFind(s, who, exc) ==
    Max({0} \cup {k \in DOMAIN s.chain[who] :
                    ~s.chain[who][k].ensure /\ IsKindOf(exc, s.chain[who][k].class)})

(* Mutant: the handler stays on the chain while its block runs. *)
JumpKeepingHandler(s, who, k, exc) ==
    LET entry == s.chain[who][k]
        cut == [s EXCEPT !.chain[who] = SubSeq(@, 1, k)]
    IN  IF entry.depth = 0 THEN Halt([cut EXCEPT !.loops = <<>>], "exception")
        ELSE EvalBlock([cut EXCEPT !.loops = SubSeq(@, 1, entry.depth)],
                       entry.block, <<exc>>, <<"prim">>)

(* longjmp: the loops above the one that entered on:do: are gone, and the  *)
(* handler block runs with the exception.                                  *)
JumpToHandler(s, who, k, exc) ==
    LET entry == s.chain[who][k]
        cut == [s EXCEPT !.chain[who] = SubSeq(@, 1, k - 1)]
    IN  IF entry.depth = 0 THEN Halt([cut EXCEPT !.loops = <<>>], "exception")
        ELSE EvalBlock([cut EXCEPT !.loops = SubSeq(@, 1, entry.depth)],
                       entry.block, <<exc>>, <<"prim">>)

(* prim_signal once the target k is known: the ensure blocks above it are  *)
(* taken off the chain and run one by one, then control jumps to it.       *)
Unwind(s, who, k, exc) ==
    LET above == {j \in DOMAIN s.chain[who] : j > k /\ s.chain[who][j].ensure}
        j == Max(above)
    IN  IF above = {} THEN JumpToHandler(s, who, k, exc)
        ELSE EvalBlock([s EXCEPT !.chain[who] = SubSeq(@, 1, j - 1)],
                       s.chain[who][j].block, <<>>, <<"unwind", k, exc>>)

Signal(s, who, exc) ==
    LET k == HandlerFind(s, who, exc)
    IN  IF k = 0 THEN Halt(s, "abort") ELSE Unwind(s, who, k, exc)

(* A loop ends with a value. *)
EndLoop(s, v) ==
    LET cont == Top(s).cont
        out == [s EXCEPT !.loops = Front(@)]
        done == [out EXCEPT !.status = "done", !.result = v]
    IN  CASE cont[1] = "interpret" -> done
          [] cont[1] = "actor" -> PopHandler(done, Who(s))
          [] cont[1] = "prim" -> PushValue(out, v)
          [] cont[1] = "onDo" -> PushValue(PopHandler(out, Who(out)), v)
          [] cont[1] = "ensureBody" ->
               EvalBlock(PopHandler(out, Who(out)), cont[2], <<>>, <<"ensured", v>>)
          [] cont[1] = "ensured" -> PushValue(out, cont[2])
          [] cont[1] = "unwind" -> Unwind(out, Who(out), cont[2], cont[3])

ReturnTo(s, frames, v) ==
    IF frames = <<>> THEN EndLoop(s, v) ELSE PushValue(SetFrames(s, frames), v)

-----------------------------------------------------------------------------
(* Sends. *)

(* The message of a send: receiver, arguments, and the method found; a     *)
(* super send starts above the class that owns the method, its last        *)
(* literal.                                                                *)
Message ==
    LET f == Frame(vm)
        insn == Insn
        sel == LiteralAt(f, insn.n)[2]
        n == Len(f.stack)
        args == SubSeq(f.stack, n - SelectorArity(sel) + 1, n)
        rcv == f.stack[n - SelectorArity(sel)]
        class == IF insn.op = "SEND_SUPER" THEN Superclass[Last(MethodOf(f.method).lits)[2]]
                                           ELSE ClassOf(rcv)
        found == MethodLookup(methods, class, sel)
    IN  IF found # <<>> THEN [rcv |-> rcv, args |-> args, method |-> found]
        ELSE [rcv |-> rcv, args |-> <<<<"msg", sel, args>>>>,
              method |-> MethodLookup(methods, ClassOf(rcv), DnuSelector)]

(* The frame of the sender, past the send. *)
Caller == Advance(Frame(vm), Insn, Needs(Insn))

IsTail(f) == MethodOf(f.method).code[f.pc + 1][1] = "RETURN_TOP"

(* Tail call: the frame is reused if it has a sender, the callee needs no  *)
(* context and fits.                                                       *)
TailCall(f, callee) ==
    /\ IsTail(f)
    /\ Len(Top(vm).frames) > 1
    /\ ~Contextual(callee.method)
    /\ Len(callee.slots) <= Len(f.slots)

(* A failed primitive leaves its code in the temp after the arguments and  *)
(* execution goes on after the primitive instruction.                      *)
CalleeFrame(msg, failed) ==
    LET f == NewFrame(msg.method, msg.rcv, msg.args)
    IN  IF failed THEN [f EXCEPT !.pc = 1, !.slots[Len(msg.args) + 1] = Fail] ELSE f

Invoke(msg, failed) ==
    LET callee == CalleeFrame(msg, failed)
        caller == Caller
    IN  IF TailCall(caller, callee)
        THEN SetFrame(vm, [callee EXCEPT !.home = caller.home])
        ELSE PushFrame(SetFrame(vm, caller), callee)

(* The primitives that call back, or that may suspend the actor.  wait     *)
(* suspends only a scheduled actor; everywhere else it fails.              *)
CallbackPrimitive(s, prim, rcv, args) ==
    CASE prim = "onDo" ->
           EvalBlock(PushHandler(s, Who(s), OnEntry(args[1], args[2], Len(s.loops))),
                     rcv, <<>>, <<"onDo">>)
      [] prim = "ensure" ->
           EvalBlock(PushHandler(s, Who(s), EnsureEntry(args[1], Len(s.loops))),
                     rcv, <<>>, <<"ensureBody", args[1]>>)
      [] prim = "signal" -> Signal(s, Who(s), rcv)

CallbackPrims == {"onDo", "ensure", "signal"}

-----------------------------------------------------------------------------
(* Instructions. *)

SlotsOf(f) == IF f.ctx # 0 THEN vm.ctxs[f.ctx] ELSE f.slots

Pushes == {"PUSH_RECEIVER", "PUSH_NIL", "PUSH_TRUE", "PUSH_FALSE", "PUSH_LIT", "PUSH_TEMP",
           "PUSH_INSTVAR", "PUSH_GLOBAL", "PUSH_SMALLINT", "PUSH_MINUS_ONE", "PUSH_ZERO",
           "PUSH_ONE", "PUSH_TWO"}

Pushed(f, insn) ==
    CASE insn.op = "PUSH_RECEIVER" -> f.rcv
      [] insn.op = "PUSH_NIL" -> Nil
      [] insn.op = "PUSH_TRUE" -> True
      [] insn.op = "PUSH_FALSE" -> False
      [] insn.op = "PUSH_LIT" -> LiteralAt(f, insn.n)
      [] insn.op = "PUSH_TEMP" -> SlotsOf(f)[insn.n + 1]
      [] insn.op = "PUSH_INSTVAR" -> vm.ivars[insn.n + 1]
      [] insn.op = "PUSH_GLOBAL" -> vm.globals[LiteralAt(f, insn.n)[2]]
      [] insn.op = "PUSH_SMALLINT" -> SmallInt(insn.n)
      [] insn.op = "PUSH_MINUS_ONE" -> SmallInt(-1)
      [] insn.op = "PUSH_ZERO" -> SmallInt(0)
      [] insn.op = "PUSH_ONE" -> SmallInt(1)
      [] insn.op = "PUSH_TWO" -> SmallInt(2)

Push ==
    /\ Runs(Pushes)
    /\ vm' = PushValue(SetFrame(vm, Advance(Frame(vm), Insn, 0)), Pushed(Frame(vm), Insn))

Stores == {"STORE_TEMP", "POP_STORE_TEMP", "STORE_INSTVAR", "POP_STORE_INSTVAR",
           "STORE_GLOBAL", "POP_STORE_GLOBAL"}

StoreIn(s, f, insn, v) ==
    CASE insn.op \in {"STORE_TEMP", "POP_STORE_TEMP"} ->
           IF f.ctx # 0 THEN [s EXCEPT !.ctxs[f.ctx][insn.n + 1] = v]
                        ELSE SetFrame(s, [Frame(s) EXCEPT !.slots[insn.n + 1] = v])
      [] insn.op \in {"STORE_INSTVAR", "POP_STORE_INSTVAR"} ->
           [s EXCEPT !.ivars[insn.n + 1] = v]
      [] OTHER -> [s EXCEPT !.globals[LiteralAt(f, insn.n)[2]] = v]

Store ==
    /\ Runs(Stores)
    /\ LET f == Frame(vm)
           pops == IF Insn.op \in {"STORE_TEMP", "STORE_INSTVAR", "STORE_GLOBAL"} THEN 0 ELSE 1
       IN  vm' = StoreIn(SetFrame(vm, Advance(f, Insn, pops)), f, Insn, Last(f.stack))

PopDup ==
    /\ Runs({"POP", "DUP"})
    /\ LET f == Frame(vm)
       IN  vm' = IF Insn.op = "POP" THEN SetFrame(vm, Advance(f, Insn, 1))
                 ELSE PushValue(SetFrame(vm, Advance(f, Insn, 0)), Last(f.stack))

(* Jump operands count bytes. *)
JumpBy(f, n) == [f EXCEPT !.pc = @ + n \div 2]

Jump ==
    /\ Runs({"JUMP", "JUMP_TRUE", "JUMP_FALSE"})
    /\ LET f == Advance(Frame(vm), Insn, Needs(Insn))
           v == IF Insn.op = "JUMP" THEN Nil ELSE Last(Frame(vm).stack)
       IN  vm' = CASE Insn.op = "JUMP" \/ v = <<"bool", Insn.op = "JUMP_TRUE">> ->
                        SetFrame(vm, JumpBy(f, Insn.n))
                   [] v = <<"bool", Insn.op # "JUMP_TRUE">> -> SetFrame(vm, f)
                   [] OTHER -> Halt(vm, "abort")

(* A scheduled actor whose quota is used up gives the thread back; the     *)
(* catch-all handler is taken off the chain.                               *)
QuotaUsed == Scheduled(vm) /\ vm.reductions + 1 >= Quota

Count(s) == IF Scheduled(s) THEN [s EXCEPT !.reductions = @ + 1] ELSE s

Yield(s) == Halt(PopHandler(s, Who(s)), "preempted")

JumpBack ==
    /\ Runs({"JUMP_BACK"})
    /\ LET f == JumpBy(Advance(Frame(vm), Insn, 0), -Insn.n)
       IN  vm' = IF QuotaUsed THEN Yield(SetFrame(vm, f)) ELSE Count(SetFrame(vm, f))

Sends == {"SEND", "SEND_SUPER"}
PrimOf(msg) == MethodOf(msg.method).prim

Sending(prims) == Runs(Sends) /\ ~QuotaUsed /\ PrimOf(Message) \in prims

(* The send is not executed; it is retried when the actor runs again. *)
Preempt == Runs(Sends) /\ QuotaUsed /\ vm' = Yield(vm)

CallMethod == Sending({"none"}) /\ vm' = Count(Invoke(Message, FALSE))

(* The arguments are not checked against the number the block takes. *)
ActivateBlock ==
    /\ Sending({"value"})
    /\ LET msg == Message
           s == BindBlockArgs(SetFrame(vm, Caller), msg.rcv, msg.args)
       IN  vm' = Count(SetFrames(s, Append(Top(s).frames, BlockFrame(msg.rcv, msg.args))))

CallSimplePrimitive ==
    /\ Sending(SimplePrims)
    /\ LET msg == Message
           v == SimplePrimitive(PrimOf(msg), msg.rcv, msg.args)
       IN  vm' = Count(IF v = Fail THEN Invoke(msg, TRUE) ELSE PushValue(SetFrame(vm, Caller), v))

CallBack ==
    /\ Sending(CallbackPrims)
    /\ LET msg == Message
       IN  vm' = CallbackPrimitive(Count(SetFrame(vm, Caller)), PrimOf(msg), msg.rcv, msg.args)

(* Future>>wait.  A settled future is consumed: its value is the answer, a *)
(* failed one signals FutureFailure.  A pending one suspends a scheduled   *)
(* actor, with the send done and nothing on the stack; on the root actor,  *)
(* as for a future already consumed, the primitive fails.                  *)
CallWait ==
    /\ Sending({"wait"})
    /\ LET s == Count(SetFrame(vm, Caller))
           consumed == [s EXCEPT !.future = <<"consumed">>]
       IN  vm' = CASE vm.future[1] = "resolved" -> PushValue(consumed, vm.future[2])
                   [] vm.future[1] = "failed" -> Signal(consumed, Who(s), Obj("FutureFailure"))
                   [] vm.future[1] = "pending" /\ Scheduled(vm) ->
                        Halt(PopHandler(s, Who(s)), "waiting")
                   [] OTHER -> Count(Invoke(Message, TRUE))

Returns == {"RETURN_TOP", "RETURN_SELF", "RETURN_NIL", "RETURN_TRUE", "RETURN_FALSE"}

Returned(f, op) ==
    CASE op = "RETURN_TOP" -> Last(f.stack)
      [] op = "RETURN_SELF" -> f.rcv
      [] op = "RETURN_NIL" -> Nil
      [] op = "RETURN_TRUE" -> True
      [] op = "RETURN_FALSE" -> False

ReturnValue ==
    /\ Runs(Returns)
    /\ vm' = ReturnTo(vm, Front(Top(vm).frames), Returned(Frame(vm), Insn.op))

(* A method reached by the scheduler starts at its primitive instruction;  *)
(* the result is left on the stack and execution goes on behind it.        *)
PrimitiveInsn ==
    /\ Runs({"PRIMITIVE"})
    /\ LET f == Frame(vm)
           v == SimplePrimitive(Insn.n, f.rcv, SubSeq(f.slots, 1, MethodOf(f.method).nargs))
           s == SetFrame(vm, Advance(f, Insn, 0))
       IN  vm' = IF v = Fail
                 THEN SetFrame(s, [Frame(s) EXCEPT !.slots[MethodOf(f.method).nargs + 1] = Fail])
                 ELSE PushValue(s, v)

(* Both copies make a closure; only OP_CLOSURE_COPY keeps the context. *)
BlockCopy ==
    /\ Runs({"BLOCK_COPY", "CLOSURE_COPY"})
    /\ LET f == Frame(vm)
           desc == LiteralAt(f, Insn.n)
           ctx == IF Insn.op = "CLOSURE_COPY" THEN f.ctx ELSE 0
       IN  vm' = PushValue(SetFrame(vm, [f EXCEPT !.pc = desc[2] + desc[3]]),
                           <<"clo", f.method, f.rcv, desc[2], desc[5], ctx>>)

(* The frames of this loop that could be the home of the current block. *)
Homes ==
    LET fs == Top(vm).frames
    IN  {j \in 1 .. Len(fs) - 1 : fs[j].home /\ fs[j].ctx = Frame(vm).ctx}

NonLocalReturn ==
    /\ Runs({"NON_LOCAL_RETURN"})
    /\ Homes # {}
    /\ vm' = ReturnTo(vm, SubSeq(Top(vm).frames, 1, Max(Homes) - 1), Last(Frame(vm).stack))

(* No home: the handler is reached without running ensure blocks. *)
BlockCannotReturn ==
    /\ Runs({"NON_LOCAL_RETURN"})
    /\ Homes = {}
    /\ LET exc == Obj("BlockCannotReturn")
           k == HandlerFind(vm, Who(vm), exc)
       IN  vm' = IF k = 0 THEN Halt(vm, "abort") ELSE JumpToHandler(vm, Who(vm), k, exc)

-----------------------------------------------------------------------------
(* Entry points. *)

(* The machine before anything runs. *)
Idle(status, ivars, globals, future) ==
    [loops |-> <<>>, ctxs |-> <<>>, chain |-> [root |-> <<>>, actor |-> <<>>],
     reductions |-> 0, ivars |-> ivars, globals |-> globals, future |-> future,
     status |-> status, result |-> Nil]

(* The method is started for rcv: by sta_interpret on the root actor, or   *)
(* by sta_interpret_actor under the actor's catch-all handler.             *)
StartRoot(s, m, rcv) ==
    PushFrame([s EXCEPT !.status = "running",
                        !.loops = <<[who |-> "root", sched |-> FALSE, frames |-> <<>>,
                                     cont |-> <<"interpret">>]>>],
              NewFrame(m, rcv, <<>>))

StartActor(s, m, rcv) ==
    PushHandler(PushFrame([s EXCEPT !.status = "running",
                                    !.loops = <<[who |-> "actor", sched |-> TRUE, frames |-> <<>>,
                                                 cont |-> <<"actor">>]>>],
                          NewFrame(m, rcv, <<>>)),
                "actor", CatchAll)

(* Mutant: the reductions already used still count. *)
ResumeSpent ==
    /\ vm.status = "preempted"
    /\ vm' = PushHandler([vm EXCEPT !.status = "running"], Who(vm), CatchAll)

(* sta_interpret_resume, when the scheduler runs the actor again: after    *)
(* preemption, or woken by the future it waits for.                        *)
Resume ==
    /\ \/ vm.status = "preempted"
       \/ vm.status = "waiting" /\ vm.future[1] # "pending"
    /\ vm' = PushHandler([vm EXCEPT !.status = "running", !.reductions = 0], Who(vm), CatchAll)

(* Another actor resolves or fails the future. *)
Settle(outcome) ==
    /\ vm.status \in {"running", "waiting", "preempted"}
    /\ vm.future[1] = "pending"
    /\ vm' = [vm EXCEPT !.future = outcome]

Finished == vm.status \in {"done", "exception", "abort", "rejected"}

(* The next instruction is outside the code, or takes more values from the *)
(* expression stack than its frame has pushed.                             *)
Corrupt ==
    /\ vm.status = "running"
    /\ ~InCode \/ Len(Frame(vm).stack) < Needs(Insn)

Step ==
    \/ Push \/ Store \/ PopDup \/ Jump \/ JumpBack
    \/ CallMethod \/ ActivateBlock \/ CallSimplePrimitive \/ CallBack \/ CallWait
    \/ Preempt \/ Resume \/ ReturnValue \/ PrimitiveInsn \/ BlockCopy
    \/ NonLocalReturn \/ BlockCannotReturn
=============================================================================
