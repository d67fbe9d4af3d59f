------------------------------ MODULE ActorHeap ------------------------------
(***************************************************************************)
(* The private heaps of the actors: bump allocation, the copying collector *)
(* with its root set, heap growth with its pointer fix-up, and the deep    *)
(* copy of message arguments from one heap into another (src/gc/gc.c,      *)
(* src/vm/heap.c, src/vm/frame.c, src/actor/deep_copy.c, the send path of  *)
(* src/actor/actor.c and the allocating primitives).                       *)
(*                                                                         *)
(* Every operation is run twice, on a machine with the code's heap and on  *)
(* an ideal one whose heap is unlimited, never collected and never moved.  *)
(* A pointer is <<"ptr", region, index>>; a region is a malloc'ed block,   *)
(* and a pointer into a region that has been freed is dangling.  Sizes are *)
(* counted in units of 16 bytes.                                           *)
(*                                                                         *)
(* The operations of an actor on its own heap are single steps.  A sender  *)
(* works on its target's heap from its own thread and without a lock, in   *)
(* steps between which the target runs.                                    *)
(***************************************************************************)
EXTENDS Integers, Sequences, FiniteSets, SequencesExt

CONSTANTS Actors,    \* the actors of the system
          Scenarios, \* what behaviours start from: [start, cap, uses, ops]
          MaxStack,  \* bound on an expression stack
          MaxFrames, \* bound on the frames of an actor
          MaxArgs    \* bound on the arguments of a message

VARIABLES real,      \* the machines of the actors
          ideal,     \* the same machines with unlimited heaps
          sending,   \* per actor, how far its send_msg_internal has come
          fault,     \* the window through which memory was lost, if any
          uses,      \* the operations this behaviour uses
          ops        \* operations it may still do

vars == <<real, ideal, sending, fault, uses, ops>>

Null == <<"null">>
Nil == <<"imm", "nil">>
Freed == <<"freed">>     \* what a read of freed memory finds
Unlimited == 1000

IsPtr(v) == v[1] = "ptr"
Own(m, v) == IsPtr(v) /\ v[2] = m.region

----------------------------------------------------------------------------
(* Objects.  id is a ghost: the number of the allocation.                  *)

Object(class, slots) == [id |-> 0, class |-> class, slots |-> slots]

\* The objects basicNew and basicNew: make: named slots hold nil, bytes zero.
Fresh(class) ==
  CASE class = "Pair" -> Object(class, <<Nil, Nil>>)
    [] class = "Unit" -> Object(class, <<>>)
    [] class = "Bytes" -> Object(class, <<<<"raw", 0>>>>)

Units(o) == 1 + (Len(o.slots) + 1) \div 2

Scannable(o) == IF o.class = "Bytes" THEN 0 ELSE Len(o.slots)

PointersOf(o) == {o.slots[k] : k \in 1 .. Scannable(o)}

UnitsOf(objs) == FoldLeft(LAMBDA sum, o : sum + Units(o), 0, objs)

Used(m) == UnitsOf(m.objs)
Fits(m, o) == Used(m) + Units(o) <= m.cap

\* sta_heap_alloc on a heap with room.
Put(m, o) == [m EXCEPT !.objs = Append(@, [o EXCEPT !.id = m.next]), !.next = @ + 1]

Newest(m) == <<"ptr", m.region, Len(m.objs)>>

----------------------------------------------------------------------------
(* Roots.  A frame whose sender is NULL ends the chain the collector walks;*)
(* its expression stack is swept up to the stack pointer, over the frames  *)
(* above it.                                                               *)

Base(m) == CHOOSE j \in DOMAIN m.frames :
             m.frames[j].first /\ \A i \in DOMAIN m.frames : m.frames[i].first => i <= j

Chain(m) == IF m.frames = <<>> THEN {} ELSE Base(m) .. Len(m.frames)

\* The messages sta_mailbox_walk reaches: it ends at the first missing link.
Walked(m) == {k \in DOMAIN m.mail : \A j \in 1 .. k : m.mail[j].linked}

FrameValues(f) == {f.receiver, f.context} \cup ToSet(f.slots) \cup ToSet(f.stack)

\* A scan that leaves out the arguments of the messages in the mailbox.
ScannedButMail(m) ==
  UNION {FrameValues(m.frames[j]) : j \in Chain(m)}
    \cup {m.handlers[k].block : k \in DOMAIN m.handlers}
    \cup {m.behavior, m.signaled}

ScannedValues(m) ==
  UNION {FrameValues(m.frames[j]) : j \in Chain(m)}
    \cup {m.handlers[k].block : k \in DOMAIN m.handlers}
    \cup {m.behavior, m.signaled}
    \cup UNION {ToSet(m.mail[k].args) : k \in Walked(m)}

\* The C locals of the on:do: primitives that are running.
Locals(m) == {m.handlers[k].local : k \in DOMAIN m.handlers}

\* What senders have copied into the heap for messages they have yet to post.
Arriving(m) == UNION {ToSet(m.arriving[a].args) \cup ToSet(m.arriving[a].copies) : a \in Actors}

\* Everything the program can still use.
LiveValues(m) ==
  UNION {FrameValues(m.frames[j]) : j \in DOMAIN m.frames}
    \cup {m.handlers[k].block : k \in DOMAIN m.handlers}
    \cup {m.behavior, m.signaled}
    \cup UNION {ToSet(m.mail[k].args) : k \in DOMAIN m.mail}
    \cup Locals(m) \cup Arriving(m) \cup ToSet(m.shared)

Targets(m, values) == {v[3] : v \in {w \in values : Own(m, w)}}

\* The value of every root replaced by F, in the frames js, the stacks of ss
\* and the messages ks.
OnRoots(m, F(_), js, ss, ks) ==
  LET Each(seq) == [k \in DOMAIN seq |-> F(seq[k])] IN
  [m EXCEPT
     !.frames = [j \in DOMAIN @ |->
        LET f == @[j]
            g == IF j \in js THEN [f EXCEPT !.receiver = F(@), !.context = F(@), !.slots = Each(@)]
                 ELSE f
        IN IF j \in ss THEN [g EXCEPT !.stack = Each(@)] ELSE g],
     !.handlers = [k \in DOMAIN @ |-> [@[k] EXCEPT !.block = F(@)]],
     !.behavior = F(@), !.signaled = F(@),
     !.mail = [k \in DOMAIN @ |-> IF k \in ks THEN [@[k] EXCEPT !.args = Each(@)] ELSE @[k]]]

----------------------------------------------------------------------------
(* Collection and growth.                                                  *)

\* The objects in the order Cheney's scan copies them, from the scan-th on.
RECURSIVE Cheney(_, _, _)
Cheney(m, queue, scan) ==
  IF scan > Len(queue) THEN queue
  ELSE LET found == Targets(m, PointersOf(m.objs[queue[scan]])) \ ToSet(queue)
       IN Cheney(m, queue \o SetToSortSeq(found, <), scan + 1)

NewRegion(m) == <<m.region[1], m.region[2] + 1>>

\* sta_gc_collect: the roots, then what they reach, move to a new region.
Collect(m) ==
  LET queue == Cheney(m, SetToSortSeq(Targets(m, ScannedValues(m)), <), 1)
      region == NewRegion(m)
      Copied(v) == IF Own(m, v) /\ v[3] \in ToSet(queue)
                     THEN <<"ptr", region, CHOOSE k \in DOMAIN queue : queue[k] = v[3]>> ELSE v
      Moved(o) == [o EXCEPT !.slots = [k \in DOMAIN @ |->
                                         IF k <= Scannable(o) THEN Copied(@[k]) ELSE @[k]]]
  IN [OnRoots(m, Copied, Chain(m), Chain(m), Walked(m)) EXCEPT
        !.objs = [k \in DOMAIN queue |-> Moved(m.objs[queue[k]])], !.region = region]

\* sta_heap_grow: the objects move as a block, their own pointers follow.
GrowRegion(m, cap) ==
  IF cap <= m.cap THEN m
  ELSE LET region == NewRegion(m)
           Shift(v) == IF Own(m, v) THEN <<"ptr", region, v[3]>> ELSE v
       IN [m EXCEPT !.cap = cap, !.region = region,
             !.objs = [k \in DOMAIN @ |-> [@[k] EXCEPT !.slots = [i \in DOMAIN @ |-> Shift(@[i])]]]]

\* The fix-up sta_heap_alloc_gc applies after growing: of the expression
\* stacks only the innermost frame's.
GrowOwn(m, cap) ==
  LET grown == GrowRegion(m, cap)
      Shift(v) == IF Own(m, v) THEN <<"ptr", grown.region, v[3]>> ELSE v
  IN OnRoots(grown, Shift, Chain(m), Chain(m) \cap {Len(m.frames)}, Walked(m))

\* The new capacity: doubled when three quarters survived, else half as much
\* again, and enough for the object in any case.
NewCap(m, o) ==
  LET wanted == IF Used(m) * 4 > m.cap * 3 THEN m.cap * 2 ELSE m.cap + m.cap \div 2
      needed == Used(m) + Units(o)
  IN IF wanted < needed THEN needed ELSE wanted

\* What a collection or a growth loses sight of.
Holds(m, values) == \E v \in values : Own(m, v)

CollectFaults(m) ==
  (IF Holds(m, UNION {FrameValues(m.frames[j]) : j \in DOMAIN m.frames \ Chain(m)})
     THEN {"outerLoop"} ELSE {})
  \cup (IF Holds(m, UNION {ToSet(m.mail[k].args) : k \in DOMAIN m.mail \ Walked(m)})
          THEN {"inFlight"} ELSE {})
  \cup (IF Holds(m, Arriving(m)) THEN {"arriving"} ELSE {})
  \cup (IF Holds(m, Locals(m)) THEN {"handlerLocal"} ELSE {})
  \cup (IF Holds(m, ToSet(m.shared)) THEN {"shared"} ELSE {})

GrowFaults(m) ==
  IF Holds(m, UNION {ToSet(m.frames[j].stack) : j \in Chain(m) \ {Len(m.frames)}})
    THEN {"outerStack"} ELSE {}

\* An operation's outcome: the machine after it and the memory it lost.
Outcome(m, faults) == [m |-> m, faults |-> faults]

\* Allocation that grows before it has collected.
AllocGrowing(m, o) ==
  IF Fits(m, o) THEN Outcome(Put(m, o), {})
  ELSE Outcome(Put(GrowOwn(m, NewCap(m, o)), o), GrowFaults(m))

\* sta_heap_alloc_gc: allocate, or collect and allocate, or grow and allocate.
AllocGC(m, o) ==
  IF Fits(m, o) THEN Outcome(Put(m, o), {})
  ELSE LET c == Collect(m) IN
       IF Fits(c, o) THEN Outcome(Put(c, o), CollectFaults(m))
       ELSE Outcome(Put(GrowOwn(c, NewCap(c, o)), o), CollectFaults(m) \cup GrowFaults(c))

\* The interpreter allocates closures and contexts with sta_heap_alloc: a full
\* heap ends the process.
AllocOrAbort(m, o) == IF Fits(m, o) THEN Outcome(Put(m, o), {}) ELSE Outcome(m, {"exhausted"})

----------------------------------------------------------------------------
(* Operations of a running actor, on a machine.                            *)

Top(m) == m.frames[Len(m.frames)]
OnTop(m, f) == [m EXCEPT !.frames[Len(m.frames)] = f]
StackTop(m) == Last(Top(m).stack)
Pushed(m, v) == OnTop(m, [Top(m) EXCEPT !.stack = Append(@, v)])
Popped(m, n) == OnTop(m, [Top(m) EXCEPT !.stack = SubSeq(@, 1, Len(@) - n)])

\* sta_frame_push; cached is the interpreter loop's slots pointer.
Frame(first, receiver, context, slots) ==
  [first |-> first, receiver |-> receiver, context |-> context, cached |-> context,
   slots |-> slots, stack |-> <<>>]

PushFrame(m, f) == [m EXCEPT !.frames = Append(@, f)]

\* The temporaries are in the frame or in the context object the loop cached.
StaleSlots(m) == IF Top(m).cached # Top(m).context THEN {"cachedSlots"} ELSE {}

DoPushTemp(m, k) ==
  LET f == Top(m) IN
  IF StaleSlots(m) # {} THEN Outcome(Pushed(m, Freed), StaleSlots(m))
  ELSE Outcome(Pushed(m, IF f.context = Null THEN f.slots[k] ELSE m.objs[f.context[3]].slots[k]), {})

DoPopTemp(m, k) ==
  LET f == Top(m) IN
  IF StaleSlots(m) # {} THEN Outcome(Popped(m, 1), StaleSlots(m))
  ELSE Outcome(IF f.context = Null
                 THEN Popped(OnTop(m, [f EXCEPT !.slots[k] = StackTop(m)]), 1)
                 ELSE Popped([m EXCEPT !.objs[f.context[3]].slots[k] = StackTop(m)], 1), {})

DoNew(m, class) ==
  LET a == AllocGC(m, Fresh(class)) IN Outcome(Pushed(a.m, Newest(a.m)), a.faults)

\* prim_shallow_copy reads the receiver again after the allocation.
DoShallowCopy(m) ==
  LET old == m.objs[StackTop(m)[3]]
      a == AllocGC(Popped(m, 1), old)
      copy == Len(a.m.objs)
  IN IF a.m.region = m.region \/ old.slots = <<>> THEN Outcome(Pushed(a.m, Newest(a.m)), a.faults)
     ELSE Outcome(Pushed([a.m EXCEPT !.objs[copy].slots = [k \in DOMAIN @ |-> Freed]], Newest(a.m)),
                  a.faults \cup {"staleReceiver"})

DoFetch(m, k) == Pushed(Popped(m, 1), m.objs[StackTop(m)[3]].slots[k])

DoAssign(m, k) ==
  LET stack == Top(m).stack IN
  Popped([m EXCEPT !.objs[stack[Len(stack) - 1][3]].slots[k] = StackTop(m)], 2)

DoBecome(m) ==
  LET i == StackTop(m)[3]
      j == Top(m).stack[Len(Top(m).stack) - 1][3]
  IN Popped([m EXCEPT !.objs[i] = m.objs[j], !.objs[j] = m.objs[i]], 1)

DoClosure(m) ==
  LET a == AllocOrAbort(m, Object("BlockClosure", <<Top(m).receiver, Top(m).context>>))
  IN IF a.faults # {} THEN a ELSE Outcome(Pushed(a.m, Newest(a.m)), {})

\* A send of a bytecode method; needsContext puts its temporary in the heap.
DoCall(m, needsContext) ==
  LET p == Popped(m, 1)
      a == AllocOrAbort(p, Object("Array", <<Nil>>))
  IN IF ~needsContext THEN Outcome(PushFrame(p, Frame(FALSE, StackTop(m), Null, <<Nil>>)), {})
     ELSE IF a.faults # {} THEN a
     ELSE Outcome(PushFrame(a.m, Frame(FALSE, StackTop(m), Newest(a.m), <<Nil>>)), {})

\* prim_on_do: the block on the stack becomes the handler, the body is a block
\* of this method, run by a loop of its own on a frame without a sender.
DoOnDo(m) ==
  LET p == Popped(m, 1)
      h == [block |-> StackTop(m), local |-> StackTop(m), depth |-> Len(m.frames)]
  IN PushFrame([p EXCEPT !.handlers = Append(@, h)], Frame(TRUE, Top(m).receiver, Top(m).context, <<Nil>>))

\* prim_signal and the second half of prim_on_do: the handler block, from the
\* primitive's local variable and not from the entry the collector updates, runs
\* with the exception as its argument, above the frame that called on:do:.
DoSignal(m) ==
  LET h == Last(m.handlers)
      c == [m EXCEPT !.handlers = Front(@), !.frames = SubSeq(@, 1, h.depth), !.signaled = StackTop(m)]
  IN PushFrame(c, Frame(TRUE, h.local, Null, <<StackTop(m)>>))

\* A return: to the sending frame, whose slots the loop looks up again, or from
\* a loop of its own to the primitive that ran it, or from the message.
DoReturn(m) ==
  LET v == IF Top(m).stack = <<>> THEN Top(m).receiver ELSE StackTop(m)
      out == [m EXCEPT !.frames = Front(@)]
      body == m.handlers # <<>> /\ Last(m.handlers).depth = Len(m.frames) - 1
      left == IF Top(m).first /\ body THEN [out EXCEPT !.handlers = Front(@)] ELSE out
  IN IF out.frames = <<>> THEN out
     ELSE IF Top(m).first THEN Pushed(left, v)
     ELSE Pushed(OnTop(left, [Top(left) EXCEPT !.cached = Top(left).context]), v)

\* The scheduler takes the next message: a frame on the behaviour object.
DoReceive(m) ==
  PushFrame([m EXCEPT !.mail = Tail(@)],
            Frame(TRUE, m.behavior, Null, Append(Head(m.mail).args, Nil)))

----------------------------------------------------------------------------
(* Deep copy of message arguments.                                         *)

\* The mutable objects copy_oop and estimate_oop visit from v, depth first.
RECURSIVE Visit(_, _, _)
Visit(m, seen, v) ==
  IF ~Own(m, v) \/ v[3] \in ToSet(seen) THEN seen
  ELSE LET o == m.objs[v[3]]
       IN FoldLeft(LAMBDA s, w : Visit(m, s, w), Append(seen, v[3]), SubSeq(o.slots, 1, Scannable(o)))

\* sta_deep_copy_estimate_roots: one visited set for all the arguments.
Estimate(m, args) ==
  LET seen == FoldLeft(LAMBDA s, v : Visit(m, s, v), <<>>, args)
  IN UnitsOf([k \in DOMAIN seen |-> m.objs[seen[k]]])

\* A new copy before its slots are filled: zeroed memory, and the raw bytes.
Blank(o) == [o EXCEPT !.slots = [k \in DOMAIN @ |-> IF k <= Scannable(o) THEN Null ELSE @[k]]]

\* A visited set that answers its newest entry.
CopyOfNewest(from, seen, copies, w) == IF Own(from, w) THEN Last(copies) ELSE w

\* visited_get, when the copies of the objects seen are in the visited set.
CopyOf(from, seen, copies, w) ==
  IF Own(from, w) THEN copies[CHOOSE k \in DOMAIN seen : seen[k] = w[3]] ELSE w

\* copy_heap_object, with the copy of the next object of argument v at p: the last
\* one completes the argument.  Every argument has a visited set of its own.
Copied(from, to, a, v, p) ==
  LET seen == Visit(from, <<>>, v)
      copies == Append(to.arriving[a].copies, p)
      Filled(i, k) == [Blank(from.objs[seen[k]]) EXCEPT
                         !.id = to.objs[i].id,
                         !.slots = [j \in DOMAIN @ |-> CopyOf(from, seen, copies, from.objs[seen[k]].slots[j])]]
      Index(i) == {k \in DOMAIN copies : copies[k] = <<"ptr", to.region, i>>}
  IN IF Len(copies) < Len(seen) THEN [to EXCEPT !.arriving[a].copies = copies]
     ELSE [to EXCEPT
             !.arriving[a] = [args |-> Append(@.args, CopyOf(from, seen, copies, v)), copies |-> <<>>],
             !.objs = [i \in DOMAIN @ |-> IF Index(i) = {} THEN @[i]
                                         ELSE Filled(i, CHOOSE k \in Index(i) : TRUE)]]

\* The heap's base and used, which sta_heap_alloc reads before it writes used.
Here(m) == <<m.region, Len(m.objs)>>

\* The second half of sta_heap_alloc, after base and used were read as here: what
\* the owner has allocated since is overwritten, and if it has moved its objects
\* since, the new one is in freed memory.
PutAt(m, o, here) ==
  IF m.region # here[1] THEN m ELSE Put([m EXCEPT !.objs = SubSeq(@, 1, here[2])], o)

----------------------------------------------------------------------------
(* The system.                                                             *)

Machine(a, s, cap) ==
  [region |-> <<a, 0>>, cap |-> cap, next |-> Len(s.objs) + 1,
   objs |-> [k \in DOMAIN s.objs |-> [s.objs[k] EXCEPT !.id = k]],
   frames |-> IF s.slots = <<>> THEN <<>> ELSE <<Frame(TRUE, <<"ptr", <<a, 0>>, 1>>, Null, s.slots)>>,
   handlers |-> <<>>, behavior |-> <<"ptr", <<a, 0>>, 1>>, signaled |-> Null, mail |-> <<>>,
   arriving |-> [b \in Actors |-> [args |-> <<>>, copies |-> <<>>]], shared |-> s.shared]

NotSending == [pc |-> "none", to |-> Null, nargs |-> 0, estimated |-> 0, here |-> Null]

Init ==
  /\ fault = {} /\ sending = [a \in Actors |-> NotSending]
  /\ \E s \in Scenarios :
       /\ real = [a \in Actors |-> Machine(a, s.start[a], s.cap)]
       /\ ideal = [a \in Actors |-> Machine(a, s.start[a], Unlimited)]
       /\ uses = s.uses /\ ops = s.ops

May(op) == op \in uses /\ fault = {} /\ ops > 0

\* Both machines of a take the step.
Both(a, r, i) ==
  /\ real' = [real EXCEPT ![a] = r.m]
  /\ ideal' = [ideal EXCEPT ![a] = i.m]
  /\ fault' = r.faults /\ ops' = ops - 1 /\ UNCHANGED <<sending, uses>>

Safely(a, r, i) == Both(a, Outcome(r, {}), Outcome(i, {}))

InSend(a) == \/ sending[a].pc # "none"
             \/ \E b \in Actors : \E k \in DOMAIN real[b].mail :
                  real[b].mail[k].from = a /\ ~real[b].mail[k].linked
Running(a, n, room) ==
  /\ real[a].frames # <<>> /\ ~InSend(a)
  /\ Len(Top(real[a]).stack) >= n
  /\ Len(Top(real[a]).stack) - n + room <= MaxStack

Refs(a, k) == LET s == Top(real[a]).stack IN Own(real[a], s[Len(s) - k + 1])
ObjAt(a, k) == LET s == Top(real[a]).stack IN real[a].objs[s[Len(s) - k + 1][3]]

PushTemp(a) == May("temps") /\ Running(a, 0, 1) /\ \E k \in DOMAIN Top(real[a]).slots :
                 Both(a, DoPushTemp(real[a], k), DoPushTemp(ideal[a], k))
PopTemp(a) == May("temps") /\ Running(a, 1, 0) /\ \E k \in DOMAIN Top(real[a]).slots :
                Both(a, DoPopTemp(real[a], k), DoPopTemp(ideal[a], k))
New(a) == May("new") /\ Running(a, 0, 1) /\ \E class \in {"Pair", "Unit", "Bytes"} :
            Both(a, DoNew(real[a], class), DoNew(ideal[a], class))
ShallowCopy(a) == /\ May("copy") /\ Running(a, 1, 1) /\ Refs(a, 1)
                  /\ Both(a, DoShallowCopy(real[a]), DoShallowCopy(ideal[a]))
Fetch(a) == May("fields") /\ Running(a, 1, 1) /\ Refs(a, 1) /\ \E k \in 1 .. Scannable(ObjAt(a, 1)) :
              Safely(a, DoFetch(real[a], k), DoFetch(ideal[a], k))
Assign(a) == May("fields") /\ Running(a, 2, 0) /\ Refs(a, 2) /\ \E k \in 1 .. Scannable(ObjAt(a, 2)) :
               Safely(a, DoAssign(real[a], k), DoAssign(ideal[a], k))
Become(a) == /\ May("become") /\ Running(a, 2, 1) /\ Refs(a, 1) /\ Refs(a, 2)
             /\ Len(ObjAt(a, 1).slots) = Len(ObjAt(a, 2).slots)
             /\ Safely(a, DoBecome(real[a]), DoBecome(ideal[a]))
Closure(a) == /\ May("closure") /\ Running(a, 0, 1)
              /\ Both(a, DoClosure(real[a]), DoClosure(ideal[a]))
Call(a) == /\ May("call") /\ Running(a, 1, 0) /\ Len(real[a].frames) < MaxFrames
           /\ \E needsContext \in BOOLEAN :
                Both(a, DoCall(real[a], needsContext), DoCall(ideal[a], needsContext))
OnDo(a) == /\ May("handlers") /\ Running(a, 1, 0) /\ Refs(a, 1) /\ Len(real[a].frames) < MaxFrames
           /\ Safely(a, DoOnDo(real[a]), DoOnDo(ideal[a]))
Signal(a) == /\ May("handlers") /\ Running(a, 1, 0) /\ real[a].handlers # <<>>
             /\ Safely(a, DoSignal(real[a]), DoSignal(ideal[a]))
Return(a) == /\ fault = {} /\ ops > 0 /\ Running(a, 0, 0)
             /\ Safely(a, DoReturn(real[a]), DoReturn(ideal[a]))
Receive(a) == /\ fault = {} /\ ops > 0 /\ real[a].frames = <<>>
              /\ real[a].mail # <<>> /\ Head(real[a].mail).linked
              /\ Safely(a, DoReceive(real[a]), DoReceive(ideal[a]))

(* send_msg_internal.  The arguments stay on the sender's stack until the  *)
(* message is posted; the target may take any of its steps in between.     *)

Args(m, n) == LET stack == Top(m).stack IN SubSeq(stack, Len(stack) - n + 1, Len(stack))
Argument(m, k, n) == Args(m, n)[k]

\* The estimate against the free space the target has now: immediates and
\* immutable objects are not copied at all.
SendEstimate(a, b) ==
  /\ May("send") /\ a # b
  /\ \E n \in 1 .. MaxArgs :
       /\ Running(a, n, 0)
       /\ LET estimated == Estimate(real[a], Args(real[a], n))
              pc == IF estimated = 0 THEN "post"
                    ELSE IF estimated > real[b].cap - Used(real[b]) THEN "grow" ELSE "copy"
              Taken(m, from) == IF estimated = 0 THEN [m EXCEPT !.arriving[a].args = Args(from, n)] ELSE m
          IN /\ sending' = [sending EXCEPT ![a] = [NotSending EXCEPT !.pc = pc, !.to = b, !.nargs = n,
                                                                    !.estimated = estimated]]
             /\ real' = [real EXCEPT ![b] = Taken(@, real[a])]
             /\ ideal' = [ideal EXCEPT ![b] = Taken(@, ideal[a])]
  /\ ops' = ops - 1 /\ UNCHANGED <<fault, uses>>

\* The target's heap grows without the fix-up of the target's roots.
SendGrow(a) ==
  LET b == sending[a].to
      needed == Used(real[b]) + sending[a].estimated
  IN /\ fault = {} /\ sending[a].pc = "grow"
     /\ real' = [real EXCEPT ![b] = GrowRegion(@, needed + needed \div 2)]
     /\ sending' = [sending EXCEPT ![a].pc = "copy"]
     /\ fault' = IF Holds(real[b], LiveValues(real[b])) THEN {"senderGrowth"} ELSE {}
     /\ UNCHANGED <<ideal, uses, ops>>

\* The argument send_msg_internal is at, and the object of it to be copied next.
Current(from, to, a) == Argument(from, Len(to.arriving[a].args) + 1, sending[a].nargs)
NextObject(from, to, a) ==
  from.objs[Visit(from, <<>>, Current(from, to, a))[Len(to.arriving[a].copies) + 1]]

AfterArguments(a, to) == IF Len(to.arriving[a].args) = sending[a].nargs THEN "post" ELSE "copy"

\* sta_deep_copy_gc shares an immediate or immutable argument.
SendShare(a) ==
  LET b == sending[a].to
      Shared(from, to) == [to EXCEPT !.arriving[a].args = Append(@, Current(from, to, a))]
  IN /\ fault = {} /\ sending[a].pc = "copy" /\ ~Own(real[a], Current(real[a], real[b], a))
     /\ real' = [real EXCEPT ![b] = Shared(real[a], @)]
     /\ ideal' = [ideal EXCEPT ![b] = Shared(ideal[a], @)]
     /\ sending' = [sending EXCEPT ![a].pc = AfterArguments(a, real'[b])]
     /\ UNCHANGED <<fault, uses, ops>>

\* sta_heap_alloc for the copy of the next object reads base, used and capacity.
\* Without room the sender collects, and perhaps grows, the target's heap.
SendAlloc(a) ==
  LET b == sending[a].to
      v == Current(real[a], real[b], a)
      o == Blank(NextObject(real[a], real[b], a))
      r == AllocGC(real[b], o)
      i == Put(ideal[b], o)
  IN /\ fault = {} /\ sending[a].pc = "copy" /\ Own(real[a], v)
     /\ \/ /\ Fits(real[b], o)
           /\ sending' = [sending EXCEPT ![a].pc = "store", ![a].here = Here(real[b])]
           /\ UNCHANGED <<real, ideal, fault>>
        \/ /\ ~Fits(real[b], o)
           /\ real' = [real EXCEPT ![b] = Copied(real[a], r.m, a, v, Newest(r.m))]
           /\ ideal' = [ideal EXCEPT ![b] = Copied(ideal[a], i, a, Current(ideal[a], ideal[b], a), Newest(i))]
           /\ sending' = [sending EXCEPT ![a].pc = AfterArguments(a, real'[b])]
           /\ fault' = r.faults \cup {"senderCollects"}
     /\ UNCHANGED <<uses, ops>>

\* It writes used and the object.  An allocation by the target in between is lost
\* here; the sender's loss in the reverse overlap is the same window.
SendStore(a) ==
  LET b == sending[a].to
      here == sending[a].here
      Stored(from, to, at) ==
        Copied(from, PutAt(to, Blank(NextObject(from, to, a)), at), a, Current(from, to, a),
               <<"ptr", at[1], at[2] + 1>>)
  IN /\ fault = {} /\ sending[a].pc = "store"
     /\ real' = [real EXCEPT ![b] = Stored(real[a], @, here)]
     /\ ideal' = [ideal EXCEPT ![b] = Stored(ideal[a], @, Here(@))]
     /\ sending' = [sending EXCEPT ![a].pc = AfterArguments(a, real'[b]), ![a].here = Null]
     /\ fault' = IF Here(real[b]) # here THEN {"racingHeap"} ELSE {}
     /\ UNCHANGED <<uses, ops>>

\* The message is in the mailbox, and its producer has yet to link it.
SendPost(a) ==
  LET b == sending[a].to
      Posted(m) == [m EXCEPT !.mail = Append(@, [args |-> m.arriving[a].args, linked |-> FALSE, from |-> a]),
                             !.arriving[a].args = <<>>]
  IN /\ fault = {} /\ sending[a].pc = "post"
     /\ real' = [real EXCEPT ![a] = Popped(@, sending[a].nargs), ![b] = Posted(@)]
     /\ ideal' = [ideal EXCEPT ![a] = Popped(@, sending[a].nargs), ![b] = Posted(@)]
     /\ sending' = [sending EXCEPT ![a] = NotSending]
     /\ UNCHANGED <<fault, uses, ops>>

\* The producer's last store of sta_mailbox_enqueue: the message is in the list.
Link(b, k) ==
  /\ fault = {} /\ ~real[b].mail[k].linked
  /\ real' = [real EXCEPT ![b].mail[k].linked = TRUE]
  /\ ideal' = [ideal EXCEPT ![b].mail[k].linked = TRUE]
  /\ UNCHANGED <<sending, fault, uses, ops>>

Next ==
  \/ \E a \in Actors : \/ PushTemp(a) \/ PopTemp(a) \/ New(a) \/ ShallowCopy(a) \/ Fetch(a)
                       \/ Assign(a) \/ Become(a) \/ Closure(a) \/ Call(a) \/ OnDo(a)
                       \/ Signal(a) \/ Return(a) \/ Receive(a)
                       \/ SendGrow(a) \/ SendShare(a) \/ SendAlloc(a) \/ SendStore(a) \/ SendPost(a)
  \/ \E a, b \in Actors : SendEstimate(a, b)
  \/ \E b \in Actors : \E k \in DOMAIN real[b].mail : Link(b, k)

Spec == Init /\ [][Next]_vars
----------------------------------------------------------------------------
(* Properties.                                                             *)

\* What the program sees of a machine: its roots and the objects they reach,
\* with the number of the object in place of every pointer.
Seen(m, v) == IF ~IsPtr(v) THEN v
              ELSE IF Own(m, v) /\ v[3] \in DOMAIN m.objs THEN <<"obj", m.objs[v[3]].id>>
              ELSE <<"dangling">>

View(m) ==
  LET Each(seq) == [k \in DOMAIN seq |-> Seen(m, seq[k])]
      live == ToSet(Cheney(m, SetToSeq(Targets(m, LiveValues(m))), 1))
      Shown(o) == [o EXCEPT !.slots = Each(@)]
      SeenHere(v) == Seen(m, v)
      r == OnRoots(m, SeenHere, DOMAIN m.frames, DOMAIN m.frames, DOMAIN m.mail)
  IN [frames |-> [j \in DOMAIN r.frames |-> [r.frames[j] EXCEPT !.cached = Null]],
      handlers |-> [k \in DOMAIN r.handlers |-> [r.handlers[k] EXCEPT !.local = Seen(m, @)]],
      arriving |-> [a \in Actors |-> [args |-> Each(m.arriving[a].args), copies |-> Each(m.arriving[a].copies)]],
      behavior |-> r.behavior, signaled |-> r.signaled,
      mail |-> r.mail, shared |-> Each(m.shared), objs |-> {Shown(m.objs[i]) : i \in live}]

Dangling(m) == \/ \E v \in LiveValues(m) : IsPtr(v) /\ Seen(m, v) = <<"dangling">>
               \/ \E o \in View(m).objs : <<"dangling">> \in ToSet(o.slots)

\* Collecting, growing and copying are invisible to the program: what it can
\* reach is what it would reach on a heap without limit, and nothing it can reach
\* lies in freed memory or in another actor's heap.
SameAsUnlimited == \A a \in Actors : ~Dangling(real[a]) /\ View(real[a]) = View(ideal[a])

\* The memory of an actor is sound except behind the windows that fault names
\* (sta_gc_collect, sta_heap_grow, sta_heap_alloc_gc, sta_deep_copy_gc).
HeapFaithful == fault = {} => SameAsUnlimited

\* Growing the heap keeps every object the program can reach: the fix-up of
\* sta_heap_alloc_gc covers all the roots the collector knows of.
GrowthKeepsRoots == fault \in {{}, {"outerStack"}} => SameAsUnlimited

\* A message that is not in the list yet is safe from the collector, as the
\* comment on the mailbox walk in gc_scan_roots says.
UnlinkedIsSafe == fault \in {{}, {"inFlight"}} => SameAsUnlimited

\* The interpreter's slots pointer survives the primitives it calls.
SlotsStayValid == fault \in {{}, {"cachedSlots"}} => SameAsUnlimited

\* The value a path of slot numbers leads to from v, and whether it leads anywhere.
RECURSIVE Follow(_, _, _)
Follow(m, v, path) ==
  IF path = <<>> THEN v
  ELSE IF ~Own(m, v) \/ Head(path) > Scannable(m.objs[v[3]]) THEN <<"nowhere">>
  ELSE Follow(m, m.objs[v[3]].slots[Head(path)], Tail(path))

Paths == UNION {[1 .. n -> {1, 2}] : n \in 0 .. 2}

\* An argument arrives as it was sent: along every path the copy has an object of
\* the same class with the same bytes, two paths meet in the copy exactly if they
\* meet in the original, and immediates and immutable objects are shared
\* (copy_oop, copy_heap_object with its visited set).
SameShape(m, v, n, w) ==
  /\ \A p \in Paths :
       LET x == Follow(m, v, p)  y == Follow(n, w, p) IN
       /\ Own(m, x) <=> Own(n, y)
       /\ ~Own(m, x) => x = y
       /\ Own(m, x) => LET o == m.objs[x[3]]  c == n.objs[y[3]] IN
                         o.class = c.class /\ (o.class = "Bytes" => o.slots = c.slots)
  /\ \A p, q \in Paths : LET x == Follow(m, v, p) IN
       Own(m, x) => (x = Follow(m, v, q) <=> Follow(n, w, p) = Follow(n, w, q))

\* Every message carries a faithful copy of each of its arguments, whatever they
\* share and wherever they are cyclic (send_msg_internal, sta_deep_copy_gc).
ArgumentsArriveIntact ==
  [][\A a, b \in Actors :
       Len(real'[b].mail) > Len(real[b].mail) /\ Last(real'[b].mail).from = a /\ fault' = {}
         => LET args == Last(real'[b].mail).args
                stack == Top(real[a]).stack
            IN \A k \in DOMAIN args :
                 SameShape(real[a], stack[Len(stack) - Len(args) + k], real'[b], args[k])]_vars

\* A heap grows on its owner's allocation only if the live objects leave no room:
\* garbage alone never makes it grow (sta_heap_alloc_gc collects first).
GrowsOnlyWhenFull ==
  [][\A a \in Actors :
       real'[a].cap > real[a].cap /\ sending' = sending
         => LET live == Cheney(real[a], SetToSeq(Targets(real[a], ScannedValues(real[a]))), 1)
            IN UnitsOf([k \in DOMAIN live |-> real[a].objs[live[k]]]) + Units(Last(real'[a].objs))
                 > real[a].cap]_vars
=============================================================================
