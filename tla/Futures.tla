------------------------------ MODULE Futures ------------------------------
(***************************************************************************)
(* Asks and their futures: sta_actor_ask_msg and the reply and crash       *)
(* routes of src/actor/actor.c, src/actor/future.c, and prim_future_wait   *)
(* with the way the interpreter resumes it.  C code asks (and holds the    *)
(* caller's reference), one target actor works through its mailbox, and    *)
(* waiting actors run Future>>wait.                                        *)
(*                                                                         *)
(* A step is one access of shared memory, in the order of the code.  The   *)
(* mailbox is the queue that Mailbox implements, with the gap its          *)
(* producers leave: a message is in it before it is linked, and hides the  *)
(* ones behind it until then.  The table is the map that FutureTable       *)
(* implements.                                                             *)
(***************************************************************************)
EXTENDS Integers, Sequences, FiniteSets, Functions

CONSTANTS Asks,      \* the asks made, each with its future
          Waiters,   \* actors that call Future>>wait once
          WaitsFor,  \* on which future each of them waits
          Retried,   \* those that reach the primitive through OP_PRIMITIVE
          Mutable,   \* asks answered with a mutable object
          Outcomes,  \* how the target may end an ask
          Capacity,  \* of the target's mailbox
          NULL

ASSUME FuturesAssumption ==
  /\ IsFiniteSet(Waiters)
  /\ WaitsFor \in [Waiters -> Asks]
  /\ Retried \subseteq Waiters /\ Mutable \subseteq Asks
  /\ Outcomes \subseteq {"reply", "nomem", "unknown", "crash", "terminated"}
  /\ Capacity \in Nat /\ NULL \notin Asks \cup Waiters

VARIABLES
  state, value, heap,   \* per future: state, result_buf, transfer_heap
  refs, waiter,         \* refcount, waiter_actor_id
  table,                \* futures in the future table
  freed,                \* futures that have been freed
  apc,                  \* per ask: progress of sta_actor_ask_msg
  box,                  \* the target's mailbox: futures of the queued asks
  tpc, cur, mode,       \* the target: where, with which future, to what end
  index,                \* next message sta_mailbox_walk visits
  wpc, got,             \* per waiter: where, what the primitive answered
  astate,               \* per waiter: the actor's state
  due,                  \* history: asks the target ran or could reach when it
                        \* crashed, but for those without memory for a reason
  dropped,              \* history: asks discarded, or settled without memory
  takes                 \* history: how often a future was taken out of the table
                        \* by one that then releases the table's reference

futureVars == <<state, value, heap, refs, waiter, table, freed, takes>>
targetVars == <<box, tpc, cur, mode, index, due, dropped>>
waiterVars == <<wpc, got, astate>>
vars == <<state, value, heap, refs, waiter, table, freed, apc, box, tpc, cur,
          mode, index, wpc, got, astate, due, dropped, takes>>

Final == {"RESOLVED", "FAILED"}

TypeOK ==
  /\ state \in [Asks -> {"NONE", "PENDING", "RESOLVING", "FAILING"} \cup Final]
  /\ value \in [Asks -> {"none", "reply", "failure"}]
  /\ heap \in [Asks -> {"none", "present", "taken"}]
  /\ refs \in [Asks -> Nat]
  /\ waiter \in [Asks -> Waiters \cup {NULL}]
  /\ table \subseteq Asks /\ freed \subseteq Asks /\ due \subseteq Asks
  /\ dropped \subseteq Asks /\ takes \in [Asks -> Nat]
  /\ apc \in [Asks -> {"idle", "send", "link", "held", "refused", "done"}]
  /\ box \in Seq(Asks)
  /\ tpc \in {"idle", "lookup", "cas", "store", "publish", "wake", "remove",
              "rel1", "rel2", "walk", "terminate", "drain"}
  /\ cur \in Asks \cup {NULL} /\ mode \in {"reply", "nomem", "crash"}
  /\ index \in Nat
  /\ wpc \in [Waiters -> {"start", "load", "set", "recheck", "drop", "suspend",
                          "asleep", "queued", "copy", "remove", "rel1", "rel2",
                          "done", "twice"}]
  /\ got \in [Waiters -> {"none", "reply", "failure", "self", "nothing", "dangling"}]
  /\ astate \in [Waiters -> {"RUNNING", "SUSPENDED", "READY"}]

Init ==
  /\ state = [f \in Asks |-> "NONE"] /\ value = [f \in Asks |-> "none"]
  /\ heap = [f \in Asks |-> "none"] /\ refs = [f \in Asks |-> 0]
  /\ waiter = [f \in Asks |-> NULL]
  /\ table = {} /\ freed = {} /\ due = {} /\ dropped = {}
  /\ takes = [f \in Asks |-> 0]
  /\ apc = [f \in Asks |-> "idle"]
  /\ box = <<>> /\ tpc = "idle" /\ cur = NULL /\ mode = "reply"
  /\ index = 1
  /\ wpc = [w \in Waiters |-> "start"] /\ got = [w \in Waiters |-> "none"]
  /\ astate = [w \in Waiters |-> "RUNNING"]

Retain(f) == refs' = [refs EXCEPT ![f] = @ + 1] /\ UNCHANGED freed

\* sta_future_release
Release(f) ==
  /\ refs' = [refs EXCEPT ![f] = @ - 1]
  /\ freed' = IF refs[f] = 1 THEN freed \cup {f} ELSE freed

-----------------------------------------------------------------------------
(* sta_actor_ask_msg, called from C *)

\* The target is found and not TERMINATED: sta_future_table_new, with one
\* reference for the caller and one for the table.
Ask(f) ==
  /\ apc[f] = "idle" /\ tpc # "drain"
  /\ state' = [state EXCEPT ![f] = "PENDING"]
  /\ refs' = [refs EXCEPT ![f] = 2]
  /\ table' = table \cup {f}
  /\ apc' = [apc EXCEPT ![f] = "send"]
  /\ UNCHANGED <<value, heap, waiter, freed, takes, targetVars, waiterVars>>

\* send_msg_internal: sta_mailbox_enqueue puts the message at the end of the
\* list ...
Send(f) ==
  /\ apc[f] = "send" /\ Len(box) < Capacity
  /\ box' = Append(box, f)
  /\ apc' = [apc EXCEPT ![f] = "link"]
  /\ UNCHANGED <<futureVars, tpc, cur, mode, index, due, dropped, waiterVars>>

\* ... and then links it to its predecessor.
Link(f) ==
  /\ apc[f] = "link"
  /\ apc' = [apc EXCEPT ![f] = "held"]
  /\ UNCHANGED <<futureVars, targetVars, waiterVars>>

\* The mailbox is full, or memory is: fail_and_cleanup_future on a future that
\* nobody else knows of, left PENDING if there is no memory for the reason.
Refuse(f) ==
  /\ apc[f] = "send"
  /\ Len(box) >= Capacity \/ "nomem" \in Outcomes
  /\ \/ /\ state' = [state EXCEPT ![f] = "FAILED"]
        /\ value' = [value EXCEPT ![f] = "failure"]
     \/ "nomem" \in Outcomes /\ UNCHANGED <<state, value>>
  /\ table' = table \ {f}
  /\ Release(f)
  /\ apc' = [apc EXCEPT ![f] = "refused"]
  /\ UNCHANGED <<heap, waiter, takes, targetVars, waiterVars>>

\* The caller gives its reference back.
ReleaseCaller(f) ==
  /\ apc[f] = "held"
  /\ Release(f)
  /\ apc' = [apc EXCEPT ![f] = "done"]
  /\ UNCHANGED <<state, value, heap, waiter, table, takes, targetVars, waiterVars>>

-----------------------------------------------------------------------------
(* The target: sta_actor_process_one_preemptible on its mailbox *)

\* The thread holds the reference of its table lookup.
Looked == {"cas", "store", "publish", "wake", "remove", "rel1", "rel2"}

\* What follows when the target is through with cur.
Onward(m) == IF m = "crash" THEN "walk" ELSE "idle"

\* The next message can be reached: it has been linked.
HasNext == box # <<>> /\ apc[Head(box)] # "link"

\* Faulty: pending_future_id is lost while the method runs.
TakeForgets ==
  /\ tpc = "idle" /\ HasNext
  /\ box' = Tail(box)
  /\ UNCHANGED <<tpc, cur, mode, index, due, dropped, futureVars, apc, waiterVars>>

\* The queued asks that sta_mailbox_walk would visit.
Reachable ==
  {box[i] : i \in {k \in 1..Len(box) : \A j \in 1..k : apc[box[j]] # "link"}}

\* The next ask is dequeued and run.  It ends in a reply (for which memory may
\* be missing), in an unhandled exception, or no method is found and the
\* message is dropped.
Take ==
  /\ tpc = "idle" /\ HasNext
  /\ box' = Tail(box)
  /\ \E o \in Outcomes \ {"terminated"} :
       /\ tpc' = IF o = "unknown" THEN "idle" ELSE "lookup"
       /\ mode' = IF o = "unknown" THEN mode ELSE o
       /\ cur' = IF o = "unknown" THEN NULL ELSE Head(box)
       /\ due' = IF o = "crash" THEN Reachable ELSE due
       /\ dropped' = IF o \in {"nomem", "unknown"} THEN dropped \cup {Head(box)}
                                                  ELSE dropped
  /\ UNCHANGED <<index, futureVars, apc, waiterVars>>

\* sta_actor_terminate by another thread: no more messages are run.
Terminated ==
  /\ tpc = "idle" /\ "terminated" \in Outcomes
  /\ tpc' = "drain"
  /\ UNCHANGED <<box, cur, mode, index, due, dropped, futureVars, apc, waiterVars>>

\* sta_future_table_lookup in route_reply or fail_future_for_crash.  Without
\* memory for the result a reply is dropped, and a crash skips the failing.
Lookup ==
  /\ tpc = "lookup"
  /\ IF cur \in table
       THEN /\ Retain(cur)
            /\ \/ mode # "nomem" /\ tpc' = "cas"
               \/ mode = "nomem" /\ tpc' = "rel2"
               \/ mode = "crash" /\ "nomem" \in Outcomes /\ tpc' = "remove"
            /\ due' = IF tpc' = "remove" THEN due \ {cur} ELSE due
            /\ dropped' = IF tpc' = "remove" THEN dropped \cup {cur} ELSE dropped
       ELSE tpc' = Onward(mode) /\ UNCHANGED <<refs, freed, due, dropped>>
  /\ UNCHANGED <<box, cur, mode, index, state, value, heap, waiter, table,
                 takes, apc, waiterVars>>

\* After sta_future_resolve or sta_future_fail.
Settled == IF mode = "crash" THEN "remove" ELSE "rel2"

\* Faulty: the final state is set before the result is stored.
CasPublishes ==
  /\ tpc = "cas"
  /\ IF state[cur] = "PENDING"
       THEN /\ state' = [state EXCEPT ![cur] =
                           IF mode = "crash" THEN "FAILED" ELSE "RESOLVED"]
            /\ tpc' = "store"
       ELSE tpc' = Settled /\ UNCHANGED state
  /\ UNCHANGED <<box, cur, mode, index, due, dropped, value, heap, refs, waiter, table,
                 freed, takes, apc, waiterVars>>

\* sta_future_resolve, sta_future_fail: only the winner of the CAS goes on.
Cas ==
  /\ tpc = "cas"
  /\ IF state[cur] = "PENDING"
       THEN /\ state' = [state EXCEPT ![cur] =
                           IF mode = "crash" THEN "FAILING" ELSE "RESOLVING"]
            /\ tpc' = "store"
       ELSE tpc' = Settled /\ UNCHANGED state
  /\ UNCHANGED <<box, cur, mode, index, due, dropped, value, heap, refs, waiter, table,
                 freed, takes, apc, waiterVars>>

\* The plain stores of the result.
Store ==
  /\ tpc = "store"
  /\ value' = [value EXCEPT ![cur] = IF mode = "crash" THEN "failure" ELSE "reply"]
  /\ heap' = [heap EXCEPT ![cur] =
                IF mode = "reply" /\ cur \in Mutable THEN "present" ELSE @]
  /\ tpc' = "publish"
  /\ UNCHANGED <<box, cur, mode, index, due, dropped, state, refs, waiter, table, freed,
                 takes, apc, waiterVars>>

Publish ==
  /\ tpc = "publish"
  /\ state' = [state EXCEPT ![cur] = IF mode = "crash" THEN "FAILED" ELSE "RESOLVED"]
  /\ tpc' = "wake"
  /\ UNCHANGED <<box, cur, mode, index, due, dropped, value, heap, refs, waiter, table,
                 freed, takes, apc, waiterVars>>

\* wake_waiter: a recorded waiter that is SUSPENDED becomes READY.
Wake ==
  /\ tpc = "wake"
  /\ astate' = [w \in Waiters |->
                 IF waiter[cur] = w /\ astate[w] = "SUSPENDED" THEN "READY"
                                                             ELSE astate[w]]
  /\ tpc' = Settled
  /\ UNCHANGED <<box, cur, mode, index, due, dropped, futureVars, apc, wpc, got>>

\* fail_future_for_crash takes the future out of the table ...
RemoveFailed ==
  /\ tpc = "remove"
  /\ table' = table \ {cur}
  /\ takes' = [takes EXCEPT ![cur] = @ + 1]
  /\ tpc' = "rel1"
  /\ UNCHANGED <<box, cur, mode, index, due, dropped, state, value, heap, refs, waiter,
                 freed, apc, waiterVars>>

\* ... and releases the table's reference,
ReleaseTable ==
  /\ tpc = "rel1"
  /\ Release(cur)
  /\ tpc' = "rel2"
  /\ UNCHANGED <<box, cur, mode, index, due, dropped, state, value, heap, waiter, table,
                 takes, apc, waiterVars>>

\* then, as route_reply does, that of the lookup.
ReleaseLookup ==
  /\ tpc = "rel2"
  /\ Release(cur)
  /\ tpc' = Onward(mode)
  /\ UNCHANGED <<box, cur, mode, index, due, dropped, state, value, heap, waiter, table,
                 takes, apc, waiterVars>>

\* Faulty: the walk stops before the last message.
WalkStopsShort ==
  /\ tpc = "walk"
  /\ IF index < Len(box) /\ apc[box[index]] # "link"
       THEN cur' = box[index] /\ index' = index + 1 /\ tpc' = "lookup"
       ELSE tpc' = "terminate" /\ UNCHANGED <<cur, index>>
  /\ UNCHANGED <<box, mode, due, dropped, futureVars, apc, waiterVars>>

\* handle_actor_exception after the current future: sta_mailbox_walk fails the
\* futures of the queued asks, up to one that is not linked yet.
Walk ==
  /\ tpc = "walk"
  /\ IF index <= Len(box) /\ apc[box[index]] # "link"
       THEN cur' = box[index] /\ index' = index + 1 /\ tpc' = "lookup"
       ELSE tpc' = "terminate" /\ UNCHANGED <<cur, index>>
  /\ UNCHANGED <<box, mode, due, dropped, futureVars, apc, waiterVars>>

\* The CAS to TERMINATED.
Terminate ==
  /\ tpc = "terminate" /\ tpc' = "drain"
  /\ UNCHANGED <<box, cur, mode, index, due, dropped, futureVars, apc, waiterVars>>

\* drain_mailbox, or sta_mailbox_destroy in the end: messages are discarded.
Drain ==
  /\ tpc = "drain" /\ HasNext
  /\ box' = Tail(box) /\ dropped' = dropped \cup {Head(box)}
  /\ UNCHANGED <<tpc, cur, mode, index, due, futureVars, apc, waiterVars>>

-----------------------------------------------------------------------------
(* A waiting actor: prim_future_wait, its suspension and its resumption *)

At(w, here) == wpc[w] = here
Go(w, there) == wpc' = [wpc EXCEPT ![w] = there]

\* Faulty: the lookup hands out the table's own reference.
WaitLookupBorrows(w) ==
  /\ At(w, "start") /\ apc[WaitsFor[w]] \in {"held", "done"}
  /\ WaitsFor[w] \in table /\ Go(w, "load")
  /\ UNCHANGED <<futureVars, apc, targetVars, got, astate>>

\* The table lookup.  A future no longer in the table is a bad receiver, on
\* which Future>>wait falls back to answering itself.
WaitLookup(w) ==
  /\ At(w, "start") /\ apc[WaitsFor[w]] \in {"held", "done"}
  /\ IF WaitsFor[w] \in table
       THEN Retain(WaitsFor[w]) /\ Go(w, "load") /\ UNCHANGED got
       ELSE Go(w, "done") /\ got' = [got EXCEPT ![w] = "self"]
                         /\ UNCHANGED <<refs, freed>>
  /\ UNCHANGED <<state, value, heap, waiter, table, takes, apc, targetVars, astate>>

\* The state is loaded: a final one is consumed.
WaitLoad(w) ==
  /\ At(w, "load")
  /\ Go(w, IF state[WaitsFor[w]] \in Final THEN "copy" ELSE "set")
  /\ UNCHANGED <<futureVars, apc, targetVars, got, astate>>

WaitSet(w) ==
  /\ At(w, "set")
  /\ waiter' = [waiter EXCEPT ![WaitsFor[w]] = w]
  /\ Go(w, "recheck")
  /\ UNCHANGED <<state, value, heap, refs, table, freed, takes, apc, targetVars, got,
                 astate>>

WaitRecheck(w) ==
  /\ At(w, "recheck")
  /\ Go(w, IF state[WaitsFor[w]] \in Final THEN "copy" ELSE "drop")
  /\ UNCHANGED <<futureVars, apc, targetVars, got, astate>>

WaitDrop(w) ==
  /\ At(w, "drop")
  /\ Release(WaitsFor[w])
  /\ Go(w, "suspend")
  /\ UNCHANGED <<state, value, heap, waiter, table, takes, apc, targetVars, got, astate>>

\* The CAS RUNNING -> SUSPENDED, and STA_PRIM_SUSPEND to the interpreter.
WaitSuspend(w) ==
  /\ At(w, "suspend")
  /\ astate' = [astate EXCEPT ![w] = "SUSPENDED"]
  /\ Go(w, "asleep")
  /\ UNCHANGED <<futureVars, apc, targetVars, got>>

\* Faulty: the worker leaves the actor as it is and trusts wake_waiter.
RequeueNever(w) ==
  /\ At(w, "asleep") /\ Go(w, "queued")
  /\ UNCHANGED <<futureVars, apc, targetVars, got, astate>>

\* The worker takes the suspension for a preemption: it stores READY, whatever
\* wake_waiter has done meanwhile, and queues the actor.
Requeue(w) ==
  /\ At(w, "asleep")
  /\ astate' = [astate EXCEPT ![w] = "READY"]
  /\ Go(w, "queued")
  /\ UNCHANGED <<futureVars, apc, targetVars, got>>

\* A worker claims the actor and runs it again: OP_PRIMITIVE calls the primitive
\* once more, OP_SEND has advanced its pc and goes on with nothing pushed.  When
\* wake_waiter has queued the actor before the worker that suspended it has let
\* go of it, two workers have it, and the model follows it no further.
Resume(w) ==
  /\ wpc[w] \in {"asleep", "queued"} /\ astate[w] = "READY"
  /\ astate' = [astate EXCEPT ![w] = "RUNNING"]
  /\ \/ At(w, "asleep") /\ Go(w, "twice") /\ UNCHANGED got
     \/ At(w, "queued") /\ w \in Retried /\ Go(w, "start") /\ UNCHANGED got
     \/ /\ At(w, "queued") /\ w \notin Retried
        /\ Go(w, "done") /\ got' = [got EXCEPT ![w] = "nothing"]
  /\ UNCHANGED <<futureVars, apc, targetVars>>

\* copy_future_result takes the transfer heap; handle_failed reads the reason.
WaitCopy(w) ==
  LET f == WaitsFor[w] IN
  /\ At(w, "copy")
  /\ got' = [got EXCEPT ![w] = IF heap[f] = "taken" THEN "dangling" ELSE value[f]]
  /\ heap' = [heap EXCEPT ![f] = IF @ = "present" THEN "taken" ELSE @]
  /\ Go(w, "remove")
  /\ UNCHANGED <<state, value, refs, waiter, table, freed, takes, apc, targetVars,
                 astate>>

\* consume_future: out of the table, then two releases.
WaitRemove(w) ==
  /\ At(w, "remove")
  /\ table' = table \ {WaitsFor[w]}
  /\ takes' = [takes EXCEPT ![WaitsFor[w]] = @ + 1]
  /\ Go(w, "rel1")
  /\ UNCHANGED <<state, value, heap, refs, waiter, freed, apc, targetVars, got, astate>>

WaitRelease(w) ==
  /\ wpc[w] \in {"rel1", "rel2"}
  /\ Release(WaitsFor[w])
  /\ Go(w, IF At(w, "rel1") THEN "rel2" ELSE "done")
  /\ UNCHANGED <<state, value, heap, waiter, table, takes, apc, targetVars, got, astate>>

-----------------------------------------------------------------------------
Target ==
  \/ Take \/ Lookup \/ Cas \/ Store \/ Publish \/ Wake \/ RemoveFailed
  \/ ReleaseTable \/ ReleaseLookup \/ Walk \/ Terminate \/ Drain

Wait(w) ==
  \/ WaitLookup(w) \/ WaitLoad(w) \/ WaitSet(w) \/ WaitRecheck(w)
  \/ WaitDrop(w) \/ WaitSuspend(w) \/ Requeue(w) \/ Resume(w) \/ WaitCopy(w)
  \/ WaitRemove(w) \/ WaitRelease(w)

Call(f) == Ask(f) \/ Send(f) \/ Link(f) \/ Refuse(f)

Next ==
  \/ \E f \in Asks : Call(f) \/ ReleaseCaller(f)
  \/ Target \/ Terminated
  \/ \E w \in Waiters : Wait(w)

Spec == Init /\ [][Next]_vars

\* Worker threads run: a queued actor is executed, a started call goes on.
FairSpec ==
  /\ Spec /\ WF_vars(Target)
  /\ \A f \in Asks : WF_vars(Send(f) \/ Link(f) \/ Refuse(f))
  /\ \A w \in Waiters : WF_vars(Wait(w))

-----------------------------------------------------------------------------
(* Properties *)

\* References in use: the caller's, the table's (until whoever took the future
\* out has released it), and those of table lookups under way.
Holders(f) ==
  LET waiting(places) == {w \in Waiters : WaitsFor[w] = f /\ wpc[w] \in places}
      one(b) == IF b THEN 1 ELSE 0
  IN one(apc[f] \in {"send", "link", "held"})
     + one(f \in table \/ (tpc = "rel1" /\ cur = f) \/ waiting({"rel1"}) # {})
     + one(tpc \in Looked /\ cur = f)
     + Cardinality(waiting({"load", "set", "recheck", "drop", "copy", "remove",
                            "rel1", "rel2"}))

\* No two have taken the future out of the table, each to release the table's
\* reference, and none of its waiters is in the hands of two workers.
TakenOnce(f) ==
  /\ takes[f] <= 1
  /\ \A w \in Waiters : WaitsFor[w] = f => wpc[w] # "twice"

\* A future is not freed under anyone before two have taken it out of the table:
\* its refcount covers every reference in use, whatever the order in which the
\* caller, the replying or crashing target and the waiters release it
\* (sta_future_release, consume_future, fail_future_for_crash).
RefsCover == \A f \in Asks : TakenOnce(f) => refs[f] >= Holders(f)

\* Whoever takes a future out of the table is the only one: a waiter that finds
\* a future failed and the crashing target that has failed it both call
\* sta_future_table_remove and release the table's reference.
ConsumedOnce == \A f \in Asks : takes[f] <= 1

\* No reference is forgotten: a future nobody refers to has been freed.
NoLeak == \A f \in Asks : refs[f] <= Holders(f)

\* A waiter that has read a result has read all of it: the value and the
\* transfer heap published with the final state it saw (prim_future_wait).
ReadsSettled ==
  \A w \in Waiters : wpc[w] \in {"remove", "rel1", "rel2"} =>
    got[w] = IF state[WaitsFor[w]] = "RESOLVED" THEN "reply" ELSE "failure"

\* A crash fails the ask that was running when it struck and every one that
\* could be reached in the mailbox, before the mailbox is drained, as far as
\* there is memory for the reason (handle_actor_exception, sta_mailbox_walk).
CrashFailsPending == tpc = "drain" => \A f \in due : state[f] \in Final

\* After termination the mailbox is drained, "by then we must have already failed
\* all the futures" (handle_actor_exception): those of asks behind one that is
\* not linked yet, or sent after the walk, too.
DrainedIsSettled ==
  tpc = "drain" =>
    \A f \in Asks : apc[f] = "held" /\ f \notin Range(box) => state[f] \in Final

\* A wait that is over has answered the result or signalled the failure.
WaitAnswers ==
  \A w \in Waiters : wpc[w] = "done" => got[w] \in {"reply", "failure"}

\* An accepted ask is answered, unless the target drops it: it has no method
\* for it, no memory for the reply, or has been terminated (route_reply,
\* handle_actor_exception).
AskIsAnswered ==
  \A f \in Asks : apc[f] = "held" ~> state[f] \in Final \/ f \in dropped

\* An actor that waits runs again, unless its ask is dropped: between the
\* recheck, wake_waiter and the worker's store it is never left SUSPENDED.
WaitEnds ==
  \A w \in Waiters :
    wpc[w] = "load" ~> wpc[w] \in {"done", "twice"} \/ WaitsFor[w] \in dropped
=============================================================================
