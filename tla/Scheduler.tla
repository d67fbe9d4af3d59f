----------------------------- MODULE Scheduler -----------------------------
(***************************************************************************)
(* src/scheduler/scheduler.c with the parts of src/actor/actor.c it works  *)
(* with: worker threads that take runnable actors from their own deque,    *)
(* from each other's and from the overflow list; senders that look an      *)
(* actor up, enqueue a message and wake it; supervisors that terminate it; *)
(* and the reference counts that keep an actor allocated while any of them *)
(* can still touch it.                                                     *)
(*                                                                         *)
(* A step is one atomic access of an actor's state, reference count or     *)
(* mailbox, or of a run queue.  Deques are the double-ended queues that    *)
(* WorkDeque implements, the mailbox the queue that Mailbox implements: a  *)
(* message counts as soon as its place is reserved, but can be dequeued    *)
(* only when it and everything before it has been linked.                  *)
(***************************************************************************)
EXTENDS Integers, Sequences, FiniteSets

CONSTANTS Actors, Workers,
          Senders,    \* threads of control that send: actors, the main thread
          Killable,   \* actors a supervisor may terminate
          Capacity,   \* of a mailbox
          DequeCap,   \* STA_DEQUE_CAPACITY
          Outcomes,   \* how the execution of a message may end
          Stoppable,  \* whether sta_scheduler_stop is called
          MaxSends,   \* bound: sends per sender
          NULL

ASSUME SchedulerAssumption ==
  /\ IsFiniteSet(Workers) /\ IsFiniteSet(Senders)
  /\ Killable \subseteq Actors /\ NULL \notin Actors
  /\ Capacity \in Nat /\ DequeCap \in Nat /\ MaxSends \in Nat
  /\ Outcomes \subseteq {"processed", "preempted", "exception", "suspended"}
  /\ Stoppable \in BOOLEAN

VARIABLES
  state,       \* actor->state
  refs,        \* actor->refcount
  registered,  \* the actor is in the registry
  box,         \* actor->mailbox, oldest message first
  saved,       \* actor->saved_frame is set: a message is half executed
  freed,       \* actors sta_actor_free has released
  overflow,    \* the list from sched->overflow_head
  deque,       \* per worker, from top to bottom
  running,     \* sched->running
  wpc, cur, rc,       \* per worker: where, with which actor, with what result
  spc, tgt, sent,     \* per sender: where, to whom, messages so far
  kpc,         \* per actor: progress of sta_actor_terminate
  lost,        \* history: how often a full deque has turned an actor away
  done         \* history: messages taken from a mailbox

actorVars  == <<state, refs, registered, box, saved, freed>>
workerVars == <<wpc, cur, rc>>
senderVars == <<spc, tgt, sent>>
vars == <<state, refs, registered, box, saved, freed, overflow, deque, running,
          wpc, cur, rc, spc, tgt, sent, kpc, lost, done>>

Message == Senders \X (1..MaxSends)

TypeOK ==
  /\ state \in [Actors -> {"CREATED", "READY", "RUNNING", "SUSPENDED", "TERMINATED"}]
  /\ refs \in [Actors -> Nat]
  /\ registered \subseteq Actors
  /\ box \in [Actors -> Seq(Message)]
  /\ saved \subseteq Actors /\ freed \subseteq Actors /\ lost \in [Actors -> Nat]
  /\ overflow \in Seq(Actors) /\ deque \in [Workers -> Seq(Actors)]
  /\ running \in BOOLEAN
  /\ wpc \in [Workers -> {"pop", "steal", "overflow", "sleep", "exit", "claim",
                          "dequeue", "execute", "crash", "drain", "check",
                          "isempty", "ready", "suspend", "recheck", "rewake",
                          "push", "drop"}]
  /\ cur \in [Workers -> Actors \cup {NULL}]
  /\ rc \in [Workers -> {"processed", "preempted", "exception", "empty"}]
  /\ spc \in [Senders -> {"idle", "check", "enqueue", "link", "wake", "waken",
                          "ref", "push", "release"}]
  /\ tgt \in [Senders -> Actors \cup {NULL}]
  /\ sent \in [Senders -> 0..MaxSends]
  /\ kpc \in [Actors -> {"idle", "unregister", "release", "done"}]
  /\ done \subseteq Message

\* sta_actor_create and sta_actor_register have run: the registry's reference.
Init ==
  /\ state = [a \in Actors |-> "CREATED"]
  /\ refs = [a \in Actors |-> 1]
  /\ registered = Actors
  /\ box = [a \in Actors |-> <<>>]
  /\ saved = {} /\ freed = {} /\ done = {}
  /\ lost = [a \in Actors |-> 0]
  /\ overflow = <<>> /\ deque = [w \in Workers |-> <<>>]
  /\ running = TRUE
  /\ wpc = [w \in Workers |-> "pop"]
  /\ cur = [w \in Workers |-> NULL]
  /\ rc = [w \in Workers |-> "empty"]
  /\ spc = [s \in Senders |-> "idle"]
  /\ tgt = [s \in Senders |-> NULL]
  /\ sent = [s \in Senders |-> 0]
  /\ kpc = [a \in Actors |-> "idle"]

\* sta_actor_release: the last reference frees the actor and its mailbox.
Release(a) ==
  /\ refs' = [refs EXCEPT ![a] = @ - 1]
  /\ freed' = IF refs[a] = 1 THEN freed \cup {a} ELSE freed
  /\ box' = IF refs[a] = 1 THEN [box EXCEPT ![a] = <<>>] ELSE box

-----------------------------------------------------------------------------
(* Senders: sta_actor_send_msg, send_msg_internal, sta_scheduler_enqueue *)

SGoto(s, l) == spc' = [spc EXCEPT ![s] = l]

\* Faulty: takes no reference.
LookupUncounted(s) ==
  /\ spc[s] = "idle" /\ sent[s] < MaxSends /\ running
  /\ \E a \in registered : tgt' = [tgt EXCEPT ![s] = a]
  /\ sent' = [sent EXCEPT ![s] = @ + 1]
  /\ SGoto(s, "check")
  /\ UNCHANGED <<actorVars, overflow, deque, running, workerVars, kpc, lost, done>>

\* sta_registry_lookup takes a reference under the registry's lock.
Lookup(s) ==
  /\ spc[s] = "idle" /\ sent[s] < MaxSends /\ running
  /\ \E a \in registered :
       /\ refs' = [refs EXCEPT ![a] = @ + 1]
       /\ tgt' = [tgt EXCEPT ![s] = a]
  /\ sent' = [sent EXCEPT ![s] = @ + 1]
  /\ SGoto(s, "check")
  /\ UNCHANGED <<state, registered, box, saved, freed, overflow, deque, running,
                 workerVars, kpc, lost, done>>

CheckTarget(s) ==
  /\ spc[s] = "check"
  /\ SGoto(s, IF state[tgt[s]] = "TERMINATED" THEN "release" ELSE "enqueue")
  /\ UNCHANGED <<actorVars, overflow, deque, running, workerVars, tgt, sent, kpc,
                 lost, done>>

\* sta_mailbox_enqueue up to the exchange of tail; a full mailbox refuses.
Enqueue(s) ==
  /\ spc[s] = "enqueue"
  /\ IF Len(box[tgt[s]]) < Capacity
     THEN /\ box' = [box EXCEPT ![tgt[s]] = Append(@, <<s, sent[s]>>)]
          /\ SGoto(s, "link")
     ELSE /\ box' = box
          /\ SGoto(s, "release")
  /\ UNCHANGED <<state, refs, registered, saved, freed, overflow, deque, running,
                 workerVars, tgt, sent, kpc, lost, done>>

\* prev->next = node, and the fence of #319; then sched->running is read.
LinkMsg(s) ==
  /\ spc[s] = "link"
  /\ SGoto(s, IF running THEN "wake" ELSE "release")
  /\ UNCHANGED <<actorVars, overflow, deque, running, workerVars, tgt, sent, kpc,
                 lost, done>>

\* compare-and-swap SUSPENDED -> READY; when it fails, CREATED -> READY.
Wake(s) ==
  /\ spc[s] = "wake"
  /\ IF state[tgt[s]] = "SUSPENDED"
     THEN state' = [state EXCEPT ![tgt[s]] = "READY"] /\ SGoto(s, "ref")
     ELSE state' = state /\ SGoto(s, "waken")
  /\ UNCHANGED <<refs, registered, box, saved, freed, overflow, deque, running,
                 workerVars, tgt, sent, kpc, lost, done>>

WakeNew(s) ==
  /\ spc[s] = "waken"
  /\ IF state[tgt[s]] = "CREATED"
     THEN state' = [state EXCEPT ![tgt[s]] = "READY"] /\ SGoto(s, "ref")
     ELSE state' = state /\ SGoto(s, "release")
  /\ UNCHANGED <<refs, registered, box, saved, freed, overflow, deque, running,
                 workerVars, tgt, sent, kpc, lost, done>>

\* Faulty: the queue borrows the sender's reference.
TakeNoQueueRef(s) ==
  /\ spc[s] = "ref"
  /\ SGoto(s, "push")
  /\ UNCHANGED <<actorVars, overflow, deque, running, workerVars, tgt, sent, kpc,
                 lost, done>>

\* sta_scheduler_enqueue: a reference for the queue, then onto overflow_head.
TakeQueueRef(s) ==
  /\ spc[s] = "ref"
  /\ refs' = [refs EXCEPT ![tgt[s]] = @ + 1]
  /\ SGoto(s, "push")
  /\ UNCHANGED <<state, registered, box, saved, freed, overflow, deque, running,
                 workerVars, tgt, sent, kpc, lost, done>>

PushOverflow(s) ==
  /\ spc[s] = "push"
  /\ overflow' = <<tgt[s]>> \o overflow
  /\ SGoto(s, "release")
  /\ UNCHANGED <<actorVars, deque, running, workerVars, tgt, sent, kpc, lost, done>>

\* The lookup's reference is given back.
ReleaseTarget(s) ==
  /\ spc[s] = "release"
  /\ Release(tgt[s])
  /\ SGoto(s, "idle")
  /\ tgt' = [tgt EXCEPT ![s] = NULL]
  /\ UNCHANGED <<state, registered, saved, overflow, deque, running, workerVars,
                 sent, kpc, lost, done>>

Sender(s) ==
  \/ Lookup(s) \/ CheckTarget(s) \/ Enqueue(s) \/ LinkMsg(s) \/ Wake(s)
  \/ WakeNew(s) \/ TakeQueueRef(s) \/ PushOverflow(s) \/ ReleaseTarget(s)

-----------------------------------------------------------------------------
(* Supervisors: sta_actor_terminate on a child *)

KillStore(a) ==
  /\ a \in Killable /\ kpc[a] = "idle" /\ running
  /\ state' = [state EXCEPT ![a] = "TERMINATED"]
  /\ kpc' = [kpc EXCEPT ![a] = "unregister"]
  /\ UNCHANGED <<refs, registered, box, saved, freed, overflow, deque, running,
                 workerVars, senderVars, lost, done>>

KillUnregister(a) ==
  /\ kpc[a] = "unregister"
  /\ registered' = registered \ {a}
  /\ kpc' = [kpc EXCEPT ![a] = "release"]
  /\ UNCHANGED <<state, refs, box, saved, freed, overflow, deque, running,
                 workerVars, senderVars, lost, done>>

KillRelease(a) ==
  /\ kpc[a] = "release"
  /\ Release(a)
  /\ kpc' = [kpc EXCEPT ![a] = "done"]
  /\ UNCHANGED <<state, registered, saved, overflow, deque, running, workerVars,
                 senderVars, lost, done>>

Killer(a) == KillStore(a) \/ KillUnregister(a) \/ KillRelease(a)

-----------------------------------------------------------------------------
(* Workers: worker_thread_main *)

WGoto(w, l) == wpc' = [wpc EXCEPT ![w] = l]

\* Top of the loop: leave when stopped, else sta_deque_pop on the own deque.
PopOwn(w) ==
  /\ wpc[w] = "pop"
  /\ IF ~running THEN WGoto(w, "exit") /\ UNCHANGED <<cur, deque>>
     ELSE IF deque[w] = <<>> THEN WGoto(w, "steal") /\ UNCHANGED <<cur, deque>>
     ELSE /\ cur' = [cur EXCEPT ![w] = deque[w][Len(deque[w])]]
          /\ deque' = [deque EXCEPT ![w] = SubSeq(@, 1, Len(@) - 1)]
          /\ WGoto(w, "claim")
  /\ UNCHANGED <<actorVars, overflow, running, rc, senderVars, kpc, lost, done>>

\* try_steal: the oldest actor of some other worker's deque.  It may come back
\* empty-handed although there was work, when it loses the race for it.
Steal(w) ==
  /\ wpc[w] = "steal"
  /\ \E v \in Workers \ {w} :
       /\ deque[v] # <<>>
       /\ cur' = [cur EXCEPT ![w] = Head(deque[v])]
       /\ deque' = [deque EXCEPT ![v] = Tail(@)]
  /\ WGoto(w, "claim")
  /\ UNCHANGED <<actorVars, overflow, running, rc, senderVars, kpc, lost, done>>

StealNothing(w) ==
  /\ wpc[w] = "steal"
  /\ WGoto(w, "overflow")
  /\ UNCHANGED <<actorVars, overflow, deque, running, cur, rc, senderVars, kpc,
                 lost, done>>

\* drain_overflow, under the mutex: keep the first actor, push the others on
\* the own deque as far as it has room.
DrainOverflow(w) ==
  /\ wpc[w] = "overflow"
  /\ IF overflow = <<>>
     THEN WGoto(w, "sleep") /\ UNCHANGED <<overflow, cur, deque, lost>>
     ELSE LET rest == Tail(overflow)
              room == DequeCap - Len(deque[w])
              kept == IF Len(rest) <= room THEN Len(rest) ELSE room
          IN /\ cur' = [cur EXCEPT ![w] = Head(overflow)]
             /\ deque' = [deque EXCEPT ![w] = @ \o SubSeq(rest, 1, kept)]
             /\ lost' = [a \in Actors |->
                           lost[a] + Cardinality({i \in (kept + 1)..Len(rest) : rest[i] = a})]
             /\ overflow' = <<>>
             /\ WGoto(w, "claim")
  /\ UNCHANGED <<actorVars, running, rc, senderVars, kpc, done>>

\* pthread_cond_timedwait ends by a signal or after 5 ms.
Sleep(w) ==
  /\ wpc[w] = "sleep"
  /\ WGoto(w, "pop")
  /\ UNCHANGED <<actorVars, overflow, deque, running, cur, rc, senderVars, kpc,
                 lost, done>>

\* compare-and-swap READY -> RUNNING.
Claim(w) ==
  /\ wpc[w] = "claim"
  /\ IF state[cur[w]] = "READY"
     THEN /\ state' = [state EXCEPT ![cur[w]] = "RUNNING"]
          /\ WGoto(w, IF cur[w] \in saved THEN "execute" ELSE "dequeue")
     ELSE state' = state /\ WGoto(w, "drop")
  /\ UNCHANGED <<refs, registered, box, saved, freed, overflow, deque, running,
                 cur, rc, senderVars, kpc, lost, done>>

\* The message at the front of a's mailbox can be reached from its head.
Reachable(a) ==
  /\ box[a] # <<>>
  /\ ~ \E s \in Senders : spc[s] = "link" /\ Head(box[a]) = <<s, sent[s]>>

\* sta_actor_process_one_preemptible takes a message, or returns EMPTY.
Dequeue(w) ==
  /\ wpc[w] = "dequeue"
  /\ IF Reachable(cur[w])
     THEN /\ box' = [box EXCEPT ![cur[w]] = Tail(@)]
          /\ done' = done \cup {Head(box[cur[w]])}
          /\ WGoto(w, "execute")
          /\ rc' = rc
     ELSE /\ UNCHANGED <<box, done>>
          /\ WGoto(w, "check")
          /\ rc' = [rc EXCEPT ![w] = "empty"]
  /\ UNCHANGED <<state, refs, registered, saved, freed, overflow, deque, running,
                 cur, senderVars, kpc, lost>>

\* The interpreter returns: the message is finished, its budget is used up, it
\* failed, or it waits for a future (prim_future_wait has set SUSPENDED).  A
\* message with no method is finished too.
Execute(w) ==
  /\ wpc[w] = "execute"
  /\ \E o \in Outcomes :
       /\ rc' = [rc EXCEPT ![w] = IF o = "suspended" THEN "preempted" ELSE o]
       /\ saved' = IF o \in {"preempted", "suspended"} THEN saved \cup {cur[w]}
                   ELSE saved \ {cur[w]}
       /\ state' = IF o = "suspended" /\ state[cur[w]] = "RUNNING"
                   THEN [state EXCEPT ![cur[w]] = "SUSPENDED"] ELSE state
       /\ WGoto(w, IF o = "exception" THEN "crash" ELSE "check")
  /\ UNCHANGED <<refs, registered, box, freed, overflow, deque, running, cur,
                 senderVars, kpc, lost, done>>

\* handle_actor_exception: compare-and-swap RUNNING -> TERMINATED ...
Crash(w) ==
  /\ wpc[w] = "crash"
  /\ state' = IF state[cur[w]] = "RUNNING"
              THEN [state EXCEPT ![cur[w]] = "TERMINATED"] ELSE state
  /\ WGoto(w, "drain")
  /\ UNCHANGED <<refs, registered, box, saved, freed, overflow, deque, running,
                 cur, rc, senderVars, kpc, lost, done>>

\* ... and drain_mailbox until nothing can be reached.
Drain(w) ==
  /\ wpc[w] = "drain"
  /\ IF Reachable(cur[w])
     THEN /\ box' = [box EXCEPT ![cur[w]] = Tail(@)]
          /\ done' = done \cup {Head(box[cur[w]])}
          /\ wpc' = wpc
     ELSE UNCHANGED <<box, done>> /\ WGoto(w, "check")
  /\ UNCHANGED <<state, refs, registered, saved, freed, overflow, deque, running,
                 cur, rc, senderVars, kpc, lost>>

\* Load the state once and branch on it and on the result.
Check(w) ==
  /\ wpc[w] = "check"
  /\ WGoto(w, IF rc[w] = "exception" \/ state[cur[w]] = "TERMINATED" THEN "drop"
              ELSE IF rc[w] = "preempted" THEN "ready" ELSE "isempty")
  /\ UNCHANGED <<actorVars, overflow, deque, running, cur, rc, senderVars, kpc,
                 lost, done>>

IsEmpty(w) ==
  /\ wpc[w] = "isempty"
  /\ WGoto(w, IF box[cur[w]] # <<>> THEN "ready" ELSE "suspend")
  /\ UNCHANGED <<actorVars, overflow, deque, running, cur, rc, senderVars, kpc,
                 lost, done>>

\* Plain stores: whatever the state has become since Check is overwritten.
StoreReady(w) ==
  /\ wpc[w] = "ready"
  /\ state' = [state EXCEPT ![cur[w]] = "READY"]
  /\ WGoto(w, "push")
  /\ UNCHANGED <<refs, registered, box, saved, freed, overflow, deque, running,
                 cur, rc, senderVars, kpc, lost, done>>

StoreSuspended(w) ==
  /\ wpc[w] = "suspend"
  /\ state' = [state EXCEPT ![cur[w]] = "SUSPENDED"]
  /\ WGoto(w, "recheck")
  /\ UNCHANGED <<refs, registered, box, saved, freed, overflow, deque, running,
                 cur, rc, senderVars, kpc, lost, done>>

\* Faulty: does not look again.
RecheckNothing(w) ==
  /\ wpc[w] = "recheck"
  /\ WGoto(w, "drop")
  /\ UNCHANGED <<actorVars, overflow, deque, running, cur, rc, senderVars, kpc,
                 lost, done>>

\* After the fence of #319: a message may have come in since IsEmpty.
Recheck(w) ==
  /\ wpc[w] = "recheck"
  /\ WGoto(w, IF box[cur[w]] # <<>> THEN "rewake" ELSE "drop")
  /\ UNCHANGED <<actorVars, overflow, deque, running, cur, rc, senderVars, kpc,
                 lost, done>>

\* Faulty: a plain store instead of the compare-and-swap.
RewakeStore(w) ==
  /\ wpc[w] = "rewake"
  /\ state' = [state EXCEPT ![cur[w]] = "READY"]
  /\ WGoto(w, "push")
  /\ UNCHANGED <<refs, registered, box, saved, freed, overflow, deque, running,
                 cur, rc, senderVars, kpc, lost, done>>

Rewake(w) ==
  /\ wpc[w] = "rewake"
  /\ IF state[cur[w]] = "SUSPENDED"
     THEN state' = [state EXCEPT ![cur[w]] = "READY"] /\ WGoto(w, "push")
     ELSE state' = state /\ WGoto(w, "drop")
  /\ UNCHANGED <<refs, registered, box, saved, freed, overflow, deque, running,
                 cur, rc, senderVars, kpc, lost, done>>

\* The worker's reference goes to the deque with the actor; the result of
\* sta_deque_push is not looked at.
PushOwn(w) ==
  /\ wpc[w] = "push"
  /\ IF Len(deque[w]) < DequeCap
     THEN deque' = [deque EXCEPT ![w] = Append(@, cur[w])] /\ lost' = lost
     ELSE deque' = deque /\ lost' = [lost EXCEPT ![cur[w]] = @ + 1]
  /\ cur' = [cur EXCEPT ![w] = NULL]
  /\ WGoto(w, "pop")
  /\ UNCHANGED <<actorVars, overflow, running, rc, senderVars, kpc, done>>

Drop(w) ==
  /\ wpc[w] = "drop"
  /\ Release(cur[w])
  /\ cur' = [cur EXCEPT ![w] = NULL]
  /\ WGoto(w, "pop")
  /\ UNCHANGED <<state, registered, saved, overflow, deque, running, rc,
                 senderVars, kpc, lost, done>>

FindWork(w) == PopOwn(w) \/ Steal(w) \/ StealNothing(w) \/ DrainOverflow(w) \/ Sleep(w)

Process(w) == Claim(w) \/ Dequeue(w) \/ Execute(w) \/ Crash(w) \/ Drain(w)

Dispose(w) ==
  \/ Check(w) \/ IsEmpty(w) \/ StoreReady(w) \/ StoreSuspended(w)
  \/ Recheck(w) \/ Rewake(w) \/ PushOwn(w) \/ Drop(w)

Worker(w) == FindWork(w) \/ Process(w) \/ Dispose(w)

-----------------------------------------------------------------------------
(* sta_scheduler_stop *)

StopRequest ==
  /\ Stoppable /\ running
  /\ running' = FALSE
  /\ UNCHANGED <<actorVars, overflow, deque, workerVars, senderVars, kpc, lost, done>>

\* All workers joined, and with them the sends they were making: one queue
\* reference is released per queued actor, deques first.
StopDrain ==
  /\ ~running /\ \A w \in Workers : wpc[w] = "exit"
  /\ \A s \in Senders : spc[s] = "idle"
  /\ \/ \E w \in Workers :
          /\ deque[w] # <<>>
          /\ Release(deque[w][Len(deque[w])])
          /\ deque' = [deque EXCEPT ![w] = SubSeq(@, 1, Len(@) - 1)]
          /\ overflow' = overflow
     \/ /\ \A w \in Workers : deque[w] = <<>>
        /\ overflow # <<>>
        /\ Release(Head(overflow))
        /\ overflow' = Tail(overflow)
        /\ deque' = deque
  /\ UNCHANGED <<state, registered, saved, running, workerVars, senderVars, kpc,
                 lost, done>>

Next ==
  \/ \E w \in Workers : Worker(w)
  \/ \E s \in Senders : Sender(s)
  \/ \E a \in Actors : Killer(a)
  \/ StopRequest \/ StopDrain

Spec == Init /\ [][Next]_vars

\* Worker threads run, and a send or a termination that has begun ends.
Fairness ==
  /\ \A w \in Workers : WF_vars(Worker(w))
  /\ \A s \in Senders : WF_vars(Sender(s) /\ spc[s] # "idle")
  /\ \A a \in Actors : WF_vars(Killer(a) /\ kpc[a] # "idle")

FairSpec == Spec /\ Fairness

-----------------------------------------------------------------------------
(* Properties *)

Positions(q, a) == {i \in DOMAIN q : q[i] = a}

\* Workers that have claimed a and not yet given up the right to set its state.
Runners(a) ==
  {w \in Workers : /\ cur[w] = a
                   /\ wpc[w] \in {"dequeue", "execute", "crash", "drain", "check",
                                 "isempty", "ready", "suspend"}}

\* Ways in which a is on its way to a worker's claim.
Entries(a) ==
  (   {s \in Senders : tgt[s] = a /\ spc[s] \in {"ref", "push"}}
   \X {"sender"})
  \cup ({w \in Workers : cur[w] = a /\ wpc[w] \in {"push", "claim"}} \X {"worker"})
  \cup (Positions(overflow, a) \X {"overflow"})
  \cup UNION {Positions(deque[w], a) \X {w} : w \in Workers}

\* An actor runs on one worker at a time: its heap, its stack and the consumer
\* end of its mailbox have no other protection.
SingleRunner == \A a \in Actors : Cardinality(Runners(a)) <= 1

\* An actor is in at most one run queue, once (next_runnable has room for one),
\* and never while it is running.
QueuedOnce ==
  \A a \in Actors : Cardinality(Entries(a)) + Cardinality(Runners(a)) <= 1

\* A READY actor is on its way to a worker, until the scheduler is stopped.
ReadyIsQueued ==
  running => \A a \in Actors : state[a] = "READY" => Entries(a) # {}

\* The two together: a READY actor is in exactly one run queue, and no actor is
\* queued twice or while it runs (sta_scheduler_enqueue, worker_thread_main).
RunnableOnce == QueuedOnce /\ ReadyIsQueued

\* The reference count is the number of references: the registry's until
\* terminate gives it back, one per sender between lookup and release, one per
\* worker, one per queue entry.
RefsExact ==
  \A a \in Actors :
    refs[a] = (IF kpc[a] = "done" THEN 0 ELSE 1)
              + Cardinality({s \in Senders : tgt[s] = a})
              + Cardinality({s \in Senders : tgt[s] = a /\ spc[s] = "push"})
              + Cardinality({w \in Workers : cur[w] = a})
              + Cardinality(Positions(overflow, a))
              + Cardinality(UNION {Positions(deque[w], a) \X {w} : w \in Workers})
              + lost[a]

\* No thread holds, and no queue contains, an actor that has been freed; it has
\* left the registry too.
NoUseAfterFree ==
  \A a \in freed :
    /\ a \notin registered /\ kpc[a] = "done"
    /\ \A s \in Senders : tgt[s] # a
    /\ \A w \in Workers : cur[w] # a
    /\ Entries(a) = {}

\* An actor with mail is never left asleep: a sender has yet to wake it, or the
\* worker that put it to sleep has yet to look again (the protocol of #319).
NoStrandedMail ==
  running =>
    \A a \in Actors \ freed :
      box[a] # <<>> /\ state[a] \in {"CREATED", "SUSPENDED"} =>
        \/ \E s \in Senders : tgt[s] = a /\ spc[s] \in {"link", "wake", "waken"}
        \/ \E w \in Workers : cur[w] = a /\ wpc[w] \in {"recheck", "rewake"}

\* A message does not stay in the mailbox of an actor that has not terminated.
MailIsHandled ==
  \A a \in Actors, m \in Message :
    (\E i \in 1..Len(box[a]) : box[a][i] = m) ~>
      ((\A i \in 1..Len(box[a]) : box[a][i] # m) \/ state[a] = "TERMINATED")

\* A READY actor gets a worker in the end: none is starved by the others, or
\* turned away by a full deque and forgotten (the result of sta_deque_push is
\* ignored) when there are no more actors than a deque holds.
ReadyIsRun ==
  \A a \in Actors : (state[a] = "READY") ~> (state[a] # "READY")

\* Termination is for good: the worker that was running the actor must not
\* bring it back (scheduler.c: "If so, do not re-enqueue").
TerminatedIsFinal ==
  [][\A a \in Actors : state[a] = "TERMINATED" => state'[a] = "TERMINATED"]_vars
=============================================================================
