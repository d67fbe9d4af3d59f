-------------------------- MODULE SchedulerProofs --------------------------
(***************************************************************************)
(* Mail for an actor that sleeps is seen by somebody who will wake it, for *)
(* any number of actors, workers, senders and messages, as long as no      *)
(* actor suspends itself in Future>>wait.  Nor has an actor two places: it *)
(* is with one sender that wakes it, in one queue, once, or with one       *)
(* worker that runs it, and a READY actor has a place when the deques have *)
(* room for all.                                                           *)
(***************************************************************************)
EXTENDS Scheduler, TLAPS

\* Where a worker has no actor, and the states in which an actor may be woken.
Looking == {"pop", "steal", "overflow", "sleep", "exit"}
Asleep == {"CREATED", "SUSPENDED"}

\* The ends of a deque the owner works at.
Front(q) == SubSeq(q, 1, Len(q) - 1)
Last(q) == q[Len(q)]

\* Types, as far as the proofs need them.
ThreadTyping ==
  /\ state = [a \in Actors |-> state[a]]
  /\ wpc = [w \in Workers |-> wpc[w]]
  /\ cur \in [Workers -> Actors \cup {NULL}]
  /\ \A w \in Workers : wpc[w] \notin Looking => cur[w] \in Actors
  /\ \A w \in Workers : wpc[w] \in Looking => cur[w] = NULL
  /\ spc = [s \in Senders |-> spc[s]]
  /\ tgt \in [Senders -> Actors \cup {NULL}]
  /\ \A s \in Senders : spc[s] # "idle" => tgt[s] \in Actors
  /\ \A s \in Senders : spc[s] = "idle" => tgt[s] = NULL
  /\ registered \subseteq Actors
QueueTyping ==
  /\ overflow \in Seq(Actors)
  /\ deque \in [Workers -> Seq(Actors)]
  /\ \A w \in Workers : Len(deque[w]) <= DequeCap
Typing == ThreadTyping /\ QueueTyping

\* Mail for a sleeping actor is seen by a sender that has yet to wake it or by
\* the worker that put it to sleep; mail for a new one by a sender.
Watched(a) ==
  \/ \E s \in Senders : tgt[s] = a /\ spc[s] \in {"link", "wake"}
  \/ \E w \in Workers : cur[w] = a /\ wpc[w] \in {"recheck", "rewake"}
Awaited(a) == \E s \in Senders : tgt[s] = a /\ spc[s] \in {"link", "wake", "waken"}
MailOK ==
  /\ box = [a \in Actors |-> box[a]]
  /\ running => \A a \in Actors : box[a] # <<>> =>
       (state[a] = "SUSPENDED" => Watched(a)) /\ (state[a] = "CREATED" => Awaited(a))
-----------------------------------------------------------------------------
(* Types *)

\* The initial state.
LEMMA InitTyping == Init => Typing
BY SchedulerAssumption DEF Init, Looking, Typing, ThreadTyping, QueueTyping

\* The first k elements.
LEMMA SubFacts ==
  ASSUME NEW S, NEW q \in Seq(S), NEW k \in 0..Len(q)
  PROVE  /\ SubSeq(q, 1, k) \in Seq(S) /\ Len(SubSeq(q, 1, k)) = k /\ Len(q) \in Nat
         /\ \A i \in 1..k : SubSeq(q, 1, k)[i] = q[i] /\ i \in 1..Len(q)
OBVIOUS

\* What taking from or adding to a deque leaves.
LEMMA DequeTyping ==
  ASSUME NEW q \in Seq(Actors), Len(q) <= DequeCap
  PROVE  /\ q # <<>> => /\ Front(q) \in Seq(Actors) /\ Len(Front(q)) <= DequeCap /\ Last(q) \in Actors
                        /\ Tail(q) \in Seq(Actors) /\ Len(Tail(q)) <= DequeCap /\ Head(q) \in Actors
         /\ \A a \in Actors : Append(q, a) \in Seq(Actors) /\ Len(Append(q, a)) = Len(q) + 1
<1>1. CASE q = <<>>
  BY <1>1
<1>2. CASE q # <<>>
  <2>1. Len(q) \in Nat /\ Len(q) > 0 /\ DequeCap \in Nat
    BY <1>2, SchedulerAssumption
  <2>2. Front(q) = SubSeq(q, 1, Len(q) - 1) /\ Len(q) - 1 \in 0..Len(q)
    BY <2>1 DEF Front
  <2>3. Front(q) \in Seq(Actors) /\ Len(Front(q)) = Len(q) - 1
    BY <2>2, SubFacts, Zenon
  <2>4. Last(q) \in Actors
    BY <2>1 DEF Last
  <2>5. Tail(q) \in Seq(Actors) /\ Len(Tail(q)) = Len(q) - 1 /\ Head(q) \in Actors
    BY <1>2
  <2> QED
    BY <2>1, <2>3, <2>4, <2>5
<1> QED
  BY <1>1, <1>2

\* What drain_overflow leaves.
LEMMA DrainTyping ==
  ASSUME QueueTyping, NEW w \in Workers, overflow # <<>>,
         NEW room, room = DequeCap - Len(deque[w]),
         NEW kept, kept = IF Len(Tail(overflow)) <= room THEN Len(Tail(overflow)) ELSE room
  PROVE  /\ kept \in 0..Len(Tail(overflow)) /\ Head(overflow) \in Actors
         /\ deque[w] \o SubSeq(Tail(overflow), 1, kept) \in Seq(Actors)
         /\ Len(deque[w] \o SubSeq(Tail(overflow), 1, kept)) <= DequeCap
<1>1. /\ deque[w] \in Seq(Actors) /\ Len(deque[w]) \in Nat /\ DequeCap \in Nat /\ Len(deque[w]) <= DequeCap
      /\ Tail(overflow) \in Seq(Actors) /\ Len(Tail(overflow)) \in Nat /\ Head(overflow) \in Actors
  BY SchedulerAssumption DEF QueueTyping
<1>2. kept \in 0..Len(Tail(overflow)) /\ Len(deque[w]) + kept <= DequeCap
  <2>1. ASSUME NEW n \in Nat, NEW d \in Nat, NEW c \in Nat, d <= c
        PROVE  LET k == IF n <= c - d THEN n ELSE c - d IN k \in 0..n /\ d + k <= c
    BY <2>1
  <2> HIDE DEF QueueTyping
  <2> QED
    BY <1>1, <2>1, Zenon
<1>3. SubSeq(Tail(overflow), 1, kept) \in Seq(Actors) /\ Len(SubSeq(Tail(overflow), 1, kept)) = kept
  BY <1>1, <1>2, SubFacts, Zenon
<1> HIDE DEF QueueTyping
<1>4. ASSUME NEW p \in Seq(Actors), NEW q \in Seq(Actors)
      PROVE  p \o q \in Seq(Actors) /\ Len(p \o q) = Len(p) + Len(q)
  OBVIOUS
<1>5. /\ deque[w] \o SubSeq(Tail(overflow), 1, kept) \in Seq(Actors)
      /\ Len(deque[w] \o SubSeq(Tail(overflow), 1, kept)) = Len(deque[w]) + kept
  <2> DEFINE p == deque[w]
             q == SubSeq(Tail(overflow), 1, kept)
  <2>1. p \in Seq(Actors) /\ q \in Seq(Actors) /\ Len(q) = kept
    BY <1>1, <1>3
  <2> HIDE DEF p, q
  <2>2. p \o q \in Seq(Actors) /\ Len(p \o q) = Len(p) + kept
    BY <1>4, <2>1
  <2> QED
    BY <2>2, Zenon DEF p, q
<1> QED
  BY <1>1, <1>2, <1>5, Zenon

\* A sender's step keeps the types.
LEMMA SenderTyping ==
  ASSUME Typing, NEW s \in Senders, Sender(s)
  PROVE  Typing'
<1> USE SchedulerAssumption DEF SGoto, workerVars, actorVars
<1>1. CASE PushOverflow(s)
  <2>1. tgt[s] \in Actors /\ overflow \in Seq(Actors)
    BY <1>1 DEF PushOverflow, Typing, ThreadTyping, QueueTyping
  <2>2. <<tgt[s]>> \o overflow \in Seq(Actors)
    BY <2>1
  <2>3. QueueTyping'
    BY <1>1, <2>2, Zenon DEF PushOverflow, Typing, QueueTyping
  <2>4. ThreadTyping'
    BY <1>1 DEF PushOverflow, Typing, ThreadTyping
  <2> QED
    BY <2>3, <2>4 DEF Typing
<1>2. CASE ~PushOverflow(s)
  <2>1. UNCHANGED <<overflow, deque>>
    BY <1>2, Zenon DEF Sender, Lookup, CheckTarget, Enqueue, LinkMsg, Wake, WakeNew, TakeQueueRef, ReleaseTarget
  <2>2. QueueTyping'
    BY <2>1 DEF Typing, QueueTyping
  <2>3. ThreadTyping'
    <3> USE DEF Typing, ThreadTyping
    <3>1. CASE Lookup(s)
      BY <3>1 DEF Lookup
    <3>2. CASE CheckTarget(s) \/ Enqueue(s) \/ LinkMsg(s)
      BY <3>2 DEF CheckTarget, Enqueue, LinkMsg
    <3>3. CASE Wake(s) \/ WakeNew(s)
      BY <3>3 DEF Wake, WakeNew
    <3>4. CASE TakeQueueRef(s) \/ ReleaseTarget(s)
      BY <3>4 DEF TakeQueueRef, ReleaseTarget
    <3> HIDE DEF ThreadTyping
    <3> QED
      BY <1>2, <3>1, <3>2, <3>3, <3>4, Zenon DEF Sender
  <2> QED
    BY <2>2, <2>3 DEF Typing
<1> QED
  BY <1>1, <1>2

\* Steps that change one deque.
LEMMA SetDeque ==
  ASSUME QueueTyping, NEW w \in Workers, NEW q \in Seq(Actors), Len(q) <= DequeCap,
         deque' = [deque EXCEPT ![w] = q], overflow' = overflow \/ overflow' = <<>>
  PROVE  QueueTyping'
<1>1. overflow' \in Seq(Actors)
  <2>1. <<>> \in Seq(Actors)
    OBVIOUS
  <2> QED
    BY <2>1, Zenon DEF QueueTyping
<1>2. deque' \in [Workers -> Seq(Actors)] /\ \A v \in Workers : Len(deque'[v]) <= DequeCap
  BY Zenon DEF QueueTyping
<1> QED
  BY <1>1, <1>2 DEF QueueTyping

\* A worker's step keeps the types of the queues, and the actor it takes from
\* one is an actor.
LEMMA WorkerQueues ==
  ASSUME QueueTyping, NEW w \in Workers, Worker(w), wpc = [v \in Workers |-> wpc[v]], cur[w] \in Actors \/ ~PushOwn(w)
  PROVE  /\ QueueTyping'
         /\ (PopOwn(w) \/ Steal(w) \/ DrainOverflow(w)) /\ wpc' = [wpc EXCEPT ![w] = "claim"] =>
              \E a \in Actors : cur' = [cur EXCEPT ![w] = a]
<1>1. CASE PopOwn(w)
  <2>1. CASE ~running \/ deque[w] = <<>>
    BY <1>1, <2>1 DEF PopOwn, QueueTyping, WGoto, Steal, DrainOverflow
  <2>2. CASE running /\ deque[w] # <<>>
    <3>1. Front(deque[w]) \in Seq(Actors) /\ Len(Front(deque[w])) <= DequeCap /\ Last(deque[w]) \in Actors
      BY <2>2, DequeTyping DEF QueueTyping
    <3>2. /\ deque' = [deque EXCEPT ![w] = Front(deque[w])] /\ overflow' = overflow
          /\ cur' = [cur EXCEPT ![w] = Last(deque[w])]
      BY <1>1, <2>2, Zenon DEF PopOwn, Front, Last
    <3> QED
      BY <3>1, <3>2, SetDeque, Zenon
  <2> QED
    BY <2>1, <2>2
<1>2. CASE Steal(w)
  <2>1. PICK v \in Workers : /\ deque[v] # <<>> /\ deque' = [deque EXCEPT ![v] = Tail(deque[v])]
                             /\ cur' = [cur EXCEPT ![w] = Head(deque[v])]
    BY <1>2, Zenon DEF Steal
  <2>2. Tail(deque[v]) \in Seq(Actors) /\ Len(Tail(deque[v])) <= DequeCap /\ Head(deque[v]) \in Actors
    BY <2>1, DequeTyping DEF QueueTyping
  <2>3. overflow' = overflow
    BY <1>2 DEF Steal
  <2> QED
    BY <2>1, <2>2, <2>3, SetDeque, Zenon
<1>3. CASE DrainOverflow(w)
  <2>1. CASE overflow = <<>>
    BY <1>3, <2>1 DEF DrainOverflow, QueueTyping, WGoto, Steal, PopOwn
  <2>2. CASE overflow # <<>>
    <3> DEFINE room == DequeCap - Len(deque[w])
               kept == IF Len(Tail(overflow)) <= room THEN Len(Tail(overflow)) ELSE room
               dq == deque[w] \o SubSeq(Tail(overflow), 1, kept)
    <3>1. dq \in Seq(Actors) /\ Len(dq) <= DequeCap /\ Head(overflow) \in Actors
      BY <2>2, DrainTyping
    <3>2. /\ cur' = [cur EXCEPT ![w] = Head(overflow)] /\ deque' = [deque EXCEPT ![w] = dq]
          /\ overflow' = <<>>
      BY <1>3, <2>2, Zenon DEF DrainOverflow
    <3> HIDE DEF dq
    <3> QED
      BY <3>1, <3>2, SetDeque, Zenon
  <2> QED
    BY <2>1, <2>2
<1>4. CASE PushOwn(w)
  <2> ~PopOwn(w) /\ ~Steal(w) /\ ~DrainOverflow(w)
    BY <1>4 DEF PushOwn, PopOwn, Steal, DrainOverflow
  <2>1. CASE Len(deque[w]) < DequeCap
    <3>1. /\ Append(deque[w], cur[w]) \in Seq(Actors) /\ Len(Append(deque[w], cur[w])) = Len(deque[w]) + 1
          /\ Len(deque[w]) \in Nat /\ DequeCap \in Nat
      BY <1>4, DequeTyping, SchedulerAssumption DEF QueueTyping
    <3>2. Len(Append(deque[w], cur[w])) <= DequeCap
      BY <2>1, <3>1
    <3>3. deque' = [deque EXCEPT ![w] = Append(deque[w], cur[w])] /\ overflow' = overflow
      BY <1>4, <2>1, Zenon DEF PushOwn
    <3> QED
      BY <1>4, <3>1, <3>2, <3>3, SetDeque, Zenon
  <2>2. CASE ~(Len(deque[w]) < DequeCap)
    BY <1>4, <2>2 DEF PushOwn, QueueTyping
  <2> QED
    BY <2>1, <2>2
<1>5. CASE ~PopOwn(w) /\ ~Steal(w) /\ ~DrainOverflow(w) /\ ~PushOwn(w)
  <2>1. UNCHANGED <<overflow, deque>>
    BY <1>5, Zenon DEF Worker, FindWork, Process, Dispose, StealNothing, Sleep, Claim, Dequeue, Execute, Crash, Drain,
                Check, IsEmpty, StoreReady, StoreSuspended, Recheck, Rewake, Drop
  <2> QED
    BY <1>5, <2>1 DEF QueueTyping
<1> QED
  BY <1>1, <1>2, <1>3, <1>4, <1>5

\* A worker's step keeps the types.
LEMMA WorkerTyping ==
  ASSUME Typing, NEW w \in Workers, Worker(w)
  PROVE  Typing'
<1>1. cur[w] \in Actors \/ ~PushOwn(w)
  BY DEF Typing, ThreadTyping, PushOwn, Looking
<1>2. /\ QueueTyping'
      /\ (PopOwn(w) \/ Steal(w) \/ DrainOverflow(w)) /\ wpc' = [wpc EXCEPT ![w] = "claim"] =>
           \E a \in Actors : cur' = [cur EXCEPT ![w] = a]
  BY <1>1, WorkerQueues DEF Typing, ThreadTyping
<1>3. ThreadTyping'
  <2> USE SchedulerAssumption DEF Typing, ThreadTyping, WGoto, senderVars, actorVars, Looking
  <2>1. CASE PopOwn(w)
    BY <1>2, <2>1 DEF PopOwn
  <2>2. CASE Steal(w) \/ StealNothing(w) \/ Sleep(w)
    BY <1>2, <2>2 DEF Steal, StealNothing, Sleep
  <2>3. CASE DrainOverflow(w)
    <3>1. UNCHANGED <<state, spc, tgt, registered>>
      BY <2>3, Zenon DEF DrainOverflow
    <3>2. wpc[w] = "overflow" /\ wpc \in [Workers -> {wpc[v] : v \in Workers}] /\ cur \in [Workers -> Actors \cup {NULL}]
      BY <2>3 DEF DrainOverflow
    <3>3. \/ cur' = cur /\ wpc' = [wpc EXCEPT ![w] = "sleep"]
          \/ wpc' = [wpc EXCEPT ![w] = "claim"] /\ \E a \in Actors : cur' = [cur EXCEPT ![w] = a]
      BY <1>2, <2>3, Zenon DEF DrainOverflow
    <3>4. CASE cur' = cur /\ wpc' = [wpc EXCEPT ![w] = "sleep"]
      BY <3>1, <3>2, <3>4
    <3>5. CASE wpc' = [wpc EXCEPT ![w] = "claim"] /\ \E a \in Actors : cur' = [cur EXCEPT ![w] = a]
      BY <3>1, <3>2, <3>5
    <3> QED
      BY <3>3, <3>4, <3>5
  <2>4. CASE Claim(w) \/ Execute(w)
    BY <2>4 DEF Claim, Execute
  <2>5. CASE Dequeue(w) \/ Drain(w)
    BY <2>5 DEF Dequeue, Drain
  <2>6. CASE Crash(w) \/ Rewake(w)
    BY <2>6 DEF Crash, Rewake
  <2>7. CASE StoreReady(w) \/ StoreSuspended(w)
    BY <2>7 DEF StoreReady, StoreSuspended
  <2>8. CASE Check(w) \/ IsEmpty(w) \/ Recheck(w)
    BY <2>8 DEF Check, IsEmpty, Recheck
  <2>9. CASE PushOwn(w) \/ Drop(w)
    BY <2>9 DEF PushOwn, Drop
  <2> HIDE DEF ThreadTyping
  <2> QED
    BY <2>1, <2>2, <2>3, <2>4, <2>5, <2>6, <2>7, <2>8, <2>9, Zenon DEF Worker, FindWork, Process, Dispose
<1> QED
  BY <1>2, <1>3 DEF Typing

\* A step keeps the types.
LEMMA TypingStep ==
  ASSUME Typing, [Next]_vars
  PROVE  Typing'
<1>1. ASSUME NEW a \in Actors, Killer(a) PROVE Typing'
  BY <1>1 DEF Killer, KillStore, KillUnregister, KillRelease, Typing, ThreadTyping, QueueTyping, workerVars, senderVars
<1>2. CASE StopRequest
  BY <1>2 DEF StopRequest, Typing, ThreadTyping, QueueTyping, workerVars, senderVars, actorVars
<1>3. CASE StopDrain
  <2>1. ThreadTyping'
    BY <1>3 DEF StopDrain, Typing, ThreadTyping, workerVars, senderVars
  <2>2. ASSUME NEW w \in Workers, deque[w] # <<>>, deque' = [deque EXCEPT ![w] = Front(@)], overflow' = overflow
        PROVE  QueueTyping'
    <3>1. Front(deque[w]) \in Seq(Actors) /\ Len(Front(deque[w])) <= DequeCap
      BY <2>2, DequeTyping DEF Typing, QueueTyping
    <3> QED
      BY <2>2, <3>1, SetDeque, Zenon DEF Typing
  <2>3. ASSUME overflow # <<>>, overflow' = Tail(overflow), deque' = deque
        PROVE  QueueTyping'
    <3>1. Tail(overflow) \in Seq(Actors)
      BY <2>3 DEF Typing, QueueTyping
    <3> QED
      BY <2>3, <3>1, Zenon DEF Typing, QueueTyping
  <2> QED
    BY <1>3, <2>1, <2>2, <2>3, Zenon DEF StopDrain, Typing, Front
<1>4. CASE UNCHANGED vars
  BY <1>4, Zenon DEF vars, Typing, ThreadTyping, QueueTyping
<1> QED
  BY <1>1, <1>2, <1>3, <1>4, SenderTyping, WorkerTyping, Zenon DEF Next
-----------------------------------------------------------------------------
(* Mail *)

\* What is enough for a step to leave no mail unseen.
LEMMA MailRule ==
  ASSUME MailOK, box' = [a \in Actors |-> box'[a]], running' => running,
         \A a \in Actors : box'[a] # <<>> /\ running' =>
           \/ state'[a] \notin Asleep
           \/ /\ state'[a] = state[a] /\ box[a] # <<>>
              /\ state[a] = "SUSPENDED" /\ Watched(a) => Watched(a)'
              /\ state[a] = "CREATED" /\ Awaited(a) => Awaited(a)'
           \/ state'[a] = "SUSPENDED" /\ Watched(a)'
           \/ Watched(a)' /\ Awaited(a)'
  PROVE  MailOK'
<1>1. ASSUME NEW a \in Actors, box'[a] # <<>>, running'
      PROVE  (state'[a] = "SUSPENDED" => Watched(a)') /\ (state'[a] = "CREATED" => Awaited(a)')
  <2>1. "SUSPENDED" # "CREATED" /\ "SUSPENDED" \in Asleep /\ "CREATED" \in Asleep
    BY DEF Asleep
  <2>2. box[a] # <<>> => (state[a] = "SUSPENDED" => Watched(a)) /\ (state[a] = "CREATED" => Awaited(a))
    BY <1>1, Zenon DEF MailOK
  <2> QED
    BY <1>1, <2>1, <2>2, Zenon
<1> QED
  BY <1>1, Zenon DEF MailOK

\* The mail invariant at the start: no actor has been sent anything.
LEMMA InitMail == Init => MailOK
BY DEF Init, MailOK

\* A sender reserves a place, links its message and then looks at the state.
LEMMA SenderMail ==
  ASSUME Typing, MailOK, NEW s \in Senders, Sender(s)
  PROVE  MailOK'
<1> DEFINE Others == /\ \A t \in Senders \ {s} : tgt'[t] = tgt[t] /\ spc'[t] = spc[t]
                     /\ UNCHANGED <<wpc, cur>>
<1>1. UNCHANGED <<wpc, cur, running>>
  BY Zenon DEF Sender, Lookup, CheckTarget, Enqueue, LinkMsg, Wake, WakeNew, TakeQueueRef, PushOverflow,
     ReleaseTarget, workerVars
<1>2. ASSUME NEW l, spc' = [spc EXCEPT ![s] = l],
             tgt' = tgt \/ \E x : tgt' = [tgt EXCEPT ![s] = x]
      PROVE  /\ Others /\ spc'[s] = l /\ (tgt' = tgt => tgt'[s] = tgt[s])
  BY <1>1, <1>2 DEF Typing, ThreadTyping
<1>3. ASSUME Others, NEW a \in Actors, tgt[s] = a => spc[s] \notin {"link", "wake", "waken"}
      PROVE  (Watched(a) => Watched(a)') /\ (Awaited(a) => Awaited(a)')
  BY <1>3, Zenon DEF Watched, Awaited
<1> HIDE DEF Others
<1>4. CASE Lookup(s) \/ CheckTarget(s) \/ TakeQueueRef(s) \/ PushOverflow(s) \/ ReleaseTarget(s)
  <2>1. /\ UNCHANGED <<state, running>> /\ spc[s] \in {"idle", "check", "ref", "push", "release"}
        /\ \E l : spc' = [spc EXCEPT ![s] = l]
        /\ tgt' = tgt \/ \E x : tgt' = [tgt EXCEPT ![s] = x]
        /\ box' = box \/ box' = [box EXCEPT ![tgt[s]] = <<>>]
    BY <1>4, Zenon DEF Lookup, CheckTarget, TakeQueueRef, PushOverflow, ReleaseTarget, Release, SGoto,
       actorVars
  <2>2. box' = [a \in Actors |-> box'[a]] /\ \A a \in Actors : box'[a] # <<>> => box[a] # <<>>
    BY <2>1 DEF MailOK
  <2>3. \A a \in Actors : (Watched(a) => Watched(a)') /\ (Awaited(a) => Awaited(a)')
    <3>1. spc[s] \notin {"link", "wake", "waken"}
      BY <2>1
    <3> QED
      BY <1>2, <1>3, <2>1, <3>1, Zenon
  <2> QED
    BY <2>1, <2>2, <2>3, MailRule, Zenon
<1>5. CASE Enqueue(s) \/ LinkMsg(s) \/ Wake(s) \/ WakeNew(s)
  <2>1. PICK b : b = tgt[s]
    BY Zenon
  <2>2. PICK l : spc' = [spc EXCEPT ![s] = l]
    BY <1>5, Zenon DEF Enqueue, LinkMsg, Wake, WakeNew, SGoto
  <2>3. tgt' = tgt /\ b \in Actors
    <3>1. spc[s] # "idle" /\ tgt' = tgt
      BY <1>5 DEF Enqueue, LinkMsg, Wake, WakeNew
    <3> QED
      BY <2>1, <3>1, Zenon DEF Typing, ThreadTyping
  <2>4. Others /\ spc'[s] = l /\ tgt'[s] = b
    BY <1>2, <2>1, <2>2, <2>3, Zenon
  <2>5. \A a \in Actors \ {b} : (Watched(a) => Watched(a)') /\ (Awaited(a) => Awaited(a)')
    BY <1>3, <2>1, <2>4, Zenon
  <2>6. CASE Enqueue(s)
    <3>1. /\ UNCHANGED <<state, running>> /\ \E q : box' = [box EXCEPT ![b] = q]
          /\ l = "link" \/ (spc[s] = "enqueue" /\ box' = box)
      <4>1. /\ UNCHANGED <<state, running>> /\ spc[s] = "enqueue"
            /\ \/ box' = [box EXCEPT ![b] = Append(@, <<s, sent[s]>>)] /\ spc' = [spc EXCEPT ![s] = "link"]
               \/ box' = box
        BY <2>1, <2>6, Zenon DEF Enqueue, SGoto
      <4>2. spc' = [spc EXCEPT ![s] = "link"] => l = "link"
        BY <2>2 DEF Typing, ThreadTyping
      <4>3. box = [box EXCEPT ![b] = box[b]]
        BY DEF MailOK
      <4> QED
        BY <4>1, <4>2, <4>3, Zenon
    <3>2. box' = [a \in Actors |-> box'[a]] /\ \A a \in Actors \ {b} : box'[a] = box[a]
      BY <3>1 DEF MailOK
    <3>3. CASE l = "link"
      <4>1. Watched(b)' /\ Awaited(b)'
        BY <2>4, <3>3, Zenon DEF Watched, Awaited
      <4> QED
        BY <2>5, <3>1, <3>2, <4>1, MailRule, Zenon
    <3>4. CASE spc[s] = "enqueue" /\ box' = box
      <4>1. (Watched(b) => Watched(b)') /\ (Awaited(b) => Awaited(b)')
        <5>1. spc[s] \notin {"link", "wake", "waken"}
          BY <3>4
        <5> QED
          BY <1>3, <2>3, <2>4, <5>1, Zenon
      <4> QED
        BY <2>5, <3>1, <3>2, <3>4, <4>1, MailRule, Zenon
    <3> QED
      BY <3>1, <3>3, <3>4, Zenon
  <2>7. CASE LinkMsg(s)
    <3>1. UNCHANGED <<state, running, box>> /\ (running => l = "wake")
      <4>1. UNCHANGED <<state, running, box>> /\ (running => spc' = [spc EXCEPT ![s] = "wake"])
        BY <2>7, Zenon DEF LinkMsg, SGoto, actorVars
      <4>2. spc' = [spc EXCEPT ![s] = "wake"] => l = "wake"
        BY <2>2 DEF Typing, ThreadTyping
      <4> QED
        BY <4>1, <4>2, Zenon
    <3>2. running => Watched(b)' /\ Awaited(b)'
      BY <2>4, <3>1, Zenon DEF Watched, Awaited
    <3>3. box' = [a \in Actors |-> box'[a]]
      BY <3>1, Zenon DEF MailOK
    <3> QED
      BY <2>5, <3>1, <3>2, <3>3, MailRule, Zenon
  <2>8. CASE Wake(s) \/ WakeNew(s)
    <3>1. /\ UNCHANGED <<running, box>>
          /\ \/ state' = [state EXCEPT ![b] = "READY"]
             \/ spc[s] = "wake" /\ state' = state /\ state[b] # "SUSPENDED" /\ spc' = [spc EXCEPT ![s] = "waken"]
             \/ spc[s] = "waken" /\ state' = state /\ state[b] # "CREATED"
      BY <2>1, <2>8, Zenon DEF Wake, WakeNew, SGoto
    <3>2. box' = [a \in Actors |-> box'[a]]
      BY <3>1, Zenon DEF MailOK
    <3>3. CASE state' = [state EXCEPT ![b] = "READY"]
      <4>1. state'[b] = "READY" /\ \A a \in Actors \ {b} : state'[a] = state[a]
        BY <2>3, <3>3 DEF Typing, ThreadTyping
      <4>2. "READY" \notin Asleep
        BY DEF Asleep
      <4> QED
        BY <2>5, <3>1, <3>2, <4>1, <4>2, MailRule, Zenon
    <3>4. CASE spc[s] = "wake" /\ state' = state /\ state[b] # "SUSPENDED" /\ spc' = [spc EXCEPT ![s] = "waken"]
      <4>1. spc'[s] = "waken"
        BY <3>4 DEF Typing, ThreadTyping
      <4>2. Awaited(b)'
        BY <2>4, <4>1, Zenon DEF Awaited
      <4> QED
        BY <2>5, <3>1, <3>2, <3>4, <4>2, MailRule, Zenon
    <3>5. CASE spc[s] = "waken" /\ state' = state /\ state[b] # "CREATED"
      <4>1. spc[s] \notin {"link", "wake"}
        BY <3>5
      <4>2. Watched(b) => Watched(b)'
        BY <2>4, <4>1, Zenon DEF Watched, Others
      <4> QED
        BY <2>5, <3>1, <3>2, <3>5, <4>2, MailRule, Zenon
    <3> QED
      BY <3>1, <3>3, <3>4, <3>5, Zenon
  <2> QED
    BY <1>5, <2>6, <2>7, <2>8
<1> QED
  BY <1>4, <1>5, Zenon DEF Sender

\* A worker that puts its actor to sleep looks again; its other steps take mail
\* away or wake the actor.
LEMMA WorkerMail ==
  ASSUME Typing, MailOK, NEW w \in Workers, Worker(w), "suspended" \notin Outcomes
  PROVE  MailOK'
<1> USE DEF Worker, FindWork, Process, Dispose
<1>1. UNCHANGED <<spc, tgt, running>>
  BY Zenon DEF PopOwn, Steal, StealNothing, DrainOverflow, Sleep, Claim, Dequeue, Execute, Crash, Drain, Check,
     IsEmpty, StoreReady, StoreSuspended, Recheck, Rewake, PushOwn, Drop, senderVars
<1>2. PICK l : wpc' = [wpc EXCEPT ![w] = l]
  <2>1. wpc = [wpc EXCEPT ![w] = wpc[w]]
    BY DEF Typing, ThreadTyping
  <2> QED
    BY <2>1, Zenon DEF PopOwn, Steal, StealNothing, DrainOverflow, Sleep, Claim, Dequeue, Execute, Crash, Drain,
       Check, IsEmpty, StoreReady, StoreSuspended, Recheck, Rewake, PushOwn, Drop, WGoto
<1>3. cur' = cur \/ \E x : cur' = [cur EXCEPT ![w] = x]
  BY Zenon DEF PopOwn, Steal, StealNothing, DrainOverflow, Sleep, Claim, Dequeue, Execute, Crash, Drain, Check,
     IsEmpty, StoreReady, StoreSuspended, Recheck, Rewake, PushOwn, Drop
<1>4. /\ wpc'[w] = l /\ \A u \in Workers \ {w} : wpc'[u] = wpc[u] /\ cur'[u] = cur[u]
      /\ cur' = cur => cur'[w] = cur[w]
  BY <1>2, <1>3 DEF Typing, ThreadTyping
<1>5. ASSUME NEW a \in Actors, cur[w] = a => wpc[w] \notin {"recheck", "rewake"}
      PROVE  (Watched(a) => Watched(a)') /\ (Awaited(a) => Awaited(a)')
  BY <1>1, <1>4, <1>5, Zenon DEF Watched, Awaited
<1>6. CASE FindWork(w) \/ Process(w) \/ Check(w) \/ IsEmpty(w) \/ StoreReady(w) \/ PushOwn(w) \/ Drop(w)
  <2>1. wpc[w] \notin {"recheck", "rewake"}
    <3>1. wpc[w] \in {"pop", "steal", "overflow", "sleep", "claim", "dequeue", "execute", "crash", "drain",
                      "check", "isempty", "ready", "push", "drop"}
      BY <1>6, Zenon DEF PopOwn, Steal, StealNothing, DrainOverflow, Sleep, Claim, Dequeue, Execute, Crash,
         Drain, Check, IsEmpty, StoreReady, PushOwn, Drop
    <3> QED
      BY <3>1
  <2>2. \/ state' = state
        \/ \E x \in {"RUNNING", "TERMINATED", "READY"} : state' = [state EXCEPT ![cur[w]] = x]
    BY <1>6, Zenon DEF PopOwn, Steal, StealNothing, DrainOverflow, Sleep, Claim, Dequeue, Execute, Crash, Drain,
       Check, IsEmpty, StoreReady, PushOwn, Drop, actorVars
  <2>3. \A a \in Actors : state'[a] = state[a] \/ state'[a] \notin Asleep
    BY <2>2 DEF Asleep, Typing, ThreadTyping
  <2>4. \/ box' = box \/ box' = [box EXCEPT ![cur[w]] = <<>>]
        \/ box[cur[w]] # <<>> /\ \E q : box' = [box EXCEPT ![cur[w]] = q]
    BY <1>6, Zenon DEF PopOwn, Steal, StealNothing, DrainOverflow, Sleep, Claim, Dequeue, Reachable, Execute,
       Crash, Drain, Check, IsEmpty, StoreReady, PushOwn, Drop, Release, actorVars
  <2>5. box' = [a \in Actors |-> box'[a]] /\ \A a \in Actors : box'[a] # <<>> => box[a] # <<>>
    BY <2>4 DEF MailOK
  <2> QED
    BY <1>1, <1>5, <2>1, <2>3, <2>5, MailRule, Zenon
<1>7. CASE StoreSuspended(w) \/ Recheck(w) \/ Rewake(w)
  <2>1. PICK b : b = cur[w]
    BY Zenon
  <2>2. b \in Actors /\ box' = box /\ cur'[w] = b /\ box' = [a \in Actors |-> box'[a]]
    <3>1. wpc[w] \in {"suspend", "recheck", "rewake"} /\ cur' = cur /\ box' = box
      BY <1>7, Zenon DEF StoreSuspended, Recheck, Rewake, actorVars
    <3>2. wpc[w] \notin Looking
      BY <3>1 DEF Looking
    <3> QED
      BY <2>1, <3>1, <3>2, Zenon DEF Typing, ThreadTyping, MailOK
  <2>3. \A a \in Actors \ {b} : (Watched(a) => Watched(a)') /\ (Awaited(a) => Awaited(a)')
    BY <1>5, <2>1, Zenon
  <2>4. Awaited(b) => Awaited(b)'
    BY <1>1, Zenon DEF Awaited
  <2>5. CASE StoreSuspended(w)
    <3>1. state' = [state EXCEPT ![b] = "SUSPENDED"] /\ wpc' = [wpc EXCEPT ![w] = "recheck"]
      BY <2>1, <2>5, Zenon DEF StoreSuspended, WGoto
    <3>2. /\ state'[b] = "SUSPENDED" /\ \A a \in Actors \ {b} : state'[a] = state[a]
          /\ wpc'[w] = "recheck"
      BY <2>2, <3>1 DEF Typing, ThreadTyping
    <3>3. Watched(b)'
      BY <2>2, <3>2, Zenon DEF Watched
    <3> QED
      BY <1>1, <2>2, <2>3, <3>2, <3>3, MailRule, Zenon
  <2>6. CASE Recheck(w)
    <3>1. state' = state /\ (box[b] # <<>> => wpc' = [wpc EXCEPT ![w] = "rewake"])
      BY <2>1, <2>6, Zenon DEF Recheck, WGoto, actorVars
    <3>2. box[b] # <<>> => wpc'[w] = "rewake"
      BY <3>1 DEF Typing, ThreadTyping
    <3>3. box[b] # <<>> => Watched(b)'
      BY <2>2, <3>2, Zenon DEF Watched
    <3> QED
      BY <1>1, <2>2, <2>3, <2>4, <3>1, <3>3, MailRule, Zenon
  <2>7. CASE Rewake(w)
    <3>1. state' = [state EXCEPT ![b] = "READY"] \/ (state' = state /\ state[b] # "SUSPENDED")
      BY <2>1, <2>7, Zenon DEF Rewake
    <3>2. /\ state'[b] \notin Asleep \/ (state'[b] = state[b] /\ state[b] # "SUSPENDED")
          /\ \A a \in Actors \ {b} : state'[a] = state[a]
      BY <2>2, <3>1 DEF Asleep, Typing, ThreadTyping
    <3> QED
      BY <1>1, <2>2, <2>3, <2>4, <3>2, MailRule, Zenon
  <2> QED
    BY <1>7, <2>5, <2>6, <2>7
<1> QED
  BY <1>6, <1>7, Zenon

\* Every step keeps the mail invariant: senders, the worker that runs the actor,
\* and the killer.
LEMMA MailStep ==
  ASSUME Typing, MailOK, [Next]_vars, "suspended" \notin Outcomes
  PROVE  MailOK'
<1>1. ASSUME UNCHANGED <<wpc, cur, spc, tgt>>
      PROVE  \A a \in Actors : (Watched(a) => Watched(a)') /\ (Awaited(a) => Awaited(a)')
  BY <1>1, Zenon DEF Watched, Awaited
<1>2. CASE \E a \in Actors : Killer(a)
  <2>1. PICK b \in Actors : Killer(b)
    BY <1>2
  <2>2. UNCHANGED <<wpc, cur, spc, tgt, running>>
    BY <2>1, Zenon DEF Killer, KillStore, KillUnregister, KillRelease, workerVars, senderVars
  <2>3. \A a \in Actors : state'[a] = state[a] \/ state'[a] \notin Asleep
    BY <2>1 DEF Killer, KillStore, KillUnregister, KillRelease, Asleep, Typing, ThreadTyping
  <2>4. box' = box \/ box' = [box EXCEPT ![b] = <<>>]
    BY <2>1, Zenon DEF Killer, KillStore, KillUnregister, KillRelease, Release
  <2>5. box' = [a \in Actors |-> box'[a]] /\ \A a \in Actors : box'[a] # <<>> => box[a] # <<>>
    BY <2>4 DEF MailOK
  <2> QED
    BY <1>1, <2>2, <2>3, <2>5, MailRule, Zenon
<1>3. CASE StopRequest \/ StopDrain
  <2>1. ~running'
    BY <1>3, Zenon DEF StopRequest, StopDrain
  <2>2. box' = box \/ \E a : box' = [box EXCEPT ![a] = <<>>]
    BY <1>3, Zenon DEF StopRequest, StopDrain, Release, actorVars
  <2>3. box' = [a \in Actors |-> box'[a]]
    BY <2>2 DEF MailOK
  <2> QED
    BY <2>1, <2>3, Zenon DEF MailOK
<1>4. CASE UNCHANGED vars
  BY <1>4, Zenon DEF vars, MailOK, Watched, Awaited
<1> QED
  BY <1>2, <1>3, <1>4, SenderMail, WorkerMail, Zenon DEF Next

\* Mail never waits for an actor that nobody is about to wake (send_msg_internal,
\* worker_thread_main after #319), whatever the number of senders and workers,
\* unless actors suspend themselves in Future>>wait.
THEOREM MailIsSeen ==
  ASSUME "suspended" \notin Outcomes
  PROVE  Spec => []NoStrandedMail
<1>1. Typing /\ MailOK => NoStrandedMail
  <2> SUFFICES ASSUME MailOK, running, NEW a \in Actors, box[a] # <<>>, state[a] \in {"CREATED", "SUSPENDED"}
               PROVE  \/ \E s \in Senders : tgt[s] = a /\ spc[s] \in {"link", "wake", "waken"}
                      \/ \E w \in Workers : cur[w] = a /\ wpc[w] \in {"recheck", "rewake"}
    BY Zenon DEF NoStrandedMail
  <2>1. Watched(a) \/ Awaited(a)
    BY Zenon DEF MailOK
  <2> QED
    BY <2>1, Zenon DEF Watched, Awaited
<1>2. Typing /\ MailOK /\ [Next]_vars => (Typing /\ MailOK)'
  BY MailStep, TypingStep, Zenon
<1> QED
  BY <1>1, <1>2, InitTyping, InitMail, PTL DEF Spec
-----------------------------------------------------------------------------
(* Places *)

\* Where the actor a worker has is its own: it is about to be claimed, being
\* run, or about to be queued.
Running == {"dequeue", "execute", "crash", "drain", "check", "isempty", "ready",
            "suspend"}
Owning == Running \cup {"claim", "push"}

Elems(q) == {q[i] : i \in 1..Len(q)}
Distinct(q) == \A i, j \in 1..Len(q) : q[i] = q[j] => i = j

\* The places actor a may have.
Sending(s, a) == tgt[s] = a /\ spc[s] \in {"ref", "push"}
Owned(w, a) == cur[w] = a /\ wpc[w] \in Owning
Queued(w, a) == a \in Elems(deque[w])
Overflowing(a) == a \in Elems(overflow)

\* It has one of them at most.
OnePlace(a) ==
  /\ \A s, t \in Senders : Sending(s, a) /\ Sending(t, a) => s = t
  /\ \A v, w \in Workers : Owned(v, a) /\ Owned(w, a) => v = w
  /\ \A v, w \in Workers : Queued(v, a) /\ Queued(w, a) => v = w
  /\ \A s \in Senders, w \in Workers : ~(Sending(s, a) /\ (Owned(w, a) \/ Queued(w, a)))
  /\ \A v, w \in Workers : ~(Owned(v, a) /\ Queued(w, a))
  /\ Overflowing(a) => /\ \A s \in Senders : ~Sending(s, a)
                       /\ \A w \in Workers : ~Owned(w, a) /\ ~Queued(w, a)
NoPlace(a) ==
  /\ ~Overflowing(a)
  /\ \A s \in Senders : ~Sending(s, a)
  /\ \A w \in Workers : ~Owned(w, a) /\ ~Queued(w, a)

\* An actor that may be woken has none.
PlaceOK ==
  /\ Distinct(overflow) /\ \A w \in Workers : Distinct(deque[w])
  /\ \A a \in Actors : /\ OnePlace(a)
                       /\ state[a] \in {"CREATED", "SUSPENDED"} => NoPlace(a)

\* With deques that have room for all actors none is turned away.
Coming(a) ==
  \/ Overflowing(a)
  \/ \E s \in Senders : Sending(s, a)
  \/ \E w \in Workers : Queued(w, a) \/ (cur[w] = a /\ wpc[w] \in {"push", "claim"})
ReadyOK == running => \A a \in Actors : state[a] = "READY" => Coming(a)
-----------------------------------------------------------------------------
(* Queues *)

\* Taking the first element.
LEMMA TailFacts ==
  ASSUME NEW S, NEW q \in Seq(S), q # <<>>, Distinct(q)
  PROVE  /\ Tail(q) \in Seq(S) /\ Distinct(Tail(q)) /\ Head(q) \in Elems(q) /\ Head(q) \in S
         /\ Elems(Tail(q)) = Elems(q) \ {Head(q)} /\ Len(Tail(q)) = Len(q) - 1 /\ Len(q) \in Nat
<1>1. /\ Len(q) \in Nat /\ Len(q) > 0 /\ Tail(q) \in Seq(S) /\ Len(Tail(q)) = Len(q) - 1
      /\ Head(q) = q[1] /\ q[1] \in S
      /\ \A i \in 1..Len(q) - 1 : Tail(q)[i] = q[i + 1]
  OBVIOUS
<1>2. Distinct(Tail(q))
  BY <1>1 DEF Distinct
<1>3. \A x : x \in Elems(Tail(q)) <=> x \in Elems(q) /\ x # Head(q)
  <2>1. ASSUME NEW i \in 1..Len(Tail(q)) PROVE Tail(q)[i] \in Elems(q) /\ Tail(q)[i] # Head(q)
    <3>1. i + 1 \in 1..Len(q) /\ i + 1 # 1 /\ 1 \in 1..Len(q) /\ Tail(q)[i] = q[i + 1]
      BY <1>1
    <3> QED
      BY <1>1, <3>1 DEF Distinct, Elems
  <2>2. ASSUME NEW i \in 1..Len(q), q[i] # Head(q) PROVE q[i] \in Elems(Tail(q))
    <3>1. i - 1 \in 1..Len(Tail(q)) /\ Tail(q)[i - 1] = q[i]
      BY <1>1, <2>2
    <3> QED
      BY <3>1 DEF Elems
  <2> QED
    BY <2>1, <2>2, Zenon DEF Elems
<1>4. Head(q) \in Elems(q)
  BY <1>1 DEF Elems
<1> QED
  BY <1>1, <1>2, <1>3, <1>4

\* Taking the last element.
LEMMA FrontFacts ==
  ASSUME NEW S, NEW q \in Seq(S), q # <<>>, Distinct(q)
  PROVE  /\ Front(q) \in Seq(S) /\ Distinct(Front(q)) /\ Last(q) \in Elems(q) /\ Last(q) \in S
         /\ Elems(Front(q)) = Elems(q) \ {Last(q)} /\ Len(Front(q)) = Len(q) - 1 /\ Len(q) \in Nat
<1>1. /\ Len(q) \in Nat /\ Len(q) > 0 /\ Front(q) \in Seq(S) /\ Len(Front(q)) = Len(q) - 1
      /\ Last(q) = q[Len(q)] /\ q[Len(q)] \in S
      /\ \A i \in 1..Len(q) - 1 : Front(q)[i] = q[i]
  <2>1. Len(q) \in Nat /\ Len(q) > 0
    OBVIOUS
  <2>2. Last(q) = q[Len(q)] /\ q[Len(q)] \in S
    BY <2>1 DEF Last
  <2>3. Front(q) = SubSeq(q, 1, Len(q) - 1) /\ Len(q) - 1 \in 0..Len(q)
    BY <2>1 DEF Front
  <2>4. PICK k : k = Len(q) - 1
    BY Zenon
  <2>5. PICK r : r = SubSeq(q, 1, k)
    BY Zenon
  <2>6. k \in 0..Len(q)
    BY <2>3, <2>4, Zenon
  <2>7. r \in Seq(S) /\ Len(r) = k /\ \A i \in 1..k : r[i] = q[i]
    BY <2>5, <2>6, SubFacts, Zenon
  <2> QED
    BY <2>1, <2>2, <2>3, <2>4, <2>5, <2>7, Zenon
<1>2. Distinct(Front(q))
  BY <1>1 DEF Distinct
<1>3. \A x : x \in Elems(Front(q)) <=> x \in Elems(q) /\ x # Last(q)
  <2>1. ASSUME NEW i \in 1..Len(Front(q)) PROVE Front(q)[i] \in Elems(q) /\ Front(q)[i] # Last(q)
    <3>1. i \in 1..Len(q) /\ i # Len(q) /\ Len(q) \in 1..Len(q) /\ Front(q)[i] = q[i]
      BY <1>1
    <3> QED
      BY <1>1, <3>1 DEF Distinct, Elems
  <2>2. ASSUME NEW i \in 1..Len(q), q[i] # Last(q) PROVE q[i] \in Elems(Front(q))
    <3>1. i \in 1..Len(Front(q)) /\ Front(q)[i] = q[i]
      BY <1>1, <2>2
    <3> QED
      BY <3>1 DEF Elems
  <2> QED
    BY <2>1, <2>2 DEF Elems
<1>4. Last(q) \in Elems(q)
  BY <1>1 DEF Elems
<1> QED
  BY <1>1, <1>2, <1>3, <1>4

\* Putting queues behind each other.
LEMMA JoinElems ==
  ASSUME NEW S, NEW p \in Seq(S), NEW q \in Seq(S)
  PROVE  Elems(p \o q) = Elems(p) \cup Elems(q)
<1>1. /\ p \o q \in Seq(S) /\ Len(p \o q) = Len(p) + Len(q) /\ Len(p) \in Nat /\ Len(q) \in Nat
      /\ \A i \in 1..Len(p) + Len(q) : (p \o q)[i] = IF i <= Len(p) THEN p[i] ELSE q[i - Len(p)]
  OBVIOUS
<1>2. ASSUME NEW i \in 1..Len(p \o q) PROVE (p \o q)[i] \in Elems(p) \cup Elems(q)
  <2>1. CASE i <= Len(p)
    BY <1>1, <2>1 DEF Elems
  <2>2. CASE i > Len(p)
    <3>1. i - Len(p) \in 1..Len(q) /\ (p \o q)[i] = q[i - Len(p)]
      BY <1>1, <2>2
    <3> QED
      BY <3>1 DEF Elems
  <2> QED
    BY <1>1, <2>1, <2>2
<1>3. ASSUME NEW i \in 1..Len(p) PROVE p[i] \in Elems(p \o q)
  <2>1. i \in 1..Len(p \o q) /\ (p \o q)[i] = p[i]
    BY <1>1
  <2> QED
    BY <2>1 DEF Elems
<1>4. ASSUME NEW i \in 1..Len(q) PROVE q[i] \in Elems(p \o q)
  <2>1. Len(p) + i \in 1..Len(p \o q) /\ (p \o q)[Len(p) + i] = q[i]
    BY <1>1
  <2> QED
    BY <2>1 DEF Elems
<1>5. \A x : x \in Elems(p \o q) => x \in Elems(p) \cup Elems(q)
  BY <1>2, Zenon DEF Elems
<1>6. \A x : x \in Elems(p) \/ x \in Elems(q) => x \in Elems(p \o q)
  BY <1>3, <1>4, Zenon DEF Elems
<1> QED
  BY <1>5, <1>6

\* Putting queues with nothing in common behind each other.
LEMMA ConcatFacts ==
  ASSUME NEW S, NEW p \in Seq(S), NEW q \in Seq(S), Distinct(p), Distinct(q),
         \A x : ~(x \in Elems(p) /\ x \in Elems(q))
  PROVE  /\ p \o q \in Seq(S) /\ Distinct(p \o q) /\ Len(p \o q) = Len(p) + Len(q)
         /\ Elems(p \o q) = Elems(p) \cup Elems(q)
<1>1. /\ p \o q \in Seq(S) /\ Len(p \o q) = Len(p) + Len(q) /\ Len(p) \in Nat /\ Len(q) \in Nat
      /\ \A i \in 1..Len(p) : (p \o q)[i] = p[i]
      /\ \A i \in 1..Len(q) : (p \o q)[Len(p) + i] = q[i]
  OBVIOUS
<1>2. \A i \in 1..Len(p \o q) : \/ i \in 1..Len(p) /\ (p \o q)[i] = p[i]
                                \/ i - Len(p) \in 1..Len(q) /\ (p \o q)[i] = q[i - Len(p)]
  <2> SUFFICES ASSUME NEW i \in 1..Len(p \o q), i \notin 1..Len(p)
               PROVE  i - Len(p) \in 1..Len(q) /\ (p \o q)[i] = q[i - Len(p)]
    BY <1>1
  <2>1. i - Len(p) \in 1..Len(q) /\ Len(p) + (i - Len(p)) = i
    BY <1>1
  <2> QED
    BY <1>1, <2>1
<1>3. \A i \in 1..Len(p) : p[i] \in Elems(p)
  BY DEF Elems
<1>4. \A i \in 1..Len(q) : q[i] \in Elems(q)
  BY DEF Elems
<1>5. Distinct(p \o q)
  <2> SUFFICES ASSUME NEW i \in 1..Len(p \o q), NEW j \in 1..Len(p \o q), (p \o q)[i] = (p \o q)[j]
               PROVE  i = j
    BY DEF Distinct
  <2>1. CASE i \in 1..Len(p) /\ j \in 1..Len(p)
    BY <1>1, <2>1 DEF Distinct
  <2>2. CASE i - Len(p) \in 1..Len(q) /\ j - Len(p) \in 1..Len(q)
    <3>1. q[i - Len(p)] = q[j - Len(p)]
      BY <1>1, <1>2, <2>2
    <3> QED
      BY <1>1, <2>2, <3>1 DEF Distinct
  <2> QED
    BY <1>2, <1>3, <1>4, <2>1, <2>2
<1>6. \A x : x \in Elems(p \o q) <=> x \in Elems(p) \/ x \in Elems(q)
  <2>1. ASSUME NEW i \in 1..Len(p \o q) PROVE (p \o q)[i] \in Elems(p) \cup Elems(q)
    BY <1>2, <1>3, <1>4
  <2>2. ASSUME NEW i \in 1..Len(p) PROVE p[i] \in Elems(p \o q)
    BY <1>1, <2>2 DEF Elems
  <2>3. ASSUME NEW i \in 1..Len(q) PROVE q[i] \in Elems(p \o q)
    <3>1. Len(p) + i \in 1..Len(p \o q) /\ (p \o q)[Len(p) + i] = q[i]
      BY <1>1
    <3> QED
      BY <3>1 DEF Elems
  <2> QED
    BY <2>1, <2>2, <2>3, Zenon DEF Elems
<1> QED
  BY <1>1, <1>5, <1>6

\* A queue of one.
LEMMA SingleFacts ==
  ASSUME NEW S, NEW x \in S
  PROVE  <<x>> \in Seq(S) /\ Distinct(<<x>>) /\ Elems(<<x>>) = {x} /\ Len(<<x>>) = 1
BY DEF Distinct, Elems

\* A part of a queue.
LEMMA PrefixFacts ==
  ASSUME NEW S, NEW q \in Seq(S), Distinct(q), NEW k \in 0..Len(q)
  PROVE  /\ SubSeq(q, 1, k) \in Seq(S) /\ Distinct(SubSeq(q, 1, k))
         /\ Elems(SubSeq(q, 1, k)) \subseteq Elems(q) /\ Len(SubSeq(q, 1, k)) = k
         /\ k = Len(q) => SubSeq(q, 1, k) = q
<1>1. /\ SubSeq(q, 1, k) \in Seq(S) /\ Len(SubSeq(q, 1, k)) = k /\ Len(q) \in Nat
      /\ \A i \in 1..k : SubSeq(q, 1, k)[i] = q[i] /\ i \in 1..Len(q)
  BY SubFacts
<1>2. k = Len(q) => SubSeq(q, 1, k) = q
  BY <1>1
<1> QED
  BY <1>1, <1>2 DEF Distinct, Elems
-----------------------------------------------------------------------------
(* Steps and places *)

\* An actor loses places only, or stays out of them.
Less(a) ==
  /\ \A s \in Senders : Sending(s, a)' => Sending(s, a)
  /\ \A w \in Workers : (Owned(w, a)' => Owned(w, a)) /\ (Queued(w, a)' => Queued(w, a))
  /\ Overflowing(a)' => Overflowing(a)

\* At the start no actor is in a queue and none is ready.
LEMMA InitPlaces == Init => PlaceOK /\ ReadyOK
<1> SUFFICES ASSUME Init PROVE PlaceOK /\ ReadyOK
  OBVIOUS
<1>1. Elems(<<>>) = {} /\ Distinct(<<>>)
  BY DEF Elems, Distinct
<1>2. \A a \in Actors : NoPlace(a) /\ OnePlace(a)
  BY <1>1, SchedulerAssumption DEF Init, Owning, Running, NoPlace, OnePlace, Sending, Owned, Queued, Overflowing
<1>3. PlaceOK
  BY <1>1, <1>2 DEF Init, PlaceOK
<1>4. ReadyOK
  BY DEF Init, ReadyOK
<1> QED
  BY <1>3, <1>4

\* What is enough for a step to keep places apart.
LEMMA PlaceRule ==
  ASSUME PlaceOK, Distinct(overflow)', \A w \in Workers : Distinct(deque[w])',
         \A a \in Actors :
           \/ Less(a) /\ (state'[a] \in Asleep => state[a] \in Asleep \/ NoPlace(a)')
           \/ OnePlace(a)' /\ state'[a] \notin Asleep
  PROVE  PlaceOK'
<1>1. ASSUME NEW a \in Actors, OnePlace(a), Less(a) PROVE OnePlace(a)'
  BY <1>1, Zenon DEF OnePlace, Less
<1>2. ASSUME NEW a \in Actors, NoPlace(a), Less(a) PROVE NoPlace(a)'
  BY <1>2, Zenon DEF NoPlace, Less
<1> QED
  BY <1>1, <1>2, Zenon DEF PlaceOK, Asleep

\* A sender's step moves its actor into the overflow list, makes a sleeping
\* one READY, or leaves places alone.
LEMMA SenderPlaces ==
  ASSUME Typing, PlaceOK, NEW s \in Senders, Sender(s)
  PROVE  PlaceOK'
<1> PICK b : b = tgt[s]
  OBVIOUS
<1> USE DEF Typing, ThreadTyping
<1>1. /\ UNCHANGED <<deque, wpc, cur>>
      /\ \A t \in Senders \ {s} : spc'[t] = spc[t] /\ tgt'[t] = tgt[t]
  BY DEF Sender, Lookup, CheckTarget, Enqueue, LinkMsg, Wake, WakeNew, TakeQueueRef, PushOverflow,
         ReleaseTarget, SGoto, workerVars
<1>2. \A a : /\ \A w \in Workers : (Owned(w, a)' <=> Owned(w, a)) /\ (Queued(w, a)' <=> Queued(w, a))
             /\ \A t \in Senders \ {s} : Sending(t, a)' <=> Sending(t, a)
  BY <1>1 DEF Owned, Queued, Sending
<1>3. CASE PushOverflow(s)
  <2>1. b \in Actors /\ Sending(s, b) /\ spc'[s] = "release" /\ overflow' = <<b>> \o overflow /\ state' = state
    BY <1>3 DEF PushOverflow, SGoto, Sending, actorVars
  <2>2. OnePlace(b) /\ state[b] \notin Asleep
    BY <2>1, Zenon DEF PlaceOK, NoPlace, Asleep
  <2>3. ~Overflowing(b) /\ overflow \in Seq(Actors) /\ Distinct(overflow)
    BY <2>1, <2>2, Zenon DEF OnePlace, PlaceOK, QueueTyping
  <2>4. Distinct(overflow)' /\ Elems(overflow') = {b} \cup Elems(overflow)
    <3>1. <<b>> \in Seq(Actors) /\ Distinct(<<b>>) /\ Elems(<<b>>) = {b}
      BY <2>1, SingleFacts
    <3>2. \A x : ~(x \in Elems(<<b>>) /\ x \in Elems(overflow))
      BY <2>3, <3>1 DEF Overflowing
    <3>3. /\ Distinct(<<b>> \o overflow)
          /\ Elems(<<b>> \o overflow) = Elems(<<b>>) \cup Elems(overflow)
      <4> DEFINE p == <<b>>
      <4>1. p \in Seq(Actors) /\ Distinct(p) /\ \A x : ~(x \in Elems(p) /\ x \in Elems(overflow))
        BY <3>1, <3>2
      <4> HIDE DEF p, Typing, ThreadTyping
      <4>2. Distinct(p \o overflow) /\ Elems(p \o overflow) = Elems(p) \cup Elems(overflow)
        BY <2>3, <4>1, ConcatFacts
      <4> QED
        BY <4>2 DEF p
    <3> QED
      BY <2>1, <3>1, <3>3
  <2>5. \A a : ~Sending(s, a)'
    BY <2>1 DEF Sending
  <2>6. OnePlace(b)'
    <3>1. /\ \A t \in Senders : ~Sending(t, b)'
          /\ \A w \in Workers : ~Owned(w, b)' /\ ~Queued(w, b)'
      <4>1. Sending(s, b) /\ OnePlace(b)
        BY <2>1, <2>2
      <4> HIDE DEF Typing, ThreadTyping
      <4> QED
        BY <1>2, <2>5, <4>1, Zenon DEF OnePlace
    <3> QED
      BY <3>1, Zenon DEF OnePlace
  <2>7. \A a \in Actors \ {b} : Less(a)
    BY <1>2, <2>4, <2>5 DEF Less, Overflowing
  <2> QED
    <3>1. \A w \in Workers : Distinct(deque[w])'
      BY <1>1, Zenon DEF PlaceOK
    <3> HIDE DEF Typing, ThreadTyping
    <3>2. state' = state /\ state[b] \notin Asleep
      BY <2>1, <2>2
    <3>3. ASSUME NEW a \in Actors
          PROVE  \/ Less(a) /\ (state'[a] \in Asleep => state[a] \in Asleep \/ NoPlace(a)')
                 \/ OnePlace(a)' /\ state'[a] \notin Asleep
      BY <2>6, <2>7, <3>2, Zenon
    <3> QED
      BY <2>4, <3>1, <3>3, PlaceRule, Zenon
<1>4. CASE (Wake(s) \/ WakeNew(s)) /\ state'[b] # state[b]
  <2>1. /\ b \in Actors /\ state[b] \in Asleep /\ state'[b] = "READY" /\ overflow' = overflow
        /\ tgt'[s] = b /\ \A a \in Actors \ {b} : state'[a] = state[a]
    BY <1>4 DEF Wake, WakeNew, Asleep
  <2>2. NoPlace(b)
    BY <2>1 DEF PlaceOK, Asleep
  <2>3. OnePlace(b)'
    BY <1>2, <2>1, <2>2, Zenon DEF OnePlace, NoPlace, Overflowing
  <2>4. \A a \in Actors \ {b} : Less(a)
    BY <1>2, <2>1 DEF Less, Overflowing, Sending
  <2>5. "READY" \notin Asleep
    BY DEF Asleep
  <2> QED
    BY <1>1, <2>1, <2>3, <2>4, <2>5, PlaceRule DEF PlaceOK
<1>5. CASE ~PushOverflow(s) /\ ~((Wake(s) \/ WakeNew(s)) /\ state'[b] # state[b])
  <2>1. overflow' = overflow /\ state' = state
    BY <1>5 DEF Sender, Lookup, CheckTarget, Enqueue, LinkMsg, Wake, WakeNew, TakeQueueRef, ReleaseTarget, actorVars
  <2>2. \A a \in Actors : Sending(s, a)' => Sending(s, a)
    BY <1>5 DEF Sender, Lookup, CheckTarget, Enqueue, LinkMsg, Wake, WakeNew, TakeQueueRef, ReleaseTarget, SGoto, Sending
  <2>3. \A a \in Actors : Less(a)
    BY <1>2, <2>1, <2>2, Zenon DEF Less, Overflowing
  <2> QED
    BY <1>1, <2>1, <2>3, PlaceRule DEF PlaceOK
<1> QED
  BY <1>3, <1>4, <1>5

\* A worker's step that takes an actor out of a queue.
LEMMA TakePlaces ==
  ASSUME Typing, PlaceOK, NEW w \in Workers, NEW b \in Actors, NEW v \in Workers,
         UNCHANGED <<spc, tgt, state, overflow>>, wpc[w] \in Looking,
         cur' = [cur EXCEPT ![w] = b], wpc' = [wpc EXCEPT ![w] = "claim"],
         NEW q, deque' = [deque EXCEPT ![v] = q], Distinct(q), b \in Elems(deque[v]),
         Elems(q) = Elems(deque[v]) \ {b}
  PROVE  PlaceOK'
<1> USE DEF Typing, ThreadTyping, QueueTyping
<1>1. /\ deque'[v] = q /\ \A u \in Workers \ {v} : deque'[u] = deque[u]
      /\ cur'[w] = b /\ wpc'[w] = "claim" /\ \A u \in Workers \ {w} : cur'[u] = cur[u] /\ wpc'[u] = wpc[u]
  OBVIOUS
<1> HIDE DEF Typing
<1>2. OnePlace(b) /\ state[b] \notin Asleep /\ Queued(v, b)
  BY Zenon DEF PlaceOK, NoPlace, Queued, Asleep
<1>3. \A a : /\ \A s \in Senders : Sending(s, a)' <=> Sending(s, a)
             /\ Overflowing(a)' <=> Overflowing(a)
             /\ \A u \in Workers \ {w} : Owned(u, a)' <=> Owned(u, a)
             /\ \A u \in Workers : Queued(u, a)' => Queued(u, a) /\ (a # b \/ u # v)
             /\ Owned(w, a)' => a = b
  BY <1>1 DEF Sending, Overflowing, Owned, Queued
<1>4. OnePlace(b)'
  BY <1>2, <1>3, Zenon DEF OnePlace
<1>5. \A a \in Actors \ {b} : Less(a)
  BY <1>3, Zenon DEF Less
<1>6. \A u \in Workers : Distinct(deque[u])'
  BY <1>1, Zenon DEF PlaceOK
<1> QED
  BY <1>2, <1>4, <1>5, <1>6, PlaceRule DEF PlaceOK

\* drain_overflow: the first actor goes to the worker, the others to its deque.
LEMMA DrainPlaces ==
  ASSUME Typing, PlaceOK, NEW w \in Workers, DrainOverflow(w), overflow # <<>>
  PROVE  PlaceOK'
<1>b. PICK b : b = Head(overflow)
  BY Zenon
<1>r. PICK rest : rest = Tail(overflow)
  BY Zenon
<1>k. PICK kept : kept = IF Len(rest) <= DequeCap - Len(deque[w]) THEN Len(rest) ELSE DequeCap - Len(deque[w])
  BY Zenon
<1>m. PICK more : more = SubSeq(rest, 1, kept)
  BY Zenon
<1>1. /\ cur' = [cur EXCEPT ![w] = b] /\ wpc' = [wpc EXCEPT ![w] = "claim"]
      /\ deque' = [deque EXCEPT ![w] = deque[w] \o more] /\ overflow' = <<>>
      /\ UNCHANGED <<spc, tgt, state>> /\ wpc[w] = "overflow"
  BY <1>b, <1>r, <1>k, <1>m, Zenon DEF DrainOverflow, WGoto, actorVars, senderVars
<1>2. /\ rest \in Seq(Actors) /\ Distinct(rest) /\ b \in Elems(overflow) /\ b \in Actors
      /\ Elems(rest) = Elems(overflow) \ {b}
  BY <1>b, <1>r, TailFacts, Zenon DEF PlaceOK, Typing, QueueTyping
<1>3. kept \in 0..Len(rest)
  BY <1>r, <1>k, DrainTyping, Zenon DEF Typing
<1>4. more \in Seq(Actors) /\ Distinct(more) /\ Elems(more) \subseteq Elems(rest)
  BY <1>m, <1>2, <1>3, PrefixFacts, Zenon
<1>5. \A x \in Elems(overflow) : x \in Actors
  BY DEF Elems, Typing, QueueTyping
<1>6. \A x : ~(x \in Elems(deque[w]) /\ x \in Elems(more))
  BY <1>2, <1>4, <1>5, Zenon DEF PlaceOK, OnePlace, Overflowing, Queued
<1>7. /\ deque[w] \in Seq(Actors) /\ Distinct(deque[w])
      /\ cur'[w] = b /\ wpc'[w] = "claim" /\ \A u \in Workers \ {w} : cur'[u] = cur[u] /\ wpc'[u] = wpc[u]
      /\ deque'[w] = deque[w] \o more /\ \A u \in Workers \ {w} : deque'[u] = deque[u]
  <2>1. deque[w] \in Seq(Actors) /\ Distinct(deque[w])
    BY Zenon DEF PlaceOK, Typing, QueueTyping
  <2>2. /\ cur'[w] = b /\ wpc'[w] = "claim"
        /\ \A u \in Workers \ {w} : cur'[u] = cur[u] /\ wpc'[u] = wpc[u]
    BY <1>1 DEF Typing, ThreadTyping
  <2>3. deque'[w] = deque[w] \o more /\ \A u \in Workers \ {w} : deque'[u] = deque[u]
    <3>q. PICK q : q = deque[w] \o more
      BY Zenon
    <3>1. deque' = [deque EXCEPT ![w] = q] /\ deque \in [Workers -> Seq(Actors)]
      BY <3>q, <1>1, Zenon DEF Typing, QueueTyping
    <3>2. deque'[w] = q /\ \A u \in Workers \ {w} : deque'[u] = deque[u]
      BY <3>1
    <3> QED
      BY <3>q, <3>2, Zenon
  <2> QED
    BY <2>1, <2>2, <2>3, Zenon
<1>8. Distinct(deque[w] \o more) /\ Elems(deque[w] \o more) = Elems(deque[w]) \cup Elems(more)
  <2>p. PICK p : p = deque[w]
    BY Zenon
  <2>1. p \in Seq(Actors) /\ Distinct(p) /\ \A x : ~(x \in Elems(p) /\ x \in Elems(more))
    BY <2>p, <1>6, <1>7, Zenon
  <2>2. Distinct(p \o more) /\ Elems(p \o more) = Elems(p) \cup Elems(more)
    BY <1>4, <2>1, ConcatFacts
  <2> QED
    BY <2>p, <2>2, Zenon
<1>9. Elems(<<>>) = {} /\ Distinct(<<>>)
  BY DEF Elems, Distinct
<1>10. \A a : /\ \A s \in Senders : Sending(s, a)' <=> Sending(s, a)
              /\ ~Overflowing(a)'
              /\ \A u \in Workers \ {w} : (Owned(u, a)' <=> Owned(u, a)) /\ (Queued(u, a)' <=> Queued(u, a))
              /\ Owned(w, a)' => a = b
              /\ Queued(w, a)' => Queued(w, a) \/ (Overflowing(a) /\ a # b)
  BY <1>1, <1>2, <1>4, <1>7, <1>8, <1>9 DEF Sending, Overflowing, Owned, Queued
<1>11. ASSUME NEW a \in Actors
       PROVE  \/ Less(a) /\ (state'[a] \in Asleep => state[a] \in Asleep \/ NoPlace(a)')
              \/ OnePlace(a)' /\ state'[a] \notin Asleep
  <2>1. CASE Overflowing(a)
    <3>1. OnePlace(a) /\ state[a] \notin Asleep
      BY <2>1, Zenon DEF PlaceOK, NoPlace, Asleep
    <3>2. OnePlace(a)'
      BY <1>10, <2>1, <3>1, Zenon DEF OnePlace
    <3> QED
      BY <1>1, <3>1, <3>2
  <2>2. CASE ~Overflowing(a)
    <3>1. a # b
      BY <1>2, <2>2 DEF Overflowing
    <3> QED
      BY <1>1, <1>10, <2>2, <3>1, Zenon DEF Less
  <2> QED
    BY <2>1, <2>2
<1>12. Distinct(overflow)' /\ \A u \in Workers : Distinct(deque[u])'
  BY <1>1, <1>7, <1>8, <1>9, Zenon DEF PlaceOK
<1> QED
  BY <1>11, <1>12, PlaceRule, Zenon

\* The worker pushes its actor on its deque, or finds that full.
LEMMA PushPlaces ==
  ASSUME Typing, PlaceOK, NEW w \in Workers, PushOwn(w)
  PROVE  PlaceOK'
<1> PICK b : b = cur[w]
  BY Zenon
<1>1. /\ b \in Actors /\ Owned(w, b) /\ UNCHANGED <<spc, tgt, state, overflow>>
      /\ wpc'[w] = "pop" /\ \A u \in Workers \ {w} : cur'[u] = cur[u] /\ wpc'[u] = wpc[u] /\ deque'[u] = deque[u]
      /\ deque'[w] = deque[w] \/ deque'[w] = Append(deque[w], b)
  <2>1. /\ wpc[w] = "push" /\ cur' = [cur EXCEPT ![w] = NULL] /\ wpc' = [wpc EXCEPT ![w] = "pop"]
        /\ UNCHANGED <<spc, tgt, state, overflow>>
        /\ deque' = [deque EXCEPT ![w] = Append(deque[w], b)] \/ deque' = deque
    BY Zenon DEF PushOwn, WGoto, actorVars, senderVars
  <2>2. b \in Actors /\ Owned(w, b)
    BY <2>1 DEF Typing, ThreadTyping, Looking, Owned, Owning
  <2>3. wpc'[w] = "pop" /\ \A u \in Workers \ {w} : cur'[u] = cur[u] /\ wpc'[u] = wpc[u]
    BY <2>1 DEF Typing, ThreadTyping
  <2>4. /\ deque'[w] = deque[w] \/ deque'[w] = Append(deque[w], b)
        /\ \A u \in Workers \ {w} : deque'[u] = deque[u]
    BY <2>1 DEF Typing, QueueTyping
  <2> QED
    BY <2>1, <2>2, <2>3, <2>4, Zenon
<1>2. deque[w] \in Seq(Actors) /\ Distinct(deque[w]) /\ OnePlace(b) /\ state[b] \notin Asleep
  BY <1>1, Zenon DEF PlaceOK, NoPlace, Asleep, Typing, QueueTyping
<1>3. b \notin Elems(deque[w])
  BY <1>1, <1>2, Zenon DEF OnePlace, Queued
<1>4. Distinct(Append(deque[w], b)) /\ Elems(Append(deque[w], b)) = Elems(deque[w]) \cup {b}
  <2> PICK p : p = deque[w]
    BY Zenon
  <2> PICK q : q = <<b>>
    BY Zenon
  <2>1. p \in Seq(Actors) /\ q \in Seq(Actors) /\ Distinct(p) /\ Distinct(q) /\ Elems(q) = {b}
    BY <1>1, <1>2, SingleFacts
  <2>2. \A x : ~(x \in Elems(p) /\ x \in Elems(q))
    BY <1>3, <2>1
  <2>3. Distinct(p \o q) /\ Elems(p \o q) = Elems(p) \cup Elems(q)
    BY <2>1, <2>2, ConcatFacts
  <2>4. Append(p, b) = p \o <<b>>
    BY <1>1, <2>1
  <2> QED
    BY <2>1, <2>3, <2>4
<1>5. \A a : /\ \A s \in Senders : Sending(s, a)' <=> Sending(s, a)
             /\ Overflowing(a)' <=> Overflowing(a)
             /\ \A u \in Workers \ {w} : (Owned(u, a)' <=> Owned(u, a)) /\ (Queued(u, a)' <=> Queued(u, a))
             /\ ~Owned(w, a)'
             /\ Queued(w, a)' => Queued(w, a) \/ a = b
  <2>1. \A a : /\ \A s \in Senders : Sending(s, a)' <=> Sending(s, a)
               /\ Overflowing(a)' <=> Overflowing(a)
               /\ \A u \in Workers \ {w} : (Owned(u, a)' <=> Owned(u, a)) /\ (Queued(u, a)' <=> Queued(u, a))
    BY <1>1, Zenon DEF Sending, Overflowing, Owned, Queued
  <2>2. \A a : ~Owned(w, a)'
    BY <1>1 DEF Owned, Owning, Running
  <2>3. \A a : Queued(w, a)' => Queued(w, a) \/ a = b
    <3>q. PICK q : q = Append(deque[w], b)
      BY Zenon
    <3>1. Elems(q) = Elems(deque[w]) \cup {b} /\ (deque'[w] = deque[w] \/ deque'[w] = q)
      BY <3>q, <1>1, <1>4, Zenon
    <3> QED
      BY <3>1 DEF Queued
  <2> QED
    BY <2>1, <2>2, <2>3, Zenon
<1>6. OnePlace(b)'
  <2>1. /\ \A s \in Senders : ~Sending(s, b)
        /\ \A u \in Workers : Owned(u, b) => u = w
        /\ ~Overflowing(b) /\ \A u \in Workers : ~Queued(u, b)
    BY <1>1, <1>2, Zenon DEF OnePlace
  <2>2. \A s \in Senders : ~Sending(s, b)'
    BY <1>5, <2>1, Zenon
  <2>3. \A u \in Workers : ~Owned(u, b)'
    BY <1>5, <2>1, Zenon
  <2>4. ~Overflowing(b)'
    BY <1>5, <2>1, Zenon
  <2>5. \A u \in Workers : Queued(u, b)' => u = w
    BY <1>5, <2>1, Zenon
  <2> QED
    BY <2>2, <2>3, <2>4, <2>5, Zenon DEF OnePlace
<1>7. \A a \in Actors \ {b} : Less(a)
  BY <1>5, Zenon DEF Less
<1>8. Distinct(overflow)' /\ \A u \in Workers : Distinct(deque[u])'
  BY <1>1, <1>4, Zenon DEF PlaceOK
<1>9. state' = state
  BY <1>1
<1> QED
  BY <1>2, <1>6, <1>7, <1>8, <1>9, PlaceRule, Zenon

\* The worker that looked again wakes an actor that is asleep.
LEMMA RewakePlaces ==
  ASSUME Typing, PlaceOK, NEW w \in Workers, Rewake(w), state[cur[w]] = "SUSPENDED"
  PROVE  PlaceOK'
<1> USE DEF Typing, ThreadTyping
<1> PICK b : b = cur[w]
  OBVIOUS
<1>1. /\ b \in Actors /\ state'[b] = "READY" /\ UNCHANGED <<spc, tgt, overflow, deque, cur>>
      /\ \A u \in Workers \ {w} : wpc'[u] = wpc[u]
      /\ \A a \in Actors \ {b} : state'[a] = state[a]
  BY DEF Rewake, WGoto, Looking, senderVars
<1> HIDE DEF Typing, ThreadTyping
<1>2. NoPlace(b) /\ "READY" \notin Asleep
  BY <1>1 DEF PlaceOK, Asleep
<1>3. \A a : /\ \A s \in Senders : Sending(s, a)' <=> Sending(s, a)
             /\ Overflowing(a)' <=> Overflowing(a)
             /\ \A u \in Workers : Queued(u, a)' <=> Queued(u, a)
             /\ \A u \in Workers \ {w} : Owned(u, a)' <=> Owned(u, a)
             /\ Owned(w, a)' => a = b
  BY <1>1 DEF Sending, Overflowing, Owned, Queued
<1>4. OnePlace(b)'
  BY <1>2, <1>3, Zenon DEF OnePlace, NoPlace
<1>5. \A a \in Actors \ {b} : Less(a)
  BY <1>3, Zenon DEF Less
<1>6. Distinct(overflow)' /\ \A u \in Workers : Distinct(deque[u])'
  BY <1>1, Zenon DEF PlaceOK
<1> QED
  BY <1>1, <1>2, <1>4, <1>5, <1>6, PlaceRule, Zenon

\* A step of a worker that moves no actor, or that gives up its own.
LEMMA StayPlaces ==
  ASSUME Typing, PlaceOK, NEW w \in Workers, UNCHANGED <<spc, tgt, overflow, deque>>,
         NEW l, wpc' = [wpc EXCEPT ![w] = l],
         cur' = cur \/ (cur' = [cur EXCEPT ![w] = NULL] /\ l \notin Owning),
         l \in Owning => wpc[w] \in Owning,
         \A a \in Actors : state'[a] \in Asleep =>
           state[a] \in Asleep \/ (a = cur[w] /\ wpc[w] \in Owning /\ l \notin Owning)
  PROVE  PlaceOK'
<1>1. /\ wpc'[w] = l /\ \A u \in Workers \ {w} : cur'[u] = cur[u] /\ wpc'[u] = wpc[u]
      /\ l \in Owning => cur'[w] = cur[w]
  BY DEF Typing, ThreadTyping
<1>2. \A a : /\ \A s \in Senders : Sending(s, a)' <=> Sending(s, a)
             /\ Overflowing(a)' <=> Overflowing(a)
             /\ \A u \in Workers : Queued(u, a)' <=> Queued(u, a)
             /\ \A u \in Workers \ {w} : Owned(u, a)' <=> Owned(u, a)
             /\ Owned(w, a)' => Owned(w, a) /\ l \in Owning
  BY <1>1, Zenon DEF Sending, Overflowing, Owned, Queued
<1>3. \A a \in Actors : Less(a)
  BY <1>2, Zenon DEF Less
<1>4. ASSUME NEW a \in Actors, a = cur[w], wpc[w] \in Owning, l \notin Owning PROVE NoPlace(a)'
  <2>1. OnePlace(a) /\ Owned(w, a)
    BY <1>4, Zenon DEF PlaceOK, Owned
  <2> QED
    BY <1>2, <1>4, <2>1, Zenon DEF OnePlace, NoPlace
<1>5. Distinct(overflow)' /\ \A u \in Workers : Distinct(deque[u])'
  BY Zenon DEF PlaceOK
<1> QED
  BY <1>3, <1>4, <1>5, PlaceRule, Zenon

\* The steps that find work.
LEMMA FindPlaces ==
  ASSUME Typing, PlaceOK, NEW w \in Workers, FindWork(w)
  PROVE  PlaceOK'
<1>1. ASSUME NEW l, l \notin Owning, WGoto(w, l), UNCHANGED <<state, spc, tgt, overflow, deque, cur>>
      PROVE  PlaceOK'
  BY <1>1, StayPlaces, Zenon DEF WGoto
<1>2. \A v \in Workers : deque[v] \in Seq(Actors) /\ Distinct(deque[v])
  BY Zenon DEF Typing, QueueTyping, PlaceOK
<1>3. CASE PopOwn(w)
  <2>1. CASE running /\ deque[w] # <<>>
    <3>1. /\ wpc[w] = "pop" /\ UNCHANGED <<spc, tgt, state, overflow>>
          /\ cur' = [cur EXCEPT ![w] = Last(deque[w])] /\ wpc' = [wpc EXCEPT ![w] = "claim"]
          /\ deque' = [deque EXCEPT ![w] = Front(deque[w])]
      BY <1>3, <2>1, Zenon DEF PopOwn, Front, Last, WGoto, actorVars, senderVars
    <3>2. /\ Last(deque[w]) \in Actors /\ Last(deque[w]) \in Elems(deque[w]) /\ Distinct(Front(deque[w]))
          /\ Elems(Front(deque[w])) = Elems(deque[w]) \ {Last(deque[w])}
      BY <1>2, <2>1, FrontFacts, Zenon
    <3>3. wpc[w] \in Looking
      BY <3>1 DEF Looking
    <3> QED
      BY <3>1, <3>2, <3>3, TakePlaces, Zenon
  <2>2. CASE ~(running /\ deque[w] # <<>>)
    <3>1. /\ WGoto(w, "exit") \/ WGoto(w, "steal")
          /\ UNCHANGED <<state, spc, tgt, overflow, deque, cur>>
      BY <1>3, <2>2, Zenon DEF PopOwn, actorVars, senderVars
    <3>2. "exit" \notin Owning /\ "steal" \notin Owning
      BY DEF Owning, Running
    <3> QED
      BY <1>1, <3>1, <3>2, Zenon
  <2> QED
    BY <2>1, <2>2
<1>4. CASE Steal(w)
  <2>1. PICK v \in Workers \ {w} : /\ deque[v] # <<>> /\ cur' = [cur EXCEPT ![w] = Head(deque[v])]
                                   /\ deque' = [deque EXCEPT ![v] = Tail(deque[v])]
    BY <1>4, Zenon DEF Steal
  <2>2. wpc[w] = "steal" /\ UNCHANGED <<spc, tgt, state, overflow>> /\ wpc' = [wpc EXCEPT ![w] = "claim"]
    BY <1>4, Zenon DEF Steal, WGoto, actorVars, senderVars
  <2>3. /\ Head(deque[v]) \in Actors /\ Head(deque[v]) \in Elems(deque[v]) /\ Distinct(Tail(deque[v]))
        /\ Elems(Tail(deque[v])) = Elems(deque[v]) \ {Head(deque[v])}
    BY <1>2, <2>1, TailFacts, Zenon
  <2>4. wpc[w] \in Looking
    BY <2>2 DEF Looking
  <2> QED
    BY <2>1, <2>2, <2>3, <2>4, TakePlaces, Zenon
<1>5. CASE DrainOverflow(w)
  <2>1. CASE overflow = <<>>
    <3>1. WGoto(w, "sleep") /\ UNCHANGED <<state, spc, tgt, overflow, deque, cur>>
      BY <1>5, <2>1, Zenon DEF DrainOverflow, actorVars, senderVars
    <3>2. "sleep" \notin Owning
      BY DEF Owning, Running
    <3> QED
      BY <1>1, <3>1, <3>2, Zenon
  <2> QED
    BY <1>5, <2>1, DrainPlaces, Zenon
<1>6. CASE StealNothing(w) \/ Sleep(w)
  <2>1. /\ WGoto(w, "overflow") \/ WGoto(w, "pop")
        /\ UNCHANGED <<state, spc, tgt, overflow, deque, cur>>
    BY <1>6, Zenon DEF StealNothing, Sleep, actorVars, senderVars
  <2>2. "overflow" \notin Owning /\ "pop" \notin Owning
    BY DEF Owning, Running
  <2> QED
    BY <1>1, <2>1, <2>2, Zenon
<1> QED
  BY <1>3, <1>4, <1>5, <1>6, Zenon DEF FindWork

\* The steps that run an actor.
LEMMA ProcessPlaces ==
  ASSUME Typing, PlaceOK, NEW w \in Workers, Process(w), "suspended" \notin Outcomes
  PROVE  PlaceOK'
<1>1. wpc[w] \in Owning /\ UNCHANGED <<spc, tgt, overflow, deque, cur>>
  BY Zenon DEF Process, Claim, Dequeue, Execute, Crash, Drain, Owning, Running, actorVars, senderVars
<1>2. \E l : wpc' = [wpc EXCEPT ![w] = l]
  <2>1. wpc = [wpc EXCEPT ![w] = wpc[w]]
    BY DEF Typing, ThreadTyping
  <2> QED
    BY <2>1, Zenon DEF Process, Claim, Dequeue, Execute, Crash, Drain, WGoto
<1>3. \/ state' = state
      \/ \E x \in {"RUNNING", "TERMINATED"} : state' = [state EXCEPT ![cur[w]] = x]
  BY Zenon DEF Process, Claim, Dequeue, Execute, Crash, Drain
<1>4. \A a \in Actors : state'[a] \in Asleep => state[a] \in Asleep
  BY <1>3 DEF Asleep, Typing, ThreadTyping
<1> QED
  BY <1>1, <1>2, <1>4, StayPlaces, Zenon

\* The steps that put it back.
LEMMA DisposePlaces ==
  ASSUME Typing, PlaceOK, NEW w \in Workers, Dispose(w)
  PROVE  PlaceOK'
<1>1. CASE Check(w) \/ IsEmpty(w) \/ Recheck(w) \/ Drop(w) \/ (Rewake(w) /\ state[cur[w]] # "SUSPENDED")
  <2>1. /\ UNCHANGED <<state, spc, tgt, overflow, deque>>
        /\ \E l : /\ wpc' = [wpc EXCEPT ![w] = l] /\ (l \in Owning => wpc[w] \in Owning)
                  /\ cur' = cur \/ (cur' = [cur EXCEPT ![w] = NULL] /\ l \notin Owning)
    <3>1. /\ UNCHANGED <<state, spc, tgt, overflow, deque>>
          /\ \/ wpc[w] \in {"check", "isempty"} /\ cur' = cur /\ \E l : wpc' = [wpc EXCEPT ![w] = l]
             \/ /\ cur' = cur \/ cur' = [cur EXCEPT ![w] = NULL]
                /\ \E l \in {"drop", "rewake", "pop"} : wpc' = [wpc EXCEPT ![w] = l]
      BY <1>1, Zenon DEF Check, IsEmpty, Recheck, Drop, Rewake, WGoto, actorVars, senderVars
    <3>2. /\ "drop" \notin Owning /\ "rewake" \notin Owning /\ "pop" \notin Owning
          /\ "check" \in Owning /\ "isempty" \in Owning
      BY DEF Owning, Running
    <3> QED
      BY <3>1, <3>2, Zenon
  <2>2. PICK l : /\ wpc' = [wpc EXCEPT ![w] = l] /\ (l \in Owning => wpc[w] \in Owning)
                 /\ cur' = cur \/ (cur' = [cur EXCEPT ![w] = NULL] /\ l \notin Owning)
    BY <2>1, Zenon
  <2>3. UNCHANGED <<spc, tgt, overflow, deque>> /\ \A a \in Actors : state'[a] \in Asleep => state[a] \in Asleep
    BY <2>1, Zenon
  <2> QED
    BY <2>2, <2>3, StayPlaces, Zenon
<1>2. CASE StoreReady(w) \/ StoreSuspended(w)
  <2>1. /\ UNCHANGED <<spc, tgt, overflow, deque, cur>> /\ wpc[w] \in Owning
        /\ \/ state' = [state EXCEPT ![cur[w]] = "READY"] /\ wpc' = [wpc EXCEPT ![w] = "push"]
           \/ state' = [state EXCEPT ![cur[w]] = "SUSPENDED"] /\ wpc' = [wpc EXCEPT ![w] = "recheck"]
    BY <1>2, Zenon DEF StoreReady, StoreSuspended, WGoto, Owning, Running, senderVars
  <2>2. "recheck" \notin Owning
    BY DEF Owning, Running
  <2>3. CASE state' = [state EXCEPT ![cur[w]] = "READY"] /\ wpc' = [wpc EXCEPT ![w] = "push"]
    <3>1. \A a \in Actors : state'[a] \in Asleep => state[a] \in Asleep
      BY <2>3 DEF Asleep, Typing, ThreadTyping
    <3> QED
      BY <2>1, <2>3, <3>1, StayPlaces, Zenon
  <2>4. CASE state' = [state EXCEPT ![cur[w]] = "SUSPENDED"] /\ wpc' = [wpc EXCEPT ![w] = "recheck"]
    <3>1. \A a \in Actors : state'[a] \in Asleep => state[a] \in Asleep \/ a = cur[w]
      BY <2>4 DEF Asleep, Typing, ThreadTyping
    <3> QED
      BY <2>1, <2>2, <2>4, <3>1, StayPlaces, Zenon
  <2> QED
    BY <2>1, <2>3, <2>4, Zenon
<1> QED
  BY <1>1, <1>2, PushPlaces, RewakePlaces, Zenon DEF Dispose

\* Supervisors and the stop move no actor, but for taking some out of a queue.
LEMMA OtherPlaces ==
  ASSUME Typing, PlaceOK, (\E a \in Actors : Killer(a)) \/ StopRequest \/ StopDrain
  PROVE  PlaceOK'
<1>1. ASSUME \A a \in Actors : state'[a] \in Asleep => state[a] \in Asleep, UNCHANGED <<spc, tgt, wpc, cur>>,
             Distinct(overflow)', Elems(overflow)' \subseteq Elems(overflow),
             \A u \in Workers : Distinct(deque[u])' /\ Elems(deque[u])' \subseteq Elems(deque[u])
      PROVE  PlaceOK'
  <2>1. \A a \in Actors : Less(a)
    BY <1>1, Zenon DEF Less, Sending, Owned, Queued, Overflowing
  <2> QED
    BY <1>1, <2>1, PlaceRule, Zenon
<1>2. ASSUME UNCHANGED <<overflow, deque>>
      PROVE  /\ Distinct(overflow)' /\ Elems(overflow)' \subseteq Elems(overflow)
             /\ \A u \in Workers : Distinct(deque[u])' /\ Elems(deque[u])' \subseteq Elems(deque[u])
  BY <1>2, Zenon DEF PlaceOK
<1>3. CASE \E a \in Actors : Killer(a)
  <2>1. UNCHANGED <<spc, tgt, wpc, cur, overflow, deque>>
    BY <1>3, Zenon DEF Killer, KillStore, KillUnregister, KillRelease, workerVars, senderVars
  <2>2. \A a \in Actors : state'[a] \in Asleep => state[a] \in Asleep
    BY <1>3 DEF Killer, KillStore, KillUnregister, KillRelease, Asleep, Typing, ThreadTyping
  <2> QED
    BY <1>1, <1>2, <2>1, <2>2, Zenon
<1>4. CASE StopRequest
  <2>1. UNCHANGED <<state, spc, tgt, wpc, cur, overflow, deque>>
    BY <1>4, Zenon DEF StopRequest, actorVars, workerVars, senderVars
  <2> QED
    BY <1>1, <1>2, <2>1, Zenon
<1>5. CASE StopDrain
  <2>1. UNCHANGED <<state, spc, tgt, wpc, cur>>
    BY <1>5, Zenon DEF StopDrain, workerVars, senderVars
  <2>2. CASE \E w \in Workers : deque[w] # <<>> /\ deque' = [deque EXCEPT ![w] = Front(deque[w])] /\ overflow' = overflow
    <3>1. PICK w \in Workers : deque[w] # <<>> /\ deque' = [deque EXCEPT ![w] = Front(deque[w])] /\ overflow' = overflow
      BY <2>2, Zenon
    <3>2. deque[w] \in Seq(Actors) /\ Distinct(deque[w])
      BY Zenon DEF Typing, QueueTyping, PlaceOK
    <3>3. Distinct(Front(deque[w])) /\ Elems(Front(deque[w])) \subseteq Elems(deque[w])
      BY <3>1, <3>2, FrontFacts, Zenon
    <3>4. deque'[w] = Front(deque[w]) /\ \A u \in Workers \ {w} : deque'[u] = deque[u]
      <4>1. PICK q : q = Front(deque[w])
        BY Zenon
      <4>2. deque' = [deque EXCEPT ![w] = q] /\ deque \in [Workers -> Seq(Actors)]
        BY <3>1, <4>1, Zenon DEF Typing, QueueTyping
      <4>3. deque'[w] = q /\ \A u \in Workers \ {w} : deque'[u] = deque[u]
        BY <4>2
      <4> QED
        BY <4>1, <4>3, Zenon
    <3> QED
      BY <1>1, <2>1, <3>1, <3>3, <3>4, Zenon DEF PlaceOK
  <2>3. CASE overflow # <<>> /\ overflow' = Tail(overflow) /\ deque' = deque
    <3>1. Distinct(Tail(overflow)) /\ Elems(Tail(overflow)) \subseteq Elems(overflow)
      BY <2>3, TailFacts, Zenon DEF Typing, QueueTyping, PlaceOK
    <3> QED
      BY <1>1, <2>1, <2>3, <3>1, Zenon DEF PlaceOK
  <2> QED
    BY <1>5, <2>2, <2>3, Zenon DEF StopDrain, Front
<1> QED
  BY <1>3, <1>4, <1>5

\* Every step keeps each actor in at most one place.
LEMMA PlaceStep ==
  ASSUME Typing, PlaceOK, [Next]_vars, "suspended" \notin Outcomes
  PROVE  PlaceOK'
<1>1. CASE UNCHANGED vars
  <2>1. UNCHANGED <<state, spc, tgt, wpc, cur, overflow, deque>>
    BY <1>1, Zenon DEF vars
  <2>2. \A a : (OnePlace(a)' <=> OnePlace(a)) /\ (NoPlace(a)' <=> NoPlace(a))
    <3>1. \A a : /\ \A s : Sending(s, a)' <=> Sending(s, a)
                 /\ \A w : (Owned(w, a)' <=> Owned(w, a)) /\ (Queued(w, a)' <=> Queued(w, a))
                 /\ Overflowing(a)' <=> Overflowing(a)
      BY <2>1, Zenon DEF Sending, Owned, Queued, Overflowing
    <3>2. \A a : OnePlace(a)' <=> OnePlace(a)
      BY <3>1, Zenon DEF OnePlace
    <3> QED
      BY <3>1, <3>2, Zenon DEF NoPlace
  <2> QED
    BY <2>1, <2>2, Zenon DEF PlaceOK
<1>2. ASSUME NEW w \in Workers, Worker(w) PROVE PlaceOK'
  BY <1>2, FindPlaces, ProcessPlaces, DisposePlaces, Zenon DEF Worker
<1> QED
  BY <1>1, <1>2, SenderPlaces, OtherPlaces, Zenon DEF Next
-----------------------------------------------------------------------------
(* Every READY actor is on its way *)

\* A deque has room for every actor.
RoomForAll == \A q \in Seq(Actors) : Distinct(q) => Len(q) <= DequeCap

\* What is enough for a step to forget no READY actor.
LEMMA ReadyRule ==
  ASSUME ReadyOK, running' => running,
         \A a \in Actors : running' /\ state'[a] = "READY" =>
           Coming(a)' \/ (state[a] = "READY" /\ (Coming(a) => Coming(a)'))
  PROVE  ReadyOK'
BY Zenon DEF ReadyOK

\* A sender that makes an actor ready also queues it.
LEMMA SenderReady ==
  ASSUME Typing, ReadyOK, NEW s \in Senders, Sender(s)
  PROVE  ReadyOK'
<1>1. UNCHANGED <<wpc, cur, deque, running>>
  BY Zenon DEF Sender, Lookup, CheckTarget, Enqueue, LinkMsg, Wake, WakeNew, TakeQueueRef, PushOverflow,
     ReleaseTarget, workerVars
<1>2. PICK l : spc' = [spc EXCEPT ![s] = l]
  BY Zenon DEF Sender, Lookup, CheckTarget, Enqueue, LinkMsg, Wake, WakeNew, TakeQueueRef, PushOverflow,
     ReleaseTarget, SGoto
<1>3. tgt' = tgt \/ \E x : tgt' = [tgt EXCEPT ![s] = x]
  BY Zenon DEF Sender, Lookup, CheckTarget, Enqueue, LinkMsg, Wake, WakeNew, TakeQueueRef, PushOverflow,
     ReleaseTarget
<1>4. /\ spc'[s] = l /\ \A t \in Senders \ {s} : spc'[t] = spc[t] /\ tgt'[t] = tgt[t]
      /\ tgt' = tgt => tgt'[s] = tgt[s]
  BY <1>2, <1>3 DEF Typing, ThreadTyping
<1>5. ASSUME NEW a \in Actors, Elems(overflow) \subseteq Elems(overflow)',
             tgt[s] = a => spc[s] \notin {"ref", "push"}
      PROVE  Coming(a) => Coming(a)'
  BY <1>1, <1>4, <1>5, Zenon DEF Coming, Overflowing, Sending, Queued
<1>6. CASE spc[s] \notin {"ref", "push"} /\ state' = state /\ overflow' = overflow
  BY <1>1, <1>5, <1>6, ReadyRule, Zenon
<1>7. CASE state' = [state EXCEPT ![tgt[s]] = "READY"] /\ tgt' = tgt /\ overflow' = overflow
           /\ spc' = [spc EXCEPT ![s] = "ref"] /\ spc[s] \notin {"ref", "push"}
  <2>1. \A a \in Actors \ {tgt[s]} : state'[a] = state[a]
    BY <1>7 DEF Typing, ThreadTyping
  <2>2. spc'[s] \in {"ref", "push"}
    BY <1>7 DEF Typing, ThreadTyping
  <2>3. \A a \in Actors : a = tgt[s] => Coming(a)'
    BY <1>4, <1>7, <2>2, Zenon DEF Coming, Sending
  <2> QED
    BY <1>1, <1>5, <1>7, <2>1, <2>3, ReadyRule, Zenon
<1>8. CASE TakeQueueRef(s)
  <2>1. /\ state' = state /\ tgt' = tgt /\ overflow' = overflow /\ spc' = [spc EXCEPT ![s] = "push"]
    BY <1>8, Zenon DEF TakeQueueRef, SGoto
  <2>2. spc'[s] \in {"ref", "push"}
    BY <2>1 DEF Typing, ThreadTyping
  <2>3. \A a \in Actors : a = tgt[s] => Coming(a)'
    BY <1>4, <2>1, <2>2, Zenon DEF Coming, Sending
  <2> QED
    BY <1>1, <1>5, <2>1, <2>3, ReadyRule, Zenon
<1>9. CASE PushOverflow(s)
  <2>1. PICK b : b = tgt[s]
    BY Zenon
  <2>2. b \in Actors /\ overflow \in Seq(Actors) /\ state' = state /\ overflow' = <<b>> \o overflow
    <3>1. spc[s] # "idle" /\ state' = state /\ overflow' = <<b>> \o overflow
      BY <1>9, <2>1 DEF PushOverflow, actorVars
    <3> QED
      BY <2>1, <3>1, Zenon DEF Typing, ThreadTyping, QueueTyping
  <2>3. Elems(overflow)' = {b} \cup Elems(overflow)
    <3>1. PICK q : q = overflow
      BY Zenon
    <3>2. PICK p : p = <<b>>
      BY Zenon
    <3>3. p \in Seq(Actors) /\ q \in Seq(Actors) /\ Elems(p) = {b}
      BY <2>2, <3>1, <3>2, SingleFacts
    <3>4. Elems(p \o q) = Elems(p) \cup Elems(q)
      BY <3>3, JoinElems
    <3>5. overflow' = p \o q
      BY <2>2, <3>1, <3>2, Zenon
    <3> QED
      BY <3>1, <3>3, <3>4, <3>5, Zenon
  <2>4. Elems(overflow) \subseteq Elems(overflow)' /\ Coming(b)'
    BY <2>3, Zenon DEF Coming, Overflowing
  <2> QED
    BY <1>1, <1>5, <2>1, <2>2, <2>4, ReadyRule, Zenon
<1>10. CASE Lookup(s) \/ CheckTarget(s) \/ Enqueue(s) \/ LinkMsg(s) \/ ReleaseTarget(s)
  <2>1. spc[s] \in {"idle", "check", "enqueue", "link", "release"} /\ state' = state /\ overflow' = overflow
    BY <1>10, Zenon DEF Lookup, CheckTarget, Enqueue, LinkMsg, ReleaseTarget, actorVars
  <2>2. spc[s] \notin {"ref", "push"}
    BY <2>1
  <2> QED
    BY <1>6, <2>1, <2>2, Zenon
<1>11. CASE Wake(s) \/ WakeNew(s)
  <2>1. /\ spc[s] \in {"wake", "waken"} /\ tgt' = tgt /\ overflow' = overflow
        /\ \/ state' = state
           \/ state' = [state EXCEPT ![tgt[s]] = "READY"] /\ spc' = [spc EXCEPT ![s] = "ref"]
    BY <1>11, Zenon DEF Wake, WakeNew, SGoto
  <2>2. spc[s] \notin {"ref", "push"}
    BY <2>1
  <2> QED
    BY <1>6, <1>7, <2>1, <2>2, Zenon
<1> QED
  BY <1>8, <1>9, <1>10, <1>11, Zenon DEF Sender

\* A worker that takes an actor out of a deque has it at hand.
LEMMA TakeReady ==
  ASSUME Typing, PlaceOK, ReadyOK, NEW w \in Workers, NEW v \in Workers, NEW b, NEW q,
         wpc[w] \in Looking, UNCHANGED <<state, running, overflow, spc, tgt>>,
         cur' = [cur EXCEPT ![w] = b], wpc' = [wpc EXCEPT ![w] = "claim"],
         deque' = [deque EXCEPT ![v] = q], Elems(q) = Elems(deque[v]) \ {b}
  PROVE  ReadyOK'
<1>1. /\ deque'[v] = q /\ \A u \in Workers \ {v} : deque'[u] = deque[u]
      /\ cur'[w] = b /\ wpc'[w] = "claim"
      /\ \A u \in Workers \ {w} : cur'[u] = cur[u] /\ wpc'[u] = wpc[u]
  BY DEF Typing, ThreadTyping, QueueTyping
<1>2. wpc[w] \notin {"push", "claim"}
  BY DEF Looking
<1>3. \A u \in Workers, a \in Actors : a # b /\ Queued(u, a) => Queued(u, a)'
  BY <1>1 DEF Queued
<1>4. \A a \in Actors : a # b => (Coming(a) => Coming(a)')
  BY <1>1, <1>2, <1>3, Zenon DEF Coming, Overflowing, Sending
<1>5. \A a \in Actors : a = b => Coming(a)'
  BY <1>1, Zenon DEF Coming
<1> QED
  BY <1>4, <1>5, ReadyRule, Zenon

\* With room for all actors drain_overflow drops none.
LEMMA DrainReady ==
  ASSUME Typing, PlaceOK, ReadyOK, RoomForAll, NEW w \in Workers, DrainOverflow(w), overflow # <<>>
  PROVE  ReadyOK'
<1>b. PICK b : b = Head(overflow)
  BY Zenon
<1>r. PICK rest : rest = Tail(overflow)
  BY Zenon
<1>k. PICK kept : kept = IF Len(rest) <= DequeCap - Len(deque[w]) THEN Len(rest) ELSE DequeCap - Len(deque[w])
  BY Zenon
<1>d. PICK d : d = deque[w]
  BY Zenon
<1>1. /\ cur' = [cur EXCEPT ![w] = b] /\ wpc' = [wpc EXCEPT ![w] = "claim"]
      /\ deque' = [deque EXCEPT ![w] = d \o SubSeq(rest, 1, kept)] /\ overflow' = <<>>
      /\ UNCHANGED <<spc, tgt, state, running>> /\ wpc[w] = "overflow"
  BY <1>b, <1>r, <1>k, <1>d, Zenon DEF DrainOverflow, WGoto, actorVars, senderVars
<1>2. /\ rest \in Seq(Actors) /\ Distinct(rest) /\ b \in Elems(overflow) /\ Elems(rest) = Elems(overflow) \ {b}
  BY <1>b, <1>r, TailFacts, Zenon DEF PlaceOK, Typing, QueueTyping
<1>3. d \in Seq(Actors) /\ Distinct(d) /\ \A x : ~(x \in Elems(d) /\ x \in Elems(rest))
  <2>1. d \in Seq(Actors) /\ Distinct(d)
    BY <1>d, Zenon DEF PlaceOK, Typing, QueueTyping
  <2>2. \A x \in Elems(overflow) : x \in Actors
    BY DEF Elems, Typing, QueueTyping
  <2> QED
    BY <1>d, <1>2, <2>1, <2>2, Zenon DEF PlaceOK, OnePlace, Overflowing, Queued
<1>4. kept = Len(rest)
  <2>1. d \o rest \in Seq(Actors) /\ Distinct(d \o rest) /\ Len(d \o rest) = Len(d) + Len(rest)
    BY <1>2, <1>3, ConcatFacts
  <2>2. PICK z : z = d \o rest
    BY Zenon
  <2>3. Len(z) <= DequeCap /\ Len(z) = Len(d) + Len(rest)
    BY <2>1, <2>2, Zenon DEF RoomForAll
  <2>4. Len(d) \in Nat /\ Len(rest) \in Nat /\ DequeCap \in Nat
    BY <1>2, <1>3, SchedulerAssumption
  <2> QED
    BY <1>d, <1>k, <2>3, <2>4
<1>5. PICK q : q = d \o rest
  BY Zenon
<1>6. deque' = [deque EXCEPT ![w] = q]
  <2>1. SubSeq(rest, 1, kept) = rest
    <3>1. Len(rest) \in 0..Len(rest)
      BY <1>2
    <3> QED
      BY <1>2, <1>4, <3>1, PrefixFacts, Zenon
  <2> QED
    BY <1>1, <1>5, <2>1, Zenon
<1>7. Elems(q) = Elems(d) \cup Elems(rest)
  <2>1. Elems(d \o rest) = Elems(d) \cup Elems(rest)
    BY <1>2, <1>3, JoinElems
  <2> QED
    BY <1>5, <2>1, Zenon
<1>8. /\ deque'[w] = q /\ \A u \in Workers \ {w} : deque'[u] = deque[u]
      /\ cur'[w] = b /\ wpc'[w] = "claim"
      /\ \A u \in Workers \ {w} : cur'[u] = cur[u] /\ wpc'[u] = wpc[u]
  <2>1. deque'[w] = q /\ \A u \in Workers \ {w} : deque'[u] = deque[u]
    BY <1>6 DEF Typing, QueueTyping
  <2>2. /\ cur' = [cur EXCEPT ![w] = b] /\ wpc' = [wpc EXCEPT ![w] = "claim"]
    BY <1>1, Zenon
  <2>3. /\ cur'[w] = b /\ wpc'[w] = "claim"
        /\ \A u \in Workers \ {w} : cur'[u] = cur[u] /\ wpc'[u] = wpc[u]
    BY <2>2 DEF Typing, ThreadTyping
  <2> QED
    BY <2>1, <2>3, Zenon
<1>9. wpc[w] = "overflow" /\ wpc[w] \notin {"push", "claim"}
  <2>1. wpc[w] = "overflow"
    BY <1>1, Zenon
  <2> QED
    BY <2>1
<1>10. \A a : a # b /\ Overflowing(a) => Queued(w, a)'
  BY <1>2, <1>7, <1>8 DEF Overflowing, Queued
<1>11. \A a, u : u \in Workers /\ Queued(u, a) => Queued(u, a)'
  BY <1>d, <1>7, <1>8 DEF Queued
<1>12. \A a \in Actors : a # b => (Coming(a) => Coming(a)')
  <2>1. UNCHANGED <<spc, tgt>>
    BY <1>1
  <2> QED
    BY <1>8, <1>9, <1>10, <1>11, <2>1, Zenon DEF Coming, Sending
<1>13. \A a \in Actors : a = b => Coming(a)'
  BY <1>8, Zenon DEF Coming
<1>14. UNCHANGED <<state, running>>
  BY <1>1
<1> QED
  BY <1>12, <1>13, <1>14, ReadyRule, Zenon

\* With room for all actors the own deque takes one more.
LEMMA PushReady ==
  ASSUME Typing, PlaceOK, ReadyOK, RoomForAll, NEW w \in Workers, PushOwn(w)
  PROVE  ReadyOK'
<1>b. PICK b : b = cur[w]
  BY Zenon
<1>d. PICK d : d = deque[w]
  BY Zenon
<1>p. PICK p : p = <<b>>
  BY Zenon
<1>1. /\ wpc[w] = "push" /\ wpc' = [wpc EXCEPT ![w] = "pop"] /\ cur' = [cur EXCEPT ![w] = NULL]
      /\ UNCHANGED <<spc, tgt, state, running, overflow>>
      /\ Len(d) < DequeCap => deque' = [deque EXCEPT ![w] = Append(d, b)]
  BY <1>b, <1>d, Zenon DEF PushOwn, WGoto, actorVars, senderVars
<1>2. b \in Actors /\ Owned(w, b)
  BY <1>b, <1>1 DEF Typing, ThreadTyping, Looking, Owned, Owning
<1>3. d \in Seq(Actors) /\ Distinct(d) /\ b \notin Elems(d)
  BY <1>d, <1>2, Zenon DEF Typing, QueueTyping, PlaceOK, OnePlace, Queued
<1>4. p \in Seq(Actors) /\ Distinct(p) /\ Elems(p) = {b} /\ Len(p) = 1 /\ Append(d, b) = d \o p
  BY <1>p, <1>2, <1>3, SingleFacts
<1>5. /\ d \o p \in Seq(Actors) /\ Distinct(d \o p) /\ Len(d \o p) = Len(d) + Len(p)
      /\ Elems(d \o p) = Elems(d) \cup {b}
  BY <1>3, <1>4, ConcatFacts
<1>6. Len(d) < DequeCap
  <2>1. PICK z : z = d \o p
    BY Zenon
  <2>2. Len(z) <= DequeCap /\ Len(z) = Len(d) + Len(p)
    BY <1>5, <2>1, Zenon DEF RoomForAll
  <2>3. Len(d) \in Nat /\ DequeCap \in Nat
    BY <1>3, SchedulerAssumption
  <2> QED
    BY <1>4, <2>2, <2>3
<1>7. PICK q : q = d \o p
  BY Zenon
<1>8. deque' = [deque EXCEPT ![w] = q] /\ Elems(q) = Elems(d) \cup {b}
  BY <1>1, <1>4, <1>5, <1>6, <1>7, Zenon
<1>9. /\ deque'[w] = q /\ \A u \in Workers \ {w} : deque'[u] = deque[u]
      /\ \A u \in Workers \ {w} : cur'[u] = cur[u] /\ wpc'[u] = wpc[u]
  BY <1>1, <1>8 DEF Typing, ThreadTyping, QueueTyping
<1>10. /\ \A a, u : u \in Workers /\ Queued(u, a) => Queued(u, a)'
       /\ Queued(w, b)'
  BY <1>d, <1>8, <1>9 DEF Queued
<1>11. UNCHANGED <<spc, tgt, state, running, overflow>>
  BY <1>1
<1>12. \A a \in Actors : a # b => (Coming(a) => Coming(a)')
  BY <1>b, <1>9, <1>10, <1>11, Zenon DEF Coming, Sending, Overflowing
<1>13. \A a \in Actors : a = b => Coming(a)'
  BY <1>10, Zenon DEF Coming
<1>14. UNCHANGED <<state, running>>
  BY <1>1
<1> QED
  BY <1>12, <1>13, <1>14, ReadyRule, Zenon

\* The worker's other steps.
LEMMA WorkerReady ==
  ASSUME Typing, PlaceOK, ReadyOK, RoomForAll, NEW w \in Workers, Worker(w)
  PROVE  ReadyOK'
<1>b. PICK b : b = cur[w]
  BY Zenon
<1>1. ASSUME UNCHANGED <<spc, tgt, overflow, deque, running>>, NEW l, wpc' = [wpc EXCEPT ![w] = l],
             cur' = cur \/ (cur' = [cur EXCEPT ![w] = NULL] /\ state' = state),
             wpc[w] \in {"push", "claim"} => state'[b] # "READY",
             \A a \in Actors : state'[a] = "READY" => state[a] = "READY" \/ (a = b /\ l = "push" /\ cur' = cur)
      PROVE  ReadyOK'
  <2>1. /\ wpc'[w] = l /\ \A u \in Workers \ {w} : cur'[u] = cur[u] /\ wpc'[u] = wpc[u]
        /\ cur' = cur => cur'[w] = b
    BY <1>1, <1>b DEF Typing, ThreadTyping
  <2>2. \A a \in Actors : state'[a] = "READY" => (Coming(a) => Coming(a)')
    BY <1>1, <1>b, <2>1, Zenon DEF Coming, Overflowing, Sending, Queued
  <2>3. l = "push" /\ cur' = cur => \A a \in Actors : a = b => Coming(a)'
    BY <2>1, Zenon DEF Coming
  <2> QED
    BY <1>1, <2>2, <2>3, ReadyRule, Zenon
<1>2. \A v \in Workers : deque[v] \in Seq(Actors) /\ Distinct(deque[v])
  BY Zenon DEF Typing, QueueTyping, PlaceOK
<1>3. CASE PopOwn(w) /\ running /\ deque[w] # <<>>
  <2>1. /\ wpc[w] = "pop" /\ UNCHANGED <<state, running, overflow, spc, tgt>>
        /\ cur' = [cur EXCEPT ![w] = Last(deque[w])] /\ wpc' = [wpc EXCEPT ![w] = "claim"]
        /\ deque' = [deque EXCEPT ![w] = Front(deque[w])]
    BY <1>3, Zenon DEF PopOwn, Front, Last, WGoto, actorVars, senderVars
  <2>2. Elems(Front(deque[w])) = Elems(deque[w]) \ {Last(deque[w])}
    BY <1>2, <1>3, FrontFacts, Zenon
  <2>3. wpc[w] \in Looking
    BY <2>1 DEF Looking
  <2> QED
    BY <2>1, <2>2, <2>3, TakeReady, Zenon
<1>4. CASE Steal(w)
  <2>1. PICK v \in Workers \ {w} : /\ deque[v] # <<>> /\ cur' = [cur EXCEPT ![w] = Head(deque[v])]
                                   /\ deque' = [deque EXCEPT ![v] = Tail(deque[v])]
    BY <1>4, Zenon DEF Steal
  <2>2. wpc[w] = "steal" /\ UNCHANGED <<state, running, overflow, spc, tgt>> /\ wpc' = [wpc EXCEPT ![w] = "claim"]
    BY <1>4, Zenon DEF Steal, WGoto, actorVars, senderVars
  <2>3. Elems(Tail(deque[v])) = Elems(deque[v]) \ {Head(deque[v])}
    BY <1>2, <2>1, TailFacts, Zenon
  <2>4. wpc[w] \in Looking
    BY <2>2 DEF Looking
  <2> QED
    BY <2>1, <2>2, <2>3, <2>4, TakeReady, Zenon
<1>5. CASE \/ (PopOwn(w) /\ ~(running /\ deque[w] # <<>>)) \/ StealNothing(w) \/ Sleep(w)
           \/ (DrainOverflow(w) /\ overflow = <<>>) \/ Dequeue(w) \/ Drain(w) \/ Check(w) \/ IsEmpty(w)
           \/ Recheck(w) \/ Drop(w)
  <2>1. /\ UNCHANGED <<state, spc, tgt, overflow, deque, running>>
        /\ cur' = cur \/ cur' = [cur EXCEPT ![w] = NULL]
        /\ wpc[w] \in {"pop", "steal", "sleep", "overflow", "dequeue", "drain", "check", "isempty", "recheck", "drop"}
    BY <1>5, Zenon DEF PopOwn, StealNothing, Sleep, DrainOverflow, Dequeue, Drain, Check, IsEmpty, Recheck, Drop,
       actorVars, senderVars
  <2>2. \E l : wpc' = [wpc EXCEPT ![w] = l]
    <3>1. wpc = [wpc EXCEPT ![w] = wpc[w]]
      BY DEF Typing, ThreadTyping
    <3> QED
      BY <1>5, <3>1, Zenon DEF PopOwn, StealNothing, Sleep, DrainOverflow, Dequeue, Drain, Check, IsEmpty, Recheck,
         Drop, WGoto
  <2>3. wpc[w] \notin {"push", "claim"}
    BY <2>1
  <2> QED
    BY <1>1, <2>1, <2>2, <2>3, Zenon
<1>6. CASE Claim(w) \/ Execute(w) \/ Crash(w) \/ StoreReady(w) \/ StoreSuspended(w) \/ Rewake(w)
  <2>1. UNCHANGED <<spc, tgt, overflow, deque, running, cur>> /\ \E l : wpc' = [wpc EXCEPT ![w] = l]
    BY <1>6, Zenon DEF Claim, Execute, Crash, StoreReady, StoreSuspended, Rewake, WGoto, senderVars
  <2>2. PICK l : wpc' = [wpc EXCEPT ![w] = l]
    BY <2>1, Zenon
  <2>3. b \in Actors
    <3>1. wpc[w] \in {"claim", "execute", "crash", "ready", "suspend", "rewake"}
      BY <1>6, Zenon DEF Claim, Execute, Crash, StoreReady, StoreSuspended, Rewake
    <3>2. wpc[w] \notin Looking
      BY <3>1 DEF Looking
    <3> QED
      BY <1>b, <3>2, Zenon DEF Typing, ThreadTyping
  <2>4. CASE StoreReady(w) \/ (Rewake(w) /\ state[b] = "SUSPENDED")
    <3>1. wpc[w] \in {"ready", "rewake"} /\ state' = [state EXCEPT ![b] = "READY"]
          /\ wpc' = [wpc EXCEPT ![w] = "push"]
      BY <1>b, <2>4, Zenon DEF StoreReady, Rewake, WGoto
    <3>2. \A a \in Actors : a # b => state'[a] = state[a]
      BY <3>1 DEF Typing, ThreadTyping
    <3>3. wpc[w] \notin {"push", "claim"}
      BY <3>1
    <3> QED
      BY <1>1, <2>1, <3>1, <3>2, <3>3, Zenon
  <2>5. CASE Claim(w)
    <3>1. \/ state' = state /\ state[b] # "READY"
          \/ state' = [state EXCEPT ![b] = "RUNNING"]
      BY <1>b, <2>5, Zenon DEF Claim
    <3>2. state'[b] # "READY" /\ \A a \in Actors : state'[a] = "READY" => state[a] = "READY"
      BY <2>3, <3>1 DEF Typing, ThreadTyping
    <3> QED
      BY <1>1, <2>1, <2>2, <3>2, Zenon
  <2>6. CASE Execute(w) \/ Crash(w) \/ StoreSuspended(w) \/ (Rewake(w) /\ state[b] # "SUSPENDED")
    <3>1. /\ state' = state \/ \E x \in {"SUSPENDED", "TERMINATED"} : state' = [state EXCEPT ![b] = x]
          /\ wpc[w] \in {"execute", "crash", "suspend", "rewake"}
      BY <1>b, <2>6, Zenon DEF Execute, Crash, StoreSuspended, Rewake
    <3>2. \A a \in Actors : state'[a] = "READY" => state[a] = "READY"
      BY <3>1 DEF Typing, ThreadTyping
    <3>3. wpc[w] \notin {"push", "claim"}
      BY <3>1
    <3> QED
      BY <1>1, <2>1, <2>2, <3>2, <3>3, Zenon
  <2> QED
    BY <1>6, <2>4, <2>5, <2>6, Zenon
<1> QED
  BY <1>3, <1>4, <1>5, <1>6, DrainReady, PushReady, Zenon DEF Worker, FindWork, Process, Dispose

\* Every step keeps a ready actor in its place.
LEMMA ReadyStep ==
  ASSUME Typing, PlaceOK, ReadyOK, RoomForAll, [Next]_vars
  PROVE  ReadyOK'
<1>1. CASE \E a \in Actors : Killer(a)
  <2>1. UNCHANGED <<wpc, cur, spc, tgt, overflow, deque, running>>
    BY <1>1, Zenon DEF Killer, KillStore, KillUnregister, KillRelease, workerVars, senderVars
  <2>2. \A a \in Actors : state'[a] = "READY" => state[a] = "READY"
    BY <1>1 DEF Killer, KillStore, KillUnregister, KillRelease, Typing, ThreadTyping
  <2>3. \A a \in Actors : Coming(a) => Coming(a)'
    BY <2>1, Zenon DEF Coming, Overflowing, Sending, Queued
  <2> QED
    BY <2>1, <2>2, <2>3, ReadyRule, Zenon
<1>2. CASE StopRequest \/ StopDrain
  <2>1. ~running'
    BY <1>2, Zenon DEF StopRequest, StopDrain
  <2> QED
    BY <2>1, Zenon DEF ReadyOK
<1>3. CASE UNCHANGED vars
  BY <1>3, Zenon DEF vars, ReadyOK, Coming, Overflowing, Sending, Queued
<1> QED
  BY <1>1, <1>2, <1>3, SenderReady, WorkerReady, Zenon DEF Next
=============================================================================
