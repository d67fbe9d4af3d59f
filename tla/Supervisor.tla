---------------------------- MODULE Supervisor ----------------------------
(***************************************************************************)
(* The supervision tree of src/actor/supervisor.c with the crash and       *)
(* termination routes of src/actor/actor.c: the root supervisor, one       *)
(* supervisor below it, and leaf actors below both.  Each supervisor       *)
(* handles one childFailed:reason: message at a time, on a worker thread   *)
(* of its own, while children crash and other threads terminate.           *)
(*                                                                         *)
(* An actor is "live" until it crashes or gives up ("failed": TERMINATED,  *)
(* but still registered) or sta_actor_terminate has taken it out of the    *)
(* registry ("dead").                                                      *)
(***************************************************************************)
EXTENDS Integers, Sequences, FiniteSets, Functions

CONSTANTS Slots,        \* child specifications, one of them mid's
          MidSlot,
          Under,        \* the supervisor of each slot
          Strategy,     \* the restart strategy of each slot
          MaxRestarts, MaxSeconds, \* the intensity limit of both supervisors
          MailCap,      \* capacity of a supervisor's mailbox
          MaxCrashes,   \* bound on the crashes
          MaxTime,      \* bound on the clock
          NULL

Sups == {"root", "mid"}

ASSUME SupervisorAssumption ==
  /\ NULL \notin Slots /\ MidSlot \in Slots /\ Under \in [Slots -> Sups] /\ Under[MidSlot] = "root"
  /\ Strategy \in [Slots -> {"RESTART", "STOP", "ESCALATE"}]
  /\ MaxRestarts \in Nat \ {0} /\ MaxSeconds \in Nat /\ MailCap \in Nat
  /\ MaxCrashes \in Nat /\ MaxTime \in Nat

VARIABLES
  astate,     \* per actor id: "live", "failed", "dead"
  boss,       \* per actor id: its supervisor pointer
  spec,       \* per slot: current_actor and current_actor_id
  kids,       \* per supervisor: its list of slots
  inbox,      \* per supervisor: ids of failed children
  count, start, \* per supervisor: restart_count, window_start_ns
  job,        \* per supervisor: the failure being handled
  notifying,  \* crashed actors about to notify their supervisor
  now,        \* the clock
  crashes,    \* number of crashes so far
  slotOf,     \* history: per actor id, the slot it was made for
  restarts,   \* history: per supervisor, when it restarted children
  skipped     \* history: failures the root supervisor left alone

treeVars == <<astate, boss, spec, slotOf>>
limitVars == <<count, start, restarts, skipped>>
vars == <<astate, boss, spec, kids, inbox, count, start, job, notifying, now,
          crashes, slotOf, restarts, skipped>>

Root == 1
Mid == 2
Actors == DOMAIN astate
Who(u) == IF u = "root" THEN Root ELSE Mid
Idle == [pc |-> "idle", id |-> 0, old |-> 0, slot |-> NULL, todo |-> <<>>]

\* The ids that can exist: the first actor of each slot, and after a crash a
\* new actor for it and one for the supervisor.
MaxId == 1 + Cardinality(Slots) + 2 * MaxCrashes

TypeOK ==
  /\ Actors \subseteq 1 .. MaxId
  /\ astate \in Seq({"live", "failed", "dead"})
  /\ boss \in [Actors -> Sups \cup {NULL}]
  /\ slotOf \in [Actors -> Slots \cup {NULL}]
  /\ spec \in [Slots -> [actor : Actors \cup {0}, aid : Actors \cup {0}]]
  /\ kids \in [Sups -> Seq(Slots)]
  /\ inbox \in [Sups -> Seq(Actors)] /\ \A u \in Sups : Len(inbox[u]) <= MailCap
  /\ count \in [Sups -> 0 .. MaxRestarts + 1] /\ start \in [Sups -> 0 .. MaxTime]
  /\ \A u \in Sups :
       /\ job[u].pc \in {"idle", "kill", "killing", "reap", "make", "publish", "clear",
                         "escalate", "tear", "fell", "quit"}
       /\ {job[u].id, job[u].old} \subseteq Actors \cup {0}
       /\ job[u].slot \in Slots \cup {NULL} /\ job[u].todo \in Seq(Slots)
  /\ notifying \subseteq Actors /\ skipped \subseteq Actors
  /\ now \in 0 .. MaxTime /\ crashes \in 0 .. MaxCrashes

\* sta_vm_create has made the root supervisor, sta_supervisor_add_child and
\* sta_supervisor_init the one below it.
Init ==
  /\ astate = <<"live", "live">>
  /\ boss = <<NULL, "root">> /\ slotOf = <<NULL, MidSlot>>
  /\ spec = [s \in Slots |-> IF s = MidSlot THEN [actor |-> Mid, aid |-> Mid]
                                            ELSE [actor |-> 0, aid |-> 0]]
  /\ kids = [u \in Sups |-> IF u = "root" THEN <<MidSlot>> ELSE <<>>]
  /\ inbox = [u \in Sups |-> <<>>]
  /\ count = [u \in Sups |-> 0] /\ start = [u \in Sups |-> 0]
  /\ job = [u \in Sups |-> Idle]
  /\ notifying = {} /\ now = 0 /\ crashes = 0 /\ skipped = {}
  /\ restarts = [u \in Sups |-> <<>>]

Tick ==
  /\ now < MaxTime /\ now' = now + 1
  /\ UNCHANGED <<treeVars, limitVars, kids, inbox, job, notifying, crashes>>

-----------------------------------------------------------------------------
(* Children appear, crash and notify *)

\* A new registered actor for slot s, supervised by u.
Spawn(s, u) ==
  /\ astate' = Append(astate, "live")
  /\ boss' = Append(boss, u)
  /\ slotOf' = Append(slotOf, s)

NewId == Len(astate) + 1

\* sta_supervisor_add_child
AddChild(s) ==
  LET u == Under[s] IN
  /\ s \notin Range(kids[u]) /\ astate[Who(u)] # "dead"
  /\ Spawn(s, u)
  /\ spec' = [spec EXCEPT ![s] = [actor |-> NewId, aid |-> NewId]]
  /\ kids' = [kids EXCEPT ![u] = <<s>> \o @]
  /\ UNCHANGED <<limitVars, inbox, job, notifying, now, crashes>>

\* sta_actor_send_msg of failed id i to supervisor u: not to one that is
\* TERMINATED or gone, and not into a full mailbox.  The result is ignored.
Deliver(u, i, boxes) ==
  IF u # NULL /\ astate[Who(u)] = "live" /\ Len(boxes[u]) < MailCap
  THEN [boxes EXCEPT ![u] = Append(@, i)] ELSE boxes

\* handle_actor_exception up to the CAS.  The root supervisor runs no methods.
\* The crash of an actor that was terminated while it ran changes nothing here:
\* its CAS fails, and its supervisor pointer is NULL (Kill, Tear) or names a
\* supervisor that has left the registry (KillKid).
Crash(i) ==
  /\ crashes < MaxCrashes /\ i # Root /\ astate[i] = "live"
  /\ i = Mid => job["mid"].pc = "idle"
  /\ astate' = [astate EXCEPT ![i] = "failed"]
  /\ notifying' = notifying \cup {i} /\ crashes' = crashes + 1
  /\ UNCHANGED <<boss, spec, slotOf, limitVars, kids, inbox, job, now>>

\* notify_supervisor, and the crashed actor's own mailbox is drained.
Notify(i) ==
  /\ i \in notifying /\ notifying' = notifying \ {i}
  /\ inbox' = Deliver(boss[i], i,
                      IF i = Mid THEN [inbox EXCEPT !["mid"] = <<>>] ELSE inbox)
  /\ UNCHANGED <<treeVars, limitVars, kids, job, now, crashes>>

-----------------------------------------------------------------------------
(* sta_supervisor_handle_failure, on supervisor u *)

At(u, here) == job[u].pc = here
Go(u, there) == job' = [job EXCEPT ![u].pc = there]
Done(u) == job' = [job EXCEPT ![u] = Idle]

\* Faulty: the window is taken to have elapsed as soon as time has passed.
CountedAnew(u) == IF count[u] = 0 \/ now > start[u] THEN 1 ELSE count[u] + 1

\* check_intensity: the restart counted in the window it falls into.
WindowStart(u) ==
  IF count[u] = 0 \/ now - start[u] > MaxSeconds THEN now ELSE start[u]
Counted(u) ==
  IF count[u] = 0 \/ now - start[u] > MaxSeconds THEN 1 ELSE count[u] + 1

\* Faulty: any child of the list will do.
FoundAny(u, i) == {s \in Range(kids[u]) : spec[s].aid # 0}

\* Faulty: a child that is TERMINATED already is passed over.
FoundLive(u, i) == {s \in Range(kids[u]) : spec[s].aid = i /\ astate[i] = "live"}

\* find_child_by_id
Found(u, i) == {s \in Range(kids[u]) : spec[s].aid = i}

\* A message whose child is unknown is dropped.
TakeStale(u) ==
  /\ At(u, "idle") /\ inbox[u] # <<>> /\ astate[Who(u)] = "live"
  /\ Found(u, Head(inbox[u])) = {}
  /\ inbox' = [inbox EXCEPT ![u] = Tail(@)]
  /\ UNCHANGED <<treeVars, limitVars, kids, job, notifying, now, crashes>>

\* The slot's actor is loaded and its strategy chosen.  RESTART first checks the intensity: an
\* excess makes the root reset its counters and leave the child alone, any
\* other supervisor tear its subtree down.
Take(u) ==
  /\ At(u, "idle") /\ inbox[u] # <<>> /\ astate[Who(u)] = "live"
  /\ \E s \in Found(u, Head(inbox[u])) :
       LET i == Head(inbox[u])
           restart == Strategy[s] = "RESTART"
           excess == restart /\ Counted(u) > MaxRestarts
           begin(pc) == job' = [job EXCEPT ![u] =
                          [pc |-> pc, id |-> i, old |-> spec[s].actor, slot |-> s,
                           todo |-> kids[u]]]
       IN /\ \/ ~excess /\ begin("kill") /\ UNCHANGED skipped
             \/ excess /\ u = "root" /\ skipped' = skipped \cup {i}
                /\ UNCHANGED job
             \/ excess /\ u # "root" /\ begin("tear") /\ UNCHANGED skipped
          /\ count' = [count EXCEPT ![u] =
               IF ~restart THEN @
               ELSE IF excess /\ u = "root" THEN 0 ELSE Counted(u)]
          /\ start' = [start EXCEPT ![u] =
               IF ~restart THEN @
               ELSE IF excess /\ u = "root" THEN now ELSE WindowStart(u)]
          /\ restarts' = [restarts EXCEPT ![u] =
               IF restart /\ ~excess THEN Append(@, now) ELSE @]
  /\ inbox' = [inbox EXCEPT ![u] = Tail(@)]
  /\ UNCHANGED <<treeVars, kids, notifying, now, crashes>>

\* What follows the termination of the old actor.
AfterKill(s) == IF Strategy[s] = "RESTART" THEN "make" ELSE "clear"

\* sta_actor_terminate, but for the children of a supervisor.
Terminate(old) == astate' = [i \in Actors |-> IF i = old THEN "dead" ELSE astate[i]]
Disown(old) == boss' = [i \in Actors |-> IF i = old THEN NULL ELSE boss[i]]

\* Faulty: only an actor that has failed is terminated.
KillFailed(u) ==
  LET old == job[u].old IN
  /\ At(u, "kill") /\ Disown(old)
  /\ Terminate(IF old # 0 /\ astate[old] = "failed" THEN old ELSE 0)
  /\ job' = [job EXCEPT ![u].pc = AfterKill(job[u].slot), ![u].todo = <<>>]
  /\ UNCHANGED <<spec, slotOf, limitVars, kids, inbox, notifying, now, crashes>>

\* The old actor, if there was one, is terminated; for a supervisor
\* sta_actor_terminate goes on with its children.
Kill(u) ==
  LET old == job[u].old IN
  /\ At(u, "kill") /\ Terminate(old) /\ Disown(old)
  /\ job' = [job EXCEPT ![u].pc = IF old = Mid THEN "killing" ELSE AfterKill(job[u].slot),
                        ![u].todo = IF old = Mid THEN kids["mid"] ELSE <<>>]
  /\ UNCHANGED <<spec, slotOf, limitVars, kids, inbox, notifying, now, crashes>>

\* The loops over the children of a supervisor load the actor of the next slot;
\* a slot without one is passed over.
Pick(u, here, there) ==
  LET old == spec[Head(job[u].todo)].actor IN
  /\ At(u, here) /\ job[u].todo # <<>>
  /\ job' = [job EXCEPT ![u].pc = IF old = 0 THEN here ELSE there,
                        ![u].old = old,
                        ![u].todo = IF old = 0 THEN Tail(@) ELSE @]
  /\ UNCHANGED <<treeVars, limitVars, kids, inbox, notifying, now, crashes>>

PickKid(u) == Pick(u, "killing", "reap")

\* One child of a terminated supervisor: its actor is terminated, the slot's
\* pointer cleared; its id and the child's supervisor pointer stay.
KillKid(u) ==
  /\ At(u, "reap") /\ Terminate(job[u].old)
  /\ spec' = [spec EXCEPT ![Head(job[u].todo)].actor = 0]
  /\ job' = [job EXCEPT ![u].pc = "killing", ![u].todo = Tail(@)]
  /\ UNCHANGED <<boss, slotOf, limitVars, kids, inbox, notifying, now, crashes>>

KillDone(u) ==
  /\ At(u, "killing") /\ job[u].todo = <<>>
  /\ Go(u, AfterKill(job[u].slot))
  /\ UNCHANGED <<treeVars, limitVars, kids, inbox, notifying, now, crashes>>

\* restart_child: the new actor is registered and scheduled, unless there is no
\* memory for it ...
Make(u) ==
  /\ At(u, "make")
  /\ \/ /\ Spawn(job[u].slot, u)
        /\ job' = [job EXCEPT ![u].pc = "publish", ![u].id = NewId]
     \/ /\ job' = [job EXCEPT ![u].pc = "publish", ![u].id = 0]
        /\ UNCHANGED <<astate, boss, slotOf>>
  /\ UNCHANGED <<spec, limitVars, kids, inbox, notifying, now, crashes>>

\* ... and only then entered in its slot, which is empty when there is none.
Publish(u) ==
  /\ At(u, "publish")
  /\ spec' = [spec EXCEPT ![job[u].slot] = [actor |-> job[u].id, aid |-> job[u].id]]
  /\ Done(u)
  /\ UNCHANGED <<astate, boss, slotOf, limitVars, kids, inbox, notifying, now, crashes>>

\* STOP and ESCALATE empty the slot.
Clear(u) ==
  /\ At(u, "clear")
  /\ spec' = [spec EXCEPT ![job[u].slot] = [actor |-> 0, aid |-> 0]]
  /\ IF Strategy[job[u].slot] = "ESCALATE" THEN Go(u, "escalate") ELSE Done(u)
  /\ UNCHANGED <<astate, boss, slotOf, limitVars, kids, inbox, notifying, now, crashes>>

\* escalate_to_parent
Escalate(u) ==
  /\ At(u, "escalate") /\ Done(u)
  /\ inbox' = Deliver(boss[Who(u)], Who(u), inbox)
  /\ UNCHANGED <<treeVars, limitVars, kids, notifying, now, crashes>>

\* terminate_all_children, one slot at a time.
PickTear(u) == Pick(u, "tear", "fell")

Tear(u) ==
  LET old == job[u].old IN
  /\ At(u, "fell") /\ Terminate(old) /\ Disown(old)
  /\ spec' = [spec EXCEPT ![Head(job[u].todo)] = [actor |-> 0, aid |-> 0]]
  /\ job' = [job EXCEPT ![u].pc = "tear", ![u].todo = Tail(@)]
  /\ UNCHANGED <<slotOf, limitVars, kids, inbox, notifying, now, crashes>>

\* The supervisor appeals to its parent ...
Appeal(u) ==
  /\ At(u, "tear") /\ job[u].todo = <<>> /\ Go(u, "quit")
  /\ inbox' = Deliver(boss[Who(u)], Who(u), inbox)
  /\ UNCHANGED <<treeVars, limitVars, kids, notifying, now, crashes>>

\* ... and stores TERMINATED.
Quit(u) ==
  /\ At(u, "quit") /\ Done(u)
  /\ astate' = [astate EXCEPT ![Who(u)] = IF @ = "dead" THEN @ ELSE "failed"]
  /\ UNCHANGED <<boss, spec, slotOf, limitVars, kids, inbox, notifying, now, crashes>>

-----------------------------------------------------------------------------
Handle(u) ==
  \/ TakeStale(u) \/ Take(u) \/ Kill(u) \/ PickKid(u) \/ KillKid(u) \/ KillDone(u)
  \/ Make(u) \/ Publish(u) \/ Clear(u) \/ Escalate(u) \/ PickTear(u) \/ Tear(u)
  \/ Appeal(u) \/ Quit(u)

Next ==
  \/ Tick
  \/ \E s \in Slots : AddChild(s)
  \/ \E i \in Actors : Crash(i) \/ Notify(i)
  \/ \E u \in Sups : Handle(u)

Spec == Init /\ [][Next]_vars

\* Supervisors with mail are run, and a crash handler runs to its end.
FairSpec ==
  /\ Spec
  /\ \A u \in Sups : WF_vars(Handle(u))
  /\ WF_vars(\E i \in Actors : Notify(i))

-----------------------------------------------------------------------------
(* Properties *)

\* Restarting never doubles a child: of the actors made for a slot at most one
\* is live, whatever the order of crashes, escalations, the termination of the
\* supervisor and late notifications (sta_supervisor_handle_failure).
OneLivePerSlot ==
  \A i, j \in Actors :
    astate[i] = "live" /\ astate[j] = "live" /\ slotOf[i] = slotOf[j] => i = j

\* A failure is charged to the actor that failed: the actor about to be
\* terminated is the one the message named, never its healthy successor
\* (find_child_by_id, and old_actor read after it).
HandlesOwnFailure ==
  \A u \in Sups : At(u, "kill") => job[u].old = job[u].id

\* Below the root fewer than 2 * MaxRestarts restarts are allowed in any
\* MaxSeconds, though the window of check_intensity starts anew each time.
IntensityBound ==
  LET times == restarts["mid"]
      span == 2 * MaxRestarts - 1
  IN \A k \in DOMAIN times :
       k + span \in DOMAIN times => times[k + span] - times[k] > MaxSeconds

\* A failed actor that its supervisor, itself alive, has yet to deal with: it is
\* neither terminated nor deliberately left alone by the root.
Outstanding(i) ==
  /\ astate[i] = "failed" /\ i \notin skipped
  /\ boss[i] # NULL /\ astate[Who(boss[i])] = "live"

\* Crashes are dealt with: as they are finitely many here, there always comes a
\* moment when none is outstanding (notify_supervisor,
\* sta_supervisor_handle_failure).
FailureHandled == []<>(\A i \in Actors : ~Outstanding(i))

\* An actor about to be terminated has not been terminated before: the registry's
\* reference, which sta_actor_terminate releases, still keeps it.
TerminatedOnce ==
  \A u \in Sups : job[u].pc \in {"kill", "reap", "fell"} /\ job[u].old # 0 =>
    astate[job[u].old] # "dead"

\* Once sta_actor_terminate on a supervisor is over, none of the actors it
\* supervised is left running.
NoOrphan ==
  astate[Mid] = "dead" /\ At("root", "idle") /\ At("mid", "idle") =>
    \A i \in Actors : boss[i] = "mid" => astate[i] # "live"
=============================================================================
