-------------------------- MODULE SupervisorProofs --------------------------
(***************************************************************************)
(* At most one live actor per child specification, failures charged to the *)
(* actor that failed, and the limit on restarts in a window of time: for   *)
(* any tree of two supervisors, any strategies and limits, and any number  *)
(* of crashes.                                                             *)
(***************************************************************************)
EXTENDS Supervisor, TLAPS

Handling == {"kill", "killing", "reap", "make", "publish", "clear"}
Replacing == {"killing", "reap", "make", "publish", "clear"}
Orphaning == {"killing", "reap"}
Tearing == {"tear", "fell"}

\* Types, as far as the proofs need them.
AState == {"live", "failed", "dead"}
Places == {"idle", "kill", "killing", "reap", "make", "publish", "clear", "escalate", "tear", "fell", "quit"}
JobType == [pc : Places, id : Nat, old : Nat, slot : Slots \cup {NULL}, todo : Seq(Slots)]
SpecType == [actor : Nat, aid : Nat]
Typing ==
  /\ astate \in Seq(AState) /\ Len(astate) >= 2
  /\ slotOf \in Seq(Slots \cup {NULL}) /\ Len(slotOf) = Len(astate)
  /\ spec \in [Slots -> SpecType]
  /\ kids \in [Sups -> Seq(Slots)]
  /\ job \in [Sups -> JobType]
  /\ \A u \in Sups : job[u].pc \in Handling => job[u].slot \in Slots
  /\ \A u \in Sups : job[u].pc \in {"reap", "fell"} => job[u].todo # <<>>

\* A supervisor's list has its own slots.  Only slots of a list have had actors.
ListOK ==
  /\ \A u \in Sups : \A s \in Range(kids[u]) : Under[s] = u
  /\ \A i \in 1..Len(astate) : i # Root => slotOf[i] \in Slots /\ slotOf[i] \in Range(kids[Under[slotOf[i]]])
  /\ slotOf[Root] = NULL

\* A live actor's id is in its slot, unless it is about to be entered there.
\* A slot's pointer and id agree until the slot's supervisor is terminated.
NotLive(s) == spec[s].aid \in 1..Len(astate) => astate[spec[s].aid] # "live"
Incoming(i) ==
  LET u == Under[slotOf[i]] IN job[u].pc = "publish" /\ job[u].slot = slotOf[i] /\ job[u].id = i
LiveOK ==
  /\ \A s \in Slots : spec[s].aid \in 0..Len(astate)
  /\ \A s \in Slots : spec[s].actor = spec[s].aid \/ (spec[s].actor = 0 /\ Under[s] = "mid" /\ astate[Mid] = "dead")
  /\ \A i \in 1..Len(astate) : i # Root /\ astate[i] = "live" => spec[slotOf[i]].aid = i \/ Incoming(i)

\* A job is about a slot of the supervisor's list, and terminates the actor that
\* the slot names; while the child is being replaced its slot names no live actor.
JobOK(u) ==
  /\ job[u].pc \in Handling => job[u].slot \in Range(kids[u])
  /\ job[u].pc = "publish" => job[u].id \in 0..Len(astate)
  /\ job[u].pc \in Replacing => NotLive(job[u].slot)
  /\ job[u].pc = "kill" => spec[job[u].slot].aid = job[u].id /\ job[u].old = job[u].id
  /\ job[u].pc \in Orphaning => astate[Mid] = "dead" /\ Range(job[u].todo) \subseteq Range(kids["mid"])
  /\ job[u].pc \in Tearing => Range(job[u].todo) \subseteq Range(kids[u])
  /\ job[u].pc = "fell" => spec[Head(job[u].todo)].aid = job[u].old

\* A supervisor's restarts R when its window began at st and has c of them, at
\* time t.  Restarts MaxRestarts or more before the first of the window are more
\* than MaxSeconds older than it.
Window(R, c, st, t) ==
  /\ st <= t
  /\ \A i \in 1..Len(R) : R[i] <= t
  /\ \A i, j \in 1..Len(R) : i <= j => R[i] <= R[j]
  /\ c = 0 => Len(R) = 0
  /\ c \in 1..MaxRestarts =>
       /\ Len(R) - c + 1 \in 1..Len(R) /\ R[Len(R) - c + 1] = st
       /\ \A i \in 1..Len(R) : i + MaxRestarts <= Len(R) - c + 1 => st - R[i] > MaxSeconds
  /\ \A k \in 1..Len(R) : k + (2 * MaxRestarts - 1) \in 1..Len(R) => R[k + (2 * MaxRestarts - 1)] - R[k] > MaxSeconds

\* Mid is tearing its subtree down, or has failed.
GaveUp == job["mid"].pc \in {"tear", "fell", "quit"} \/ astate[Mid] # "live"

WindowOK ==
  /\ now \in Nat /\ start \in [Sups -> Nat] /\ count \in [Sups -> Nat] /\ restarts \in [Sups -> Seq(Nat)]
  /\ Window(restarts["mid"], count["mid"], start["mid"], now)
  /\ count["mid"] > MaxRestarts => GaveUp
-----------------------------------------------------------------------------
(* Types *)

\* A function from 1..n is a sequence.
LEMMA SeqOfFunction ==
  ASSUME NEW S, NEW n \in Nat, NEW f \in [1..n -> S]
  PROVE  f \in Seq(S) /\ Len(f) = n
OBVIOUS

\* Marking actors dead.
LEMMA MarkFacts ==
  ASSUME Typing, NEW old, astate' = [i \in Actors |-> IF i = old THEN "dead" ELSE astate[i]]
  PROVE  /\ astate' \in Seq(AState) /\ Len(astate') = Len(astate)
         /\ \A i \in 1..Len(astate) : astate'[i] = IF i = old THEN "dead" ELSE astate[i]
<1>1. Actors = 1..Len(astate) /\ Len(astate) \in Nat
  BY DEF Actors, Typing
<1>2. astate' \in [1..Len(astate) -> AState]
  BY <1>1 DEF Typing, AState
<1>3. \A i \in 1..Len(astate) : astate'[i] = IF i = old THEN "dead" ELSE astate[i]
  BY <1>1, Zenon
<1> QED
  BY <1>1, <1>2, <1>3, SeqOfFunction, Zenon

\* Overwriting one element.
LEMMA SetFacts ==
  ASSUME NEW S, NEW q \in Seq(S), NEW x \in S, NEW i
  PROVE  /\ [q EXCEPT ![i] = x] \in Seq(S) /\ Len([q EXCEPT ![i] = x]) = Len(q)
         /\ \A k \in 1..Len(q) : [q EXCEPT ![i] = x][k] = IF k = i THEN x ELSE q[k]
<1>1. [q EXCEPT ![i] = x] \in [1..Len(q) -> S] /\ Len(q) \in Nat
  <2>1. q \in [1..Len(q) -> S] /\ Len(q) \in Nat
    OBVIOUS
  <2>2. PICK D : D = 1..Len(q)
    BY Zenon
  <2>3. ASSUME NEW f \in [D -> S] PROVE [f EXCEPT ![i] = x] \in [D -> S]
    BY Zenon
  <2> QED
    BY <2>1, <2>2, <2>3, Zenon
<1>2. q = [k \in 1..Len(q) |-> q[k]]
  OBVIOUS
<1>3. \A k \in 1..Len(q) : [q EXCEPT ![i] = x][k] = IF k = i THEN x ELSE q[k]
  BY <1>2, Zenon
<1> QED
  BY <1>1, <1>3, SeqOfFunction, Zenon

\* A new actor.
LEMMA SpawnFacts ==
  ASSUME Typing, NEW s \in Slots, NEW u, Spawn(s, u)
  PROVE  /\ astate' \in Seq(AState) /\ Len(astate') = Len(astate) + 1 /\ NewId = Len(astate) + 1
         /\ slotOf' \in Seq(Slots \cup {NULL}) /\ Len(slotOf') = Len(astate) + 1
         /\ astate'[NewId] = "live" /\ slotOf'[NewId] = s
         /\ \A i \in 1..Len(astate) : astate'[i] = astate[i] /\ slotOf'[i] = slotOf[i]
<1>1. astate \in Seq(AState) /\ "live" \in AState /\ astate' = Append(astate, "live")
  BY Zenon DEF Typing, AState, Spawn
<1>2. slotOf \in Seq(Slots \cup {NULL}) /\ s \in Slots \cup {NULL} /\ slotOf' = Append(slotOf, s) /\ Len(slotOf) = Len(astate)
  BY Zenon DEF Typing, Spawn
<1>3. NewId = Len(astate) + 1
  BY Zenon DEF NewId
<1>4. /\ astate' \in Seq(AState) /\ Len(astate') = Len(astate) + 1 /\ astate'[Len(astate) + 1] = "live"
      /\ \A i \in 1..Len(astate) : astate'[i] = astate[i]
  <2>1. PICK x : x = "live"
    BY Zenon
  <2>2. PICK r : r = astate'
    BY Zenon
  <2>3. astate \in Seq(AState) /\ x \in AState /\ r = Append(astate, x)
    BY <1>1, <2>1, <2>2, Zenon
  <2>4. r \in Seq(AState) /\ Len(r) = Len(astate) + 1 /\ r[Len(astate) + 1] = x /\ \A i \in 1..Len(astate) : r[i] = astate[i]
    BY <2>3
  <2> QED
    BY <2>1, <2>2, <2>4, Zenon
<1>5. /\ slotOf' \in Seq(Slots \cup {NULL}) /\ Len(slotOf') = Len(slotOf) + 1 /\ slotOf'[Len(slotOf) + 1] = s
      /\ \A i \in 1..Len(slotOf) : slotOf'[i] = slotOf[i]
  <2>1. PICK T : T = Slots \cup {NULL}
    BY Zenon
  <2>2. slotOf \in Seq(T) /\ s \in T /\ slotOf' = Append(slotOf, s)
    BY <1>2, <2>1, Zenon
  <2>3. PICK r : r = slotOf'
    BY Zenon
  <2>4. r \in Seq(T) /\ Len(r) = Len(slotOf) + 1 /\ r[Len(slotOf) + 1] = s /\ \A i \in 1..Len(slotOf) : r[i] = slotOf[i]
    BY <2>2, <2>3
  <2> QED
    BY <2>1, <2>3, <2>4, Zenon
<1> QED
  BY <1>2, <1>3, <1>4, <1>5, Zenon

\* The initial state.
LEMMA InitTyping == Init => Typing
<1> SUFFICES ASSUME Init PROVE Typing
  BY Zenon
<1>1. astate \in Seq(AState) /\ Len(astate) = 2
  BY DEF Init, AState
<1>2. slotOf \in Seq(Slots \cup {NULL}) /\ Len(slotOf) = 2
  BY SupervisorAssumption DEF Init
<1>3. spec \in [Slots -> SpecType]
  BY Zenon DEF Init, SpecType, Mid
<1>4. kids \in [Sups -> Seq(Slots)]
  BY SupervisorAssumption DEF Init
<1>5. job \in [Sups -> JobType] /\ \A u \in Sups : job[u].pc = "idle"
  BY DEF Init, JobType, Idle, Places
<1> QED
  BY <1>1, <1>2, <1>3, <1>4, <1>5 DEF Typing, Handling

\* Jobs, step by step.
LEMMA JobFacts ==
  ASSUME Typing, NEW u \in Sups
  PROVE  /\ job[u].slot \in Slots \cup {NULL} /\ job[u].id \in Nat /\ job[u].todo \in Seq(Slots) /\ job[u].pc \in Places
         /\ \A p \in Places : [job EXCEPT ![u].pc = p] \in [Sups -> JobType]
         /\ \A t \in Seq(Slots) : [job EXCEPT ![u].todo = t] \in [Sups -> JobType]
         /\ \A p \in Places, t \in Seq(Slots) : [job EXCEPT ![u].pc = p, ![u].todo = t] \in [Sups -> JobType]
         /\ \A p \in Places, i \in Nat : [job EXCEPT ![u].pc = p, ![u].id = i] \in [Sups -> JobType]
         /\ \A p \in Places, i \in Nat, t \in Seq(Slots) :
              [job EXCEPT ![u].pc = p, ![u].old = i, ![u].todo = t] \in [Sups -> JobType]
         /\ \A j \in JobType : [job EXCEPT ![u] = j] \in [Sups -> JobType]
         /\ Idle \in JobType
<1>1. job \in [Sups -> JobType] /\ job[u] \in JobType
  BY Zenon DEF Typing
<1>2. job[u].slot \in Slots \cup {NULL} /\ job[u].id \in Nat /\ job[u].todo \in Seq(Slots) /\ job[u].pc \in Places
  BY <1>1, Zenon DEF JobType
<1>3. \A p \in Places : [job EXCEPT ![u].pc = p] \in [Sups -> JobType]
  BY <1>1, Zenon DEF JobType
<1>4. \A t \in Seq(Slots) : [job EXCEPT ![u].todo = t] \in [Sups -> JobType]
  BY <1>1, Zenon DEF JobType
<1>5. \A p \in Places, t \in Seq(Slots) : [job EXCEPT ![u].pc = p, ![u].todo = t] \in [Sups -> JobType]
  BY <1>1, Zenon DEF JobType
<1>6. \A p \in Places, i \in Nat : [job EXCEPT ![u].pc = p, ![u].id = i] \in [Sups -> JobType]
  BY <1>1, Zenon DEF JobType
<1>7. \A j \in JobType : [job EXCEPT ![u] = j] \in [Sups -> JobType]
  BY <1>1, Zenon
<1>8. Idle \in JobType
  BY DEF Idle, JobType, Places
<1>9. \A p \in Places, i \in Nat, t \in Seq(Slots) :
        [job EXCEPT ![u].pc = p, ![u].old = i, ![u].todo = t] \in [Sups -> JobType]
  BY <1>1, Zenon DEF JobType
<1> QED
  BY <1>2, <1>3, <1>4, <1>5, <1>6, <1>7, <1>8, <1>9, Zenon

\* Storing another state than live brings no actor to life.
LEMMA DemoteFacts ==
  ASSUME NEW q \in Seq(AState), NEW x \in AState, x # "live", NEW i, NEW r, r = [q EXCEPT ![i] = x]
  PROVE  r \in Seq(AState) /\ Len(r) = Len(q) /\ \A k \in 1..Len(q) : r[k] = "live" => q[k] = "live"
<1>1. PICK S : S = AState
  BY Zenon
<1>2. q \in Seq(S) /\ x \in S
  BY <1>1, Zenon
<1>3. /\ [q EXCEPT ![i] = x] \in Seq(S) /\ Len([q EXCEPT ![i] = x]) = Len(q)
      /\ \A k \in 1..Len(q) : [q EXCEPT ![i] = x][k] = IF k = i THEN x ELSE q[k]
  BY <1>2, SetFacts
<1>4. r \in Seq(S) /\ Len(r) = Len(q)
  BY <1>3, Zenon
<1>5. \A k \in 1..Len(q) : r[k] = IF k = i THEN x ELSE q[k]
  BY <1>3, Zenon
<1> QED
  BY <1>1, <1>4, <1>5, Zenon


\* A step of a supervisor keeps the types.
LEMMA HandleTyping ==
  ASSUME Typing, NEW u \in Sups, Handle(u)
  PROVE  Typing'
<1>1. /\ job[u].slot \in Slots \cup {NULL} /\ job[u].id \in Nat /\ job[u].todo \in Seq(Slots) /\ job[u].pc \in Places
      /\ \A p \in Places : [job EXCEPT ![u].pc = p] \in [Sups -> JobType]
      /\ \A t \in Seq(Slots) : [job EXCEPT ![u].todo = t] \in [Sups -> JobType]
      /\ \A p \in Places, t \in Seq(Slots) : [job EXCEPT ![u].pc = p, ![u].todo = t] \in [Sups -> JobType]
      /\ \A p \in Places, i \in Nat : [job EXCEPT ![u].pc = p, ![u].id = i] \in [Sups -> JobType]
      /\ \A p \in Places, i \in Nat, t \in Seq(Slots) :
           [job EXCEPT ![u].pc = p, ![u].old = i, ![u].todo = t] \in [Sups -> JobType]
      /\ \A j \in JobType : [job EXCEPT ![u] = j] \in [Sups -> JobType]
      /\ Idle \in JobType
  BY JobFacts, Zenon
<1>2. job \in [Sups -> JobType] /\ kids[u] \in Seq(Slots)
  BY Zenon DEF Typing
<1>16. \A q \in Seq(Slots) : q # <<>> => Head(q) \in Slots /\ Tail(q) \in Seq(Slots)
  OBVIOUS
<1>17. job[u].todo \in Seq(Slots)
  BY <1>1, Zenon
<1>13. ASSUME job' \in [Sups -> JobType], \A v \in Sups \ {u} : job'[v] = job[v],
              job'[u].pc \in Handling => job'[u].slot \in Slots, job'[u].pc \in {"reap", "fell"} => job'[u].todo # <<>>,
              astate' \in Seq(AState), Len(astate') = Len(astate), slotOf' = slotOf, kids' = kids,
              spec' \in [Slots -> SpecType]
       PROVE  Typing'
  BY <1>13, Zenon DEF Typing
<1>3. CASE TakeStale(u)
  BY <1>3, Zenon DEF TakeStale, treeVars, Typing
<1>4. CASE Take(u)
  <2>1. UNCHANGED <<astate, slotOf, spec, kids>>
    BY <1>4, Zenon DEF Take, treeVars
  <2>8. PICK s \in Found(u, Head(inbox[u])), p \in {"kill", "tear"} :
          job' = job \/ job' = [job EXCEPT ![u] =
            [pc |-> p, id |-> Head(inbox[u]), old |-> spec[s].actor, slot |-> s, todo |-> kids[u]]]
    BY <1>4, Zenon DEF Take
  <2>9. PICK j : j = [pc |-> p, id |-> Head(inbox[u]), old |-> spec[s].actor, slot |-> s, todo |-> kids[u]]
    BY Zenon
  <2>2. job' = job \/ job' = [job EXCEPT ![u] = j]
    BY <2>8, <2>9, Zenon
  <2>3. s \in Slots /\ Head(inbox[u]) \in Nat /\ spec[s].actor \in Nat
    BY <1>2 DEF Found, Range, Typing, SpecType
  <2>7. j \in JobType /\ j.slot \in Slots /\ j.pc \notin {"reap", "fell"}
    BY <1>2, <2>9, <2>3, Zenon DEF JobType, Places
  <2>4. job' \in [Sups -> JobType]
    BY <1>1, <1>2, <2>2, <2>7, ZenonT(30)
  <2>5. \A v \in Sups : job'[v].pc \in Handling => job'[v].slot \in Slots
    BY <1>2, <2>2, <2>7, Zenon DEF Typing
  <2>6. \A v \in Sups : job'[v].pc \in {"reap", "fell"} => job'[v].todo # <<>>
    BY <1>2, <2>2, <2>7, Zenon DEF Typing
  <2> QED
    BY <2>1, <2>4, <2>5, <2>6, Zenon DEF Typing
<1>5. CASE Kill(u)
  <2> DEFINE p == IF job[u].old = Mid THEN "killing" ELSE AfterKill(job[u].slot)
             t == IF job[u].old = Mid THEN kids["mid"] ELSE <<>>
  <2>1. job' = [job EXCEPT ![u].pc = p, ![u].todo = t] /\ UNCHANGED <<spec, slotOf, kids>>
    BY <1>5, Zenon DEF Kill
  <2>2. p \in Places \ {"reap", "fell"} /\ t \in Seq(Slots)
    BY DEF AfterKill, Places, Typing, Sups
  <2>3. astate' \in Seq(AState) /\ Len(astate') = Len(astate)
    BY <1>5, MarkFacts, Zenon DEF Kill, Terminate
  <2>4. job[u].slot \in Slots /\ spec \in [Slots -> SpecType]
    BY <1>5, Zenon DEF Kill, At, Typing, Handling
  <2> HIDE DEF p, t
  <2>5. job' \in [Sups -> JobType]
    BY <1>1, <2>1, <2>2, Zenon
  <2>6. job'[u].slot = job[u].slot /\ job'[u].pc = p /\ \A v \in Sups \ {u} : job'[v] = job[v]
    BY <1>2, <2>1, Zenon DEF JobType
  <2> QED
    BY <1>13, <2>1, <2>2, <2>3, <2>4, <2>5, <2>6, Zenon
<1>6. CASE KillKid(u)
  <2>1. /\ job' = [job EXCEPT ![u].pc = "killing", ![u].todo = Tail(@)] /\ job[u].pc = "reap" /\ UNCHANGED <<slotOf, kids>>
        /\ spec' = [spec EXCEPT ![Head(job[u].todo)].actor = 0]
    BY <1>6, Zenon DEF KillKid, At
  <2>8. job[u].todo # <<>> /\ "killing" \in Places
    BY <2>1, Zenon DEF Typing, Places
  <2>2. Tail(job[u].todo) \in Seq(Slots) /\ Head(job[u].todo) \in Slots /\ "killing" \in Places
    BY <1>16, <1>17, <2>8, Zenon
  <2>3. astate' \in Seq(AState) /\ Len(astate') = Len(astate)
    BY <1>6, MarkFacts, Zenon DEF KillKid, Terminate
  <2>4. job' \in [Sups -> JobType]
    BY <1>1, <2>1, <2>2, Zenon
  <2>5. job'[u].slot = job[u].slot /\ job'[u].pc = "killing" /\ \A v \in Sups \ {u} : job'[v] = job[v]
    BY <1>2, <2>1, Zenon DEF JobType
  <2>6. spec' \in [Slots -> SpecType]
    BY <2>1, <2>2, Zenon DEF Typing, SpecType
  <2>7. job[u].slot \in Slots
    BY <2>1, Zenon DEF Typing, Handling
  <2> QED
    BY <1>13, <2>1, <2>3, <2>4, <2>5, <2>6, <2>7, Zenon
<1>14. ASSUME NEW here \in {"killing", "tear"}, NEW there \in {"reap", "fell"}, (here = "killing") = (there = "reap"),
              Pick(u, here, there)
       PROVE  Typing'
  <2> DEFINE old == spec[Head(job[u].todo)].actor
             p == IF old = 0 THEN here ELSE there
             t == IF old = 0 THEN Tail(job[u].todo) ELSE job[u].todo
  <2>1. /\ job' = [job EXCEPT ![u].pc = p, ![u].old = old, ![u].todo = t] /\ job[u].pc = here /\ job[u].todo # <<>>
        /\ UNCHANGED <<astate, spec, slotOf, kids>>
    BY <1>14, Zenon DEF Pick, At, treeVars
  <2>2. Head(job[u].todo) \in Slots /\ Tail(job[u].todo) \in Seq(Slots)
    BY <1>16, <1>17, <2>1, Zenon
  <2>3. p \in Places /\ t \in Seq(Slots) /\ old \in Nat
    BY <1>14, <1>17, <2>2, Zenon DEF Typing, SpecType, Places
  <2>4. p \in {"reap", "fell"} => t # <<>>
    BY <2>1, Zenon
  <2>7. p \in Handling => here \in Handling
    BY <1>14, Zenon DEF Handling
  <2> HIDE DEF p, t, old
  <2>5. job' \in [Sups -> JobType]
    BY <1>1, <2>1, <2>3, Zenon
  <2>6. job'[u].slot = job[u].slot /\ job'[u].pc = p /\ job'[u].todo = t /\ \A v \in Sups \ {u} : job'[v] = job[v]
    BY <1>2, <2>1, Zenon DEF JobType
  <2>8. astate' \in Seq(AState) /\ Len(astate') = Len(astate) /\ spec' \in [Slots -> SpecType]
    BY <2>1, Zenon DEF Typing
  <2>9. job'[u].pc \in Handling => job'[u].slot \in Slots
    BY <2>1, <2>6, <2>7, Zenon DEF Typing
  <2> QED
    BY <1>13, <2>1, <2>4, <2>5, <2>6, <2>8, <2>9, Zenon
<1>7. CASE KillDone(u)
  <2>1. job' = [job EXCEPT ![u].pc = AfterKill(job[u].slot)] /\ UNCHANGED <<astate, slotOf, spec, kids>>
    BY <1>7, Zenon DEF KillDone, Go, treeVars
  <2>2. AfterKill(job[u].slot) \in Places \ {"reap", "fell"}
    BY Zenon DEF AfterKill, Places
  <2>3. job[u].slot \in Slots
    BY <1>7, Zenon DEF KillDone, At, Typing, Handling
  <2>4. job' \in [Sups -> JobType]
    BY <1>1, <2>1, <2>2, Zenon
  <2>5. /\ job'[u].slot = job[u].slot /\ job'[u].pc = AfterKill(job[u].slot)
        /\ \A v \in Sups \ {u} : job'[v] = job[v]
    BY <1>2, <2>1, Zenon DEF JobType
  <2>6. astate' \in Seq(AState) /\ Len(astate') = Len(astate) /\ spec' \in [Slots -> SpecType]
    BY <2>1, Zenon DEF Typing
  <2> QED
    BY <1>13, <2>1, <2>2, <2>3, <2>4, <2>5, <2>6, Zenon
<1>8. CASE Make(u)
  <2>2. job[u].slot \in Slots
    BY <1>8, Zenon DEF Make, At, Typing, Handling
  <2>3. \/ UNCHANGED <<astate, slotOf>>
        \/ /\ astate' \in Seq(AState) /\ Len(astate') = Len(astate) + 1
           /\ slotOf' \in Seq(Slots \cup {NULL}) /\ Len(slotOf') = Len(astate) + 1
    BY <1>8, <2>2, SpawnFacts, Zenon DEF Make
  <2>1. PICK n \in {0, NewId} : job' = [job EXCEPT ![u].pc = "publish", ![u].id = n] /\ UNCHANGED <<spec, kids>>
    BY <1>8, Zenon DEF Make
  <2>4. n \in Nat /\ "publish" \in Places
    BY DEF Typing, Places, NewId
  <2>5. job' \in [Sups -> JobType]
    BY <1>1, <2>1, <2>4, Zenon
  <2>6. job'[u].slot = job[u].slot /\ job'[u].pc = "publish" /\ \A v \in Sups \ {u} : job'[v] = job[v]
    BY <1>2, <2>1, Zenon DEF JobType
  <2>7. /\ astate' \in Seq(AState) /\ Len(astate') >= 2
        /\ slotOf' \in Seq(Slots \cup {NULL}) /\ Len(slotOf') = Len(astate')
    BY <2>3 DEF Typing
  <2> QED
    BY <2>1, <2>2, <2>5, <2>6, <2>7, Zenon DEF Typing
<1>9. CASE Publish(u) \/ Clear(u)
  <2>1. PICK n \in Nat : spec' = [spec EXCEPT ![job[u].slot] = [actor |-> n, aid |-> n]]
    BY <1>1, <1>9, Zenon DEF Publish, Clear
  <2>2. job' = [job EXCEPT ![u] = Idle] \/ job' = [job EXCEPT ![u].pc = "escalate"]
    BY <1>9, Zenon DEF Publish, Clear, Done, Go
  <2>3. UNCHANGED <<astate, slotOf, kids>>
    BY <1>9, Zenon DEF Publish, Clear
  <2>4. spec' \in [Slots -> SpecType]
    BY <2>1, Zenon DEF Typing, SpecType
  <2>5. job' \in [Sups -> JobType]
    <3>1. "escalate" \in Places
      BY Zenon DEF Places
    <3>2. CASE job' = [job EXCEPT ![u] = Idle]
      BY <1>1, <3>2, Zenon
    <3>3. CASE job' = [job EXCEPT ![u].pc = "escalate"]
      BY <1>1, <3>1, <3>3, Zenon
    <3> QED
      BY <2>2, <3>2, <3>3, Zenon
  <2>6. \A v \in Sups \ {u} : job'[v] = job[v]
    BY <1>2, <2>2, Zenon
  <2>7. job'[u].pc \notin Handling /\ job'[u].pc \notin {"reap", "fell"}
    BY <1>2, <2>2 DEF Handling, Idle, JobType
  <2>8. astate' \in Seq(AState) /\ Len(astate') = Len(astate)
    BY <2>3, Zenon DEF Typing
  <2> QED
    BY <1>13, <2>3, <2>4, <2>5, <2>6, <2>7, <2>8, Zenon
<1>10. CASE Escalate(u) \/ Appeal(u)
  <2>1. job' = [job EXCEPT ![u] = Idle] \/ job' = [job EXCEPT ![u].pc = "quit"]
    BY <1>10, Zenon DEF Escalate, Appeal, Done, Go
  <2>2. UNCHANGED <<astate, slotOf, kids, spec>>
    BY <1>10, Zenon DEF Escalate, Appeal, treeVars
  <2>3. job' \in [Sups -> JobType]
    <3>1. "quit" \in Places
      BY Zenon DEF Places
    <3>2. CASE job' = [job EXCEPT ![u] = Idle]
      BY <1>1, <3>2, Zenon
    <3>3. CASE job' = [job EXCEPT ![u].pc = "quit"]
      BY <1>1, <3>1, <3>3, Zenon
    <3> QED
      BY <2>1, <3>2, <3>3, Zenon
  <2>4. \A v \in Sups \ {u} : job'[v] = job[v]
    BY <1>2, <2>1, Zenon
  <2>5. job'[u].pc \notin Handling /\ job'[u].pc \notin {"reap", "fell"}
    BY <1>2, <2>1 DEF Handling, Idle, JobType
  <2>6. astate' \in Seq(AState) /\ Len(astate') = Len(astate) /\ spec' \in [Slots -> SpecType]
    BY <2>2, Zenon DEF Typing
  <2> QED
    BY <1>13, <2>2, <2>3, <2>4, <2>5, <2>6, Zenon
<1>11. CASE Tear(u)
  <2>1. /\ job' = [job EXCEPT ![u].pc = "tear", ![u].todo = Tail(@)] /\ job[u].pc = "fell" /\ UNCHANGED <<slotOf, kids>>
        /\ spec' = [spec EXCEPT ![Head(job[u].todo)] = [actor |-> 0, aid |-> 0]]
    BY <1>11, Zenon DEF Tear, At
  <2>8. job[u].todo # <<>> /\ "tear" \in Places
    BY <2>1, Zenon DEF Typing, Places
  <2>2. Tail(job[u].todo) \in Seq(Slots) /\ Head(job[u].todo) \in Slots /\ "tear" \in Places
    BY <1>16, <1>17, <2>8, Zenon
  <2>3. astate' \in Seq(AState) /\ Len(astate') = Len(astate)
    BY <1>11, MarkFacts, Zenon DEF Tear, Terminate
  <2>4. job' \in [Sups -> JobType]
    BY <1>1, <2>1, <2>2, Zenon
  <2>5. job'[u].pc = "tear" /\ \A v \in Sups \ {u} : job'[v] = job[v]
    BY <1>2, <2>1, Zenon DEF JobType
  <2>6. spec' \in [Slots -> SpecType]
    <3>1. [actor |-> 0, aid |-> 0] \in SpecType
      BY Zenon DEF SpecType
    <3> QED
      BY <2>1, <2>2, <3>1, Zenon DEF Typing
  <2> QED
    BY <1>13, <2>1, <2>3, <2>4, <2>5, <2>6, Zenon DEF Handling
<1>12. CASE Quit(u)
  <2>1. job' = [job EXCEPT ![u] = Idle] /\ UNCHANGED <<spec, slotOf, kids>>
    BY <1>12, Zenon DEF Quit, Done
  <2>2. astate' \in Seq(AState) /\ Len(astate') = Len(astate)
    <3>1. PICK x : x = IF astate[Who(u)] = "dead" THEN "dead" ELSE "failed"
      BY Zenon
    <3>2. astate' = [astate EXCEPT ![Who(u)] = x] /\ x \in AState /\ x # "live"
      BY <1>12, <3>1, Zenon DEF Quit, AState
    <3>3. astate \in Seq(AState)
      BY Zenon DEF Typing
    <3>4. PICK r : r = astate'
      BY Zenon
    <3>5. r \in Seq(AState) /\ Len(r) = Len(astate)
      BY <3>2, <3>3, <3>4, DemoteFacts, Zenon
    <3> QED
      BY <3>4, <3>5, Zenon
  <2>3. job' \in [Sups -> JobType]
    BY <1>1, <2>1, Zenon
  <2>4. \A v \in Sups : job'[v] = IF v = u THEN Idle ELSE job[v]
    BY <1>2, <2>1, Zenon
  <2>5. spec' \in [Slots -> SpecType]
    BY <2>1, Zenon DEF Typing
  <2> QED
    BY <1>13, <2>1, <2>2, <2>3, <2>4, <2>5, Zenon DEF Idle, Handling
<1>15. CASE PickKid(u) \/ PickTear(u)
  BY <1>14, <1>15, Zenon DEF PickKid, PickTear
<1> QED
  BY <1>3, <1>4, <1>5, <1>6, <1>7, <1>8, <1>9, <1>10, <1>11, <1>12, <1>15, Zenon DEF Handle

\* A step keeps the types.
LEMMA TypingStep ==
  ASSUME Typing, [Next]_vars
  PROVE  Typing'
<1>1. CASE Tick \/ UNCHANGED vars
  BY <1>1, Zenon DEF Tick, vars, treeVars, Typing
<1>2. ASSUME NEW i \in Actors, Crash(i) \/ Notify(i) PROVE Typing'
  <2>1. UNCHANGED <<slotOf, spec, kids, job>>
    BY <1>2, Zenon DEF Crash, Notify, treeVars
  <2>2. astate' \in Seq(AState) /\ Len(astate') = Len(astate)
    <3>1. PICK x : x = "failed"
      BY Zenon
    <3>2. x \in AState /\ x # "live"
      BY <3>1, Zenon DEF AState
    <3>3. astate' = astate \/ astate' = [astate EXCEPT ![i] = x]
      BY <1>2, <3>1, Zenon DEF Crash, Notify, treeVars
    <3>4. astate \in Seq(AState)
      BY Zenon DEF Typing
    <3>5. CASE astate' = astate
      BY <3>4, <3>5, Zenon
    <3>6. CASE astate' = [astate EXCEPT ![i] = x]
      <4>1. PICK r : r = astate'
        BY Zenon
      <4>2. r \in Seq(AState) /\ Len(r) = Len(astate)
        BY <3>2, <3>4, <3>6, <4>1, DemoteFacts, Zenon
      <4> QED
        BY <4>1, <4>2, Zenon
    <3> QED
      BY <3>3, <3>5, <3>6, Zenon
  <2> QED
    BY <2>1, <2>2, Zenon DEF Typing
<1>3. ASSUME NEW s \in Slots, AddChild(s) PROVE Typing'
  <2>1. /\ Spawn(s, Under[s]) /\ UNCHANGED job /\ spec' = [spec EXCEPT ![s] = [actor |-> NewId, aid |-> NewId]]
        /\ kids' = [kids EXCEPT ![Under[s]] = <<s>> \o @]
    BY <1>3, Zenon DEF AddChild
  <2>2. /\ astate' \in Seq(AState) /\ Len(astate') = Len(astate) + 1 /\ NewId = Len(astate) + 1
        /\ slotOf' \in Seq(Slots \cup {NULL}) /\ Len(slotOf') = Len(astate) + 1
    BY <2>1, SpawnFacts, Zenon
  <2>3. NewId \in Nat /\ Len(astate') >= 2
    BY <2>2 DEF Typing
  <2>4. spec' \in [Slots -> SpecType]
    BY <2>1, <2>3, Zenon DEF Typing, SpecType
  <2>5. kids' \in [Sups -> Seq(Slots)]
    <3>1. Under[s] \in Sups /\ kids[Under[s]] \in Seq(Slots)
      BY SupervisorAssumption, Zenon DEF Typing
    <3>2. <<s>> \o kids[Under[s]] \in Seq(Slots)
      BY <3>1
    <3> QED
      BY <2>1, <3>2, Zenon DEF Typing
  <2> QED
    BY <2>1, <2>2, <2>3, <2>4, <2>5, Zenon DEF Typing
<1> QED
  BY <1>1, <1>2, <1>3, HandleTyping, Zenon DEF Next
-----------------------------------------------------------------------------
(* One live actor per slot, and whose failure it was *)

TreeOK == ListOK /\ LiveOK /\ \A u \in Sups : JobOK(u)

\* The initial state.
LEMMA InitTree == Init => TreeOK
<1> SUFFICES ASSUME Init PROVE TreeOK
  BY Zenon
<1>1. /\ Len(astate) = 2 /\ slotOf[1] = NULL /\ slotOf[2] = MidSlot /\ \A u \in Sups : job[u].pc = "idle"
      /\ spec[MidSlot] = [actor |-> 2, aid |-> 2] /\ \A s \in Slots : spec[s].actor = spec[s].aid
      /\ \A s \in Slots : spec[s].aid \in 0..2
  BY SupervisorAssumption DEF Init, Idle, Mid
<1>2. Range(kids["root"]) = {MidSlot} /\ Range(kids["mid"]) = {}
  BY DEF Init, Sups, Range
<1>3. Under[MidSlot] = "root" /\ MidSlot \in Slots
  BY SupervisorAssumption, Zenon
<1>4. ListOK
  BY <1>1, <1>2, <1>3 DEF ListOK, Sups, Root
<1>5. LiveOK
  BY <1>1, <1>3 DEF LiveOK, Root
<1>6. ASSUME NEW u \in Sups PROVE JobOK(u)
  BY <1>1, Zenon DEF JobOK, Handling, Replacing, Orphaning, Tearing
<1> QED
  BY <1>4, <1>5, <1>6, Zenon DEF TreeOK

\* The elements of a sequence and of its tail.
LEMMA HeadRange ==
  ASSUME NEW S, NEW q \in Seq(S), q # <<>>
  PROVE  Head(q) \in Range(q) /\ Range(Tail(q)) \subseteq Range(q)
<1>1. /\ DOMAIN q = 1..Len(q) /\ Len(q) \in Nat /\ Len(q) >= 1 /\ Head(q) = q[1]
      /\ DOMAIN Tail(q) = 1..(Len(q) - 1) /\ \A k \in 1..(Len(q) - 1) : Tail(q)[k] = q[k + 1]
  OBVIOUS
<1>2. 1 \in DOMAIN q /\ \A k \in DOMAIN Tail(q) : k + 1 \in DOMAIN q /\ Tail(q)[k] = q[k + 1]
  BY <1>1
<1>3. Head(q) \in Range(q)
  BY <1>1, <1>2, Zenon DEF Range
<1>4. ASSUME NEW k \in DOMAIN Tail(q) PROVE Tail(q)[k] \in Range(q)
  BY <1>2, <1>4, Zenon DEF Range
<1> QED
  BY <1>3, <1>4, Zenon DEF Range

\* What keeps a job right that a step of others leaves as it is.
LEMMA JobFrame ==
  ASSUME Typing, TreeOK, NEW v \in Sups, job'[v] = job[v],
         \A w \in Sups : Range(kids[w]) \subseteq Range(kids'[w]),
         Len(astate') \in {Len(astate), Len(astate) + 1},
         \A i \in 1..Len(astate) : astate'[i] = "live" => astate[i] = "live",
         astate[Mid] = "dead" => astate'[Mid] = "dead",
         \A s \in Range(kids[v]) : spec'[s].aid = spec[s].aid
  PROVE  JobOK(v)'
<1>1. JobOK(v) /\ Range(kids[v]) \subseteq Slots /\ \A s \in Slots : spec[s].aid \in 0..Len(astate)
  BY DEF Typing, Range, TreeOK, LiveOK
<1>2. Len(astate) \in Nat /\ 0..Len(astate) \subseteq 0..Len(astate') /\ 0 \notin 1..Len(astate')
  BY DEF Typing
<1>3. \A s \in Range(kids[v]) : NotLive(s) => NotLive(s)'
  <2> SUFFICES ASSUME NEW s \in Range(kids[v]), NotLive(s), spec'[s].aid \in 1..Len(astate') PROVE astate'[spec'[s].aid] # "live"
    BY Zenon DEF NotLive
  <2>1. spec'[s].aid = spec[s].aid /\ spec[s].aid \in 1..Len(astate)
    BY <1>1, <1>2
  <2> QED
    BY <2>1, Zenon DEF NotLive
<1>4. job[v].pc \in Replacing => job[v].slot \in Range(kids[v])
  BY <1>1, Zenon DEF JobOK, Handling, Replacing
<1>5. job[v].pc = "fell" => Head(job[v].todo) \in Range(kids[v])
  <2> SUFFICES ASSUME job[v].pc = "fell" PROVE Head(job[v].todo) \in Range(kids[v])
    BY Zenon
  <2>1. job[v].todo \in Seq(Slots) /\ job[v].todo # <<>>
    BY Zenon DEF Typing, JobType
  <2>2. Head(job[v].todo) \in Range(job[v].todo)
    BY <2>1, HeadRange, Zenon
  <2> QED
    BY <1>1, <2>2, Zenon DEF JobOK, Tearing
<1>6. job[v].pc \in Replacing => NotLive(job[v].slot)'
  <2>1. ASSUME job[v].pc \in Replacing PROVE NotLive(job[v].slot)'
    <3>1. PICK r : r = job[v].slot
      BY Zenon
    <3>2. r \in Range(kids[v]) /\ NotLive(r)
      BY <1>1, <1>4, <2>1, <3>1, Zenon DEF JobOK
    <3>3. spec'[r].aid \in 1..Len(astate') => astate'[spec'[r].aid] # "live"
      BY <1>3, <3>2, Zenon DEF NotLive
    <3> QED
      BY <3>1, <3>3, Zenon DEF NotLive
  <2> QED
    BY <2>1, Zenon
<1>7. /\ job'[v].pc \in Handling => job'[v].slot \in Range(kids'[v])
      /\ job'[v].pc = "publish" => job'[v].id \in 0..Len(astate')
      /\ job'[v].pc = "kill" => spec'[job'[v].slot].aid = job'[v].id /\ job'[v].old = job'[v].id
  BY <1>1, <1>2, Zenon DEF JobOK, Handling
<1>8. /\ job'[v].pc \in Orphaning => astate'[Mid] = "dead" /\ Range(job'[v].todo) \subseteq Range(kids'["mid"])
      /\ job'[v].pc \in Tearing => Range(job'[v].todo) \subseteq Range(kids'[v])
      /\ job'[v].pc = "fell" => spec'[Head(job'[v].todo)].aid = job'[v].old
  <2>1. Range(kids["mid"]) \subseteq Range(kids'["mid"])
    BY Zenon DEF Sups
  <2> QED
    BY <1>1, <1>5, <2>1, Zenon DEF JobOK
<1> QED
  BY <1>6, <1>7, <1>8, Zenon DEF JobOK

\* What is enough for a step that makes no actor and enters none in a slot.
LEMMA TreeRule ==
  ASSUME Typing, TreeOK, kids' = kids, slotOf' = slotOf, Len(astate') = Len(astate),
         \A i \in 1..Len(astate) : astate'[i] = "live" => astate[i] = "live",
         astate[Mid] = "dead" => astate'[Mid] = "dead",
         NEW u \in Sups, \A v \in Sups \ {u} : job'[v] = job[v],
         \A s \in Slots : \/ spec'[s] = spec[s]
                          \/ /\ spec'[s].actor = 0 /\ spec'[s].aid = spec[s].aid
                             /\ Under[s] = "mid" /\ astate'[Mid] = "dead"
                          \/ /\ spec'[s].actor = 0 /\ spec'[s].aid = 0 /\ Under[s] = u
                             /\ spec[s].aid \in 1..Len(astate) => astate'[spec[s].aid] # "live",
         job'[u].pc # "publish", job[u].pc # "publish", JobOK(u)'
  PROVE  TreeOK'
<1>1. Root \in 1..Len(astate) /\ 0 \notin 1..Len(astate) /\ 0 \in 0..Len(astate)
  BY DEF Typing, Root
<1>2. ListOK'
  BY Zenon DEF TreeOK, ListOK
<1>3. ASSUME NEW i \in 1..Len(astate), i # Root, astate'[i] = "live"
      PROVE  spec'[slotOf[i]].aid = i \/ Incoming(i)'
  <2>1. slotOf[i] \in Slots /\ Under[slotOf[i]] \in Sups
    BY <1>3, SupervisorAssumption, Zenon DEF TreeOK, ListOK
  <2>2. CASE spec[slotOf[i]].aid = i
    BY <1>3, <2>1, <2>2, Zenon
  <2>3. CASE Incoming(i)
    <3>1. job'[Under[slotOf[i]]] = job[Under[slotOf[i]]]
      BY <2>1, <2>3, Zenon DEF Incoming
    <3> QED
      BY <2>3, <3>1, Zenon DEF Incoming
  <2> QED
    BY <1>3, <2>2, <2>3, Zenon DEF TreeOK, LiveOK
<1>4. LiveOK'
  <2>1. \A s \in Slots : spec'[s].aid \in 0..Len(astate')
    BY <1>1, Zenon DEF TreeOK, LiveOK
  <2>2. \A s \in Slots : spec'[s].actor = spec'[s].aid \/ (spec'[s].actor = 0 /\ Under[s] = "mid" /\ astate'[Mid] = "dead")
    BY DEF TreeOK, LiveOK
  <2> QED
    BY <1>3, <2>1, <2>2, Zenon DEF LiveOK
<1>5. ASSUME NEW v \in Sups \ {u} PROVE JobOK(v)'
  <2>1. \A s \in Range(kids[v]) : s \in Slots /\ Under[s] # u
    BY DEF Typing, Range, TreeOK, ListOK
  <2>2. \A s \in Range(kids[v]) : spec'[s].aid = spec[s].aid
    BY <2>1, Zenon
  <2>3. \A w \in Sups : Range(kids[w]) \subseteq Range(kids'[w])
    BY Zenon
  <2> QED
    BY <2>2, <2>3, JobFrame, Zenon
<1> QED
  BY <1>2, <1>4, <1>5, Zenon DEF TreeOK

\* ... in particular when it leaves jobs and slots alone.
LEMMA TreeStill ==
  ASSUME Typing, TreeOK, UNCHANGED <<kids, slotOf, job, spec>>, Len(astate') = Len(astate),
         \A i \in 1..Len(astate) : astate'[i] = "live" => astate[i] = "live",
         astate[Mid] = "dead" => astate'[Mid] = "dead"
  PROVE  TreeOK'
<1>1. ListOK'
  BY Zenon DEF TreeOK, ListOK
<1>2. LiveOK'
  BY Zenon DEF TreeOK, LiveOK, Incoming
<1>3. ASSUME NEW v \in Sups PROVE JobOK(v)'
  <2>1. \A w \in Sups : Range(kids[w]) \subseteq Range(kids'[w])
    BY Zenon
  <2> QED
    BY <2>1, JobFrame, Zenon
<1> QED
  BY <1>1, <1>2, <1>3, Zenon DEF TreeOK

\* restart_child registers the new actor, if there is memory for one ...
LEMMA MakeTree ==
  ASSUME Typing, TreeOK, NEW u \in Sups, Make(u)
  PROVE  TreeOK'
<1>1. /\ job \in [Sups -> JobType] /\ spec \in [Slots -> SpecType] /\ Len(astate) \in Nat /\ Len(astate) >= 2 /\ Mid \in 1..Len(astate)
  BY DEF Typing, Mid
<1>2. PICK s : s = job[u].slot
  BY Zenon
<1>3. s \in Range(kids[u]) /\ NotLive(s) /\ job[u].pc = "make"
  BY <1>2, Zenon DEF Make, At, TreeOK, JobOK, Handling, Replacing
<1>4. s \in Slots /\ Under[s] = u
  <2>1. s \in Slots
    BY <1>2, <1>3, Zenon DEF Typing, Handling
  <2> QED
    BY <1>3, <2>1, Zenon DEF TreeOK, ListOK
<1>5. UNCHANGED <<kids, spec>>
  BY Zenon DEF Make
<1>6. PICK n \in {0, NewId} : /\ job' = [job EXCEPT ![u].pc = "publish", ![u].id = n]
                              /\ \/ n = 0 /\ UNCHANGED <<astate, slotOf>>
                                 \/ n = NewId /\ Spawn(s, u)
  BY <1>2, Zenon DEF Make
<1>7. /\ \A v \in Sups \ {u} : job'[v] = job[v]
      /\ job'[u].pc = "publish" /\ job'[u].slot = s /\ job'[u].id = n
  BY <1>1, <1>2, <1>6, Zenon DEF JobType
<1>8. \/ n = 0 /\ UNCHANGED <<astate, slotOf>>
      \/ /\ Len(astate') = Len(astate) + 1 /\ n = Len(astate) + 1 /\ astate'[n] = "live" /\ slotOf'[n] = s
         /\ \A i \in 1..Len(astate) : astate'[i] = astate[i] /\ slotOf'[i] = slotOf[i]
  BY <1>4, <1>6, SpawnFacts, Zenon
<1>9. /\ Len(astate') \in {Len(astate), Len(astate) + 1} /\ n \in 0..Len(astate')
      /\ \A i \in 1..Len(astate) : astate'[i] = astate[i] /\ slotOf'[i] = slotOf[i]
      /\ \A i \in 1..Len(astate') : i \in 1..Len(astate) \/ (i = n /\ slotOf'[i] = s)
  BY <1>1, <1>8
<1>10. ListOK'
  <2>1. \A i \in 1..Len(astate') : i # Root => slotOf'[i] \in Slots /\ slotOf'[i] \in Range(kids[Under[slotOf'[i]]])
    BY <1>3, <1>4, <1>9, ZenonT(30) DEF TreeOK, ListOK
  <2>2. slotOf'[Root] = NULL
    BY <1>1, <1>9 DEF TreeOK, ListOK, Root
  <2> QED
    BY <1>5, <2>1, <2>2, Zenon DEF TreeOK, ListOK
<1>11. \A r \in Slots : spec[r].aid \in 0..Len(astate)
  BY Zenon DEF TreeOK, LiveOK
<1>12. LiveOK'
  <2>1. \A r \in Slots : spec'[r].aid \in 0..Len(astate')
    BY <1>1, <1>5, <1>9, <1>11
  <2>2. \A r \in Slots : spec'[r].actor = spec'[r].aid \/ (spec'[r].actor = 0 /\ Under[r] = "mid" /\ astate'[Mid] = "dead")
    BY <1>1, <1>5, <1>9, Zenon DEF TreeOK, LiveOK
  <2>3. ASSUME NEW i \in 1..Len(astate'), i # Root, astate'[i] = "live"
        PROVE  spec'[slotOf'[i]].aid = i \/ Incoming(i)'
    <3>1. CASE i = n /\ slotOf'[i] = s
      BY <1>4, <1>7, <3>1, Zenon DEF Incoming
    <3>2. CASE i \in 1..Len(astate)
      <4>1. astate[i] = "live" /\ slotOf'[i] = slotOf[i]
        BY <1>9, <2>3, <3>2, Zenon
      <4>2. spec[slotOf[i]].aid = i \/ Incoming(i)
        BY <2>3, <3>2, <4>1, Zenon DEF TreeOK, LiveOK
      <4>3. CASE Incoming(i)
        <5>1. Under[slotOf[i]] \in Sups \ {u}
          BY <1>3, <2>3, <3>2, <4>3, SupervisorAssumption, Zenon DEF Incoming, TreeOK, ListOK
        <5> QED
          BY <1>7, <4>1, <4>3, <5>1, Zenon DEF Incoming
      <4> QED
        BY <1>5, <4>1, <4>2, <4>3, Zenon
    <3> QED
      BY <1>9, <3>1, <3>2, Zenon
  <2> QED
    BY <2>1, <2>2, <2>3, Zenon DEF LiveOK
<1>13. ASSUME NEW v \in Sups PROVE JobOK(v)'
  <2>1. CASE v = u
    <3>1. NotLive(s)'
      BY <1>1, <1>3, <1>4, <1>5, <1>9, <1>11 DEF NotLive
    <3>2. NotLive(job[u].slot)'
      BY <1>7, <3>1, Zenon DEF NotLive
    <3> QED
      BY <1>3, <1>5, <1>7, <1>9, <2>1, <3>2, Zenon DEF JobOK, Orphaning, Tearing
  <2>2. CASE v # u
    <3>1. \A w \in Sups : Range(kids[w]) \subseteq Range(kids'[w])
      BY <1>5, Zenon
    <3>2. astate'[Mid] = astate[Mid] /\ \A r \in Range(kids[v]) : spec'[r].aid = spec[r].aid
      BY <1>1, <1>5, <1>9, Zenon
    <3>3. \A i \in 1..Len(astate) : astate'[i] = "live" => astate[i] = "live"
      BY <1>9, Zenon
    <3> QED
      BY <1>7, <1>9, <2>2, <3>1, <3>2, <3>3, JobFrame, Zenon
  <2> QED
    BY <2>1, <2>2, Zenon
<1> QED
  BY <1>10, <1>12, <1>13, Zenon DEF TreeOK

\* ... and enters it in the slot.
LEMMA PublishTree ==
  ASSUME Typing, TreeOK, NEW u \in Sups, Publish(u)
  PROVE  TreeOK'
<1>1. /\ job \in [Sups -> JobType] /\ spec \in [Slots -> SpecType]
  BY Zenon DEF Typing
<1>2. PICK s : s = job[u].slot
  BY Zenon
<1>3. PICK n : n = job[u].id
  BY Zenon
<1>4. /\ s \in Range(kids[u]) /\ NotLive(s) /\ job[u].pc = "publish" /\ n \in 0..Len(astate)
      /\ s \in Slots /\ Under[s] = u
  <2>1. job[u].pc = "publish"
    BY Zenon DEF Publish, At
  <2>2. s \in Slots
    BY <1>2, <2>1, Zenon DEF Typing, Handling
  <2> QED
    BY <1>2, <1>3, <2>1, <2>2 DEF TreeOK, ListOK, JobOK, Handling, Replacing
<1>5. UNCHANGED <<kids, astate, slotOf>>
  BY Zenon DEF Publish
<1>6. /\ spec'[s] = [actor |-> n, aid |-> n] /\ \A r \in Slots \ {s} : spec'[r] = spec[r]
  BY <1>1, <1>2, <1>3, <1>4, Zenon DEF Publish
<1>7. job'[u].pc = "idle" /\ \A v \in Sups \ {u} : job'[v] = job[v]
  BY <1>1, Zenon DEF Publish, Done, Idle
<1>9. ListOK'
  BY <1>5, Zenon DEF TreeOK, ListOK
<1>10. ASSUME NEW v \in Sups PROVE JobOK(v)'
  <2>1. CASE v = u
    BY <1>7, <2>1, Zenon DEF JobOK, Handling, Replacing, Orphaning, Tearing
  <2>2. CASE v # u
    <3>1. \A r \in Range(kids[v]) : r \in Slots \ {s}
      BY <1>4, <2>2 DEF Typing, Range, TreeOK, ListOK
    <3>2. \A r \in Range(kids[v]) : spec'[r].aid = spec[r].aid
      BY <1>6, <3>1, Zenon
    <3>3. \A w \in Sups : Range(kids[w]) \subseteq Range(kids'[w])
      BY <1>5, Zenon
    <3> QED
      BY <1>5, <1>7, <2>2, <3>2, <3>3, JobFrame, Zenon
  <2> QED
    BY <2>1, <2>2, Zenon
<1>11. LiveOK'
  <2>1. \A r \in Slots : spec'[r].aid \in 0..Len(astate')
    BY <1>4, <1>5, <1>6 DEF TreeOK, LiveOK
  <2>2. \A r \in Slots : spec'[r].actor = spec'[r].aid \/ (spec'[r].actor = 0 /\ Under[r] = "mid" /\ astate'[Mid] = "dead")
    BY <1>5, <1>6 DEF TreeOK, LiveOK
  <2>4. ASSUME NEW i \in 1..Len(astate), i # Root, astate[i] = "live"
        PROVE  spec'[slotOf[i]].aid = i \/ Incoming(i)'
    <3>1. slotOf[i] \in Slots
      BY <2>4, Zenon DEF TreeOK, ListOK
    <3>2. spec[slotOf[i]].aid = i \/ Incoming(i)
      BY <2>4, Zenon DEF TreeOK, LiveOK
    <3>3. CASE slotOf[i] = s
      <4>1. spec[s].aid # i
        BY <1>4, <2>4, Zenon DEF NotLive
      <4>2. i = n
        BY <1>3, <1>4, <3>2, <3>3, <4>1, Zenon DEF Incoming
      <4> QED
        BY <1>6, <3>3, <4>2
    <3>4. CASE slotOf[i] # s
      <4>1. CASE spec[slotOf[i]].aid = i
        BY <1>6, <3>1, <3>4, <4>1, Zenon
      <4>2. CASE Incoming(i)
        <5>1. Under[slotOf[i]] \in Sups \ {u}
          BY <1>2, <3>1, <3>4, <4>2, SupervisorAssumption, Zenon DEF Incoming
        <5> QED
          BY <1>5, <1>7, <4>2, <5>1, Zenon DEF Incoming
      <4> QED
        BY <3>2, <4>1, <4>2, Zenon
    <3> QED
      BY <3>3, <3>4, Zenon
  <2> QED
    BY <1>5, <2>1, <2>2, <2>4, Zenon DEF LiveOK
<1> QED
  BY <1>9, <1>10, <1>11, Zenon DEF TreeOK

\* A step of a supervisor keeps the tree.
LEMMA HandleTree ==
  ASSUME Typing, TreeOK, NEW u \in Sups, Handle(u)
  PROVE  TreeOK'
<1>1. /\ job \in [Sups -> JobType] /\ spec \in [Slots -> SpecType] /\ Len(astate) \in Nat /\ kids[u] \in Seq(Slots)
      /\ Range(kids[u]) \subseteq Slots /\ Mid \in 1..Len(astate) /\ JobOK(u) /\ job[u].todo \in Seq(Slots)
  BY DEF Typing, Range, Mid, TreeOK, JobType
<1>2. CASE TakeStale(u)
  <2>1. UNCHANGED <<kids, slotOf, astate, spec, job>>
    BY <1>2, Zenon DEF TakeStale, treeVars
  <2> QED
    BY <2>1, TreeStill, Zenon
<1>3. CASE Take(u)
  <2>1. UNCHANGED <<kids, slotOf, astate, spec>> /\ job[u].pc = "idle" /\ astate[Who(u)] = "live"
    BY <1>3, Zenon DEF Take, treeVars, At
  <2>2. PICK s \in Found(u, Head(inbox[u])), p \in {"kill", "tear"} :
          job' = job \/ job' = [job EXCEPT ![u] =
            [pc |-> p, id |-> Head(inbox[u]), old |-> spec[s].actor, slot |-> s, todo |-> kids[u]]]
    BY <1>3, Zenon DEF Take
  <2>3. CASE job' = job
    BY <2>1, <2>3, TreeStill, Zenon
  <2>4. CASE job' = [job EXCEPT ![u] =
              [pc |-> p, id |-> Head(inbox[u]), old |-> spec[s].actor, slot |-> s, todo |-> kids[u]]]
    <3>1. \A v \in Sups \ {u} : job'[v] = job[v]
      BY <1>1, <2>4, Zenon
    <3>2. /\ job'[u].pc = p /\ job'[u].id = Head(inbox[u]) /\ job'[u].old = spec[s].actor
          /\ job'[u].slot = s /\ job'[u].todo = kids[u]
      BY <1>1, <2>4, Zenon
    <3>3. s \in Range(kids[u]) /\ spec[s].aid = Head(inbox[u]) /\ s \in Slots /\ Under[s] = u
      BY <1>1, Zenon DEF Found, TreeOK, ListOK
    <3>4. spec[s].actor = spec[s].aid
      BY <2>1, <3>3, Zenon DEF TreeOK, LiveOK, Who, Mid
    <3>5. JobOK(u)'
      BY <2>1, <3>2, <3>3, <3>4, Zenon DEF JobOK, Handling, Replacing, Orphaning, Tearing
    <3> QED
      BY <2>1, <3>1, <3>2, <3>5, TreeRule, Zenon
  <2> QED
    BY <2>2, <2>3, <2>4, Zenon
<1>10. ASSUME NEW old, Terminate(old)
       PROVE  /\ Len(astate') = Len(astate)
              /\ \A i \in 1..Len(astate) : astate'[i] = IF i = old THEN "dead" ELSE astate[i]
              /\ \A i \in 1..Len(astate) : astate'[i] = "live" => astate[i] = "live"
              /\ astate[Mid] = "dead" => astate'[Mid] = "dead"
  <2>1. /\ Len(astate') = Len(astate)
        /\ \A i \in 1..Len(astate) : astate'[i] = IF i = old THEN "dead" ELSE astate[i]
    BY <1>10, MarkFacts, Zenon DEF Terminate
  <2> QED
    BY <1>1, <2>1, Zenon
<1>4. CASE Kill(u)
  <2>1. UNCHANGED <<kids, slotOf, spec>> /\ job[u].pc = "kill" /\ Terminate(job[u].old)
    BY <1>4, Zenon DEF Kill, At
  <2>2. /\ Len(astate') = Len(astate)
        /\ \A i \in 1..Len(astate) : astate'[i] = IF i = job[u].old THEN "dead" ELSE astate[i]
        /\ \A i \in 1..Len(astate) : astate'[i] = "live" => astate[i] = "live"
        /\ astate[Mid] = "dead" => astate'[Mid] = "dead"
    BY <1>10, <2>1, Zenon
  <2>3. \A v \in Sups \ {u} : job'[v] = job[v]
    BY <1>1, <1>4, Zenon DEF Kill
  <2>4. /\ job'[u].slot = job[u].slot
        /\ IF job[u].old = Mid THEN job'[u].pc = "killing" /\ job'[u].todo = kids["mid"]
                               ELSE job'[u].pc \in {"make", "clear"}
    BY <1>1, <1>4, Zenon DEF Kill, AfterKill, JobType
  <2>5. job[u].slot \in Range(kids[u]) /\ spec[job[u].slot].aid = job[u].old
    BY <1>1, <2>1, Zenon DEF JobOK, Handling
  <2>6. NotLive(job[u].slot)'
    BY <2>1, <2>2, <2>4, <2>5, Zenon DEF NotLive
  <2>7. job'[u].pc \in Orphaning => astate'[Mid] = "dead" /\ Range(job'[u].todo) \subseteq Range(kids'["mid"])
    BY <1>1, <2>1, <2>2, <2>4, Zenon DEF Orphaning
  <2>8. job'[u].pc \in {"killing", "make", "clear"}
    BY <2>4, Zenon
  <2>9. JobOK(u)'
    BY <2>1, <2>4, <2>5, <2>6, <2>7, <2>8, Zenon DEF JobOK, Tearing
  <2> QED
    BY <2>1, <2>2, <2>3, <2>8, <2>9, TreeRule, Zenon
<1>5. CASE KillKid(u)
  <2>1. UNCHANGED <<kids, slotOf>> /\ job[u].pc = "reap" /\ Terminate(job[u].old)
    BY <1>5, Zenon DEF KillKid, At
  <2>2. /\ Len(astate') = Len(astate)
        /\ \A i \in 1..Len(astate) : astate'[i] = "live" => astate[i] = "live"
        /\ astate[Mid] = "dead" => astate'[Mid] = "dead"
    BY <1>10, <2>1, Zenon
  <2>3. \A v \in Sups \ {u} : job'[v] = job[v]
    BY <1>1, <1>5, Zenon DEF KillKid
  <2>4. job'[u].slot = job[u].slot /\ job'[u].pc = "killing" /\ job'[u].todo = Tail(job[u].todo)
    BY <1>1, <1>5, Zenon DEF KillKid, JobType
  <2>5. /\ job[u].slot \in Range(kids[u]) /\ NotLive(job[u].slot) /\ astate[Mid] = "dead"
        /\ Range(job[u].todo) \subseteq Range(kids["mid"])
    BY <1>1, <2>1, Zenon DEF JobOK, Handling, Replacing, Orphaning
  <2>6. PICK r : r = Head(job[u].todo)
    BY Zenon
  <2>7. r \in Range(job[u].todo) /\ Range(Tail(job[u].todo)) \subseteq Range(job[u].todo)
    <3>1. job[u].todo # <<>>
      BY <2>1, Zenon DEF Typing
    <3> QED
      BY <1>1, <2>6, <3>1, HeadRange, Zenon
  <2>8. r \in Slots /\ Under[r] = "mid"
    <3>1. r \in Range(kids["mid"]) /\ "mid" \in Sups /\ kids["mid"] \in Seq(Slots)
      BY <2>5, <2>7, Zenon DEF Typing, Sups
    <3>2. r \in Slots
      BY <3>1 DEF Range
    <3> QED
      BY <3>1, <3>2, Zenon DEF TreeOK, ListOK
  <2>9. spec' = [spec EXCEPT ![r].actor = 0]
    BY <1>5, <2>6, Zenon DEF KillKid
  <2>10. spec'[r].actor = 0 /\ spec'[r].aid = spec[r].aid /\ \A q \in Slots \ {r} : spec'[q] = spec[q]
    BY <1>1, <2>8, <2>9, Zenon DEF SpecType
  <2>11. NotLive(job[u].slot)'
    BY <1>1, <2>2, <2>4, <2>5, <2>10 DEF NotLive
  <2>12. JobOK(u)'
    BY <2>1, <2>2, <2>4, <2>5, <2>7, <2>11, Zenon DEF JobOK, Tearing
  <2>13. \A q \in Slots : \/ spec'[q] = spec[q]
                          \/ /\ spec'[q].actor = 0 /\ spec'[q].aid = spec[q].aid /\ Under[q] = "mid" /\ astate'[Mid] = "dead"
    BY <2>2, <2>5, <2>8, <2>10, Zenon
  <2> QED
    BY <2>1, <2>2, <2>3, <2>4, <2>12, <2>13, TreeRule, Zenon
<1>11. ASSUME NEW here \in {"killing", "tear"}, NEW there, there = IF here = "killing" THEN "reap" ELSE "fell",
              Pick(u, here, there)
       PROVE  TreeOK'
  <2>1. PICK r : r = Head(job[u].todo)
    BY Zenon
  <2>2. UNCHANGED <<kids, slotOf, astate, spec>> /\ job[u].pc = here /\ job[u].todo # <<>>
    BY <1>11, Zenon DEF Pick, At, treeVars
  <2>3. \A v \in Sups \ {u} : job'[v] = job[v]
    BY <1>1, <1>11, Zenon DEF Pick
  <2>4. /\ job'[u].slot = job[u].slot /\ job'[u].old = spec[r].actor
        /\ IF spec[r].actor = 0 THEN job'[u].pc = here /\ job'[u].todo = Tail(job[u].todo)
                                ELSE job'[u].pc = there /\ job'[u].todo = job[u].todo
    BY <1>1, <1>11, <2>1, Zenon DEF Pick, JobType
  <2>5. r \in Range(job[u].todo) /\ Range(Tail(job[u].todo)) \subseteq Range(job[u].todo)
    BY <1>1, <2>1, <2>2, HeadRange, Zenon
  <2>6. r \in Slots
    BY <1>1, <2>5 DEF Range
  <2>7. spec[r].actor # 0 => spec[r].actor = spec[r].aid
    BY <2>6, Zenon DEF TreeOK, LiveOK
  <2>8. Range(job'[u].todo) \subseteq Range(job[u].todo)
    BY <2>4, <2>5, Zenon
  <2>9. CASE here = "killing"
    <3>1. /\ job[u].slot \in Range(kids[u]) /\ NotLive(job[u].slot) /\ astate[Mid] = "dead"
          /\ Range(job[u].todo) \subseteq Range(kids["mid"])
      BY <1>1, <2>2, <2>9, Zenon DEF JobOK, Handling, Replacing, Orphaning
    <3>2. job'[u].pc \in {"killing", "reap"}
      BY <1>11, <2>4, <2>9, Zenon
    <3>3. NotLive(job[u].slot)'
      BY <2>2, <2>4, <3>1, Zenon DEF NotLive
    <3>4. JobOK(u)'
      BY <2>2, <2>4, <2>8, <3>1, <3>2, <3>3, Zenon DEF JobOK, Tearing
    <3> QED
      BY <2>2, <2>3, <2>9, <3>2, <3>4, TreeRule, Zenon
  <2>10. CASE here = "tear"
    <3>1. Range(job[u].todo) \subseteq Range(kids[u])
      BY <1>1, <2>2, <2>10, Zenon DEF JobOK, Tearing
    <3>2. job'[u].pc \in {"tear", "fell"}
      BY <1>11, <2>4, <2>10, Zenon
    <3>3. job'[u].pc = "fell" => spec'[Head(job'[u].todo)].aid = job'[u].old
      BY <2>1, <2>2, <2>4, <2>7, <2>10, Zenon
    <3>4. JobOK(u)'
      BY <2>2, <2>8, <3>1, <3>2, <3>3, Zenon DEF JobOK, Handling, Replacing, Orphaning
    <3> QED
      BY <2>2, <2>3, <2>10, <3>2, <3>4, TreeRule, Zenon
  <2> QED
    BY <2>9, <2>10, Zenon
<1>12. CASE PickKid(u) \/ PickTear(u)
  BY <1>11, <1>12, Zenon DEF PickKid, PickTear
<1>6. CASE KillDone(u)
  <2>1. UNCHANGED <<kids, slotOf, astate, spec>> /\ job[u].pc = "killing"
    BY <1>6, Zenon DEF KillDone, At, treeVars
  <2>2. \A v \in Sups \ {u} : job'[v] = job[v]
    BY <1>1, <1>6, Zenon DEF KillDone, Go
  <2>3. job'[u].slot = job[u].slot /\ job'[u].pc \in {"make", "clear"}
    BY <1>1, <1>6, Zenon DEF KillDone, Go, AfterKill, JobType
  <2>4. job[u].slot \in Range(kids[u]) /\ NotLive(job[u].slot)
    BY <1>1, <2>1, Zenon DEF JobOK, Handling, Replacing
  <2>5. NotLive(job[u].slot)'
    BY <2>1, <2>3, <2>4, Zenon DEF NotLive
  <2>6. JobOK(u)'
    BY <2>1, <2>3, <2>4, <2>5, Zenon DEF JobOK, Orphaning, Tearing
  <2> QED
    BY <2>1, <2>2, <2>3, <2>6, TreeRule, Zenon
<1>7. CASE Clear(u)
  <2>1. UNCHANGED <<kids, slotOf, astate>> /\ job[u].pc = "clear" /\ spec' = [spec EXCEPT ![job[u].slot] = [actor |-> 0, aid |-> 0]]
    BY <1>7, Zenon DEF Clear, At
  <2>2. NotLive(job[u].slot) /\ job[u].slot \in Slots /\ Under[job[u].slot] = u
    BY <1>1, <2>1, Zenon DEF JobOK, Replacing, Handling, TreeOK, ListOK
  <2>3. \A v \in Sups \ {u} : job'[v] = job[v]
    BY <1>1, <1>7, Zenon DEF Clear, Go, Done
  <2>4. job'[u].pc \in {"idle", "escalate"}
    BY <1>1, <1>7 DEF Clear, Go, Done, Idle, JobType
  <2>5. \A r \in Slots : \/ spec'[r] = spec[r]
                         \/ /\ spec'[r].actor = 0 /\ spec'[r].aid = 0 /\ Under[r] = u
                            /\ spec[r].aid \in 1..Len(astate) => astate'[spec[r].aid] # "live"
    BY <1>1, <2>1, <2>2, Zenon DEF NotLive
  <2>6. JobOK(u)'
    BY <2>4, Zenon DEF JobOK, Handling, Replacing, Orphaning, Tearing
  <2> QED
    BY <2>1, <2>3, <2>4, <2>5, <2>6, TreeRule, Zenon
<1>8. CASE Escalate(u) \/ Appeal(u) \/ Quit(u)
  <2>1. UNCHANGED <<kids, slotOf, spec>> /\ job[u].pc \in {"escalate", "tear", "quit"}
    BY <1>8, Zenon DEF Escalate, Appeal, Quit, At, treeVars
  <2>2. \A v \in Sups \ {u} : job'[v] = job[v]
    BY <1>1, <1>8, Zenon DEF Escalate, Appeal, Quit, Go, Done
  <2>3. job'[u].pc \in {"idle", "quit"}
    BY <1>1, <1>8 DEF Escalate, Appeal, Quit, Go, Done, Idle, JobType
  <2>4. /\ Len(astate') = Len(astate) /\ \A i \in 1..Len(astate) : astate'[i] = "live" => astate[i] = "live"
        /\ astate[Mid] = "dead" => astate'[Mid] = "dead"
    <3>1. PICK x : x = IF astate[Who(u)] = "dead" THEN "dead" ELSE "failed"
      BY Zenon
    <3>2. x \in AState /\ x # "live"
      BY <3>1, Zenon DEF AState
    <3>3. astate' = astate \/ astate' = [astate EXCEPT ![Who(u)] = x]
      BY <1>8, <3>1, Zenon DEF Escalate, Appeal, Quit, treeVars
    <3>4. astate \in Seq(AState)
      BY Zenon DEF Typing
    <3>5. CASE astate' = astate
      BY <3>5, Zenon
    <3>6. CASE astate' = [astate EXCEPT ![Who(u)] = x]
      <4>1. PICK r : r = astate'
        BY Zenon
      <4>2. Len(r) = Len(astate) /\ \A i \in 1..Len(astate) : r[i] = IF i = Who(u) THEN x ELSE astate[i]
        BY <3>2, <3>4, <3>6, <4>1, SetFacts
      <4>3. \A i \in 1..Len(astate) : r[i] = "live" => astate[i] = "live"
        BY <3>2, <4>2, Zenon
      <4>4. astate[Mid] = "dead" => r[Mid] = "dead"
        BY <1>1, <3>1, <4>2, Zenon
      <4> QED
        BY <4>1, <4>2, <4>3, <4>4, Zenon
    <3> QED
      BY <3>3, <3>5, <3>6, Zenon
  <2>5. JobOK(u)'
    BY <2>3, Zenon DEF JobOK, Handling, Replacing, Orphaning, Tearing
  <2> QED
    BY <2>1, <2>2, <2>3, <2>4, <2>5, TreeRule, Zenon
<1>9. CASE Tear(u)
  <2>1. UNCHANGED <<kids, slotOf>> /\ job[u].pc = "fell" /\ Terminate(job[u].old)
    BY <1>9, Zenon DEF Tear, At
  <2>2. /\ Len(astate') = Len(astate)
        /\ \A i \in 1..Len(astate) : astate'[i] = IF i = job[u].old THEN "dead" ELSE astate[i]
        /\ \A i \in 1..Len(astate) : astate'[i] = "live" => astate[i] = "live"
        /\ astate[Mid] = "dead" => astate'[Mid] = "dead"
    BY <1>10, <2>1, Zenon
  <2>3. \A v \in Sups \ {u} : job'[v] = job[v]
    BY <1>1, <1>9, Zenon DEF Tear
  <2>4. job'[u].pc = "tear" /\ job'[u].todo = Tail(job[u].todo)
    BY <1>1, <1>9, Zenon DEF Tear, JobType
  <2>5. PICK r : r = Head(job[u].todo)
    BY Zenon
  <2>6. r \in Range(job[u].todo) /\ Range(Tail(job[u].todo)) \subseteq Range(job[u].todo)
    <3>1. job[u].todo # <<>>
      BY <2>1, Zenon DEF Typing
    <3> QED
      BY <1>1, <2>5, <3>1, HeadRange, Zenon
  <2>7. Range(job[u].todo) \subseteq Range(kids[u]) /\ spec[r].aid = job[u].old
    BY <1>1, <2>1, <2>5, Zenon DEF JobOK, Tearing
  <2>8. r \in Slots /\ Under[r] = u
    BY <1>1, <2>6, <2>7, Zenon DEF TreeOK, ListOK
  <2>9. spec' = [spec EXCEPT ![r] = [actor |-> 0, aid |-> 0]]
    BY <1>9, <2>5, Zenon DEF Tear
  <2>10. \A q \in Slots : \/ spec'[q] = spec[q]
                          \/ /\ spec'[q].actor = 0 /\ spec'[q].aid = 0 /\ Under[q] = u
                             /\ spec[q].aid \in 1..Len(astate) => astate'[spec[q].aid] # "live"
    BY <1>1, <2>2, <2>7, <2>8, <2>9, Zenon
  <2>11. JobOK(u)'
    BY <2>1, <2>4, <2>6, <2>7, Zenon DEF JobOK, Handling, Replacing, Orphaning
  <2> QED
    BY <2>1, <2>2, <2>3, <2>4, <2>10, <2>11, TreeRule, Zenon
<1> QED
  BY <1>2, <1>3, <1>4, <1>5, <1>6, <1>7, <1>8, <1>9, <1>12, MakeTree, PublishTree, Zenon DEF Handle

\* sta_supervisor_add_child keeps the tree.
LEMMA AddTree ==
  ASSUME Typing, TreeOK, NEW s \in Slots, AddChild(s)
  PROVE  TreeOK'
<1>1. PICK u : u = Under[s]
  BY Zenon
<1>2. /\ u \in Sups /\ kids \in [Sups -> Seq(Slots)] /\ kids[u] \in Seq(Slots) /\ spec \in [Slots -> SpecType]
      /\ Len(astate) \in Nat /\ Len(astate) >= 2
  BY <1>1, SupervisorAssumption DEF Typing
<1>3. PICK n : n = NewId
  BY Zenon
<1>4. /\ s \notin Range(kids[u]) /\ kids' = [kids EXCEPT ![u] = <<s>> \o @] /\ job' = job
      /\ spec' = [spec EXCEPT ![s] = [actor |-> n, aid |-> n]]
  BY <1>1, <1>3, Zenon DEF AddChild
<1>5. /\ Len(astate') = Len(astate) + 1 /\ n = Len(astate) + 1 /\ astate'[n] = "live" /\ slotOf'[n] = s
      /\ \A i \in 1..Len(astate) : astate'[i] = astate[i] /\ slotOf'[i] = slotOf[i]
  BY <1>3, SpawnFacts, Zenon DEF AddChild
<1>6. /\ \A v \in Sups \ {u} : Range(kids'[v]) = Range(kids[v])
      /\ Range(kids'[u]) = Range(kids[u]) \cup {s}
  <2>1. kids'[u] = <<s>> \o kids[u] /\ \A v \in Sups \ {u} : kids'[v] = kids[v]
    BY <1>2, <1>4, Zenon
  <2>2. PICK q : q = kids[u]
    BY Zenon
  <2>3. q \in Seq(Slots)
    BY <1>2, <2>2, Zenon
  <2>4. Range(<<s>> \o q) = Range(q) \cup {s}
    <3>1. /\ DOMAIN (<<s>> \o q) = 1..(Len(q) + 1) /\ DOMAIN q = 1..Len(q) /\ Len(q) \in Nat
          /\ (<<s>> \o q)[1] = s /\ \A i \in 1..Len(q) : (<<s>> \o q)[i + 1] = q[i]
      BY <2>3
    <3>2. PICK r : r = <<s>> \o q
      BY Zenon
    <3>3. \A i \in 1..(Len(q) + 1) : i = 1 \/ (i - 1 \in 1..Len(q) /\ r[i] = q[i - 1])
      BY <3>1, <3>2
    <3>4. \A i \in 1..Len(q) : i + 1 \in 1..(Len(q) + 1) /\ r[i + 1] = q[i]
      BY <3>1, <3>2
    <3>5. DOMAIN r = 1..(Len(q) + 1) /\ r[1] = s /\ 1 \in 1..(Len(q) + 1) /\ DOMAIN q = 1..Len(q)
      BY <3>1, <3>2
    <3>6. Range(r) = Range(q) \cup {s}
      <4>1. ASSUME NEW y PROVE y \in Range(r) <=> \E i \in 1..(Len(q) + 1) : y = r[i]
        BY <3>5, Zenon DEF Range
      <4>2. ASSUME NEW y PROVE y \in Range(q) <=> \E i \in 1..Len(q) : y = q[i]
        BY <3>5, Zenon DEF Range
      <4>3. ASSUME NEW y PROVE y \in Range(r) => y \in Range(q) \cup {s}
        <5>1. SUFFICES ASSUME NEW i \in 1..(Len(q) + 1), y = r[i], y # s PROVE y \in Range(q)
          BY <4>1, Zenon
        <5>2. i - 1 \in 1..Len(q) /\ r[i] = q[i - 1]
          BY <3>3, <3>5, <5>1, Zenon
        <5> QED
          BY <4>2, <5>1, <5>2, Zenon
      <4>4. ASSUME NEW y PROVE y \in Range(q) \cup {s} => y \in Range(r)
        BY <3>4, <3>5, <4>1, <4>2, Zenon
      <4> QED
        BY <4>3, <4>4, Zenon
    <3> QED
      BY <3>2, <3>6, Zenon
  <2> QED
    BY <2>1, <2>2, <2>4, Zenon
<1>7. spec'[s] = [actor |-> n, aid |-> n] /\ \A r \in Slots \ {s} : spec'[r] = spec[r]
  BY <1>2, <1>4, Zenon
<1>9. \A i \in 1..Len(astate) : i # Root => slotOf[i] \in Slots \ {s} /\ Under[slotOf[i]] \in Sups
  BY <1>1, <1>4, SupervisorAssumption DEF TreeOK, ListOK
<1>10. ListOK'
  <2>1. \A v \in Sups : \A r \in Range(kids'[v]) : Under[r] = v
    BY <1>1, <1>6, Zenon DEF TreeOK, ListOK
  <2>3. ASSUME NEW i \in 1..Len(astate'), i # Root
        PROVE  slotOf'[i] \in Slots /\ slotOf'[i] \in Range(kids'[Under[slotOf'[i]]])
    <3>1. CASE i = n
      BY <1>1, <1>5, <1>6, <3>1, Zenon
    <3>2. CASE i # n
      <4>1. i \in 1..Len(astate) /\ slotOf'[i] = slotOf[i]
        BY <1>2, <1>5, <3>2
      <4> QED
        BY <1>6, <1>9, <2>3, <4>1, Zenon DEF TreeOK, ListOK
    <3> QED
      BY <3>1, <3>2, Zenon
  <2>4. slotOf'[Root] = NULL
    BY <1>2, <1>5 DEF TreeOK, ListOK, Root
  <2> QED
    BY <2>1, <2>3, <2>4, Zenon DEF ListOK
<1>11. ASSUME NEW v \in Sups PROVE JobOK(v)'
  <2>1. \A w \in Sups : Range(kids[w]) \subseteq Range(kids'[w])
    BY <1>6, Zenon
  <2>5. Range(kids[v]) \subseteq Slots /\ \A r \in Range(kids[v]) : Under[r] = v
    BY <1>2 DEF Range, TreeOK, ListOK
  <2>2. \A r \in Range(kids[v]) : r \in Slots \ {s}
    BY <1>1, <1>4, <2>5, Zenon
  <2>3. \A r \in Range(kids[v]) : spec'[r].aid = spec[r].aid
    BY <1>7, <2>2, Zenon
  <2>4. astate'[Mid] = astate[Mid] /\ \A i \in 1..Len(astate) : astate'[i] = "live" => astate[i] = "live"
    BY <1>2, <1>5 DEF Mid
  <2> QED
    BY <1>4, <1>5, <2>1, <2>3, <2>4, JobFrame, Zenon
<1>12. LiveOK'
  <2>1. \A r \in Slots : spec'[r].aid \in 0..Len(astate')
    BY <1>2, <1>5, <1>7 DEF TreeOK, LiveOK
  <2>2. \A r \in Slots : spec'[r].actor = spec'[r].aid \/ (spec'[r].actor = 0 /\ Under[r] = "mid" /\ astate'[Mid] = "dead")
    <3>1. astate'[Mid] = astate[Mid]
      BY <1>2, <1>5 DEF Mid
    <3> QED
      BY <1>7, <3>1 DEF TreeOK, LiveOK
  <2>4. ASSUME NEW i \in 1..Len(astate'), i # Root, astate'[i] = "live"
        PROVE  spec'[slotOf'[i]].aid = i \/ Incoming(i)'
    <3>1. CASE i = n
      BY <1>5, <1>7, <3>1
    <3>2. CASE i # n
      <4>1. i \in 1..Len(astate) /\ slotOf'[i] = slotOf[i] /\ astate[i] = "live"
        BY <1>2, <1>5, <2>4, <3>2
      <4>2. slotOf[i] \in Slots \ {s} /\ (spec[slotOf[i]].aid = i \/ Incoming(i))
        BY <1>9, <2>4, <4>1, Zenon DEF TreeOK, LiveOK
      <4> QED
        BY <1>4, <1>7, <4>1, <4>2, Zenon DEF Incoming
    <3> QED
      BY <3>1, <3>2, Zenon
  <2> QED
    BY <2>1, <2>2, <2>4, Zenon DEF LiveOK
<1> QED
  BY <1>10, <1>11, <1>12, Zenon DEF TreeOK

\* A step keeps the tree.
LEMMA TreeStep ==
  ASSUME Typing, TreeOK, [Next]_vars
  PROVE  TreeOK'
<1>2. CASE Tick \/ UNCHANGED vars
  <2>1. UNCHANGED <<kids, slotOf, astate, spec, job>>
    BY <1>2, Zenon DEF Tick, vars, treeVars
  <2> QED
    BY <2>1, TreeStill, Zenon
<1>3. ASSUME NEW k \in Actors, Crash(k) \/ Notify(k) PROVE TreeOK'
  <2>1. UNCHANGED <<kids, slotOf, spec, job>>
    BY <1>3, Zenon DEF Crash, Notify, treeVars
  <2>2. /\ Len(astate') = Len(astate) /\ \A i \in 1..Len(astate) : astate'[i] = "live" => astate[i] = "live"
        /\ astate[Mid] = "dead" => astate'[Mid] = "dead"
    <3>1. PICK x : x = "failed"
      BY Zenon
    <3>2. x \in AState /\ x # "live"
      BY <3>1, Zenon DEF AState
    <3>3. astate' = astate \/ (astate' = [astate EXCEPT ![k] = x] /\ astate[k] = "live")
      BY <1>3, <3>1, Zenon DEF Crash, Notify, treeVars
    <3>4. astate \in Seq(AState)
      BY Zenon DEF Typing
    <3>5. CASE astate' = astate
      BY <3>5, Zenon
    <3>6. CASE astate' = [astate EXCEPT ![k] = x] /\ astate[k] = "live"
      <4>1. PICK r : r = astate'
        BY Zenon
      <4>2. Len(r) = Len(astate) /\ \A i \in 1..Len(astate) : r[i] = IF i = k THEN x ELSE astate[i]
        BY <3>2, <3>4, <3>6, <4>1, SetFacts
      <4>3. Mid \in 1..Len(astate)
        BY DEF Typing, Mid
      <4>4. /\ \A i \in 1..Len(astate) : r[i] = "live" => astate[i] = "live"
            /\ astate[Mid] = "dead" => r[Mid] = "dead"
        BY <3>2, <3>6, <4>2, <4>3, Zenon
      <4> QED
        BY <4>1, <4>2, <4>4, Zenon
    <3> QED
      BY <3>3, <3>5, <3>6, Zenon
  <2> QED
    BY <2>1, <2>2, TreeStill, Zenon
<1> QED
  BY <1>2, <1>3, AddTree, HandleTree, Zenon DEF Next

\* Restarting never doubles a child: sta_supervisor_handle_failure and
\* restart_child leave one live actor at most for a child specification.
THEOREM SlotsHaveOneActor == Spec => []OneLivePerSlot
<1>1. Init => Typing /\ TreeOK
  BY InitTyping, InitTree, Zenon
<1>2. (Typing /\ TreeOK) /\ [Next]_vars => (Typing /\ TreeOK)'
  BY TypingStep, TreeStep, Zenon
<1>3. Typing /\ TreeOK => OneLivePerSlot
  <2> SUFFICES ASSUME Typing, TreeOK, NEW i \in 1..Len(astate), NEW j \in 1..Len(astate),
                      astate[i] = "live", astate[j] = "live", slotOf[i] = slotOf[j]
               PROVE  i = j
    BY DEF OneLivePerSlot, Actors, Typing
  <2>1. CASE i = Root \/ j = Root
    BY <2>1, SupervisorAssumption, Zenon DEF TreeOK, ListOK
  <2>2. CASE i # Root /\ j # Root
    <3>1. PICK s : s = slotOf[i]
      BY Zenon
    <3>2. PICK u : u = Under[s]
      BY Zenon
    <3>3. u \in Sups
      BY <2>2, <3>1, <3>2, SupervisorAssumption, Zenon DEF TreeOK, ListOK
    <3>4. ASSUME NEW k \in {i, j}
          PROVE  spec[s].aid = k \/ (job[u].pc = "publish" /\ job[u].slot = s /\ job[u].id = k)
      BY <2>2, <3>1, <3>2 DEF TreeOK, LiveOK, Incoming
    <3>5. ASSUME job[u].pc = "publish", job[u].slot = s PROVE spec[s].aid \notin {i, j}
      BY <3>3, <3>5, Zenon DEF TreeOK, JobOK, Replacing, NotLive
    <3> QED
      BY <3>4, <3>5, Zenon
  <2> QED
    BY <2>1, <2>2, Zenon
<1> QED
  BY <1>1, <1>2, <1>3, PTL DEF Spec

\* The actor sta_supervisor_handle_failure is about to terminate is the one
\* whose failure it was told of, as find_child_by_id found it.
THEOREM FailuresAreTheirOwn == Spec => []HandlesOwnFailure
<1>1. Init => Typing /\ TreeOK
  BY InitTyping, InitTree, Zenon
<1>2. (Typing /\ TreeOK) /\ [Next]_vars => (Typing /\ TreeOK)'
  BY TypingStep, TreeStep, Zenon
<1>3. Typing /\ TreeOK => HandlesOwnFailure
  BY Zenon DEF TreeOK, JobOK, HandlesOwnFailure, At
<1> QED
  BY <1>1, <1>2, <1>3, PTL DEF Spec

-----------------------------------------------------------------------------
(* The limit on restarts *)

\* Time passing keeps a window.
LEMMA WindowLater ==
  ASSUME NEW R \in Seq(Nat), NEW c \in Nat, NEW st \in Nat, NEW t \in Nat, Window(R, c, st, t)
  PROVE  Window(R, c, st, t + 1)
<1>1. PICK n : n = Len(R)
  BY Zenon
<1>2. n \in Nat /\ \A i \in 1..n : R[i] \in Nat
  BY <1>1
<1>3. st <= t + 1 /\ \A i \in 1..n : R[i] <= t + 1
  BY <1>1, <1>2 DEF Window
<1> QED
  BY <1>1, <1>3, Zenon DEF Window

\* check_intensity allows a restart: counted in the window it falls into, it
\* keeps the window.
LEMMA WindowCounted ==
  ASSUME NEW R \in Seq(Nat), NEW c \in 0..MaxRestarts, NEW st \in Nat, NEW t \in Nat, Window(R, c, st, t),
         NEW d \in Nat, NEW b \in Nat, d <= MaxRestarts,
         \/ (c = 0 \/ t - st > MaxSeconds) /\ d = 1 /\ b = t
         \/ c # 0 /\ ~(t - st > MaxSeconds) /\ d = c + 1 /\ b = st
  PROVE  Window(Append(R, t), d, b, t)
<1>1. PICK n : n = Len(R)
  BY Zenon
<1>2. PICK Q : Q = Append(R, t)
  BY Zenon
<1>3. PICK M : M = MaxRestarts
  BY Zenon
<1>4. PICK S : S = MaxSeconds
  BY Zenon
<1>5. M \in Nat /\ M >= 1 /\ S \in Nat /\ n \in Nat /\ c \in 0..M
  BY <1>1, <1>3, <1>4, SupervisorAssumption
<1>6. Len(Q) = n + 1 /\ Q[n + 1] = t /\ \A i \in 1..n : Q[i] = R[i] /\ R[i] \in Nat
  BY <1>1, <1>2
<1>7. /\ st <= t /\ \A i \in 1..n : R[i] <= t
      /\ c = 0 => n = 0
      /\ c \in 1..M => n - c + 1 \in 1..n /\ R[n - c + 1] = st
  BY <1>1, <1>3, Zenon DEF Window
<1>8. \A i, j \in 1..n : i <= j => R[i] <= R[j]
  BY <1>1, Zenon DEF Window
<1>9. c \in 1..M => \A i \in 1..n : i + M <= n - c + 1 => st - R[i] > S
  BY <1>1, <1>3, <1>4, Zenon DEF Window
<1>10. \A k \in 1..n : k + (2 * M - 1) \in 1..n => R[k + (2 * M - 1)] - R[k] > S
  BY <1>1, <1>3, <1>4, Zenon DEF Window
<1>11. \/ (c = 0 \/ t - st > S) /\ d = 1 /\ b = t
       \/ c # 0 /\ ~(t - st > S) /\ d = c + 1 /\ b = st /\ d <= M
  BY <1>3, <1>4, Zenon
<1>12. \A i \in 1..(n + 1) : i \in 1..n \/ i = n + 1
  BY <1>5
<1>13. \A i \in 1..(n + 1) : Q[i] \in Nat /\ Q[i] <= t
  <2> SUFFICES ASSUME NEW i \in 1..(n + 1) PROVE Q[i] \in Nat /\ Q[i] <= t
    BY Zenon
  <2>1. CASE i = n + 1
    BY <1>6, <2>1
  <2>2. CASE i \in 1..n
    BY <1>6, <1>7, <2>2, Zenon
  <2> QED
    BY <1>12, <2>1, <2>2, Zenon
<1>14. \A i, j \in 1..(n + 1) : i <= j => Q[i] <= Q[j]
  <2> SUFFICES ASSUME NEW i \in 1..(n + 1), NEW j \in 1..(n + 1), i <= j PROVE Q[i] <= Q[j]
    BY Zenon
  <2>1. CASE j = n + 1
    BY <1>6, <1>13, <2>1, Zenon
  <2>2. CASE j # n + 1
    <3>1. i \in 1..n /\ j \in 1..n
      BY <1>5, <2>2
    <3> QED
      BY <1>6, <1>8, <3>1, Zenon
  <2> QED
    BY <2>1, <2>2, Zenon
<1>15. CASE (c = 0 \/ t - st > S) /\ d = 1 /\ b = t
  <2>1. n + 1 - d + 1 = n + 1 /\ Q[n + 1] = b /\ b <= t
    BY <1>5, <1>6, <1>15
  <2>2. ASSUME NEW i \in 1..n, i + M <= n + 1, c # 0 PROVE t - Q[i] > S
    <3>1. n - c + 1 \in 1..n /\ R[n - c + 1] = st /\ t - st > S /\ i <= n - c + 1
      BY <1>5, <1>7, <1>15, <2>2
    <3>2. R[i] <= R[n - c + 1]
      BY <1>8, <2>2, <3>1, Zenon
    <3>3. Q[i] = R[i] /\ R[i] \in Nat
      BY <1>6, <2>2, Zenon
    <3> QED
      BY <1>5, <3>1, <3>2, <3>3
  <2>3. \A i \in 1..(n + 1) : i + M <= n + 1 => t - Q[i] > S
    <3> SUFFICES ASSUME NEW i \in 1..(n + 1), i + M <= n + 1 PROVE t - Q[i] > S
      BY Zenon
    <3>1. i \in 1..n /\ c # 0
      BY <1>5, <1>7
    <3> QED
      BY <2>2, <3>1, Zenon
  <2>4. \A k \in 1..(n + 1) : k + (2 * M - 1) \in 1..(n + 1) => Q[k + (2 * M - 1)] - Q[k] > S
    <3> SUFFICES ASSUME NEW k \in 1..(n + 1), k + (2 * M - 1) \in 1..(n + 1) PROVE Q[k + (2 * M - 1)] - Q[k] > S
      BY Zenon
    <3>1. PICK m : m = k + (2 * M - 1)
      BY Zenon
    <3>2. m \in 1..(n + 1) /\ m >= k + M
      BY <1>5, <3>1
    <3>3. CASE m = n + 1
      <4>1. k + M <= n + 1 \/ (M = 1 /\ k = n)
        BY <1>5, <3>1, <3>3
      <4>2. t - Q[k] > S
        BY <1>5, <2>3, <4>1
      <4> QED
        BY <1>6, <3>1, <3>3, <4>2, Zenon
    <3>4. CASE m # n + 1
      <4>1. m \in 1..n /\ k \in 1..n
        BY <1>5, <3>1, <3>2, <3>4
      <4>2. R[m] - R[k] > S
        BY <1>10, <3>1, <4>1, Zenon
      <4> QED
        BY <1>6, <3>1, <4>1, <4>2, Zenon
    <3> QED
      BY <3>3, <3>4, Zenon
  <2>5. d # 0 /\ n + 1 - d + 1 \in 1..(n + 1) /\ n + 1 - d + 1 = n + 1
    BY <1>5, <1>15
  <2>6. \A i \in 1..(n + 1) : i + M <= n + 1 - d + 1 => b - Q[i] > S
    BY <1>15, <2>3, <2>5, Zenon
  <2>7. Q[n + 1 - d + 1] = b
    BY <2>1, Zenon
  <2>8. Window(Q, d, b, t)
    <3>1. PICK L : L = Len(Q)
      BY Zenon
    <3>2. L = n + 1
      BY <1>6, <3>1, Zenon
    <3>3. /\ \A i \in 1..L : Q[i] <= t
          /\ \A i, j \in 1..L : i <= j => Q[i] <= Q[j]
          /\ L - d + 1 \in 1..L /\ Q[L - d + 1] = b
          /\ \A i \in 1..L : i + M <= L - d + 1 => b - Q[i] > S
          /\ \A k \in 1..L : k + (2 * M - 1) \in 1..L => Q[k + (2 * M - 1)] - Q[k] > S
          /\ b <= t /\ d # 0
      <4>1. \A i \in 1..L : Q[i] <= t
        BY <1>13, <3>2, Zenon
      <4>2. \A i, j \in 1..L : i <= j => Q[i] <= Q[j]
        BY <1>14, <3>2, Zenon
      <4>3. L - d + 1 \in 1..L /\ Q[L - d + 1] = b
        BY <1>5, <2>5, <2>7, <3>2
      <4>4. \A i \in 1..L : i + M <= L - d + 1 => b - Q[i] > S
        BY <1>5, <2>6, <3>2
      <4>5. \A k \in 1..L : k + (2 * M - 1) \in 1..L => Q[k + (2 * M - 1)] - Q[k] > S
        BY <2>4, <3>2, Zenon
      <4>6. b <= t /\ d # 0
        BY <2>1, <2>5, Zenon
      <4> QED
        BY <4>1, <4>2, <4>3, <4>4, <4>5, <4>6, Zenon
    <3> QED
      BY <1>3, <1>4, <3>1, <3>3, Zenon DEF Window
  <2> QED
    BY <1>2, <2>8, Zenon
<1>16. CASE c # 0 /\ ~(t - st > S) /\ d = c + 1 /\ b = st /\ d <= M
  <2>1. c \in 1..M /\ n - c + 1 \in 1..n /\ R[n - c + 1] = st /\ c + 1 <= M
    BY <1>5, <1>7, <1>16
  <2>2. n + 1 - d + 1 = n - c + 1 /\ d # 0 /\ n + 1 - d + 1 \in 1..(n + 1)
    BY <1>5, <1>16, <2>1
  <2>3. Q[n + 1 - d + 1] = b
    BY <1>6, <1>16, <2>1, <2>2, Zenon
  <2>4. \A i \in 1..(n + 1) : i + M <= n - c + 1 => i \in 1..n /\ st - Q[i] > S
    <3> SUFFICES ASSUME NEW i \in 1..(n + 1), i + M <= n - c + 1 PROVE i \in 1..n /\ st - Q[i] > S
      BY Zenon
    <3>1. i \in 1..n
      BY <1>5
    <3> QED
      BY <1>6, <1>9, <2>1, <3>1, Zenon
  <2>5. \A k \in 1..(n + 1) : k + (2 * M - 1) \in 1..(n + 1) => Q[k + (2 * M - 1)] - Q[k] > S
    <3> SUFFICES ASSUME NEW k \in 1..(n + 1), k + (2 * M - 1) \in 1..(n + 1) PROVE Q[k + (2 * M - 1)] - Q[k] > S
      BY Zenon
    <3>1. PICK m : m = k + (2 * M - 1)
      BY Zenon
    <3>2. m \in 1..(n + 1)
      BY <3>1, Zenon
    <3>3. CASE m = n + 1
      <4>1. k + M <= n - c + 1
        BY <1>5, <2>1, <3>1, <3>3
      <4>2. st - Q[k] > S /\ Q[k] \in Nat
        BY <1>13, <2>4, <4>1, Zenon
      <4> QED
        <5>1. Q[m] = t /\ st <= t
          BY <1>6, <1>7, <3>3, Zenon
        <5>2. t - Q[k] > S
          BY <1>5, <4>2, <5>1
        <5> QED
          BY <3>1, <5>1, <5>2, Zenon
    <3>4. CASE m # n + 1
      <4>1. m \in 1..n /\ k \in 1..n
        BY <1>5, <3>1, <3>2, <3>4
      <4>2. R[m] - R[k] > S
        BY <1>10, <3>1, <4>1, Zenon
      <4> QED
        BY <1>6, <3>1, <4>1, <4>2, Zenon
    <3> QED
      BY <3>3, <3>4, Zenon
  <2>6. \A i \in 1..(n + 1) : i + M <= n + 1 - d + 1 => b - Q[i] > S
    BY <1>16, <2>2, <2>4, Zenon
  <2>7. b <= t
    BY <1>7, <1>16, Zenon
  <2>8. Window(Q, d, b, t)
    <3>1. PICK L : L = Len(Q)
      BY Zenon
    <3>2. L = n + 1
      BY <1>6, <3>1, Zenon
    <3>3. /\ \A i \in 1..L : Q[i] <= t
          /\ \A i, j \in 1..L : i <= j => Q[i] <= Q[j]
          /\ L - d + 1 \in 1..L /\ Q[L - d + 1] = b
          /\ \A i \in 1..L : i + M <= L - d + 1 => b - Q[i] > S
          /\ \A k \in 1..L : k + (2 * M - 1) \in 1..L => Q[k + (2 * M - 1)] - Q[k] > S
          /\ b <= t /\ d # 0
      <4>1. \A i \in 1..L : Q[i] <= t
        BY <1>13, <3>2, Zenon
      <4>2. \A i, j \in 1..L : i <= j => Q[i] <= Q[j]
        BY <1>14, <3>2, Zenon
      <4>3. L - d + 1 \in 1..L /\ Q[L - d + 1] = b
        BY <1>5, <2>2, <2>3, <3>2
      <4>4. \A i \in 1..L : i + M <= L - d + 1 => b - Q[i] > S
        BY <1>5, <2>6, <3>2
      <4>5. \A k \in 1..L : k + (2 * M - 1) \in 1..L => Q[k + (2 * M - 1)] - Q[k] > S
        BY <2>5, <3>2, Zenon
      <4>6. b <= t /\ d # 0
        BY <2>7, <2>2, Zenon
      <4> QED
        BY <4>1, <4>2, <4>3, <4>4, <4>5, <4>6, Zenon
    <3> QED
      BY <1>3, <1>4, <3>1, <3>3, Zenon DEF Window
  <2> QED
    BY <1>2, <2>8, Zenon
<1> QED
  BY <1>11, <1>15, <1>16, Zenon

\* A supervisor that is giving up never handles a failure again.
LEMMA GivesUp ==
  ASSUME Typing, GaveUp, [Next]_vars
  PROVE  GaveUp'
<1>1. astate \in Seq(AState) /\ Len(astate) \in Nat /\ 2 \in 1..Len(astate) /\ Mid = 2 /\ job \in [Sups -> JobType]
  BY DEF Typing, Mid
<1>2. "mid" \in Sups /\ "root" \in Sups /\ \A v \in Sups : v = "mid" \/ v = "root"
  BY Zenon DEF Sups
<1>3. CASE UNCHANGED <<astate, job>>
  BY <1>3, Zenon DEF GaveUp
<1>4. CASE Tick \/ UNCHANGED vars
  <2>1. UNCHANGED <<astate, job>>
    BY <1>4, Zenon DEF Tick, vars, treeVars
  <2> QED
    BY <1>3, <2>1, Zenon
<1>5. ASSUME NEW x \in AState, x # "live", NEW k, astate' = astate \/ astate' = [astate EXCEPT ![k] = x]
      PROVE  astate'[Mid] = "live" => astate[Mid] = "live"
  <2>1. CASE astate' = astate
    BY <2>1, Zenon
  <2>2. CASE astate' = [astate EXCEPT ![k] = x]
    <3>1. PICK r : r = astate'
      BY Zenon
    <3>2. \A i \in 1..Len(astate) : r[i] = "live" => astate[i] = "live"
      BY <1>1, <1>5, <2>2, <3>1, DemoteFacts
    <3> QED
      BY <1>1, <3>1, <3>2, Zenon
  <2> QED
    BY <1>5, <2>1, <2>2, Zenon
<1>6. ASSUME NEW k \in Actors, Crash(k) \/ Notify(k) PROVE GaveUp'
  <2>1. job' = job /\ (astate' = astate \/ astate' = [astate EXCEPT ![k] = "failed"])
    BY <1>6, Zenon DEF Crash, Notify, treeVars
  <2>2. "failed" \in AState /\ "failed" # "live"
    BY Zenon DEF AState
  <2>3. astate'[Mid] = "live" => astate[Mid] = "live"
    <3>1. PICK x : x = "failed"
      BY Zenon
    <3> QED
      BY <1>5, <2>1, <2>2, <3>1, Zenon
  <2> QED
    BY <2>1, <2>3, Zenon DEF GaveUp
<1>7. ASSUME NEW s \in Slots, NEW v, Spawn(s, v) PROVE astate'[Mid] = astate[Mid]
  <2>1. \A i \in 1..Len(astate) : astate'[i] = astate[i]
    BY <1>7, SpawnFacts, Zenon
  <2> QED
    BY <1>1, <2>1, Zenon
<1>8. ASSUME NEW s \in Slots, AddChild(s) PROVE GaveUp'
  <2>1. astate'[Mid] = astate[Mid] /\ job' = job
    BY <1>7, <1>8, Zenon DEF AddChild
  <2> QED
    BY <2>1, Zenon DEF GaveUp
<1>9. ASSUME NEW u \in Sups, Handle(u) PROVE GaveUp'
  <2>1. CASE TakeStale(u)
    BY <1>3, <2>1, Zenon DEF TakeStale, treeVars
  <2>2. CASE Take(u)
    <3>1. u # "mid"
      BY <2>2, Zenon DEF Take, At, GaveUp, Who
    <3>2. astate' = astate /\ \E j : job' = job \/ job' = [job EXCEPT ![u] = j]
      BY <2>2, Zenon DEF Take, treeVars
    <3>3. job'["mid"] = job["mid"]
      BY <1>1, <1>2, <3>1, <3>2, Zenon
    <3> QED
      BY <3>2, <3>3, Zenon DEF GaveUp
  <2>3. ASSUME NEW old, astate' = [i \in Actors |-> IF i = old THEN "dead" ELSE astate[i]]
        PROVE  astate'[Mid] = "live" => astate[Mid] = "live"
    <3>1. \A i \in 1..Len(astate) : astate'[i] = IF i = old THEN "dead" ELSE astate[i]
      BY <2>3, MarkFacts, Zenon
    <3> QED
      BY <1>1, <3>1, Zenon
  <2>4. CASE Kill(u) \/ KillKid(u) \/ Tear(u)
    <3> DEFINE Over == {"tear", "fell", "quit"}
    <3>1. astate'[Mid] = "live" => astate[Mid] = "live"
      <4>1. \E old : astate' = [i \in Actors |-> IF i = old THEN "dead" ELSE astate[i]]
        <5>1. CASE Kill(u)
          BY <5>1, Zenon DEF Kill, Terminate
        <5>2. CASE KillKid(u)
          BY <5>2, Zenon DEF KillKid, Terminate
        <5>3. CASE Tear(u)
          BY <5>3, Zenon DEF Tear, Terminate
        <5> QED
          BY <2>4, <5>1, <5>2, <5>3, Zenon
      <4> QED
        BY <2>3, <4>1, Zenon
    <3>2. job["mid"].pc \in Over => job'["mid"].pc \in Over
      <4>1. CASE Kill(u) \/ KillKid(u)
        <5>1. job[u].pc \in {"kill", "reap"} /\ \A v \in Sups \ {u} : job'[v] = job[v]
          BY <1>1, <4>1, Zenon DEF Kill, KillKid, At
        <5> QED
          BY <1>2, <5>1, Zenon
      <4>2. CASE Tear(u)
        <5>1. job'[u].pc = "tear" /\ \A v \in Sups \ {u} : job'[v] = job[v]
          BY <1>1, <4>2, Zenon DEF Tear, JobType
        <5> QED
          BY <1>2, <5>1, Zenon
      <4> QED
        BY <2>4, <4>1, <4>2, Zenon
    <3> QED
      BY <3>1, <3>2, Zenon DEF GaveUp
  <2>8. CASE PickKid(u) \/ PickTear(u)
    <3>3. astate' = astate
      BY <2>8, Zenon DEF PickKid, PickTear, Pick, treeVars
    <3>5. PICK p, o, t : job' = [job EXCEPT ![u].pc = p, ![u].old = o, ![u].todo = t] /\ (job[u].pc = "killing" \/ p \in {"tear", "fell"})
      <4>1. CASE PickKid(u)
        BY <4>1, Zenon DEF PickKid, Pick, At
      <4>2. CASE PickTear(u)
        <5>2. PICK p \in {"tear", "fell"} : p = IF spec[Head(job[u].todo)].actor = 0 THEN "tear" ELSE "fell"
          BY Zenon
        <5>3. \E o, t : job' = [job EXCEPT ![u].pc = p, ![u].old = o, ![u].todo = t]
          BY <4>2, <5>2, Zenon DEF PickTear, Pick
        <5> QED
          BY <5>3, Zenon
      <4> QED
        BY <2>8, <4>1, <4>2, Zenon
    <3>4. \A v \in Sups \ {u} : job'[v] = job[v]
      BY <1>1, <3>5, Zenon
    <3>1. astate' = astate /\ \A v \in Sups \ {u} : job'[v] = job[v]
      BY <3>3, <3>4, Zenon
    <3>2. job[u].pc = "killing" \/ job'[u].pc \in {"tear", "fell"}
      BY <1>1, <3>5, Zenon DEF JobType
    <3> QED
      BY <1>2, <3>1, <3>2, Zenon DEF GaveUp
  <2>5. CASE KillDone(u) \/ Make(u) \/ Publish(u) \/ Clear(u) \/ Escalate(u)
    <3>1. job[u].pc \notin {"tear", "fell", "quit"} /\ \E j : job' = [job EXCEPT ![u] = j]
      BY <2>5, Zenon DEF KillDone, Make, Publish, Clear, Escalate, At, Go, Done
    <3>2. job["mid"].pc \in {"tear", "fell", "quit"} => job'["mid"] = job["mid"]
      BY <1>1, <1>2, <3>1, Zenon
    <3>3. astate'[Mid] = astate[Mid]
      <4>1. CASE Make(u)
        <5>1. job[u].slot \in Slots /\ (astate' = astate \/ Spawn(job[u].slot, u))
          BY <4>1, Zenon DEF Make, At, Typing, Handling
        <5> QED
          BY <1>7, <5>1, Zenon
      <4>2. CASE KillDone(u) \/ Publish(u) \/ Clear(u) \/ Escalate(u)
        BY <4>2, Zenon DEF KillDone, Publish, Clear, Escalate, treeVars
      <4> QED
        BY <2>5, <4>1, <4>2, Zenon
    <3> QED
      BY <3>2, <3>3, Zenon DEF GaveUp
  <2>6. CASE Appeal(u)
    <3>1. job' = [job EXCEPT ![u].pc = "quit"] /\ astate' = astate
      BY <2>6, Zenon DEF Appeal, Go, treeVars
    <3>2. job["mid"].pc \in {"tear", "fell", "quit"} => job'["mid"].pc \in {"tear", "fell", "quit"}
      BY <1>1, <1>2, <3>1, Zenon DEF JobType
    <3> QED
      BY <3>1, <3>2, Zenon DEF GaveUp
  <2>7. CASE Quit(u)
    <3>1. PICK x : x = IF astate[Who(u)] = "dead" THEN "dead" ELSE "failed"
      BY Zenon
    <3>2. x \in AState /\ x # "live"
      BY <3>1, Zenon DEF AState
    <3>3. astate' = [astate EXCEPT ![Who(u)] = x] /\ job' = [job EXCEPT ![u] = Idle]
      BY <2>7, <3>1, Zenon DEF Quit, Done
    <3>4. astate'[Mid] = "live" => astate[Mid] = "live"
      BY <1>5, <3>2, <3>3, Zenon
    <3>5. CASE u = "mid"
      <4>1. Who(u) = Mid
        BY <3>5, Zenon DEF Who
      <4>2. astate'[Mid] = x
        BY <1>1, <3>3, <4>1
      <4> QED
        BY <3>2, <4>2, Zenon DEF GaveUp
    <3>6. CASE u # "mid"
      <4>1. job'["mid"] = job["mid"]
        BY <1>1, <1>2, <3>3, <3>6, Zenon
      <4> QED
        BY <3>4, <4>1, Zenon DEF GaveUp
    <3> QED
      BY <3>5, <3>6, Zenon
  <2> QED
    BY <1>9, <2>1, <2>2, <2>4, <2>5, <2>6, <2>7, <2>8, Zenon DEF Handle
<1> QED
  BY <1>4, <1>6, <1>8, <1>9, Zenon DEF Next

\* What a step does to the clock and the counters of mid.
LEMMA LimitsStep ==
  ASSUME Typing, WindowOK, [Next]_vars
  PROVE  \/ UNCHANGED <<count, start, restarts>> /\ now' \in {now, now + 1}
         \/ \E u \in Sups : Take(u) /\ now' = now
<1>1. CASE Tick \/ UNCHANGED vars
  BY <1>1, Zenon DEF Tick, vars, limitVars
<1>2. ASSUME NEW k \in Actors, Crash(k) \/ Notify(k) PROVE UNCHANGED <<count, start, restarts, now>>
  BY <1>2, Zenon DEF Crash, Notify, limitVars
<1>3. ASSUME NEW s \in Slots, AddChild(s) PROVE UNCHANGED <<count, start, restarts, now>>
  BY <1>3, Zenon DEF AddChild, limitVars
<1>4. ASSUME NEW u \in Sups, Handle(u) PROVE UNCHANGED <<count, start, restarts, now>> \/ (Take(u) /\ now' = now)
  <2>1. CASE TakeStale(u) \/ Kill(u) \/ PickKid(u) \/ KillKid(u) \/ KillDone(u) \/ Make(u)
    BY <2>1, Zenon DEF TakeStale, Kill, PickKid, Pick, KillKid, KillDone, Make, limitVars
  <2>2. CASE Publish(u) \/ Clear(u) \/ Escalate(u) \/ PickTear(u) \/ Tear(u) \/ Appeal(u) \/ Quit(u)
    BY <2>2, Zenon DEF Publish, Clear, Escalate, PickTear, Pick, Tear, Appeal, Quit, limitVars
  <2>3. CASE Take(u)
    BY <2>3, Zenon DEF Take
  <2> QED
    BY <1>4, <2>1, <2>2, <2>3, Zenon DEF Handle
<1>5. now \in {now, now + 1}
  BY Zenon
<1> QED
  BY <1>1, <1>2, <1>3, <1>4, <1>5, Zenon DEF Next

\* Taking a failure keeps the window.
LEMMA WindowTake ==
  ASSUME Typing, WindowOK, NEW u \in Sups, Take(u), now' = now
  PROVE  WindowOK'
<1>1. PICK s \in Found(u, Head(inbox[u])), excess \in BOOLEAN :
        /\ excess <=> (Strategy[s] = "RESTART" /\ Counted(u) > MaxRestarts)
        /\ ~excess \/ u = "root" \/ job' = [job EXCEPT ![u] =
             [pc |-> "tear", id |-> Head(inbox[u]), old |-> spec[s].actor, slot |-> s, todo |-> kids[u]]]
        /\ count' = [count EXCEPT ![u] =
             IF ~(Strategy[s] = "RESTART") THEN @ ELSE IF excess /\ u = "root" THEN 0 ELSE Counted(u)]
        /\ start' = [start EXCEPT ![u] =
             IF ~(Strategy[s] = "RESTART") THEN @ ELSE IF excess /\ u = "root" THEN now ELSE WindowStart(u)]
        /\ restarts' = [restarts EXCEPT ![u] =
             IF Strategy[s] = "RESTART" /\ ~excess THEN Append(@, now) ELSE @]
  BY Zenon DEF Take
<1>2. PICK c : c = Counted(u)
  BY Zenon
<1>3. PICK b : b = WindowStart(u)
  BY Zenon
<1>4. c \in Nat /\ b \in Nat
  BY <1>2, <1>3 DEF Counted, WindowStart, WindowOK
<1>5. count' \in [Sups -> Nat] /\ start' \in [Sups -> Nat] /\ restarts' \in [Sups -> Seq(Nat)] /\ now' \in Nat
  <2>1. count' \in [Sups -> Nat] /\ start' \in [Sups -> Nat] /\ now' \in Nat
    BY <1>1, <1>2, <1>3, <1>4, Zenon DEF WindowOK
  <2>2. restarts[u] \in Seq(Nat) /\ Append(restarts[u], now) \in Seq(Nat)
    BY DEF WindowOK
  <2>3. PICK e : e = IF Strategy[s] = "RESTART" /\ ~excess THEN Append(restarts[u], now) ELSE restarts[u]
    BY Zenon
  <2>4. e \in Seq(Nat) /\ restarts' = [restarts EXCEPT ![u] = e]
    BY <1>1, <2>2, <2>3, Zenon
  <2> QED
    BY <2>1, <2>4, Zenon DEF WindowOK
<1>6. "mid" \in Sups /\ "mid" # "root"
  BY Zenon DEF Sups
<1>7. CASE u # "mid"
  <2>1. count'["mid"] = count["mid"] /\ start'["mid"] = start["mid"] /\ restarts'["mid"] = restarts["mid"]
    BY <1>1, <1>6, <1>7, Zenon DEF WindowOK
  <2>2. astate' = astate /\ \E j : job' = job \/ job' = [job EXCEPT ![u] = j]
    BY Zenon DEF Take, treeVars
  <2>3. job'["mid"] = job["mid"]
    BY <1>6, <1>7, <2>2, Zenon DEF Typing
  <2>4. GaveUp => GaveUp'
    BY <2>2, <2>3, Zenon DEF GaveUp
  <2>5. Window(restarts'["mid"], count'["mid"], start'["mid"], now')
    BY <2>1, Zenon DEF WindowOK
  <2>6. count'["mid"] > MaxRestarts => GaveUp'
    BY <2>1, <2>4, Zenon DEF WindowOK
  <2> QED
    BY <1>5, <2>5, <2>6, Zenon DEF WindowOK
<1>8. CASE u = "mid"
  <2>1. ~GaveUp
    BY <1>8, Zenon DEF Take, At, GaveUp, Who
  <2>2. PICK R : R = restarts["mid"]
    BY Zenon
  <2>3. PICK d : d = count["mid"]
    BY Zenon
  <2>4. PICK st : st = start["mid"]
    BY Zenon
  <2>5. R \in Seq(Nat) /\ d \in 0..MaxRestarts /\ st \in Nat /\ now \in Nat /\ Window(R, d, st, now)
    BY <1>6, <2>1, <2>2, <2>3, <2>4, SupervisorAssumption DEF WindowOK
  <2>6. \/ (d = 0 \/ now - st > MaxSeconds) /\ c = 1 /\ b = now
        \/ d # 0 /\ ~(now - st > MaxSeconds) /\ c = d + 1 /\ b = st
    BY <1>2, <1>3, <1>8, <2>3, <2>4, Zenon DEF Counted, WindowStart
  <2>7. CASE Strategy[s] # "RESTART"
    <3>1. count'["mid"] = d /\ start'["mid"] = st /\ restarts'["mid"] = R
      BY <1>1, <1>6, <1>8, <2>2, <2>3, <2>4, <2>7, Zenon DEF WindowOK
    <3>2. ~(count'["mid"] > MaxRestarts)
      BY <2>5, <3>1, SupervisorAssumption
    <3>3. Window(restarts'["mid"], count'["mid"], start'["mid"], now')
      BY <2>5, <3>1, Zenon
    <3> QED
      BY <1>5, <3>2, <3>3, Zenon DEF WindowOK
  <2>8. CASE Strategy[s] = "RESTART" /\ ~excess
    <3>1. count'["mid"] = c /\ start'["mid"] = b /\ restarts'["mid"] = Append(R, now)
      BY <1>1, <1>2, <1>3, <1>6, <1>8, <2>2, <2>8, Zenon DEF WindowOK
    <3>2. c <= MaxRestarts /\ ~(c > MaxRestarts)
      <4>1. ~(c > MaxRestarts)
        BY <1>1, <1>2, <2>8, Zenon
      <4> QED
        BY <1>4, <4>1, SupervisorAssumption
    <3>3. Window(Append(R, now), c, b, now)
      BY <1>4, <2>5, <2>6, <3>2, WindowCounted, Zenon
    <3>4. Window(restarts'["mid"], count'["mid"], start'["mid"], now')
      BY <3>1, <3>3, Zenon
    <3> QED
      BY <1>5, <3>1, <3>2, <3>4, Zenon DEF WindowOK
  <2>9. CASE Strategy[s] = "RESTART" /\ excess
    <3>1. count'["mid"] = c /\ start'["mid"] = b /\ restarts'["mid"] = R
      BY <1>1, <1>2, <1>3, <1>6, <1>8, <2>2, <2>9, Zenon DEF WindowOK
    <3>2. c > MaxRestarts /\ c # 0 /\ c \notin 1..MaxRestarts
      <4>1. c > MaxRestarts
        BY <1>1, <1>2, <2>9, Zenon
      <4> QED
        BY <1>4, <4>1, SupervisorAssumption
    <3>3. job'["mid"].pc = "tear"
      BY <1>1, <1>6, <1>8, <2>9 DEF Typing
    <3>4. b <= now
      BY <2>5, <2>6 DEF Window
    <3>5. Window(R, c, b, now)
      BY <2>5, <3>2, <3>4, Zenon DEF Window
    <3>6. Window(restarts'["mid"], count'["mid"], start'["mid"], now')
      BY <3>1, <3>5, Zenon
    <3>7. GaveUp'
      BY <3>3, Zenon DEF GaveUp
    <3> QED
      BY <1>5, <3>6, <3>7, Zenon DEF WindowOK
  <2> QED
    BY <2>7, <2>8, <2>9, Zenon
<1> QED
  BY <1>7, <1>8, Zenon

\* Below the root fewer than 2 * MaxRestarts restarts are allowed in any
\* MaxSeconds (check_intensity).
THEOREM RestartsAreLimited == Spec => []IntensityBound
<1>1. Init => Typing /\ WindowOK
  <2>1. ASSUME Init PROVE WindowOK
    <3>1. /\ now = 0 /\ count = [u \in Sups |-> 0] /\ start = [u \in Sups |-> 0] /\ restarts = [u \in Sups |-> <<>>]
      BY <2>1, Zenon DEF Init
    <3>2. "mid" \in Sups
      BY Zenon DEF Sups
    <3>3. count["mid"] = 0 /\ start["mid"] = 0 /\ restarts["mid"] = <<>> /\ now \in Nat /\ start \in [Sups -> Nat]
          /\ count \in [Sups -> Nat] /\ restarts \in [Sups -> Seq(Nat)]
      BY <3>1, <3>2
    <3>4. Window(<<>>, 0, 0, 0)
      BY SupervisorAssumption DEF Window
    <3>5. ~(0 > MaxRestarts)
      BY SupervisorAssumption
    <3> QED
      BY <3>1, <3>3, <3>4, <3>5, Zenon DEF WindowOK
  <2> QED
    BY <2>1, InitTyping, Zenon
<1>2. (Typing /\ WindowOK) /\ [Next]_vars => (Typing /\ WindowOK)'
  <2> SUFFICES ASSUME Typing, WindowOK, [Next]_vars PROVE WindowOK'
    BY TypingStep, Zenon
  <2>1. CASE UNCHANGED <<count, start, restarts>> /\ now' \in {now, now + 1}
    <3>1. now \in Nat /\ now' \in Nat /\ restarts["mid"] \in Seq(Nat) /\ count["mid"] \in Nat /\ start["mid"] \in Nat
      BY <2>1 DEF WindowOK, Sups
    <3>2. Window(restarts["mid"], count["mid"], start["mid"], now')
      <4>1. CASE now' = now
        BY <4>1, Zenon DEF WindowOK
      <4>2. CASE now' = now + 1
        <5>1. Window(restarts["mid"], count["mid"], start["mid"], now + 1)
          BY <3>1, WindowLater, Zenon DEF WindowOK
        <5> QED
          BY <4>2, <5>1, Zenon
      <4> QED
        BY <2>1, <4>1, <4>2, Zenon
    <3>3. GaveUp => GaveUp'
      BY GivesUp, Zenon
    <3> QED
      BY <2>1, <3>1, <3>2, <3>3, Zenon DEF WindowOK
  <2>2. CASE \E u \in Sups : Take(u) /\ now' = now
    BY <2>2, WindowTake, Zenon
  <2> QED
    BY <2>1, <2>2, LimitsStep, Zenon
<1>3. WindowOK => IntensityBound
  <2> SUFFICES ASSUME WindowOK PROVE IntensityBound
    BY Zenon
  <2>1. PICK R : R = restarts["mid"]
    BY Zenon
  <2>2. R \in Seq(Nat) /\ DOMAIN R = 1..Len(R)
    BY <2>1 DEF WindowOK, Sups
  <2>3. \A k \in 1..Len(R) : k + (2 * MaxRestarts - 1) \in 1..Len(R) => R[k + (2 * MaxRestarts - 1)] - R[k] > MaxSeconds
    BY <2>1, Zenon DEF WindowOK, Window
  <2> QED
    BY <2>1, <2>2, <2>3, Zenon DEF IntensityBound
<1> QED
  BY <1>1, <1>2, <1>3, PTL DEF Spec
=============================================================================
