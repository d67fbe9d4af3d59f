--------------------------- MODULE FuturesProofs ---------------------------
(***************************************************************************)
(* For any number of asks and waiters, any capacity of the mailbox and any *)
(* outcome of an ask, crashes of the target included: what a waiter reads  *)
(* is settled, if each future has one waiter; a crash fails the ask that   *)
(* was running and those that could be reached in the mailbox; and a       *)
(* future's reference count covers every reference in use, as long as the  *)
(* future has been taken out of the table once.                            *)
(***************************************************************************)
EXTENDS Futures, FiniteSetTheorems, TLAPS

(* Settled futures: which of them the target is still to settle, and which *)
(* waiter may read what.                                                   *)

\* A future is waited for by one actor, the one that asked.
OneWaiter == \A x, y \in Waiters : WaitsFor[x] = WaitsFor[y] => x = y

\* Types, but for the reference counts.
Typing ==
  /\ state \in [Asks -> {"NONE", "PENDING", "RESOLVING", "FAILING"} \cup Final]
  /\ value \in [Asks -> {"none", "reply", "failure"}]
  /\ heap \in [Asks -> {"none", "present", "taken"}]
  /\ table \subseteq Asks /\ due \subseteq Asks
  /\ apc \in [Asks -> {"idle", "send", "link", "held", "refused", "done"}]
  /\ box \in Seq(Asks)
  /\ tpc \in {"idle", "lookup", "cas", "store", "publish", "wake", "remove",
              "rel1", "rel2", "walk", "terminate", "drain"}
  /\ mode \in {"reply", "nomem", "crash"}
  /\ index \in Nat \ {0}
  /\ wpc \in [Waiters -> {"start", "load", "set", "recheck", "drop", "suspend",
                          "asleep", "queued", "copy", "remove", "rel1", "rel2",
                          "done", "twice"}]
  /\ got \in [Waiters -> {"none", "reply", "failure", "self", "nothing", "dangling"}]

\* The target is busy with a future that an ask has sent to it.
Busy == Looked \cup {"lookup"}
Known(f) == apc[f] \in {"link", "held", "done"}
CurOK == tpc \in Busy => cur \in Asks /\ Known(cur)
BoxOK == \A i \in 1..Len(box) : Known(box[i])

\* Only the target settles, one future at a time, and a final state has its
\* value.
StateOK ==
  \A f \in Asks :
    /\ apc[f] = "idle" <=> state[f] = "NONE"
    /\ apc[f] = "send" => state[f] = "PENDING"
    /\ state[f] \in {"RESOLVING", "FAILING"} => tpc \in {"store", "publish"} /\ cur = f
    /\ state[f] = "RESOLVED" => value[f] = "reply"
    /\ state[f] = "FAILED" => value[f] = "failure"
SettleOK ==
  /\ tpc \in {"store", "publish"} => state[cur] \in {"RESOLVING", "FAILING"}
  /\ tpc = "publish" => value[cur] = IF mode = "crash" THEN "failure" ELSE "reply"

\* A waiter copies a settled future only.
Read == {"remove", "rel1", "rel2"}
WaitOK ==
  \A w \in Waiters :
    /\ wpc[w] # "start" => Known(WaitsFor[w])
    /\ wpc[w] \in Read \cup {"copy"} => state[WaitsFor[w]] \in Final

\* The invariant of settling.
SInv == Typing /\ CurOK /\ BoxOK /\ StateOK /\ SettleOK /\ WaitOK

\* What a waiter has read is the value, and only waiters that have read took a
\* heap.
ReadOK ==
  /\ \A w \in Waiters : wpc[w] \in Read => got[w] = value[WaitsFor[w]]
  /\ \A f \in Asks : heap[f] = "taken" =>
       \E w \in Waiters : WaitsFor[w] = f /\ wpc[w] \in Read \cup {"done"}
-----------------------------------------------------------------------------
\* A waiter leaves alone what the askers and the target work on.
LEMMA WaitFrame ==
  ASSUME NEW w \in Waiters, Wait(w)
  PROVE  UNCHANGED <<state, value, apc, box, tpc, cur, mode, index, due, dropped>>
<1> USE DEF targetVars, futureVars
<1>1. CASE WaitLookup(w)
  BY <1>1, Zenon DEF WaitLookup
<1>2. CASE WaitLoad(w)
  BY <1>2, Zenon DEF WaitLoad
<1>3. CASE WaitSet(w)
  BY <1>3, Zenon DEF WaitSet
<1>4. CASE WaitRecheck(w)
  BY <1>4, Zenon DEF WaitRecheck
<1>5. CASE WaitDrop(w)
  BY <1>5, Zenon DEF WaitDrop
<1>6. CASE WaitSuspend(w)
  BY <1>6, Zenon DEF WaitSuspend
<1>7. CASE Requeue(w)
  BY <1>7, Zenon DEF Requeue
<1>8. CASE Resume(w)
  BY <1>8, Zenon DEF Resume
<1>9. CASE WaitCopy(w)
  BY <1>9, Zenon DEF WaitCopy
<1>10. CASE WaitRemove(w)
  BY <1>10, Zenon DEF WaitRemove
<1>11. CASE WaitRelease(w)
  BY <1>11, Zenon DEF WaitRelease
<1> QED
  BY <1>1, <1>2, <1>3, <1>4, <1>5, <1>6, <1>7, <1>8, <1>9, <1>10, <1>11, Zenon DEF Wait

\* The initial state satisfies the invariant.
LEMMA InitHolds == Init => SInv /\ ReadOK
BY FuturesAssumption DEF Init, SInv, Typing, CurOK, BoxOK, StateOK, SettleOK, WaitOK, ReadOK,
   Busy, Looked, Read, Final, Known

\* A step keeps the types.
LEMMA TypingStep ==
  ASSUME Typing, CurOK, Next
  PROVE  Typing'
<1> USE FuturesAssumption DEF Typing, Final, targetVars, futureVars, waiterVars
<1>1. ASSUME NEW f \in Asks, Ask(f) PROVE Typing'
  BY <1>1, ZenonT(30) DEF Ask
<1>2. ASSUME NEW f \in Asks, Send(f) PROVE Typing'
  BY <1>2 DEF Send
<1>31. ASSUME NEW f \in Asks, Link(f) PROVE Typing'
  BY <1>31, Zenon DEF Link
<1>3. ASSUME NEW f \in Asks, Refuse(f) PROVE Typing'
  <2>1. /\ apc' = [apc EXCEPT ![f] = "refused"] /\ table' = table \ {f}
        /\ \/ state' = [state EXCEPT ![f] = "FAILED"] /\ value' = [value EXCEPT ![f] = "failure"]
           \/ UNCHANGED <<state, value>>
        /\ UNCHANGED <<heap, due, box, tpc, mode, index, wpc, got>>
    BY <1>3, Zenon DEF Refuse
  <2>2. state' \in [Asks -> {"NONE", "PENDING", "RESOLVING", "FAILING"} \cup Final]
    BY <2>1, ZenonT(30)
  <2>3. value' \in [Asks -> {"none", "reply", "failure"}]
    BY <2>1, Zenon
  <2>4. apc' \in [Asks -> {"idle", "send", "link", "held", "refused", "done"}]
    BY <2>1, Zenon
  <2> QED
    BY <2>1, <2>2, <2>3, <2>4, Zenon
<1>4. ASSUME NEW f \in Asks, ReleaseCaller(f) PROVE Typing'
  BY <1>4, Zenon DEF ReleaseCaller
<1>5. CASE Take
  <2>1. Reachable \subseteq Asks /\ Tail(box) \in Seq(Asks)
    BY <1>5 DEF Take, HasNext, Reachable
  <2>2. PICK o \in Outcomes \ {"terminated"} :
          /\ tpc' = IF o = "unknown" THEN "idle" ELSE "lookup"
          /\ mode' = IF o = "unknown" THEN mode ELSE o
          /\ due' = IF o = "crash" THEN Reachable ELSE due
    BY <1>5, Zenon DEF Take
  <2> QED
    BY <1>5, <2>1, <2>2, Zenon DEF Take
<1>6. CASE Lookup
  BY <1>6, CurOK, Zenon DEF Lookup, CurOK, Busy, Looked, Settled, Onward
<1>7. CASE Cas
  BY <1>7, CurOK, ZenonT(30) DEF Cas, CurOK, Busy, Looked, Settled, Onward
<1>8. CASE Store
  BY <1>8, CurOK, Zenon DEF Store, CurOK, Busy, Looked, Settled, Onward
<1>9. CASE Publish
  BY <1>9, CurOK, Zenon DEF Publish, CurOK, Busy, Looked, Settled, Onward
<1>10. CASE Wake
  BY <1>10, CurOK, Zenon DEF Wake, CurOK, Busy, Looked, Settled, Onward
<1>11. CASE RemoveFailed
  BY <1>11, CurOK, Zenon DEF RemoveFailed, CurOK, Busy, Looked, Settled, Onward
<1>12. CASE ReleaseTable
  BY <1>12, CurOK, Zenon DEF ReleaseTable, CurOK, Busy, Looked, Settled, Onward
<1>13. CASE ReleaseLookup
  BY <1>13, CurOK, Zenon DEF ReleaseLookup, CurOK, Busy, Looked, Settled, Onward
<1>14. CASE Walk
  BY <1>14, CurOK DEF Walk, CurOK, Busy, Looked, Settled, Onward
<1>15. CASE Terminate
  BY <1>15, CurOK, Zenon DEF Terminate, CurOK, Busy, Looked, Settled, Onward
<1>16. CASE Drain
  BY <1>16 DEF Drain, HasNext
<1>17. CASE Terminated
  BY <1>17, Zenon DEF Terminated
<1>18. ASSUME NEW w \in Waiters, WaitLookup(w) PROVE Typing'
  <2>1. \/ Go(w, "load") /\ UNCHANGED got
        \/ Go(w, "done") /\ got' = [got EXCEPT ![w] = "self"]
    BY <1>18, Zenon DEF WaitLookup
  <2> QED
    BY <1>18, <2>1 DEF WaitLookup, Go
<1>19. ASSUME NEW w \in Waiters, WaitLoad(w) PROVE Typing'
  BY <1>19, Zenon DEF WaitLoad, Go, At
<1>20. ASSUME NEW w \in Waiters, WaitSet(w) PROVE Typing'
  BY <1>20, Zenon DEF WaitSet, Go, At
<1>21. ASSUME NEW w \in Waiters, WaitRecheck(w) PROVE Typing'
  BY <1>21, Zenon DEF WaitRecheck, Go, At
<1>22. ASSUME NEW w \in Waiters, WaitDrop(w) PROVE Typing'
  BY <1>22, Zenon DEF WaitDrop, Go, At
<1>23. ASSUME NEW w \in Waiters, WaitSuspend(w) PROVE Typing'
  BY <1>23, Zenon DEF WaitSuspend, Go, At
<1>24. ASSUME NEW w \in Waiters, Requeue(w) PROVE Typing'
  BY <1>24, Zenon DEF Requeue, Go, At
<1>25. ASSUME NEW w \in Waiters, Resume(w) PROVE Typing'
  BY <1>25 DEF Resume, Go, At
<1>26. ASSUME NEW w \in Waiters, WaitCopy(w) PROVE Typing'
  BY <1>26 DEF WaitCopy, Go, At
<1>27. ASSUME NEW w \in Waiters, WaitRemove(w) PROVE Typing'
  BY <1>27, Zenon DEF WaitRemove, Go, At
<1>28. ASSUME NEW w \in Waiters, WaitRelease(w) PROVE Typing'
  BY <1>28, Zenon DEF WaitRelease, Go, At
<1>29. CASE Target
  BY <1>5, <1>6, <1>7, <1>8, <1>9, <1>10, <1>11, <1>12, <1>13, <1>14, <1>15, <1>16, <1>29, Zenon DEF Target
<1>30. ASSUME NEW w \in Waiters, Wait(w) PROVE Typing'
  BY <1>18, <1>19, <1>20, <1>21, <1>22, <1>23, <1>24, <1>25, <1>26, <1>27, <1>28, <1>30, Zenon DEF Wait
<1> QED
  BY <1>1, <1>2, <1>3, <1>4, <1>17, <1>29, <1>30, <1>31, Zenon DEF Next, Call

\* What Append and Tail do to the elements of the mailbox.
LEMMA BoxFacts ==
  ASSUME NEW s \in Seq(Asks), NEW e \in Asks
  PROVE  /\ Len(s) \in Nat /\ Len(Append(s, e)) = Len(s) + 1
         /\ \A i \in 1..Len(s) : Append(s, e)[i] = s[i] /\ s[i] \in Asks
         /\ Append(s, e)[Len(s) + 1] = e
         /\ s # <<>> => /\ Head(s) = s[1] /\ Len(s) > 0 /\ Len(Tail(s)) = Len(s) - 1
                        /\ \A i \in 1..Len(Tail(s)) : Tail(s)[i] = s[i + 1]
OBVIOUS

\* A step keeps cur and the mailbox to asks that were sent.
LEMMA KnownStep ==
  ASSUME Typing, CurOK, BoxOK, Next
  PROVE  CurOK' /\ BoxOK'
<1> USE DEF Typing, CurOK, BoxOK, Known, Busy, Looked
<1>1. ASSUME NEW f \in Asks, Ask(f) PROVE CurOK' /\ BoxOK'
  BY <1>1 DEF Ask, targetVars
<1>2. ASSUME NEW f \in Asks, Send(f) PROVE CurOK' /\ BoxOK'
  <2>1. \A i \in 1..Len(box') : box'[i] = f \/ (i \in 1..Len(box) /\ box'[i] = box[i])
    BY <1>2, BoxFacts DEF Send
  <2> QED
    BY <1>2, <2>1, BoxFacts DEF Send
<1>14. ASSUME NEW f \in Asks, Link(f) PROVE CurOK' /\ BoxOK'
  BY <1>14 DEF Link, targetVars
<1>3. ASSUME NEW f \in Asks, Refuse(f) PROVE CurOK' /\ BoxOK'
  BY <1>3 DEF Refuse, targetVars
<1>4. ASSUME NEW f \in Asks, ReleaseCaller(f) PROVE CurOK' /\ BoxOK'
  BY <1>4 DEF ReleaseCaller, targetVars
<1>5. CASE Take
  <2>1. cur' = Head(box) \/ tpc' = "idle"
    BY <1>5, Zenon DEF Take
  <2>2. /\ Head(box) \in Asks /\ Known(Head(box))
        /\ \A i \in 1..Len(box') : i + 1 \in 1..Len(box) /\ box'[i] = box[i + 1]
    BY <1>5, BoxFacts DEF Take, HasNext
  <2> QED
    BY <1>5, <2>1, <2>2 DEF Take
<1>6. CASE Lookup
  BY <1>6, Zenon DEF Lookup, Onward
<1>7. CASE Cas \/ Wake
  BY <1>7, Zenon DEF Cas, Wake, Settled
<1>8. CASE Store \/ Publish \/ RemoveFailed
  BY <1>8, Zenon DEF Store, Publish, RemoveFailed
<1>9. CASE ReleaseTable \/ ReleaseLookup
  BY <1>9, Zenon DEF ReleaseTable, ReleaseLookup, Onward
<1>10. CASE Walk
  <2>1. CASE index <= Len(box)
    <3>1. index \in 1..Len(box) /\ box[index] \in Asks
      BY <2>1
    <3> QED
      BY <1>10, <2>1, <3>1, Zenon DEF Walk
  <2>2. CASE ~(index <= Len(box))
    BY <1>10, <2>2, Zenon DEF Walk
  <2> QED
    BY <2>1, <2>2, Zenon
<1>11. CASE Terminate \/ Terminated
  BY <1>11, Zenon DEF Terminate, Terminated
<1>12. CASE Drain
  <2>1. \A i \in 1..Len(box') : i + 1 \in 1..Len(box) /\ box'[i] = box[i + 1]
    BY <1>12, BoxFacts DEF Drain, HasNext
  <2> QED
    BY <1>12, <2>1, ZenonT(30) DEF Drain
<1>13. ASSUME NEW w \in Waiters, Wait(w) PROVE CurOK' /\ BoxOK'
  BY <1>13, WaitFrame, Zenon
<1> QED
  BY <1>1, <1>2, <1>3, <1>4, <1>5, <1>6, <1>7, <1>8, <1>9, <1>10, <1>11, <1>12, <1>13, <1>14, Zenon DEF Next, Call, Target

\* A step keeps states, values and the future being settled in agreement.
LEMMA StateStep ==
  ASSUME Typing, CurOK, StateOK, SettleOK, Next
  PROVE  StateOK' /\ SettleOK'
<1> USE DEF Typing, CurOK, StateOK, SettleOK, Known, Busy, Looked, Final
<1>1. ASSUME NEW f \in Asks, Ask(f) PROVE StateOK' /\ SettleOK'
  BY <1>1 DEF Ask, targetVars
<1>2. ASSUME NEW f \in Asks, Send(f) PROVE StateOK' /\ SettleOK'
  BY <1>2 DEF Send, futureVars
<1>15. ASSUME NEW f \in Asks, Link(f) PROVE StateOK' /\ SettleOK'
  BY <1>15 DEF Link, targetVars, futureVars
<1>3. ASSUME NEW f \in Asks, Refuse(f) PROVE StateOK' /\ SettleOK'
  BY <1>3 DEF Refuse, targetVars
<1>4. ASSUME NEW f \in Asks, ReleaseCaller(f) PROVE StateOK' /\ SettleOK'
  BY <1>4 DEF ReleaseCaller, targetVars
<1>5. CASE Take
  <2>1. tpc = "idle" /\ tpc' \in {"idle", "lookup"} /\ UNCHANGED <<state, value, apc>>
    BY <1>5, Zenon DEF Take, futureVars
  <2> QED
    BY <2>1, Zenon
<1>6. CASE Lookup
  BY <1>6, Zenon DEF Lookup, Onward
<1>7. CASE Cas
  BY <1>7 DEF Cas, Settled
<1>8. CASE Store
  BY <1>8, ZenonT(30) DEF Store
<1>9. CASE Publish
  BY <1>9 DEF Publish
<1>10. CASE Wake \/ RemoveFailed
  BY <1>10 DEF Wake, RemoveFailed, Settled, futureVars
<1>11. CASE ReleaseTable \/ ReleaseLookup
  BY <1>11 DEF ReleaseTable, ReleaseLookup, Onward
<1>12. CASE Walk
  BY <1>12, Zenon DEF Walk, futureVars
<1>13. CASE Terminate \/ Terminated \/ Drain
  BY <1>13 DEF Terminate, Terminated, Drain, futureVars
<1>14. ASSUME NEW w \in Waiters, Wait(w) PROVE StateOK' /\ SettleOK'
  BY <1>14, WaitFrame
<1> QED
  BY <1>1, <1>2, <1>3, <1>4, <1>5, <1>6, <1>7, <1>8, <1>9, <1>10, <1>11, <1>12, <1>13, <1>14, <1>15, Zenon DEF Next, Call, Target

\* A settled future keeps its state and its value, and a sent ask stays sent.
LEMMA SettledStays ==
  ASSUME Typing, CurOK, StateOK, SettleOK, Next, NEW f \in Asks
  PROVE  /\ Known(f) => Known(f)'
         /\ state[f] \in Final => state'[f] = state[f] /\ value'[f] = value[f]
<1> DEFINE Goal == (Known(f) => Known(f)') /\ (state[f] \in Final => state'[f] = state[f] /\ value'[f] = value[f])
<1> USE DEF Typing, CurOK, StateOK, SettleOK, Known, Busy, Looked, Final
<1>1. ASSUME NEW g \in Asks, Call(g) \/ ReleaseCaller(g) PROVE Goal
  BY <1>1 DEF Call, Ask, Send, Link, Refuse, ReleaseCaller, futureVars
<1>2. CASE Cas \/ Store \/ Publish
  BY <1>2 DEF Cas, Store, Publish
<1>3. CASE Take \/ Lookup \/ Wake \/ RemoveFailed \/ ReleaseTable \/ ReleaseLookup
  BY <1>3, Zenon DEF Take, Lookup, Wake, RemoveFailed, ReleaseTable, ReleaseLookup, futureVars
<1>4. CASE Walk \/ Terminate \/ Drain \/ Terminated
  BY <1>4, Zenon DEF Walk, Terminate, Drain, Terminated, futureVars
<1>5. ASSUME NEW w \in Waiters, Wait(w) PROVE Goal
  BY <1>5, WaitFrame, Zenon
<1> QED
  BY <1>1, <1>2, <1>3, <1>4, <1>5, Zenon DEF Next, Target

\* The target and the askers leave the waiters alone, and take no heap.
LEMMA OthersFrame ==
  ASSUME Typing, CurOK, Next, \A w \in Waiters : ~Wait(w)
  PROVE  /\ UNCHANGED <<wpc, got>>
         /\ \A f \in Asks : heap'[f] = "taken" => heap[f] = "taken"
<1> DEFINE Goal == UNCHANGED <<wpc, got>> /\ \A f \in Asks : heap'[f] = "taken" => heap[f] = "taken"
<1> USE DEF futureVars, waiterVars
<1>1. ASSUME NEW g \in Asks, Call(g) \/ ReleaseCaller(g) PROVE Goal
  BY <1>1, Zenon DEF Call, Ask, Send, Link, Refuse, ReleaseCaller
<1>2. CASE Cas \/ Publish \/ Take \/ Lookup \/ Wake \/ RemoveFailed \/ ReleaseTable \/ ReleaseLookup
  BY <1>2, Zenon DEF Cas, Publish, Take, Lookup, Wake, RemoveFailed, ReleaseTable, ReleaseLookup
<1>3. CASE Store
  BY <1>3, Zenon DEF Store, Typing, CurOK, Busy, Looked
<1>4. CASE Walk \/ Terminate \/ Drain \/ Terminated
  BY <1>4, Zenon DEF Walk, Terminate, Drain, Terminated
<1> QED
  BY <1>1, <1>2, <1>3, <1>4, Zenon DEF Next, Target

\* A step changes the place of one waiter at most.
LEMMA OneMoves ==
  ASSUME Typing, NEW w \in Waiters, Wait(w)
  PROVE  \A v \in Waiters \ {w} : wpc'[v] = wpc[v] /\ got'[v] = got[v]
BY DEF Typing, Wait, Go, WaitLookup, WaitLoad, WaitSet, WaitRecheck, WaitDrop, WaitSuspend,
       Requeue, Resume, WaitCopy, WaitRemove, WaitRelease

\* A step keeps waiters to futures that are settled when they copy them.
LEMMA WaitStep ==
  ASSUME Typing, CurOK, StateOK, SettleOK, WaitOK, Next
  PROVE  WaitOK'
<1> USE FuturesAssumption
<1>1. CASE \A w \in Waiters : ~Wait(w)
  <2>1. UNCHANGED wpc
    BY <1>1, OthersFrame, Zenon
  <2> SUFFICES ASSUME NEW w \in Waiters
               PROVE  /\ wpc[w] # "start" => Known(WaitsFor[w])'
                      /\ wpc[w] \in Read \cup {"copy"} => state'[WaitsFor[w]] \in Final
    BY <2>1, Zenon DEF WaitOK, Known
  <2>2. WaitsFor[w] \in Asks /\ "start" \notin Read \cup {"copy"}
    BY Zenon DEF Read
  <2> QED
    BY <2>2, SettledStays, Zenon DEF WaitOK
<1>2. ASSUME NEW w \in Waiters, Wait(w)
      PROVE  WaitOK'
  <2> DEFINE f == WaitsFor[w]
  <2>1. f \in Asks /\ UNCHANGED <<state, apc>>
    BY <1>2, WaitFrame, Zenon
  <2> SUFFICES /\ wpc'[w] # "start" => Known(f)
               /\ wpc'[w] \in Read \cup {"copy"} => state[f] \in Final
    BY <1>2, <2>1, OneMoves DEF WaitOK, Known
  <2> USE DEF WaitOK, Known, Read, Final, Typing, Go, At
  <2>2. CASE WaitLookup(w) \/ WaitLoad(w) \/ WaitSet(w) \/ WaitRecheck(w)
    BY <2>2 DEF WaitLookup, WaitLoad, WaitSet, WaitRecheck
  <2>3. CASE WaitDrop(w) \/ WaitSuspend(w) \/ Requeue(w) \/ Resume(w)
    BY <2>3 DEF WaitDrop, WaitSuspend, Requeue, Resume
  <2>4. CASE WaitCopy(w) \/ WaitRemove(w) \/ WaitRelease(w)
    BY <2>4, Zenon DEF WaitCopy, WaitRemove, WaitRelease
  <2> QED
    BY <1>2, <2>2, <2>3, <2>4, Zenon DEF Wait
<1> QED
  BY <1>1, <1>2, Zenon

\* The future that a waiter takes the heap of had it still, if no other actor
\* waits for it: a step keeps what waiters have read.
LEMMA ReadStep ==
  ASSUME OneWaiter, SInv, ReadOK, Next
  PROVE  ReadOK'
<1> USE FuturesAssumption DEF SInv
<1>1. CASE \A w \in Waiters : ~Wait(w)
  <2>1. UNCHANGED <<wpc, got>> /\ \A f \in Asks : heap'[f] = "taken" => heap[f] = "taken"
    BY <1>1, OthersFrame, Zenon
  <2>2. ASSUME NEW w \in Waiters, wpc[w] \in Read
        PROVE  value'[WaitsFor[w]] = value[WaitsFor[w]]
    <3>1. WaitsFor[w] \in Asks /\ wpc[w] # "start"
      BY <2>2, Zenon DEF Read
    <3> QED
      BY <2>2, <3>1, SettledStays, Zenon DEF WaitOK
  <2> QED
    BY <2>1, <2>2, Zenon DEF ReadOK
<1>2. ASSUME NEW w \in Waiters, Wait(w)
      PROVE  ReadOK'
  <2> DEFINE f == WaitsFor[w]
  <2>1. f \in Asks /\ UNCHANGED <<state, value, apc>>
    BY <1>2, WaitFrame, Zenon
  <2> SUFFICES /\ wpc'[w] \in Read => got'[w] = value[f]
               /\ wpc[w] \in Read \cup {"done"} => wpc'[w] \in Read \cup {"done"}
               /\ \A g \in Asks : heap'[g] = "taken" =>
                    heap[g] = "taken" \/ (g = f /\ wpc'[w] \in Read)
    BY <1>2, <2>1, OneMoves DEF ReadOK
  <2> USE DEF WaitOK, Read, Typing, Go, At
  <2>2. CASE WaitLookup(w) \/ WaitLoad(w) \/ WaitSet(w) \/ WaitRecheck(w)
    BY <2>2 DEF WaitLookup, WaitLoad, WaitSet, WaitRecheck, futureVars
  <2>3. CASE WaitDrop(w) \/ WaitSuspend(w) \/ Requeue(w) \/ Resume(w)
    BY <2>3 DEF WaitDrop, WaitSuspend, Requeue, Resume, futureVars
  <2>4. CASE WaitCopy(w)
    <3>1. heap[f] # "taken"
      BY <2>1, <2>4 DEF WaitCopy, ReadOK, OneWaiter
    <3> QED
      BY <2>1, <2>4, <3>1, ZenonT(30) DEF WaitCopy
  <2>5. CASE WaitRemove(w) \/ WaitRelease(w)
    BY <2>5 DEF WaitRemove, WaitRelease, ReadOK
  <2> QED
    BY <1>2, <2>2, <2>3, <2>4, <2>5, Zenon DEF Wait
<1> QED
  BY <1>1, <1>2, Zenon

\* Stuttering keeps everything.
LEMMA Stutter ==
  ASSUME vars' = vars
  PROVE  (SInv => SInv') /\ (ReadOK => ReadOK')
BY DEF vars, SInv, Typing, CurOK, BoxOK, StateOK, SettleOK, WaitOK, ReadOK, Known

-----------------------------------------------------------------------------
\* sta_future_resolve, sta_future_fail and their callers: futures are settled
\* one at a time, by the target, and a final state has its value.
THEOREM SettleInvariant == Spec => []SInv
<1>1. Init => SInv
  BY InitHolds, Zenon
<1>2. SInv /\ [Next]_vars => SInv'
  BY TypingStep, KnownStep, StateStep, WaitStep, Stutter, Zenon DEF SInv
<1> QED
  BY <1>1, <1>2, PTL DEF Spec

\* No step changes the final state or the value of a settled future.
SettleOnce ==
  \A f \in Asks : state[f] \in Final => state'[f] = state[f] /\ value'[f] = value[f]

\* sta_future_resolve, sta_future_fail, fail_and_cleanup_future: a future is
\* settled once and for good, by whoever wins the CAS.
THEOREM FuturesSettleOnce == Spec => [][SettleOnce]_vars
<1>1. SInv /\ [Next]_vars => [SettleOnce]_vars
  BY SettledStays, Zenon DEF SInv, SettleOnce
<1> QED
  BY <1>1, SettleInvariant, PTL DEF Spec

\* prim_future_wait: what a waiter has read is the value published with the
\* final state, if each future is waited for by one actor.
THEOREM FuturesReadSettled ==
  ASSUME OneWaiter
  PROVE  Spec => []ReadsSettled
<1>1. Init => ReadOK
  BY InitHolds, Zenon
<1>2. SInv /\ ReadOK /\ [Next]_vars => ReadOK'
  BY ReadStep, Stutter, Zenon
<1>3. SInv /\ ReadOK => ReadsSettled
  <2> SUFFICES ASSUME SInv, ReadOK, NEW w \in Waiters, wpc[w] \in Read
               PROVE  got[w] = IF state[WaitsFor[w]] = "RESOLVED" THEN "reply" ELSE "failure"
    BY Zenon DEF ReadsSettled, Read
  <2>1. WaitsFor[w] \in Asks
    BY FuturesAssumption, Zenon
  <2> QED
    BY <2>1 DEF SInv, WaitOK, StateOK, ReadOK, Final
<1> QED
  BY <1>1, <1>2, <1>3, SettleInvariant, PTL DEF Spec
-----------------------------------------------------------------------------
(* Crashes: no ask is passed over by the walk, or is out of the table       *)
(* without having been settled.                                            *)

\* The asks that a crash has to fail are settled, at hand or ahead of the walk.
Crashing == tpc \in {"walk", "terminate"} \/ (mode = "crash" /\ tpc \in Busy)
Linked(g) == apc[g] # "link"
Queued(f) == \E i \in index..Len(box) : box[i] = f /\ \A j \in index..i : Linked(box[j])
Ahead(f) ==
  \/ tpc \in {"lookup", "cas", "store", "publish"} /\ cur = f
  \/ tpc # "terminate" /\ Queued(f)
PhaseOK ==
  /\ tpc \in {"walk", "terminate", "remove", "rel1"} => mode = "crash"
  /\ ~Crashing /\ tpc # "drain" => due = {} /\ index = 1
DueOK ==
  /\ \A f \in due : Known(f) /\ (state[f] \in Final \/ (Crashing /\ Ahead(f)))
  /\ tpc = "wake" => state[cur] \in Final
  /\ tpc = "remove" => state[cur] \in Final \/ cur \notin due

\* A future out of the table is settled, unless the crash had no memory for it.
TableOK ==
  \A f \in Asks : apc[f] \notin {"idle", "refused"} /\ f \notin table =>
    state[f] \in Final \/ (f \notin due /\ (Crashing \/ tpc = "drain"))

CInv == PhaseOK /\ DueOK /\ TableOK
-----------------------------------------------------------------------------
\* Calls of sta_actor_ask_msg disturb neither the walk nor what is due.
LEMMA AskKeepsDue ==
  ASSUME SInv, CInv, NEW f \in Asks, Call(f) \/ ReleaseCaller(f)
  PROVE  CInv'
<1> USE DEF SInv, CInv, Typing, PhaseOK, DueOK, TableOK, Known, Final
<1>1. UNCHANGED <<tpc, cur, mode, index, due>>
  BY Zenon DEF Call, Ask, Send, Link, Refuse, ReleaseCaller, targetVars
<1>2. Crashing' = Crashing
  BY <1>1, Zenon DEF Crashing
<1>3. ASSUME NEW g \in Asks, Known(g), Linked(g) PROVE Linked(g)'
  BY <1>3 DEF Linked, Call, Ask, Send, Link, Refuse, ReleaseCaller
<1>8. /\ Len(box) \in Nat /\ Len(box') \in Nat /\ Len(box') >= Len(box)
      /\ \A i \in 1..Len(box) : box'[i] = box[i] /\ box[i] \in Asks
  <2>1. CASE UNCHANGED box
    BY <2>1
  <2>2. CASE Send(f)
    BY <2>2, BoxFacts DEF Send
  <2> QED
    BY <2>1, <2>2, Zenon DEF Call, Ask, Link, Refuse, ReleaseCaller, targetVars
<1>9. ASSUME NEW g \in Asks, Ahead(g) PROVE Ahead(g)'
  <2>1. CASE tpc \in {"lookup", "cas", "store", "publish"} /\ cur = g
    BY <1>1, <2>1, Zenon DEF Ahead
  <2>2. CASE tpc # "terminate" /\ Queued(g)
    <3>1. PICK i \in index..Len(box) : box[i] = g /\ \A j \in index..i : Linked(box[j])
      BY <2>2, Zenon DEF Queued
    <3>2. i \in index'..Len(box') /\ i \in 1..Len(box) /\ \A j \in index'..i : j \in index..i /\ j \in 1..Len(box)
      BY <1>1, <1>8
    <3>3. \A j \in index'..i : Linked(box[j])'
      BY <1>3, <1>8, <3>1, <3>2, Zenon DEF BoxOK, Linked
    <3> QED
      BY <1>1, <1>8, <2>2, <3>1, <3>2, <3>3, Zenon DEF Ahead, Queued
  <2> QED
    BY <1>9, <2>1, <2>2, Zenon DEF Ahead
<1>4. PhaseOK'
  BY <1>1, <1>2, Zenon
<1>5. ASSUME NEW g \in Asks, Known(g)
      PROVE  Known(g)' /\ (state[g] \in Final => state'[g] \in Final)
  BY <1>5 DEF Call, Ask, Send, Link, Refuse, ReleaseCaller, futureVars
<1>6. DueOK'
  BY <1>1, <1>2, <1>5, <1>9, Zenon DEF CurOK, Busy, Looked
<1>7. TableOK'
  <2>1. CASE Ask(f)
    BY <1>1, <1>2, <2>1, Zenon DEF Ask
  <2>2. CASE Send(f) \/ Link(f) \/ ReleaseCaller(f)
    BY <1>1, <1>2, <2>2 DEF Send, Link, ReleaseCaller, futureVars
  <2>3. CASE Refuse(f)
    BY <1>1, <1>2, <2>3 DEF Refuse
  <2> QED
    BY <2>1, <2>2, <2>3, Zenon DEF Call
<1> QED
  BY <1>4, <1>6, <1>7, Zenon

\* A waiter takes out of the table what is settled.
LEMMA WaitKeepsDue ==
  ASSUME SInv, CInv, NEW w \in Waiters, Wait(w)
  PROVE  CInv'
<1>1. UNCHANGED <<state, apc, box, tpc, cur, mode, index, due>>
  BY WaitFrame, Zenon
<1>5. \A f : Queued(f)' <=> Queued(f)
  BY <1>1, Zenon DEF Queued, Linked
<1>2. PhaseOK' /\ DueOK'
  BY <1>1, <1>5, Zenon DEF CInv, PhaseOK, DueOK, Crashing, Ahead, Known
<1>3. \A f \in Asks : f \in table /\ f \notin table' => state[f] \in Final
  <2>1. CASE WaitRemove(w)
    BY <2>1, Zenon DEF WaitRemove, At, SInv, WaitOK, Read
  <2>2. CASE ~WaitRemove(w)
    BY <2>2, Zenon DEF Wait, WaitLookup, WaitLoad, WaitSet, WaitRecheck, WaitDrop, WaitSuspend, Requeue,
         Resume, WaitCopy, WaitRelease, futureVars
  <2> QED
    BY <2>1, <2>2, Zenon
<1>4. TableOK'
  BY <1>1, <1>3, Zenon DEF CInv, TableOK, Crashing, Known
<1> QED
  BY <1>2, <1>4, Zenon DEF CInv

\* What is left of a mailbox when its first message is taken.
LEMMA TailFacts ==
  ASSUME NEW s \in Seq(Asks), s # <<>>
  PROVE  /\ Len(s) \in Nat \ {0} /\ Head(s) = s[1] /\ Len(Tail(s)) = Len(s) - 1
         /\ \A i \in 1..Len(Tail(s)) : Tail(s)[i] = s[i + 1]
OBVIOUS

\* The message that crashes and those queued behind it are due.
LEMMA TakeKeepsDue ==
  ASSUME SInv, CInv, Take
  PROVE  CInv'
<1> USE DEF SInv, CInv, PhaseOK, DueOK, TableOK
<1>1. /\ ~Crashing /\ tpc = "idle" /\ due = {} /\ index = 1 /\ box # <<>>
      /\ box' = Tail(box) /\ UNCHANGED <<index, state, table, apc>>
  BY Zenon DEF Take, HasNext, Crashing, Busy, Looked, futureVars
<1>2. PICK o \in Outcomes \ {"terminated"} :
        /\ tpc' = IF o = "unknown" THEN "idle" ELSE "lookup"
        /\ mode' = IF o = "unknown" THEN mode ELSE o
        /\ cur' = IF o = "unknown" THEN NULL ELSE Head(box)
        /\ due' = IF o = "crash" THEN Reachable ELSE due
  BY Zenon DEF Take
<1>3. TableOK'
  BY <1>1, Zenon DEF Known
<1>4. /\ Len(box) \in Nat \ {0} /\ Head(box) = box[1] /\ Len(Tail(box)) = Len(box) - 1
      /\ \A i \in 1..Len(Tail(box)) : Tail(box)[i] = box[i + 1]
  BY <1>1, TailFacts, Zenon DEF Typing
<1>5. CASE o # "crash"
  BY <1>1, <1>2, <1>3, <1>5, Zenon DEF Crashing, Busy, Looked
<1>6. CASE o = "crash"
  <2>1. /\ tpc' = "lookup" /\ mode' = "crash" /\ cur' = Head(box)
        /\ due' = Reachable /\ Crashing'
    BY <1>2, <1>6, Zenon DEF Crashing, Busy, Looked
  <2>2. ASSUME NEW g, NEW i \in 1..Len(box), g = box[i], \A j \in 1..i : Linked(box[j])
        PROVE  Known(g)' /\ Ahead(g)'
    <3>1. Known(g)'
      BY <1>1, <2>2, Zenon DEF BoxOK, Known
    <3> HIDE DEF SInv, CInv, PhaseOK, DueOK, TableOK
    <3>2. CASE i = 1
      BY <1>4, <2>1, <2>2, <3>1, <3>2, Zenon DEF Ahead
    <3>3. CASE i # 1
      <4>1. i - 1 \in 1..Len(box') /\ box'[i - 1] = g
        BY <1>1, <1>4, <2>2, <3>3
      <4>2. \A j \in 1..(i - 1) : box'[j] = box[j + 1] /\ j + 1 \in 1..i
        BY <1>1, <1>4, <2>2
      <4>3. \A j \in index'..(i - 1) : Linked(box[j])'
        BY <1>1, <2>2, <4>2, Zenon DEF Linked
      <4> QED
        BY <1>1, <2>1, <3>1, <4>1, <4>3, Zenon DEF Ahead, Queued
    <3> QED
      BY <3>1, <3>2, <3>3, Zenon
  <2>3. ASSUME NEW g \in due' PROVE Known(g)' /\ Ahead(g)'
    <3>1. PICK i \in 1..Len(box) : g = box[i] /\ \A j \in 1..i : Linked(box[j])
      BY <2>1, <2>3, Zenon DEF Reachable, Linked
    <3> QED
      BY <2>2, <3>1, Zenon
  <2> QED
    BY <1>3, <2>1, <2>3, Zenon
<1> QED
  BY <1>5, <1>6, Zenon

\* fail_future_for_crash settles the future at hand, or finds it settled.
LEMMA SettleKeepsDue ==
  ASSUME SInv, CInv, Lookup \/ Cas \/ Store \/ Publish \/ Wake
  PROVE  CInv'
<1>7. \A f : Queued(f)' <=> Queued(f)
  BY Zenon DEF Lookup, Cas, Store, Publish, Wake, Queued, Linked
<1> USE <1>7 DEF SInv, CInv, Typing, CurOK, PhaseOK, DueOK, TableOK, Known, Busy, Looked, Final
<1>1. tpc \in Busy /\ cur \in Asks /\ UNCHANGED <<box, cur, mode, index, table, apc>>
  BY Zenon DEF Lookup, Cas, Store, Publish, Wake, futureVars
<1>2. CASE Lookup
  <2>1. CASE cur \in table
    BY <1>1, <1>2, <2>1 DEF Lookup, Crashing, Ahead
  <2>2. CASE cur \notin table
    <3>1. state[cur] \in Final \/ cur \notin due
      BY <1>1, <2>2, <1>2, Zenon DEF Lookup
    <3>2. tpc' = Onward(mode) /\ UNCHANGED <<state, due>>
      BY <1>2, <2>2, Zenon DEF Lookup
    <3> QED
      BY <1>1, <1>2, <3>1, <3>2 DEF Onward, Crashing, Ahead, Lookup
  <2> QED
    BY <2>1, <2>2, Zenon
<1>3. CASE Cas
  <2>1. CASE state[cur] = "PENDING"
    BY <1>1, <1>3, <2>1 DEF Cas, Crashing, Ahead
  <2>2. CASE state[cur] # "PENDING"
    <3>1. state[cur] \in Final
      BY <1>1, <1>3, <2>2, Zenon DEF Cas, StateOK
    <3> QED
      BY <1>1, <1>3, <2>2, <3>1, Zenon DEF Cas, Settled, Crashing, Ahead
  <2> QED
    BY <2>1, <2>2, Zenon
<1>4. CASE Store
  BY <1>1, <1>4, Zenon DEF Store, Crashing, Ahead
<1>5. CASE Publish
  BY <1>1, <1>5 DEF Publish, Crashing, Ahead
<1>6. CASE Wake
  BY <1>1, <1>6, Zenon DEF Wake, Settled, Crashing, Ahead, futureVars
<1> QED
  BY <1>2, <1>3, <1>4, <1>5, <1>6, Zenon

\* The future at hand leaves the table settled, or for lack of memory.
LEMMA ReleaseKeepsDue ==
  ASSUME SInv, CInv, RemoveFailed \/ ReleaseTable \/ ReleaseLookup
  PROVE  CInv'
<1>4. \A f : Queued(f)' <=> Queued(f)
  BY Zenon DEF RemoveFailed, ReleaseTable, ReleaseLookup, Queued, Linked
<1> USE <1>4 DEF SInv, CInv, Typing, CurOK, PhaseOK, DueOK, TableOK, Known, Busy, Looked, Final
<1>1. CASE RemoveFailed
  BY <1>1, Zenon DEF RemoveFailed, Crashing, Ahead
<1>2. CASE ReleaseTable
  BY <1>2, Zenon DEF ReleaseTable, Crashing, Ahead
<1>3. CASE ReleaseLookup
  BY <1>3, Zenon DEF ReleaseLookup, Onward, Crashing, Ahead
<1> QED
  BY <1>1, <1>2, <1>3, Zenon

\* The walk passes no message over, and when it ends nothing due is ahead.
LEMMA WalkKeepsDue ==
  ASSUME SInv, CInv, Walk
  PROVE  CInv'
<1> USE DEF SInv, CInv, Typing, PhaseOK, DueOK, TableOK, Known, Final
<1>1. tpc = "walk" /\ mode = "crash" /\ UNCHANGED <<state, table, apc, box, mode, due>>
  BY Zenon DEF Walk, futureVars
<1>2. Crashing /\ Crashing'
  BY <1>1, Zenon DEF Walk, Crashing, Busy
<1>3. ASSUME NEW f \in due, Ahead(f) PROVE Ahead(f)'
  <2>1. PICK i \in index..Len(box) : box[i] = f /\ \A j \in index..i : Linked(box[j])
    BY <1>1, <1>3, Zenon DEF Ahead, Queued
  <2>2. index \in index..i /\ index <= Len(box)
    BY <2>1
  <2>3. tpc' = "lookup" /\ index' = index + 1 /\ cur' = box[index]
    BY <2>1, <2>2, Zenon DEF Walk, Linked
  <2>4. CASE i = index
    BY <2>1, <2>3, <2>4, Zenon DEF Ahead
  <2>5. CASE i # index
    <3>1. i \in index'..Len(box') /\ \A j \in index'..i : j \in index..i
      BY <1>1, <2>1, <2>3, <2>5
    <3>2. \A j \in index'..i : Linked(box[j])'
      BY <1>1, <2>1, <3>1, Zenon DEF Linked
    <3> QED
      BY <1>1, <2>1, <2>3, <3>1, <3>2, Zenon DEF Ahead, Queued
  <2> QED
    BY <2>4, <2>5, Zenon
<1> QED
  BY <1>1, <1>2, <1>3, Zenon DEF Walk

\* The drain begins with nothing due, and does not bring anything back.
LEMMA DrainKeepsDue ==
  ASSUME SInv, CInv, Terminate \/ Drain \/ Terminated
  PROVE  CInv'
<1> USE DEF SInv, CInv, PhaseOK, DueOK, TableOK, Known, Crashing, Busy, Looked
<1>1. CASE Terminate
  BY <1>1, Zenon DEF Terminate, Ahead, futureVars
<1>2. CASE Drain
  BY <1>2, Zenon DEF Drain, Ahead, futureVars
<1>3. CASE Terminated
  BY <1>3, Zenon DEF Terminated, futureVars
<1> QED
  BY <1>1, <1>2, <1>3, Zenon

-----------------------------------------------------------------------------
\* handle_actor_exception, sta_mailbox_walk: what was running, or could be
\* reached in the mailbox, when the actor crashed is settled before the mailbox
\* is drained, as far as there is memory for the reason.
THEOREM CrashFailsAllPending == Spec => []CrashFailsPending
<1>1. Init => CInv
  BY Zenon DEF Init, CInv, PhaseOK, DueOK, TableOK, Crashing, Busy, Looked, Known
<1>2. SInv /\ CInv /\ [Next]_vars => CInv'
  <2>1. SInv /\ CInv /\ Next => CInv'
    BY AskKeepsDue, WaitKeepsDue, TakeKeepsDue, SettleKeepsDue, ReleaseKeepsDue, WalkKeepsDue,
       DrainKeepsDue DEF Next, Target
  <2>2. CInv /\ vars' = vars => CInv'
    BY DEF vars, CInv, PhaseOK, DueOK, TableOK, Crashing, Ahead, Queued, Linked, Known
  <2> QED
    BY <2>1, <2>2, Zenon
<1>3. CInv => CrashFailsPending
  BY Zenon DEF CInv, DueOK, Crashing, Busy, Looked, CrashFailsPending
<1> QED
  BY <1>1, <1>2, <1>3, SettleInvariant, PTL DEF Spec
-----------------------------------------------------------------------------
(* Reference counts *)

One(b) == IF b THEN 1 ELSE 0

\* Where a waiter holds the reference of its lookup, and the waiters that do.
Holding == {"load", "set", "recheck", "drop", "copy", "remove", "rel1", "rel2"}
Waiting(f) == {w \in Waiters : WaitsFor[w] = f /\ wpc[w] \in Holding}

\* The target, or a waiter, has the table's reference to release.
TargetReleases(f) == tpc = "rel1" /\ cur = f
WaiterReleases(f) == \E w \in Waiters : WaitsFor[w] = f /\ wpc[w] = "rel1"

\* References in use, apart from the waiters'.
Others(f) ==
  One(apc[f] \in {"send", "link", "held"})
  + One(f \in table \/ TargetReleases(f) \/ WaiterReleases(f))
  + One(tpc \in Looked /\ cur = f)

\* A future is in the table until it is taken out, and if that happens once one
\* has the table's reference to release.
TakesOK ==
  /\ takes \in [Asks -> Nat]
  /\ \A f \in Asks :
       /\ takes[f] = 0 =>
            /\ apc[f] \notin {"idle", "refused"} => f \in table
            /\ ~TargetReleases(f) /\ ~WaiterReleases(f)
       /\ takes[f] > 0 => f \notin table /\ Known(f)
       /\ takes[f] <= 1 => ~(TargetReleases(f) /\ WaiterReleases(f))
  /\ \A x, y \in Waiters :
       WaitsFor[x] = WaitsFor[y] /\ wpc[x] = "rel1" /\ wpc[y] = "rel1"
         /\ takes[WaitsFor[x]] <= 1 => x = y

RefsOK ==
  /\ refs \in [Asks -> Int]
  /\ \A f \in Asks : takes[f] <= 1 => refs[f] >= Others(f) + Cardinality(Waiting(f))

\* The invariant of counting.
RInv == TakesOK /\ RefsOK
-----------------------------------------------------------------------------
\* The waiters that hold a reference can be counted.
LEMMA WaitingCounts ==
  ASSUME NEW f
  PROVE  /\ IsFiniteSet(Waiting(f)) /\ Cardinality(Waiting(f)) \in Nat
         /\ Waiting(f) = {} => Cardinality(Waiting(f)) = 0
<1>1. Waiting(f) \in SUBSET Waiters
  BY Zenon DEF Waiting
<1>2. IsFiniteSet(Waiting(f))
  BY <1>1, FuturesAssumption, FS_Subset, Zenon
<1> QED
  BY <1>2, FS_CardinalityType, FS_EmptySet, Zenon

\* RefsCover counts the references that the invariant counts.
LEMMA HoldersSplit ==
  ASSUME NEW f \in Asks
  PROVE  Holders(f) = Others(f) + Cardinality(Waiting(f))
<1> DEFINE S(places) == {w \in Waiters : WaitsFor[w] = f /\ wpc[w] \in places}
<1>1. S({"rel1"}) # {} <=> WaiterReleases(f)
  BY Zenon DEF WaiterReleases
<1>2. S({"load", "set", "recheck", "drop", "copy", "remove", "rel1", "rel2"}) = Waiting(f)
  BY Zenon DEF Waiting, Holding
<1> HIDE DEF S
<1> QED
  BY <1>1, <1>2, Zenon DEF Holders, Others, One, TargetReleases, S

\* The initial state satisfies the invariant.
LEMMA RefsInit == Init => RInv
<1> SUFFICES ASSUME Init PROVE RInv
  BY Zenon
<1>1. \A f \in Asks : Waiting(f) = {} /\ Others(f) = 0
  BY DEF Init, Waiting, Holding, Others, One, TargetReleases, WaiterReleases, Looked
<1>2. \A f \in Asks : Cardinality(Waiting(f)) = 0
  BY <1>1, WaitingCounts, Zenon
<1> QED
  BY <1>1, <1>2 DEF Init, RInv, TakesOK, RefsOK, TargetReleases, WaiterReleases

\* Reference counts stay integers.
LEMMA RefsTyping ==
  ASSUME refs \in [Asks -> Int], Next
  PROVE  refs' \in [Asks -> Int]
<1> USE DEF futureVars, Retain, Release
<1>1. ASSUME NEW f \in Asks, Call(f) \/ ReleaseCaller(f)
      PROVE  refs' \in [Asks -> Int]
  BY <1>1 DEF Call, Ask, Send, Link, Refuse, ReleaseCaller
<1>2. CASE Take \/ Cas \/ Wake \/ Store \/ Publish \/ RemoveFailed \/ Walk \/ Terminate \/ Drain \/ Terminated
  BY <1>2, Zenon DEF Take, Cas, Wake, Store, Publish, RemoveFailed, Walk, Terminate, Drain, Terminated
<1>3. CASE Lookup
  BY <1>3 DEF Lookup
<1>4. CASE ReleaseTable \/ ReleaseLookup
  <2>1. refs' = [refs EXCEPT ![cur] = @ - 1]
    BY <1>4, Zenon DEF ReleaseTable, ReleaseLookup
  <2>2. \A f \in Asks : refs'[f] \in Int
    BY <2>1
  <2>3. refs' = [f \in Asks |-> refs'[f]]
    BY <2>1, Zenon
  <2> QED
    BY <2>2, <2>3, Zenon
<1>5. ASSUME NEW w \in Waiters, Wait(w) PROVE refs' \in [Asks -> Int]
  BY <1>5, SMTT(20) DEF Wait, WaitLookup, WaitLoad, WaitSet, WaitRecheck, WaitDrop, WaitSuspend, Requeue,
              Resume, WaitCopy, WaitRemove, WaitRelease
<1> QED
  BY <1>1, <1>2, <1>3, <1>4, <1>5, Zenon DEF Next, Target

\* Askers and target take out and release only what they hold.
LEMMA OthersCount ==
  ASSUME SInv, RInv, Next, \A w \in Waiters : ~Wait(w)
  PROVE  RInv'
<1>1. UNCHANGED wpc
  BY OthersFrame, Zenon DEF SInv
<1>2. refs' \in [Asks -> Int]
  BY RefsTyping, Zenon DEF RInv, RefsOK
<1>3. \A f : Waiting(f)' = Waiting(f) /\ (WaiterReleases(f)' <=> WaiterReleases(f))
  BY <1>1, Zenon DEF Waiting, WaiterReleases
<1>4. \A f \in Asks : ~Known(f) => ~WaiterReleases(f) /\ Waiting(f) = {}
  BY Zenon DEF SInv, WaitOK, Waiting, WaiterReleases, Holding
<1>5. \A f \in Asks : ~Known(f) => ~TargetReleases(f) /\ ~(tpc \in Looked /\ cur = f)
  BY Zenon DEF SInv, CurOK, TargetReleases, Busy, Looked
<1>6. takes' \in [Asks -> Nat] /\ \A f \in Asks : takes'[f] >= takes[f]
  <2>1. CASE RemoveFailed
    BY <2>1, SMT DEF RemoveFailed, RInv, TakesOK, SInv, CurOK, Busy, Looked
  <2>2. CASE ~RemoveFailed
    <3>1. takes' = takes
      BY <2>2, Zenon DEF Next, Call, Ask, Send, Link, Refuse, ReleaseCaller, Target, Take, Lookup, Cas,
           Store, Publish, Wake, ReleaseTable, ReleaseLookup, Walk, Terminate, Drain, Terminated, futureVars
    <3> QED
      BY <3>1 DEF RInv, TakesOK
  <2> QED
    BY <2>1, <2>2, Zenon
<1>7. ASSUME NEW f \in Asks
      PROVE  /\ takes'[f] = 0 =>
                  /\ apc'[f] \notin {"idle", "refused"} => f \in table'
                  /\ ~TargetReleases(f)' /\ ~WaiterReleases(f)
             /\ takes'[f] > 0 => f \notin table' /\ Known(f)'
             /\ takes'[f] <= 1 => ~(TargetReleases(f)' /\ WaiterReleases(f))
             /\ takes'[f] <= 1 => refs'[f] >= Others(f)' + Cardinality(Waiting(f))
  <2> DEFINE R == WaiterReleases(f)
             h == Cardinality(Waiting(f))
             Goal == /\ takes'[f] = 0 =>
                          /\ apc'[f] \notin {"idle", "refused"} => f \in table'
                          /\ ~TargetReleases(f)' /\ ~R
                     /\ takes'[f] > 0 => f \notin table' /\ Known(f)'
                     /\ takes'[f] <= 1 => ~(TargetReleases(f)' /\ R)
                     /\ takes'[f] <= 1 => refs'[f] >= Others(f)' + h
  <2>1. /\ takes[f] = 0 =>
             /\ apc[f] \notin {"idle", "refused"} => f \in table
             /\ ~TargetReleases(f) /\ ~R
        /\ takes[f] > 0 => f \notin table /\ Known(f)
        /\ takes[f] <= 1 => ~(TargetReleases(f) /\ R)
        /\ takes \in [Asks -> Nat] /\ takes[f] \in Nat /\ refs[f] \in Int /\ refs'[f] \in Int
        /\ R' = R /\ R \in BOOLEAN
        /\ ~Known(f) => ~R /\ ~TargetReleases(f) /\ ~(tpc \in Looked /\ cur = f)
        /\ refs \in [Asks -> Int] /\ (takes[f] <= 1 => refs[f] >= Others(f) + h)
    BY <1>2, <1>3, <1>4, <1>5, Zenon DEF RInv, TakesOK, RefsOK, WaiterReleases
  <2>3. h \in Nat /\ (~Known(f) => h = 0)
    BY <1>4, WaitingCounts, Zenon
  <2> HIDE DEF R, h
  <2>2. Goal
    <3> USE <2>1, <2>3 DEF SInv, Typing, CurOK, Busy, Looked, Known, One, Others, TargetReleases, futureVars, targetVars, R
    <3> HIDE DEF WaiterReleases
    <3>14. ASSUME UNCHANGED <<refs, takes, table>>,
                  apc'[f] \in {"send", "link", "held"} <=> apc[f] \in {"send", "link", "held"},
                  apc'[f] \notin {"idle", "refused"} => apc[f] \notin {"idle", "refused"},
                  Known(f) => Known(f)', TargetReleases(f)' <=> TargetReleases(f),
                  (tpc \in Looked /\ cur = f)' <=> (tpc \in Looked /\ cur = f)
           PROVE  Goal
      <4> HIDE DEF Known, TargetReleases, Looked, Others, R, SInv, Typing, CurOK
      <4>1. Others(f)' = Others(f)
        BY <3>14, Zenon DEF Others, R
      <4> QED
        BY <3>14, <4>1, Zenon
    <3>1. ASSUME NEW g \in Asks, Ask(g) PROVE Goal
      <4>1. CASE g = f
        <5>4. ~Known(f)
          BY <3>1, <4>1, Zenon DEF Ask
        <5>5. takes[f] = 0
          <6> HIDE DEF Known
          <6> QED
            BY <5>4
        <5>1. ~R /\ ~TargetReleases(f) /\ ~(tpc \in Looked /\ cur = f) /\ h = 0 /\ takes[f] = 0
          <6> HIDE DEF Known, R, TargetReleases
          <6> QED
            BY <5>4, <5>5, Zenon
        <5>2. /\ takes'[f] = 0 /\ refs'[f] = 2 /\ apc'[f] = "send" /\ f \in table'
              /\ ~TargetReleases(f)' /\ ~(tpc \in Looked /\ cur = f)'
          BY <3>1, <4>1, <5>1, Zenon DEF Ask
        <5>3. Others(f)' = 2
          <6> HIDE DEF R, TargetReleases, Looked
          <6> QED
            BY <5>1, <5>2
        <5> QED
          BY <5>1, <5>2, <5>3
      <4>2. CASE g # f
        BY <3>1, <4>2, Zenon DEF Ask
      <4> QED
        BY <4>1, <4>2, Zenon
    <3>2. ASSUME NEW g \in Asks, Send(g) \/ Link(g) PROVE Goal
      BY <3>2, <3>14 DEF Send, Link
    <3>3. ASSUME NEW g \in Asks, Refuse(g) PROVE Goal
      BY <3>3 DEF Refuse, Release
    <3>4. ASSUME NEW g \in Asks, ReleaseCaller(g) PROVE Goal
      BY <3>4 DEF ReleaseCaller, Release
    <3>5. CASE Take
      BY <3>5, <3>14, Zenon DEF Take
    <3>6. CASE Lookup
      BY <3>6 DEF Lookup, Retain, Onward
    <3>7. CASE Cas \/ Wake
      BY <3>7, <3>14, Zenon DEF Cas, Wake, Settled
    <3>8. CASE Store \/ Publish
      BY <3>8, <3>14, Zenon DEF Store, Publish
    <3>9. CASE RemoveFailed
      BY <3>9 DEF RemoveFailed
    <3>10. CASE ReleaseTable
      BY <3>10 DEF ReleaseTable, Release
    <3>11. CASE ReleaseLookup
      BY <3>11 DEF ReleaseLookup, Release, Onward
    <3>12. CASE Walk
      BY <3>12, <3>14, Zenon DEF Walk
    <3>13. CASE Terminate \/ Terminated \/ Drain
      BY <3>13, <3>14, Zenon DEF Terminate, Terminated, Drain
    <3> QED
      BY <3>1, <3>2, <3>3, <3>4, <3>5, <3>6, <3>7, <3>8, <3>9, <3>10, <3>11, <3>12, <3>13, ZenonT(30) DEF Next, Call, Target
  <2> QED
    BY <2>2, Zenon DEF R, h
<1>8. TakesOK'
  <2>1. ASSUME NEW x \in Waiters, NEW y \in Waiters, WaitsFor[x] = WaitsFor[y], wpc[x] = "rel1",
               wpc[y] = "rel1", takes'[WaitsFor[x]] <= 1
        PROVE  x = y
    <3>1. takes[WaitsFor[x]] <= 1
      BY <1>6, <2>1, FuturesAssumption DEF RInv, TakesOK
    <3> QED
      BY <2>1, <3>1, ZenonT(30) DEF RInv, TakesOK
  <2> QED
    BY <1>1, <1>3, <1>6, <1>7, <2>1, Zenon DEF TakesOK
<1>9. RefsOK'
  <2> SUFFICES ASSUME NEW f \in Asks, takes'[f] <= 1
               PROVE  refs'[f] >= Others(f)' + Cardinality(Waiting(f)')
    BY <1>2, Zenon DEF RefsOK
  <2> QED
    BY <1>3, <1>7, Zenon
<1> QED
  BY <1>8, <1>9, Zenon DEF RInv

\* A waiter's step changes the count of those that hold its future's reference
\* as it moves in and out of the places where one is held.
LEMMA CountMoves ==
  ASSUME Typing, NEW w \in Waiters, Wait(w)
  PROVE  /\ \A g : g # WaitsFor[w] => Waiting(g)' = Waiting(g)
         /\ Cardinality(Waiting(WaitsFor[w])') = Cardinality(Waiting(WaitsFor[w]))
              + One(wpc'[w] \in Holding) - One(wpc[w] \in Holding)
<1> DEFINE f == WaitsFor[w]
           S == Waiting(f)
           T == Waiting(f) \ {w}
<1>1. \A x \in Waiters \ {w} : wpc'[x] = wpc[x]
  BY OneMoves, Zenon
<1>2. \A g : g # f => Waiting(g)' = Waiting(g)
  BY <1>1, Zenon DEF Waiting
<1>3. /\ S = IF wpc[w] \in Holding THEN T \cup {w} ELSE T
      /\ Waiting(f)' = IF wpc'[w] \in Holding THEN T \cup {w} ELSE T
  BY <1>1, Zenon DEF Waiting
<1>4. IsFiniteSet(T) /\ Cardinality(T) \in Nat /\ Cardinality(T \cup {w}) = Cardinality(T) + 1
  <2>1. IsFiniteSet(S)
    BY WaitingCounts, Zenon
  <2>2. T \in SUBSET S /\ w \notin T
    BY Zenon
  <2> HIDE DEF S, T
  <2>3. IsFiniteSet(T)
    BY <2>1, <2>2, FS_Subset, Zenon
  <2> QED
    BY <2>2, <2>3, FS_AddElement, FS_CardinalityType, Zenon
<1> HIDE DEF S, T
<1>5. Cardinality(S) = Cardinality(T) + One(wpc[w] \in Holding)
  BY <1>3, <1>4 DEF One
<1>6. Cardinality(Waiting(f)') = Cardinality(T) + One(wpc'[w] \in Holding)
  BY <1>3, <1>4 DEF One
<1>7. One(wpc[w] \in Holding) \in Int /\ One(wpc'[w] \in Holding) \in Int
  BY DEF One
<1>8. Cardinality(Waiting(f)') = Cardinality(S) + One(wpc'[w] \in Holding) - One(wpc[w] \in Holding)
  BY <1>4, <1>5, <1>6, <1>7
<1> QED
  BY <1>2, <1>8, Zenon DEF S

\* What a waiter's step does to the table and to the references of its future.
LEMMA WaiterMoves ==
  ASSUME SInv, refs \in [Asks -> Int], takes \in [Asks -> Nat], NEW w \in Waiters, Wait(w),
         NEW f, f = WaitsFor[w]
  PROVE  /\ table' = IF wpc[w] = "remove" THEN table \ {f} ELSE table
         /\ takes' = IF wpc[w] = "remove" THEN [takes EXCEPT ![f] = @ + 1] ELSE takes
         /\ refs' \in [Asks -> Int] /\ \A g \in Asks \ {f} : refs'[g] = refs[g]
         /\ refs'[f] - refs[f] >=
              One(wpc'[w] \in Holding) - One(wpc[w] \in Holding) - One(wpc[w] = "rel1")
         /\ wpc'[w] = "rel1" <=> wpc[w] = "remove"
<1> DEFINE Goal ==
         /\ table' = IF wpc[w] = "remove" THEN table \ {f} ELSE table
         /\ takes' = IF wpc[w] = "remove" THEN [takes EXCEPT ![f] = @ + 1] ELSE takes
         /\ refs' \in [Asks -> Int] /\ \A g \in Asks \ {f} : refs'[g] = refs[g]
         /\ refs'[f] - refs[f] >=
              One(wpc'[w] \in Holding) - One(wpc[w] \in Holding) - One(wpc[w] = "rel1")
         /\ wpc'[w] = "rel1" <=> wpc[w] = "remove"
<1>1. f \in Asks /\ refs[f] \in Int
  BY FuturesAssumption, Zenon
<1> USE <1>1 DEF SInv, Typing, Go, At, futureVars, Holding, One
<1>2. CASE WaitLookup(w)
  BY <1>2 DEF WaitLookup, Retain
<1>3. CASE WaitLoad(w) \/ WaitSet(w) \/ WaitRecheck(w)
  BY <1>3 DEF WaitLoad, WaitSet, WaitRecheck
<1>4. CASE WaitDrop(w)
  BY <1>4 DEF WaitDrop, Release
<1>5. CASE WaitSuspend(w) \/ Requeue(w)
  BY <1>5 DEF WaitSuspend, Requeue
<1>6. CASE Resume(w)
  BY <1>6 DEF Resume
<1>7. CASE WaitCopy(w)
  BY <1>7 DEF WaitCopy
<1>8. CASE WaitRemove(w)
  BY <1>8 DEF WaitRemove
<1>9. CASE WaitRelease(w)
  BY <1>9 DEF WaitRelease, Release
<1> QED
  BY <1>2, <1>3, <1>4, <1>5, <1>6, <1>7, <1>8, <1>9, Zenon DEF Wait

\* A waiter takes out and releases only what it holds.
LEMMA WaiterCounts ==
  ASSUME SInv, RInv, NEW w \in Waiters, Wait(w)
  PROVE  RInv'
<1> DEFINE f == WaitsFor[w]
<1>1. f \in Asks /\ UNCHANGED <<apc, tpc, cur>>
  BY FuturesAssumption, WaitFrame, Zenon
<1>2. \A x \in Waiters \ {w} : wpc'[x] = wpc[x]
  BY OneMoves, Zenon DEF SInv
<1>3. /\ table' = IF wpc[w] = "remove" THEN table \ {f} ELSE table
      /\ takes' = IF wpc[w] = "remove" THEN [takes EXCEPT ![f] = @ + 1] ELSE takes
      /\ refs' \in [Asks -> Int] /\ \A g \in Asks \ {f} : refs'[g] = refs[g]
      /\ refs'[f] - refs[f] >=
           One(wpc'[w] \in Holding) - One(wpc[w] \in Holding) - One(wpc[w] = "rel1")
      /\ wpc'[w] = "rel1" <=> wpc[w] = "remove"
  BY WaiterMoves, Zenon DEF RInv, TakesOK, RefsOK
<1>4. wpc[w] = "remove" \/ wpc[w] = "rel1" => Known(f)
  BY Zenon DEF SInv, WaitOK
<1>5. \A g \in Asks : TargetReleases(g)' <=> TargetReleases(g)
  BY <1>1, Zenon DEF TargetReleases
<1>6. \A g \in Asks \ {f} : WaiterReleases(g)' <=> WaiterReleases(g)
  BY <1>2, Zenon DEF WaiterReleases
<1>7. wpc[w] = "remove" => WaiterReleases(f)'
  BY <1>3, Zenon DEF WaiterReleases
<1>8. wpc[w] = "rel1" => WaiterReleases(f) /\ takes[f] > 0
  BY <1>1 DEF WaiterReleases, RInv, TakesOK
<1>9. wpc[w] = "rel1" /\ takes[f] <= 1 => ~WaiterReleases(f)'
  BY <1>2, <1>3, ZenonT(30) DEF WaiterReleases, RInv, TakesOK
<1>10. wpc[w] \notin {"remove", "rel1"} => (WaiterReleases(f)' <=> WaiterReleases(f))
  BY <1>2, <1>3, Zenon DEF WaiterReleases
<1>11. /\ takes \in [Asks -> Nat] /\ takes[f] \in Nat
       /\ takes' \in [Asks -> Nat] /\ \A g \in Asks : takes'[g] >= takes[g]
       /\ \A g \in Asks \ {f} : takes'[g] = takes[g] /\ (g \in table' <=> g \in table)
       /\ wpc[w] = "remove" => takes'[f] = takes[f] + 1 /\ f \notin table'
       /\ wpc[w] # "remove" => takes'[f] = takes[f] /\ (f \in table' <=> f \in table)
  BY <1>1, <1>3 DEF RInv, TakesOK
<1>12. ASSUME NEW x \in Waiters, NEW y \in Waiters, WaitsFor[x] = WaitsFor[y], wpc'[x] = "rel1",
              wpc'[y] = "rel1", takes'[WaitsFor[x]] <= 1
       PROVE  x = y
  <2>1. WaitsFor[x] \in Asks /\ takes[WaitsFor[x]] <= 1
    BY <1>11, <1>12, FuturesAssumption
  <2>2. CASE x # w /\ y # w
    BY <1>2, <1>12, <2>1, <2>2, Zenon DEF RInv, TakesOK
  <2>3. CASE (x = w \/ y = w) /\ x # y
    <3>1. WaitsFor[x] = f /\ wpc[w] = "remove" /\ WaiterReleases(f)
      BY <1>2, <1>3, <1>12, <2>3, Zenon DEF WaiterReleases
    <3>2. takes[f] = 0
      BY <1>11, <1>12, <3>1
    <3> QED
      BY <1>1, <3>1, <3>2, Zenon DEF RInv, TakesOK
  <2> QED
    BY <2>2, <2>3, Zenon
<1>13. ASSUME NEW g \in Asks
       PROVE  /\ takes'[g] = 0 =>
                   /\ apc[g] \notin {"idle", "refused"} => g \in table'
                   /\ ~TargetReleases(g) /\ ~WaiterReleases(g)'
              /\ takes'[g] > 0 => g \notin table' /\ Known(g)
              /\ takes'[g] <= 1 => ~(TargetReleases(g) /\ WaiterReleases(g)')
  <2>1. /\ takes[g] = 0 =>
             /\ apc[g] \notin {"idle", "refused"} => g \in table
             /\ ~TargetReleases(g) /\ ~WaiterReleases(g)
        /\ takes[g] > 0 => g \notin table /\ Known(g)
        /\ takes[g] <= 1 => ~(TargetReleases(g) /\ WaiterReleases(g))
    BY Zenon DEF RInv, TakesOK
  <2>2. CASE g # f
    BY <1>6, <1>11, <2>1, <2>2, Zenon
  <2>3. CASE g = f
    BY <1>4, <1>7, <1>8, <1>9, <1>10, <1>11, <2>1, <2>3
  <2> QED
    BY <2>2, <2>3, Zenon
<1>14. TakesOK'
  BY <1>1, <1>5, <1>11, <1>12, <1>13, Zenon DEF TakesOK, Known
<1>15. ASSUME NEW g \in Asks, takes'[g] <= 1
       PROVE  refs'[g] >= Others(g)' + Cardinality(Waiting(g)')
  <2>1. /\ takes[g] <= 1 /\ refs[g] \in Int /\ refs'[g] \in Int /\ refs[f] \in Int /\ refs'[f] \in Int
        /\ refs[g] >= Others(g) + Cardinality(Waiting(g))
    <3>1. takes[g] <= 1
      BY <1>11, <1>15
    <3> QED
      BY <1>1, <1>3, <3>1, Zenon DEF RInv, RefsOK
  <2>2. Others(g) \in Int /\ Others(g)' \in Int /\ Cardinality(Waiting(g)) \in Nat
    BY WaitingCounts DEF Others, One
  <2>3. CASE g # f
    <3>1. Others(g)' = Others(g)
      BY <1>1, <1>5, <1>6, <1>11, <2>3, Zenon DEF Others, One
    <3>2. Waiting(g)' = Waiting(g)
      BY <2>3, CountMoves, Zenon DEF SInv
    <3> QED
      BY <1>3, <2>1, <2>3, <3>1, <3>2, Zenon
  <2>4. CASE g = f
    <3> DEFINE in == One(wpc[w] \in Holding)
               in2 == One(wpc'[w] \in Holding)
               table1 == One(f \in table \/ TargetReleases(f) \/ WaiterReleases(f))
               table2 == One(f \in table' \/ TargetReleases(f) \/ WaiterReleases(f)')
               rest == One(apc[f] \in {"send", "link", "held"}) + One(tpc \in Looked /\ cur = f)
    <3>1. Cardinality(Waiting(f)') = Cardinality(Waiting(f)) + in2 - in
      BY CountMoves, Zenon DEF SInv
    <3>2. in \in Int /\ in2 \in Int /\ table1 \in Int /\ table2 \in Int /\ rest \in Int
      BY DEF One
    <3>3. table1 - One(wpc[w] = "rel1") >= table2
      <4>1. CASE wpc[w] = "remove"
        <5>1. takes[f] = 0
          BY <1>11, <1>15, <2>4, <4>1
        <5>2. f \in table
          BY <1>1, <1>4, <4>1, <5>1, Zenon DEF RInv, TakesOK, Known
        <5> QED
          BY <4>1, <5>2 DEF One
      <4>2. CASE wpc[w] = "rel1"
        <5>1. WaiterReleases(f) /\ ~WaiterReleases(f)' /\ takes[f] > 0
          BY <1>8, <1>9, <2>1, <2>4, <4>2, Zenon
        <5>2. ~TargetReleases(f) /\ f \notin table'
          BY <1>1, <1>11, <2>1, <2>4, <4>2, <5>1, ZenonT(30) DEF RInv, TakesOK
        <5> QED
          BY <4>2, <5>1, <5>2 DEF One
      <4>3. CASE wpc[w] \notin {"remove", "rel1"}
        <5>1. table2 = table1 /\ One(wpc[w] = "rel1") = 0
          BY <1>10, <1>11, <4>3, Zenon DEF One
        <5> QED
          BY <3>2, <5>1
      <4> QED
        BY <4>1, <4>2, <4>3, Zenon
    <3>4. Others(f) = rest + table1 /\ Others(f)' = rest + table2
      BY <1>1, <1>5, SMT DEF Others, One
    <3>5. One(wpc[w] = "rel1") \in Int /\ refs'[f] - refs[f] >= in2 - in - One(wpc[w] = "rel1")
      <4>1. One(wpc[w] = "rel1") \in Int
        BY DEF One
      <4> QED
        BY <1>3, <4>1, Zenon
    <3> HIDE DEF in, in2, table1, table2, rest
    <3> QED
      BY <2>1, <2>2, <2>4, <3>1, <3>2, <3>3, <3>4, <3>5
  <2> QED
    BY <2>3, <2>4, Zenon
<1> QED
  BY <1>3, <1>14, <1>15, Zenon DEF RInv, RefsOK

-----------------------------------------------------------------------------
\* sta_future_release, consume_future, route_reply, fail_future_for_crash: with
\* any number of waiters and a target that may crash, a future is not freed
\* under anyone before two have taken it out of the table.
THEOREM FuturesRefsCover == Spec => []RefsCover
<1>1. Init => RInv
  BY RefsInit, Zenon
<1>2. SInv /\ RInv /\ [Next]_vars => RInv'
  <2> SUFFICES ASSUME SInv, RInv, [Next]_vars PROVE RInv'
    BY Zenon
  <2>1. CASE UNCHANGED vars
    BY <2>1, Zenon DEF vars, RInv, TakesOK, RefsOK, Others, Waiting, TargetReleases, WaiterReleases, Known
  <2>2. CASE Next
    BY <2>2, OthersCount, WaiterCounts, Zenon
  <2> QED
    BY <2>1, <2>2, Zenon
<1>3. RInv => RefsCover
  BY HoldersSplit, Zenon DEF RInv, RefsOK, RefsCover, TakenOnce
<1> QED
  BY <1>1, <1>2, <1>3, SettleInvariant, PTL DEF Spec
=============================================================================
