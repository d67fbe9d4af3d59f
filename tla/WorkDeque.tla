----------------------------- MODULE WorkDeque -----------------------------
(***************************************************************************)
(* src/scheduler/deque.c: the Chase-Lev deque each worker keeps its        *)
(* runnable actors in.  The owner works at bottom, thieves at top; the     *)
(* two meet only on the last element, where a compare-and-swap on top      *)
(* decides.  Indices are unsigned and wrap, and the code compares them by  *)
(* the sign of their difference.                                           *)
(*                                                                         *)
(* Every access of a shared word is a step of its own.  The fences in pop  *)
(* and steal order the store to bottom before the load of top, so the      *)
(* steps are interleaved in a sequentially consistent order.               *)
(***************************************************************************)
EXTENDS Integers, Sequences, FiniteSets

CONSTANTS Thieves,
          Size,       \* STA_DEQUE_CAPACITY, a divisor of IndexMod
          IndexMod,   \* indices are taken modulo this (2^32 in the code)
          Starts,     \* indices an empty deque may have reached
          MaxPush,    \* bound: pushes, fewer than IndexMod
          NULL

ASSUME DequeAssumption ==
  /\ Size \in Nat \ {0} /\ IndexMod \in Nat /\ IndexMod > 2 /\ IndexMod % (2 * Size) = 0
  /\ MaxPush \in Nat /\ MaxPush < IndexMod
  /\ Starts \subseteq 0..(IndexMod - 1)

VARIABLES top, bottom, buf,
          opc, ob, ot,       \* owner: program counter, local b, local t
          tpc, tt, ta,       \* thieves: program counter, local t, local a
          pushed,            \* history: items pushed so far, 1..pushed
          pops, steals       \* history: items returned by pop and by steal

vars == <<top, bottom, buf, opc, ob, ot, tpc, tt, ta, pushed, pops, steals>>
ownerVars == <<opc, ob, ot>>
thiefVars == <<tpc, tt, ta>>

Index == 0..(IndexMod - 1)
Items == 1..MaxPush
Inc(i) == (i + 1) % IndexMod
Dec(i) == (i + IndexMod - 1) % IndexMod
Slot(i) == i % Size                          \* i & STA_DEQUE_MASK
Diff(i, j) == (i + IndexMod - j) % IndexMod  \* unsigned i - j
\* (int32_t)(i - j)
Signed(i, j) == IF Diff(i, j) >= IndexMod \div 2 THEN Diff(i, j) - IndexMod
                ELSE Diff(i, j)

TypeOK ==
  /\ top \in Index /\ bottom \in Index
  /\ buf \in [0..(Size - 1) -> Items \cup {NULL}]
  /\ opc \in {"idle", "store", "publish", "top", "restore", "cas", "won", "lost"}
  /\ ob \in Index /\ ot \in Index
  /\ tpc \in [Thieves -> {"idle", "bottom", "read", "cas"}]
  /\ tt \in [Thieves -> Index] /\ ta \in [Thieves -> Items \cup {NULL}]
  /\ pushed \in 0..MaxPush
  /\ pops \in Seq(Items) /\ steals \in Seq(Items)

\* An empty deque: a fresh one, or one that so many pushes have gone through.
Init ==
  /\ top \in Starts /\ bottom = top
  /\ buf = [i \in 0..(Size - 1) |-> NULL]
  /\ opc = "idle" /\ ob = 0 /\ ot = 0
  /\ tpc = [h \in Thieves |-> "idle"]
  /\ tt = [h \in Thieves |-> 0] /\ ta = [h \in Thieves |-> NULL]
  /\ pushed = 0 /\ pops = <<>> /\ steals = <<>>

-----------------------------------------------------------------------------
(* sta_deque_push *)

\* Faulty: accepts one element more than there are slots.
PushLoadOffByOne ==
  /\ opc = "idle" /\ pushed < MaxPush
  /\ Diff(bottom, top) <= Size
  /\ ob' = bottom
  /\ opc' = "store"
  /\ UNCHANGED <<top, bottom, buf, ot, thiefVars, pushed, pops, steals>>

\* Load bottom and top; return -1 when they are Size apart.
PushLoad ==
  /\ opc = "idle" /\ pushed < MaxPush
  /\ Diff(bottom, top) < Size
  /\ ob' = bottom
  /\ opc' = "store"
  /\ UNCHANGED <<top, bottom, buf, ot, thiefVars, pushed, pops, steals>>

PushStore ==
  /\ opc = "store"
  /\ buf' = [buf EXCEPT ![Slot(ob)] = pushed + 1]
  /\ opc' = "publish"
  /\ UNCHANGED <<top, bottom, ob, ot, thiefVars, pushed, pops, steals>>

PushPublish ==
  /\ opc = "publish"
  /\ bottom' = Inc(ob)
  /\ pushed' = pushed + 1
  /\ opc' = "idle"
  /\ UNCHANGED <<top, buf, ob, ot, thiefVars, pops, steals>>

-----------------------------------------------------------------------------
(* sta_deque_pop *)

\* bottom = 0 is taken to mean empty; otherwise claim the slot below bottom.
PopClaim ==
  /\ opc = "idle" /\ bottom # 0
  /\ ob' = Dec(bottom)
  /\ bottom' = Dec(bottom)
  /\ opc' = "top"
  /\ UNCHANGED <<top, buf, ot, thiefVars, pushed, pops, steals>>

\* Load top: past the claimed slot, the deque was empty; below it, the claimed
\* element is the owner's; on it, thieves may want it too.
PopTop ==
  /\ opc = "top"
  /\ ot' = top
  /\ opc' = CASE Signed(top, ob) > 0 -> "restore"
              [] top = ob            -> "cas"
              [] OTHER               -> "idle"
  /\ pops' = IF Signed(top, ob) < 0 THEN Append(pops, buf[Slot(ob)]) ELSE pops
  /\ UNCHANGED <<top, bottom, buf, ob, thiefVars, pushed, steals>>

PopRestore ==
  /\ opc = "restore"
  /\ bottom' = Inc(ob)
  /\ opc' = "idle"
  /\ UNCHANGED <<top, buf, ob, ot, thiefVars, pushed, pops, steals>>

\* Faulty: returns the element to the loser.
PopCasSwapped ==
  /\ opc = "cas"
  /\ top' = IF top = ot THEN Inc(ot) ELSE top
  /\ opc' = IF top = ot THEN "won" ELSE "lost"
  /\ pops' = IF top = ot THEN pops ELSE Append(pops, buf[Slot(ob)])
  /\ UNCHANGED <<bottom, buf, ob, ot, thiefVars, pushed, steals>>

PopCas ==
  /\ opc = "cas"
  /\ top' = IF top = ot THEN Inc(ot) ELSE top
  /\ opc' = IF top = ot THEN "won" ELSE "lost"
  /\ pops' = IF top = ot THEN Append(pops, buf[Slot(ob)]) ELSE pops
  /\ UNCHANGED <<bottom, buf, ob, ot, thiefVars, pushed, steals>>

\* Won or lost, the deque is empty and bottom follows top.
PopSettle ==
  /\ opc \in {"won", "lost"}
  /\ bottom' = Inc(ot)
  /\ opc' = "idle"
  /\ UNCHANGED <<top, buf, ob, ot, thiefVars, pushed, pops, steals>>

-----------------------------------------------------------------------------
(* sta_deque_steal *)

StealTop(h) ==
  /\ tpc[h] = "idle"
  /\ tt' = [tt EXCEPT ![h] = top]
  /\ tpc' = [tpc EXCEPT ![h] = "bottom"]
  /\ UNCHANGED <<top, bottom, buf, ownerVars, ta, pushed, pops, steals>>

StealBottom(h) ==
  /\ tpc[h] = "bottom"
  /\ tpc' = [tpc EXCEPT ![h] = IF Signed(bottom, tt[h]) <= 0 THEN "idle" ELSE "read"]
  /\ UNCHANGED <<top, bottom, buf, ownerVars, tt, ta, pushed, pops, steals>>

StealRead(h) ==
  /\ tpc[h] = "read"
  /\ ta' = [ta EXCEPT ![h] = buf[Slot(tt[h])]]
  /\ tpc' = [tpc EXCEPT ![h] = "cas"]
  /\ UNCHANGED <<top, bottom, buf, ownerVars, tt, pushed, pops, steals>>

StealCas(h) ==
  /\ tpc[h] = "cas"
  /\ IF top = tt[h]
     THEN top' = Inc(tt[h]) /\ steals' = Append(steals, ta[h])
     ELSE UNCHANGED <<top, steals>>
  /\ tpc' = [tpc EXCEPT ![h] = "idle"]
  /\ UNCHANGED <<bottom, buf, ownerVars, tt, ta, pushed, pops>>

Owner ==
  \/ PushLoad \/ PushStore \/ PushPublish
  \/ PopClaim \/ PopTop \/ PopRestore \/ PopCas \/ PopSettle

Thief(h) == StealTop(h) \/ StealBottom(h) \/ StealRead(h) \/ StealCas(h)

Next == Owner \/ \E h \in Thieves : Thief(h)

\* The owner keeps popping, and an operation that has begun runs to its end;
\* thieves need not come.
Fairness ==
  /\ WF_vars(PopClaim)
  /\ WF_vars(PushStore \/ PushPublish)
  /\ WF_vars(PopTop \/ PopRestore \/ PopCas \/ PopSettle)

Spec == Init /\ [][Next]_vars
FairSpec == Spec /\ Fairness

-----------------------------------------------------------------------------
(* Properties *)

\* Where bottom is, seen from outside an unfinished pop: the claimed element is
\* still in the deque until the owner has it, and once it is gone bottom has
\* yet to catch up with top.
LogicalBottom ==
  CASE opc = "top" -> Inc(bottom)
    [] opc \in {"restore", "won", "lost"} -> top
    [] opc = "cas" -> Inc(ot)
    [] OTHER -> bottom

\* The elements from top to bottom.
Contents ==
  [k \in 1..Diff(LogicalBottom, top) |-> buf[Slot((top + k - 1) % IndexMod)]]

Range(s) == {s[i] : i \in DOMAIN s}

\* The deque hands every pushed actor to one taker: the owner gets the newest,
\* a thief the oldest, and a race for the last element has one winner.
Abstract == INSTANCE DoubleEndedQueue
              WITH Item <- Items, Bound <- Size, items <- Contents,
                   popped <- pops, stolen <- steals

ImplementsDeque == Abstract!DSpec

\* sta_deque_pop takes bottom = 0 for empty: the owner overlooks actors when
\* the 32-bit index has come round.
Overlooked == opc = "idle" /\ bottom = 0 /\ Contents # <<>>

\* A pushed actor is handed out in the end, by the owner alone if need be,
\* unless the index has come round to 0 above it.
PushedIsTaken ==
  \A x \in Items :
    (x \in 1..pushed) ~> (x \in Range(pops) \cup Range(steals) \/ Overlooked)
=============================================================================
