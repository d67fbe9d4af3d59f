-------------------------- MODULE DoubleEndedQueue --------------------------
(***************************************************************************)
(* What a worker's run queue promises: its owner adds and removes at the   *)
(* bottom, thieves remove at the top, and every element is handed out once *)
(* to exactly one of them.                                                 *)
(***************************************************************************)
EXTENDS Integers, Sequences

CONSTANTS Item, Bound

VARIABLES items,   \* from top to bottom
          popped,  \* what the owner was handed, in this order
          stolen   \* what thieves were handed, in this order

dvars == <<items, popped, stolen>>

DInit == items = <<>> /\ popped = <<>> /\ stolen = <<>>

Push(x) ==
  /\ Len(items) < Bound
  /\ \A s \in {items, popped, stolen} : \A i \in DOMAIN s : s[i] # x
  /\ items' = Append(items, x)
  /\ UNCHANGED <<popped, stolen>>

PopBottom ==
  /\ items # <<>>
  /\ items' = SubSeq(items, 1, Len(items) - 1)
  /\ popped' = Append(popped, items[Len(items)])
  /\ UNCHANGED stolen

StealTop ==
  /\ items # <<>>
  /\ items' = Tail(items)
  /\ stolen' = Append(stolen, Head(items))
  /\ UNCHANGED popped

DNext == PopBottom \/ StealTop \/ \E x \in Item : Push(x)

DSpec == DInit /\ [][DNext]_dvars
=============================================================================
