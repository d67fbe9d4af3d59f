---------------------------- MODULE MessageQueue ----------------------------
(***************************************************************************)
(* What an actor's mailbox promises: a bounded first-in first-out queue.   *)
(* A message that is accepted joins the end; the owner takes messages from *)
(* the front, in the order they were accepted, each once.  Rejected sends  *)
(* leave the queue alone and are not steps of this specification.          *)
(***************************************************************************)
EXTENDS Integers, Sequences

CONSTANTS Message,   \* what may be sent
          Bound      \* the capacity; 0 means unbounded

VARIABLES queue,     \* accepted, not yet taken
          taken      \* everything the owner has taken, oldest first

qvars == <<queue, taken>>

QInit == queue = <<>> /\ taken = <<>>

Accept(m) ==
  /\ Bound > 0 => Len(queue) < Bound
  /\ queue' = Append(queue, m)
  /\ UNCHANGED taken

Take ==
  /\ queue # <<>>
  /\ queue' = Tail(queue)
  /\ taken' = Append(taken, Head(queue))

QNext == Take \/ \E m \in Message : Accept(m)

QSpec == QInit /\ [][QNext]_qvars

=============================================================================
