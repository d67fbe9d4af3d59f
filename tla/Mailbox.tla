------------------------------ MODULE Mailbox ------------------------------
(***************************************************************************)
(* src/actor/mailbox.c: the intrusive multi-producer single-consumer queue *)
(* behind every actor.  A producer wraps its message in a malloc'd node,   *)
(* reserves a place with a fetch-and-add on count, swings tail to the node *)
(* with an atomic exchange, and only then links the previous node to it.   *)
(* Between the exchange and the link the list is broken: nodes behind the  *)
(* gap are in the queue but cannot be reached from head.                   *)
(*                                                                         *)
(* Each action is one atomic access of the shared state, together with the *)
(* thread-private work around it.  malloc may hand out a node again as     *)
(* soon as it has been freed.                                              *)
(***************************************************************************)
EXTENDS Integers, Sequences, FiniteSets

CONSTANTS Producers,   \* threads that send to this actor
          Nodes,       \* addresses malloc may return for an STA_MbNode
          Capacity,    \* mb->capacity; 0 means unbounded
          MaxSends,    \* bound: messages each producer tries to send
          NULL

ASSUME MailboxAssumption ==
  /\ IsFiniteSet(Producers)
  /\ Capacity \in Nat
  /\ MaxSends \in Nat
  /\ NULL \notin Nodes
  /\ NULL \notin Producers \X Nat

VARIABLES
  heap,      \* nodes malloc'd and not yet freed
  head,      \* mb->head, the sentinel, private to the consumer
  tail,      \* mb->tail
  next,      \* node->next
  msg,       \* node->msg
  count,     \* mb->count
  pc, node, prev,    \* per producer: where it is in sta_mailbox_enqueue
  sent,      \* messages each producer has tried to send
  cpc,       \* what the consumer is doing
  old,       \* the sentinel sta_mailbox_dequeue is about to free
  cursor,    \* the node sta_mailbox_walk visits next
  crashed,   \* handle_actor_exception has walked the mailbox
  closed,    \* sta_mailbox_destroy has started
  \* history
  chain,     \* the nodes from head on, in the order tail was swung to them
  taken,     \* messages dequeued so far
  done,      \* messages whose enqueue has returned 0
  visited,   \* messages the walk has visited
  due, owed  \* when the walk began: messages in its reach, messages enqueued

producerVars == <<pc, node, prev, sent>>
walkVars     == <<cursor, crashed, visited, due, owed>>
vars == <<heap, head, tail, next, msg, count, pc, node, prev, sent, cpc, old,
          cursor, crashed, closed, chain, taken, done, visited, due, owed>>

Message == Producers \X (1..MaxSends)

\* The messages between the sentinel and tail, in the order they were accepted.
Queued == [i \in 1..(Len(chain) - 1) |-> msg[chain[i + 1]]]

TypeOK ==
  /\ heap \subseteq Nodes
  /\ head \in Nodes \cup {NULL} /\ tail \in Nodes
  /\ next \in [Nodes -> Nodes \cup {NULL}]
  /\ msg \in [Nodes -> Message \cup {NULL}]
  /\ count \in Nat
  /\ pc \in [Producers -> {"idle", "backout", "swing", "link"}]
  /\ node \in [Producers -> Nodes \cup {NULL}]
  /\ prev \in [Producers -> Nodes \cup {NULL}]
  /\ sent \in [Producers -> 0..MaxSends]
  /\ cpc \in {"idle", "retire", "walk", "gone"}
  /\ old \in Nodes \cup {NULL} /\ cursor \in Nodes \cup {NULL}
  /\ crashed \in BOOLEAN /\ closed \in BOOLEAN
  /\ chain \in Seq(Nodes) /\ taken \in Seq(Message)
  /\ done \subseteq Message /\ visited \subseteq Message /\ due \subseteq Message
  /\ owed \subseteq Message

\* sta_mailbox_init: one calloc'd stub is both head and tail.
Init ==
  \E stub \in Nodes :
    /\ heap = {stub} /\ head = stub /\ tail = stub
    /\ next = [n \in Nodes |-> NULL]
    /\ msg = [n \in Nodes |-> NULL]
    /\ count = 0
    /\ pc = [p \in Producers |-> "idle"]
    /\ node = [p \in Producers |-> NULL]
    /\ prev = [p \in Producers |-> NULL]
    /\ sent = [p \in Producers |-> 0]
    /\ cpc = "idle" /\ old = NULL /\ cursor = NULL
    /\ crashed = FALSE /\ closed = FALSE
    /\ chain = <<stub>> /\ taken = <<>>
    /\ done = {} /\ visited = {}
    /\ due = {} /\ owed = {}

-----------------------------------------------------------------------------
(* sta_mailbox_enqueue *)

\* The message p is sending: its sent[p]-th.
Sending(p) == <<p, sent[p]>>

\* malloc failed: return -1, nothing else happens.
EnqueueNoMem(p) ==
  /\ pc[p] = "idle" /\ ~closed /\ sent[p] < MaxSends
  /\ heap = Nodes
  /\ sent' = [sent EXCEPT ![p] = @ + 1]
  /\ UNCHANGED <<heap, head, tail, next, msg, count, pc, node, prev, cpc, old,
                 closed, chain, taken, done, walkVars>>

\* Faulty: lets one message too many in.
ReserveOffByOne(p) ==
  /\ pc[p] = "idle" /\ ~closed /\ sent[p] < MaxSends
  /\ \E n \in Nodes \ heap :
       /\ heap' = heap \cup {n}
       /\ node' = [node EXCEPT ![p] = n]
  /\ sent' = [sent EXCEPT ![p] = @ + 1]
  /\ count' = IF Capacity > 0 THEN count + 1 ELSE count
  /\ pc' = [pc EXCEPT ![p] =
              IF Capacity > 0 /\ count > Capacity THEN "backout" ELSE "swing"]
  /\ UNCHANGED <<head, tail, next, msg, prev, cpc, old, closed, chain, taken,
                 done, walkVars>>

\* malloc a node, then fetch_add on count decides whether there is room.
\* An unbounded mailbox does not touch count.
Reserve(p) ==
  /\ pc[p] = "idle" /\ ~closed /\ sent[p] < MaxSends
  /\ \E n \in Nodes \ heap :
       /\ heap' = heap \cup {n}
       /\ node' = [node EXCEPT ![p] = n]
  /\ sent' = [sent EXCEPT ![p] = @ + 1]
  /\ count' = IF Capacity > 0 THEN count + 1 ELSE count
  /\ pc' = [pc EXCEPT ![p] =
              IF Capacity > 0 /\ count >= Capacity THEN "backout" ELSE "swing"]
  /\ UNCHANGED <<head, tail, next, msg, prev, cpc, old, closed, chain, taken,
                 done, walkVars>>

\* Full: undo the fetch_add, free the node, return STA_ERR_MAILBOX_FULL.
Backout(p) ==
  /\ pc[p] = "backout"
  /\ count' = count - 1
  /\ heap' = heap \ {node[p]}
  /\ node' = [node EXCEPT ![p] = NULL]
  /\ pc' = [pc EXCEPT ![p] = "idle"]
  /\ UNCHANGED <<head, tail, next, msg, prev, sent, cpc, old, closed, chain,
                 taken, done, walkVars>>

\* Fill the node (still private) and exchange it into tail.
Swing(p) ==
  /\ pc[p] = "swing"
  /\ msg' = [msg EXCEPT ![node[p]] = Sending(p)]
  /\ next' = [next EXCEPT ![node[p]] = NULL]
  /\ prev' = [prev EXCEPT ![p] = tail]
  /\ tail' = node[p]
  /\ chain' = Append(chain, node[p])
  /\ pc' = [pc EXCEPT ![p] = "link"]
  /\ UNCHANGED <<heap, head, count, node, sent, cpc, old, closed, taken, done,
                 walkVars>>

\* Faulty: never links.
LinkForgotten(p) ==
  /\ pc[p] = "link"
  /\ done' = done \cup {Sending(p)}
  /\ pc' = [pc EXCEPT ![p] = "idle"]
  /\ node' = [node EXCEPT ![p] = NULL]
  /\ prev' = [prev EXCEPT ![p] = NULL]
  /\ UNCHANGED <<heap, head, tail, next, msg, count, sent, cpc, old, closed,
                 chain, taken, walkVars>>

\* prev->next = node, and return 0.
Link(p) ==
  /\ pc[p] = "link"
  /\ next' = [next EXCEPT ![prev[p]] = node[p]]
  /\ done' = done \cup {Sending(p)}
  /\ pc' = [pc EXCEPT ![p] = "idle"]
  /\ node' = [node EXCEPT ![p] = NULL]
  /\ prev' = [prev EXCEPT ![p] = NULL]
  /\ UNCHANGED <<heap, head, tail, msg, count, sent, cpc, old, closed, chain,
                 taken, walkVars>>

-----------------------------------------------------------------------------
(* sta_mailbox_dequeue, sta_mailbox_walk and sta_mailbox_destroy *)

\* Faulty: the sentinel is not advanced.
DequeueStays ==
  /\ cpc = "idle" /\ next[head] # NULL
  /\ taken' = Append(taken, msg[next[head]])
  /\ UNCHANGED <<heap, head, tail, next, msg, count, producerVars, cpc, old,
                 closed, chain, done, walkVars>>

\* Faulty: counts the message off here, and DequeueRetire does so again.
DequeueCountsTwice ==
  /\ cpc = "idle" /\ next[head] # NULL
  /\ taken' = Append(taken, msg[next[head]])
  /\ msg' = [msg EXCEPT ![next[head]] = NULL]
  /\ old' = head
  /\ head' = next[head]
  /\ chain' = Tail(chain)
  /\ cpc' = "retire"
  /\ count' = count - 1
  /\ UNCHANGED <<heap, tail, next, producerVars, closed, done, walkVars>>

\* The successor of the sentinel gives up its message and becomes the sentinel.
DequeueTake ==
  /\ cpc = "idle" /\ next[head] # NULL
  /\ taken' = Append(taken, msg[next[head]])
  /\ msg' = [msg EXCEPT ![next[head]] = NULL]
  /\ old' = head
  /\ head' = next[head]
  /\ chain' = Tail(chain)
  /\ cpc' = "retire"
  /\ UNCHANGED <<heap, tail, next, count, producerVars, closed, done, walkVars>>

\* Faulty: frees the new sentinel.
RetireNew ==
  /\ cpc = "retire"
  /\ count' = IF Capacity > 0 THEN count - 1 ELSE count
  /\ heap' = heap \ {head}
  /\ old' = NULL
  /\ cpc' = "idle"
  /\ UNCHANGED <<head, tail, next, msg, producerVars, closed, chain, taken,
                 done, walkVars>>

\* fetch_sub on count, then free the old sentinel.
DequeueRetire ==
  /\ cpc = "retire"
  /\ count' = IF Capacity > 0 THEN count - 1 ELSE count
  /\ heap' = heap \ {old}
  /\ old' = NULL
  /\ cpc' = "idle"
  /\ UNCHANGED <<head, tail, next, msg, producerVars, closed, chain, taken,
                 done, walkVars>>

\* The nodes the walk can reach when it starts: the chain up to the first gap.
Reachable == {chain[i] : i \in {j \in 2..Len(chain) :
                                  \A k \in 1..(j - 1) : next[chain[k]] # NULL}}

\* The walk belongs to the crash handler, which runs once in an actor's life.
WalkStart ==
  /\ cpc = "idle" /\ ~closed /\ ~crashed
  /\ crashed' = TRUE
  /\ cursor' = next[head]
  /\ visited' = {}
  /\ due' = {msg[n] : n \in Reachable}
  /\ owed' = done \cap {Queued[i] : i \in DOMAIN Queued}
  /\ cpc' = "walk"
  /\ UNCHANGED <<heap, head, tail, next, msg, count, producerVars, old, closed,
                 chain, taken, done>>

\* Faulty: stops at the first message.
WalkOne ==
  /\ cpc = "walk" /\ cursor # NULL
  /\ visited' = visited \cup {msg[cursor]}
  /\ cursor' = NULL
  /\ UNCHANGED <<heap, head, tail, next, msg, count, producerVars, cpc, old,
                 crashed, closed, chain, taken, done, due, owed>>

WalkStep ==
  /\ cpc = "walk" /\ cursor # NULL
  /\ visited' = visited \cup {msg[cursor]}
  /\ cursor' = next[cursor]
  /\ UNCHANGED <<heap, head, tail, next, msg, count, producerVars, cpc, old,
                 crashed, closed, chain, taken, done, due, owed>>

WalkEnd ==
  /\ cpc = "walk" /\ cursor = NULL
  /\ cpc' = "idle"
  /\ UNCHANGED <<heap, head, tail, next, msg, count, producerVars, old, closed,
                 chain, taken, done, walkVars>>

\* sta_actor_free runs only when the last reference is gone, and every sender
\* holds one from its registry lookup until sta_mailbox_enqueue has returned.
DestroyStart ==
  /\ cpc = "idle" /\ ~closed
  /\ \A p \in Producers : pc[p] = "idle"
  /\ closed' = TRUE
  /\ UNCHANGED <<heap, head, tail, next, msg, count, producerVars, cpc, old,
                 chain, taken, done, walkVars>>

\* Faulty: does not drain first.
DestroyUndrained ==
  /\ closed /\ cpc = "idle"
  /\ heap' = heap \ {head}
  /\ head' = NULL
  /\ cpc' = "gone"
  /\ UNCHANGED <<tail, next, msg, count, producerVars, old, closed, chain,
                 taken, done, walkVars>>

\* dequeue returned NULL: free the sentinel.
DestroyEnd ==
  /\ closed /\ cpc = "idle" /\ next[head] = NULL
  /\ heap' = heap \ {head}
  /\ head' = NULL
  /\ cpc' = "gone"
  /\ UNCHANGED <<tail, next, msg, count, producerVars, old, closed, chain,
                 taken, done, walkVars>>

Producer(p) ==
  EnqueueNoMem(p) \/ Reserve(p) \/ Backout(p) \/ Swing(p) \/ Link(p)

Consumer ==
  \/ DequeueTake \/ DequeueRetire
  \/ WalkStart \/ WalkStep \/ WalkEnd
  \/ DestroyStart \/ DestroyEnd

Next == Consumer \/ \E p \in Producers : Producer(p)

Spec == Init /\ [][Next]_vars

\* A started enqueue, dequeue, walk or teardown runs to its end: each is
\* straight-line code on a running thread.  The owner keeps dequeuing until it
\* crashes; nobody is obliged to send, to crash or to destroy.
Fairness ==
  /\ \A p \in Producers : WF_vars(Backout(p) \/ Swing(p) \/ Link(p))
  /\ WF_vars(~crashed /\ DequeueTake)
  /\ WF_vars(DequeueRetire)
  /\ WF_vars(WalkStep \/ WalkEnd \/ DestroyEnd)

FairSpec == Spec /\ Fairness

-----------------------------------------------------------------------------
(* Properties *)

\* The mailbox is a bounded first-in first-out queue: nothing accepted is lost,
\* duplicated, reordered or taken before it was accepted, and no more than
\* Capacity messages are ever held, although the list is transiently broken,
\* count transiently overshoots, and freed nodes come back from malloc.
Queue == INSTANCE MessageQueue
           WITH Bound <- Capacity, queue <- Queued, taken <- taken

ImplementsQueue == Queue!QSpec

\* Nobody touches a freed node: the node a producer is about to link behind is
\* still allocated although the consumer may have consumed everything before
\* it, and so are the sentinel, tail, the node being retired and the walk's
\* cursor.
NoUseAfterFree ==
  /\ cpc # "gone" => {head, tail} \subseteq heap
  /\ \A p \in Producers :
       /\ pc[p] # "idle" => node[p] \in heap
       /\ pc[p] = "link" => prev[p] \in heap
  /\ cpc = "retire" => old \in heap
  /\ cpc = "walk" /\ cursor # NULL => cursor \in heap

\* sta_mailbox_is_empty never hides a message.  The worker that suspends an
\* actor relies on it: count = 0 means that no accepted message is queued, not
\* even one that dequeue cannot reach yet.
EmptyIsTruthful == count = 0 => Queued = <<>>

\* A walk visits every message that could be reached when it started, and
\* nothing that is not in the queue: the crash handler fails the futures of
\* exactly those asks.
WalkCovers ==
  cpc = "walk" =>
    /\ cursor = NULL => due \subseteq visited
    /\ visited \subseteq {Queued[i] : i \in DOMAIN Queued}

\* The messages of one sender arrive in the order it sent them.
SenderOrder ==
  \A i, j \in 1..Len(taken) :
    i < j /\ taken[i][1] = taken[j][1] => taken[i][2] < taken[j][2]

\* sta_mailbox_destroy frees every node and every message accepted before it.
DestroyFreesAll ==
  cpc = "gone" =>
    /\ heap = {} /\ Queued = <<>>
    /\ \A m \in done : \E i \in 1..Len(taken) : taken[i] = m

\* A message whose send returned 0 is dequeued in the end, whatever gap there
\* was before it, unless the actor crashes first.
AcceptedIsTaken ==
  \A p \in Producers : \A k \in 1..MaxSends :
    (<<p, k>> \in done) ~>
      (crashed \/ \E i \in 1..Len(taken) : taken[i] = <<p, k>>)

\* What mailbox.h says of the walk: only messages enqueued concurrently with it
\* may be missed, so one whose enqueue returned before it started is visited.
WalkVisitsEnqueued == cpc = "walk" /\ cursor = NULL => owed \subseteq visited

-----------------------------------------------------------------------------
(* The inductive invariant *)

Elems == {chain[i] : i \in 1..Len(chain)}
Reserved == {p \in Producers : pc[p] = "swing"}
Rejected == {p \in Producers : pc[p] = "backout"}
Retiring == IF cpc = "retire" THEN 1 ELSE 0

\* chain runs from the sentinel to tail without repetition, and every node of
\* it but the sentinel carries a message.
ChainOK ==
  /\ chain # <<>>
  /\ cpc # "gone" => head = chain[1]
  /\ tail = chain[Len(chain)]
  /\ \A i, j \in 1..Len(chain) : chain[i] = chain[j] => i = j
  /\ \A i \in 2..Len(chain) : msg[chain[i]] \in Message

\* Consecutive nodes of chain are linked, or a producer stands between its
\* exchange and its link with exactly that link to make.
LinksOK ==
  /\ next[tail] = NULL
  /\ \A i \in 1..(Len(chain) - 1) :
       \/ next[chain[i]] = chain[i + 1]
       \/ /\ next[chain[i]] = NULL
          /\ \E p \in Producers :
               pc[p] = "link" /\ prev[p] = chain[i] /\ node[p] = chain[i + 1]
  /\ \A p \in Producers : pc[p] = "link" =>
       /\ msg[node[p]] = Sending(p)
       /\ \E i \in 1..(Len(chain) - 1) :
            /\ prev[p] = chain[i] /\ node[p] = chain[i + 1]
            /\ next[prev[p]] = NULL

\* Every allocated node has one owner: the chain, one producer, or the consumer
\* that is about to free it.
OwnersOK ==
  /\ \A p \in Producers : pc[p] # "idle" => node[p] \in heap
  /\ \A p \in Producers : pc[p] \in {"swing", "backout"} =>
       node[p] \notin Elems /\ sent[p] \in 1..MaxSends
  /\ \A p, q \in Producers :
       pc[p] # "idle" /\ pc[q] # "idle" /\ node[p] = node[q] => p = q
  /\ cpc = "retire" =>
       /\ old \in heap \ Elems
       /\ \A p \in Producers : pc[p] # "idle" => node[p] # old
  /\ cpc # "gone" => Elems \subseteq heap
  /\ \A n \in heap :
       \/ n \in Elems
       \/ cpc = "retire" /\ n = old
       \/ \E p \in Producers : pc[p] \in {"swing", "backout"} /\ n = node[p]
  /\ closed => \A p \in Producers : pc[p] = "idle"
  /\ cpc = "gone" => closed /\ heap = {} /\ Len(chain) = 1

\* count is the length of the queue plus the reservations in flight; those that
\* will be honoured fit the capacity.
CountOK ==
  /\ Capacity = 0 => Rejected = {}
  /\ Capacity > 0 =>
       /\ count = Len(chain) - 1 + Retiring
                   + Cardinality(Reserved) + Cardinality(Rejected)
       /\ Len(chain) - 1 + Retiring + Cardinality(Reserved) <= Capacity

\* Per sender, taken, then queued, then the message being sent are in order.
OrderOK ==
  /\ SenderOrder
  /\ \A i \in 1..Len(taken), j \in 2..Len(chain) :
       taken[i][1] = msg[chain[j]][1] => taken[i][2] < msg[chain[j]][2]
  /\ \A i, j \in 2..Len(chain) :
       i < j /\ msg[chain[i]][1] = msg[chain[j]][1]
         => msg[chain[i]][2] < msg[chain[j]][2]
  /\ \A p \in Producers :
       /\ \A i \in 1..Len(taken) : taken[i][1] = p =>
            taken[i][2] <= sent[p] /\ (pc[p] = "swing" => taken[i][2] # sent[p])
       /\ \A i \in 2..Len(chain) : msg[chain[i]][1] = p =>
            /\ msg[chain[i]][2] <= sent[p]
            /\ pc[p] = "swing" => msg[chain[i]][2] # sent[p]

\* A message whose enqueue has returned is taken or still queued.
DoneOK ==
  \A m \in done : \/ \E i \in 1..Len(taken) : taken[i] = m
                  \/ \E i \in 2..Len(chain) : msg[chain[i]] = m

\* A walk stands at a node of the chain, has visited queued messages only, and
\* what it still owes lies ahead of it with no gap in between.
WalkOK ==
  cpc = "walk" =>
    /\ \A m \in visited : \E i \in 2..Len(chain) : msg[chain[i]] = m
    /\ cursor = NULL => due \subseteq visited
    /\ cursor # NULL =>
         \E i \in 2..Len(chain) :
           /\ cursor = chain[i]
           /\ \A m \in due \ visited :
                \E j \in i..Len(chain) :
                  /\ msg[chain[j]] = m
                  /\ \A k \in 1..(j - 1) : next[chain[k]] # NULL

IInv == /\ TypeOK /\ ChainOK /\ LinksOK /\ OwnersOK
        /\ CountOK /\ OrderOK /\ DoneOK /\ WalkOK
=============================================================================
