------------------------- MODULE MailboxStepProofs -------------------------
(***************************************************************************)
(* The steps of sta_mailbox_enqueue, sta_mailbox_dequeue, sta_mailbox_walk *)
(* and sta_mailbox_destroy that leave the producers with a reserved or     *)
(* refused place as they are preserve the invariant of Mailbox.            *)
(***************************************************************************)
EXTENDS Mailbox, TLAPS

\* The producers with a reserved or refused place can be counted.
Counted == Cardinality(Reserved) \in Nat /\ Cardinality(Rejected) \in Nat

(* Two consecutive nodes that are not linked have a producer between them. *)
LEMMA GapHasOwner ==
  ASSUME IInv, NEW i \in 1..(Len(chain) - 1), next[chain[i]] # chain[i + 1]
  PROVE  /\ next[chain[i]] = NULL
         /\ \E q \in Producers :
              pc[q] = "link" /\ prev[q] = chain[i] /\ node[q] = chain[i + 1]
BY Zenon DEF IInv, LinksOK

(* A producer about to link stands between two consecutive nodes. *)
LEMMA OwnerHasGap ==
  ASSUME IInv, NEW q \in Producers, pc[q] = "link"
  PROVE  /\ msg[node[q]] = Sending(q)
         /\ \E i \in 1..(Len(chain) - 1) :
              /\ prev[q] = chain[i] /\ node[q] = chain[i + 1]
              /\ next[prev[q]] = NULL
BY Zenon DEF IInv, LinksOK

\* The chain ends at tail, and nothing follows it.
LEMMA TailEnds ==
  ASSUME IInv
  PROVE  tail = chain[Len(chain)] /\ next[tail] = NULL
BY Zenon DEF IInv, ChainOK, LinksOK

\* A failed malloc in sta_mailbox_enqueue preserves the invariant.
LEMMA NoMemStep ==
  ASSUME IInv, NEW p \in Producers, EnqueueNoMem(p)
  PROVE  IInv'
<1> USE MailboxAssumption
<1>0. /\ pc[p] = "idle" /\ sent'[p] = sent[p] + 1
      /\ sent[p] \in 0..(MaxSends - 1)
      /\ \A q \in Producers \ {p} : sent'[q] = sent[q]
      /\ UNCHANGED <<heap, head, tail, next, msg, count, pc, node, prev, cpc,
                     old, closed, chain, taken, done, walkVars>>
  BY DEF IInv, TypeOK, EnqueueNoMem
<1>1. TypeOK'
  BY DEF IInv, TypeOK, EnqueueNoMem, walkVars
<1>2. ChainOK' /\ DoneOK' /\ WalkOK'
  BY <1>0 DEF IInv, ChainOK, Message, DoneOK, WalkOK, walkVars
<1>3. LinksOK'
  <2>1. next'[tail'] = NULL
    BY <1>0, TailEnds, Zenon
  <2>2. \A q \in Producers : pc'[q] = "link" =>
          sent'[q] = sent[q] /\ pc[q] = "link"
    BY <1>0
  <2>3. \A q \in Producers : pc'[q] = "link" => msg'[node'[q]] = <<q, sent'[q]>>
    BY <1>0, <2>2, OwnerHasGap DEF Sending
  <2> QED
    BY <1>0, <2>1, <2>2, <2>3, Zenon DEF IInv, LinksOK, Sending
<1>4. OwnersOK'
  BY <1>0 DEF IInv, OwnersOK, Elems
<1>5. CountOK'
  BY <1>0, Zenon DEF IInv, CountOK, Reserved, Rejected, Retiring
<1>6. OrderOK'
  <2>1. SenderOrder'
    BY <1>0, Zenon DEF IInv, OrderOK, SenderOrder
  <2>2. ASSUME NEW q \in Producers, NEW m \in Message,
               m[1] = q => m[2] <= sent[q] /\ (pc[q] = "swing" => m[2] # sent[q])
        PROVE  m[1] = q => m[2] <= sent'[q] /\ (pc'[q] = "swing" => m[2] # sent'[q])
    BY <1>0, <2>2 DEF IInv, TypeOK, Message
  <2>3. (\A i \in 1..Len(taken) : taken[i] \in Message)
        /\ \A i \in 2..Len(chain) : msg[chain[i]] \in Message
    BY DEF IInv, TypeOK, ChainOK
  <2> QED
    BY <1>0, <2>1, <2>2, <2>3 DEF IInv, OrderOK
<1> QED
  BY <1>1, <1>2, <1>3, <1>4, <1>5, <1>6, Zenon DEF IInv

(* What Append and Tail do to the parts of a sequence. *)
LEMMA AppendFacts ==
  ASSUME NEW S, NEW s \in Seq(S), NEW e \in S
  PROVE  /\ Append(s, e) \in Seq(S) /\ Len(Append(s, e)) = Len(s) + 1
         /\ \A i \in 1..Len(s) : Append(s, e)[i] = s[i]
         /\ Append(s, e)[Len(s) + 1] = e
         /\ Len(s) \in Nat
OBVIOUS

\* The link closes the gap its producer opened and preserves the invariant.
LEMMA LinkStep ==
  ASSUME IInv, NEW p \in Producers, Link(p)
  PROVE  IInv'
<1> USE MailboxAssumption
<1> DEFINE L == Len(chain)
<1>0. /\ pc[p] = "link" /\ pc'[p] = "idle"
      /\ \A q \in Producers \ {p} :
           pc'[q] = pc[q] /\ node'[q] = node[q] /\ prev'[q] = prev[q]
      /\ UNCHANGED <<heap, head, tail, msg, count, sent, cpc, old, closed, chain,
                     taken, walkVars>>
  BY Zenon DEF IInv, TypeOK, Link
<1>1. PICK g \in 1..(L - 1) : /\ prev[p] = chain[g] /\ node[p] = chain[g + 1]
                             /\ next[chain[g]] = NULL
  BY <1>0, OwnerHasGap
<1>2. /\ L \in Nat \ {0} /\ g \in 1..L /\ g + 1 \in 2..L
      /\ \A i \in 1..L : chain[i] \in Nodes
  BY <1>1 DEF IInv, TypeOK, ChainOK
<1>3. /\ next'[chain[g]] = chain[g + 1]
      /\ \A i \in 1..L : i # g => next'[chain[i]] = next[chain[i]]
  <2>1. \A i \in 1..L : i # g => chain[i] # chain[g]
    BY <1>2, Zenon DEF IInv, ChainOK
  <2> QED
    BY <1>1, <1>2, <2>1, Zenon DEF IInv, TypeOK, Link
<1>4. \A q \in Producers : pc'[q] # "idle" => q # p /\ pc[q] # "idle"
  BY <1>0
<1>5. TypeOK'
  <2>1. Sending(p) \in Message
    <3>1. msg[chain[g + 1]] \in Message
      BY <1>2, Zenon DEF IInv, ChainOK
    <3> QED
      BY <1>0, <1>1, <3>1, Zenon DEF IInv, LinksOK
  <2> QED
    BY <1>0, <1>1, <2>1 DEF IInv, TypeOK, Link, walkVars
<1>6. ChainOK'
  BY <1>0, Zenon DEF IInv, ChainOK, Message
<1>7. LinksOK'
  <2>1. next'[tail] = NULL
    <3>1. L \in 1..L /\ L # g
      <4>1. L \in Nat \ {0} /\ g \in 1..(L - 1)
        BY <1>1, <1>2, Zenon
      <4> HIDE DEF L
      <4> QED
        BY <4>1
    <3> QED
      BY <1>3, <3>1, TailEnds, Zenon
  <2>2. \A i \in 1..(L - 1) :
       \/ next'[chain[i]] = chain[i + 1]
       \/ /\ next'[chain[i]] = NULL
          /\ \E q \in Producers :
               pc'[q] = "link" /\ prev'[q] = chain[i] /\ node'[q] = chain[i + 1]
    <3> TAKE i \in 1..(L - 1)
    <3>1. CASE i = g
      BY <1>3, <3>1
    <3>2. CASE i # g /\ next[chain[i]] = chain[i + 1]
      BY <1>2, <1>3, <3>2
    <3>3. CASE i # g /\ next[chain[i]] # chain[i + 1]
      <4>1. PICK q \in Producers : /\ pc[q] = "link" /\ prev[q] = chain[i]
                                   /\ node[q] = chain[i + 1]
        BY <3>3, GapHasOwner
      <4>2. i \in 1..L /\ next[chain[i]] = NULL
        BY <1>2, <3>3, GapHasOwner
      <4>3. q # p
        BY <1>1, <1>2, <3>3, <4>1, <4>2, Zenon DEF IInv, ChainOK
      <4> QED
        BY <1>0, <1>3, <3>3, <4>1, <4>2, <4>3
    <3> QED
      BY <3>1, <3>2, <3>3
  <2>3. ASSUME NEW q \in Producers, pc'[q] = "link"
        PROVE  /\ msg[node'[q]] = <<q, sent[q]>>
               /\ \E i \in 1..(L - 1) :
                    /\ prev'[q] = chain[i] /\ node'[q] = chain[i + 1]
                    /\ next'[prev'[q]] = NULL
    <3>1. q # p /\ pc[q] = "link" /\ node'[q] = node[q] /\ prev'[q] = prev[q]
      BY <1>0, <2>3
    <3>2. PICK i \in 1..(L - 1) : /\ prev[q] = chain[i] /\ node[q] = chain[i + 1]
                                  /\ next[prev[q]] = NULL
      BY <3>1, OwnerHasGap
    <3>3. node[q] # node[p]
      BY <1>0, <3>1, Zenon DEF IInv, OwnersOK
    <3>4. i # g
      BY <1>1, <3>2, <3>3
    <3>6. i \in 1..L
      BY <1>2
    <3>5. msg[node[q]] = <<q, sent[q]>>
      BY <3>1, OwnerHasGap, Zenon DEF Sending
    <3> QED
      BY <1>3, <3>1, <3>2, <3>4, <3>5, <3>6
  <2> QED
    BY <1>0, <2>1, <2>2, <2>3, Zenon DEF LinksOK, Sending
<1>8. OwnersOK'
  <2>1. Elems' = Elems /\ ~closed /\ cpc # "gone"
    <3>1. Elems' = Elems
      BY <1>0, Zenon DEF Elems
    <3>2. pc[p] # "idle"
      BY <1>0
    <3> QED
      BY <3>1, <3>2, Zenon DEF IInv, OwnersOK
  <2>2. \A k \in heap :
          \/ k \in Elems
          \/ cpc = "retire" /\ k = old
          \/ \E q \in Producers : pc'[q] \in {"swing", "backout"} /\ k = node'[q]
    BY <1>0 DEF IInv, OwnersOK
  <2> QED
    BY <1>0, <1>4, <2>1, <2>2 DEF IInv, OwnersOK
<1>9. CountOK'
  <2>1. Reserved' = Reserved /\ Rejected' = Rejected /\ Retiring' = Retiring
    BY <1>0, Zenon DEF Reserved, Rejected, Retiring
  <2> QED
    BY <1>0, <2>1, Zenon DEF IInv, CountOK
<1>10. OrderOK'
  <2>1. \A q \in Producers : pc'[q] = "swing" => pc[q] = "swing"
    BY <1>0
  <2> QED
    BY <1>0, <2>1, Zenon DEF IInv, OrderOK, SenderOrder
<1>11. DoneOK'
  <2>1. msg[chain[g + 1]] = Sending(p)
    BY <1>0, <1>1, Zenon DEF IInv, LinksOK
  <2>2. done' = done \cup {Sending(p)} /\ g + 1 \in 2..L
    BY <1>2 DEF Link
  <2> QED
    BY <1>0, <2>1, <2>2, Zenon DEF IInv, DoneOK
<1>12. WalkOK'
  <2> SUFFICES ASSUME cpc = "walk" PROVE WalkOK'
    BY <1>0, Zenon DEF WalkOK
  <2>1. \A k \in 1..L : next[chain[k]] # NULL => next'[chain[k]] # NULL
    BY <1>1, <1>3
  <2>2. ASSUME NEW j \in 2..L, \A k \in 1..(j - 1) : next[chain[k]] # NULL
        PROVE  \A k \in 1..(j - 1) : next'[chain[k]] # NULL
    BY <2>1, <2>2, <1>2
  <2>3. \A i \in 2..L : \A j \in i..L : j \in 2..L
    BY <1>2
  <2> HIDE DEF L
  <2>4. Len(chain') = L /\ L = Len(chain)
    BY <1>0, Zenon DEF L
  <2> QED
    BY <1>0, <2>2, <2>3, <2>4 DEF IInv, WalkOK, walkVars
<1> QED
  BY <1>5, <1>6, <1>7, <1>8, <1>9, <1>10, <1>11, <1>12, Zenon DEF IInv
-----------------------------------------------------------------------------
(* The consumer *)

\* What Tail does to the length and the elements of a sequence (chain in
\* DequeueTake).
LEMMA TailFacts ==
  ASSUME NEW S, NEW s \in Seq(S), s # <<>>
  PROVE  /\ Tail(s) \in Seq(S) /\ Len(Tail(s)) = Len(s) - 1
         /\ \A i \in 1..(Len(s) - 1) : Tail(s)[i] = s[i + 1]
         /\ Len(s) \in Nat \ {0}
OBVIOUS

\* The first half of sta_mailbox_dequeue preserves the invariant.
LEMMA TakeStep ==
  ASSUME IInv, Counted, DequeueTake
  PROVE  IInv'
<1> USE MailboxAssumption
<1> DEFINE L == Len(chain)
           m == msg[chain[2]]
<1>0. /\ cpc = "idle" /\ cpc' = "retire" /\ head = chain[1] /\ old' = head
      /\ UNCHANGED <<heap, tail, next, count, pc, node, prev, sent, closed, done,
                     walkVars>>
  BY Zenon DEF IInv, ChainOK, DequeueTake, producerVars
<1>1. /\ L \in Nat /\ L >= 2 /\ next[chain[1]] = chain[2]
  <2>1. L \in Nat \ {0}
    BY DEF IInv, TypeOK, ChainOK
  <2>2. L # 1
    BY <1>0, Zenon DEF IInv, ChainOK, LinksOK, DequeueTake
  <2>3. 1 \in 1..(L - 1) /\ L >= 2 /\ 1 + 1 = 2
    <3> HIDE DEF L
    <3> QED
      BY <2>1, <2>2
  <2>4. next[chain[1]] # NULL
    BY <1>0, Zenon DEF DequeueTake
  <2> QED
    BY <2>1, <2>3, <2>4, Zenon DEF IInv, LinksOK
<1>2. /\ chain' \in Seq(Nodes) /\ Len(chain') = L - 1
      /\ \A i \in 1..(L - 1) : chain'[i] = chain[i + 1]
  BY <1>1, TailFacts, Zenon DEF IInv, TypeOK, ChainOK, DequeueTake
<1>3. /\ m \in Message /\ chain[2] \in Nodes /\ head' = chain[2]
      /\ msg' = [msg EXCEPT ![chain[2]] = NULL]
      /\ \A i \in 1..L : i # 2 => msg'[chain[i]] = msg[chain[i]]
      /\ taken' = Append(taken, m)
  BY <1>0, <1>1 DEF IInv, TypeOK, ChainOK, DequeueTake
<1>4. /\ taken' \in Seq(Message) /\ Len(taken') = Len(taken) + 1
      /\ \A i \in 1..Len(taken) : taken'[i] = taken[i]
      /\ taken'[Len(taken) + 1] = m /\ Len(taken) \in Nat
  BY <1>3, AppendFacts DEF IInv, TypeOK
<1>5. TypeOK'
  BY <1>0, <1>2, <1>3, <1>4, Zenon DEF IInv, TypeOK, walkVars
<1>6. ChainOK'
  <2>1. \A i, j \in 1..(L - 1) : chain'[i] = chain'[j] => i = j
    BY <1>1, <1>2 DEF IInv, ChainOK
  <2>2. \A i \in 2..(L - 1) : msg'[chain'[i]] \in Message
    BY <1>1, <1>2, <1>3 DEF IInv, ChainOK
  <2> QED
    BY <1>0, <1>1, <1>2, <1>3, <2>1, <2>2 DEF IInv, ChainOK, Message
<1>7. LinksOK'
  <2>1. next[tail] = NULL
    BY Zenon DEF IInv, LinksOK
  <2>2. \A i \in 1..(L - 2) :
       \/ next[chain'[i]] = chain'[i + 1]
       \/ /\ next[chain'[i]] = NULL
          /\ \E q \in Producers :
               pc[q] = "link" /\ prev[q] = chain'[i] /\ node[q] = chain'[i + 1]
    <3> TAKE i \in 1..(L - 2)
    <3>1. i + 1 \in 1..(L - 1) /\ chain'[i] = chain[i + 1]
          /\ chain'[i + 1] = chain[(i + 1) + 1]
      BY <1>1, <1>2
    <3> QED
      BY <3>1 DEF IInv, LinksOK
  <2>3. ASSUME NEW q \in Producers, pc[q] = "link"
        PROVE  /\ msg'[node[q]] = <<q, sent[q]>>
               /\ \E i \in 1..(L - 2) :
                    /\ prev[q] = chain'[i] /\ node[q] = chain'[i + 1]
                    /\ next[prev[q]] = NULL
    <3>1. PICK i \in 1..(L - 1) : /\ prev[q] = chain[i] /\ node[q] = chain[i + 1]
                                  /\ next[prev[q]] = NULL
      BY <2>3, Zenon DEF IInv, LinksOK
    <3>2. i # 1
      BY <1>1, <1>3, <3>1, Zenon DEF IInv, TypeOK
    <3>3. /\ i - 1 \in 1..(L - 2) /\ i - 1 \in 1..(L - 1) /\ i \in 1..(L - 1)
          /\ (i - 1) + 1 = i /\ i + 1 # 2 /\ i + 1 \in 1..L
      <4> HIDE DEF L
      <4> QED
        BY <1>1, <3>1, <3>2
    <3>4. msg'[node[q]] = msg[node[q]]
      BY <1>3, <3>1, <3>3, Zenon
    <3>5. msg[node[q]] = <<q, sent[q]>>
      BY <2>3, Zenon DEF IInv, LinksOK, Sending
    <3> QED
      BY <1>2, <3>1, <3>3, <3>4, <3>5, Zenon
  <2>4. Len(chain') - 1 = L - 2
    BY <1>1, <1>2
  <2> HIDE DEF L
  <2> QED
    BY <1>0, <2>1, <2>2, <2>3, <2>4 DEF LinksOK, Sending
<1>8. OwnersOK'
  <2>1. Elems' \subseteq Elems /\ Elems \subseteq Elems' \cup {head}
    <3>1. \A i \in 1..(L - 1) : i + 1 \in 1..L
      BY <1>1
    <3>2. \A i \in 1..L : i = 1 \/ (i - 1 \in 1..(L - 1) /\ (i - 1) + 1 = i)
      BY <1>1
    <3>3. ASSUME NEW x \in Elems' PROVE x \in Elems
      BY <1>2, <3>1, Zenon DEF Elems
    <3>4. ASSUME NEW x \in Elems PROVE x \in Elems' \cup {head}
      <4>1. PICK i \in 1..L : x = chain[i]
        BY Zenon DEF Elems
      <4>2. CASE i = 1
        BY <1>0, <4>1, <4>2
      <4>3. CASE i # 1
        <5>1. x = chain'[i - 1] /\ i - 1 \in 1..Len(chain')
          BY <1>2, <3>2, <4>1, <4>3
        <5> QED
          BY <5>1, Zenon DEF Elems
      <4> QED
        BY <4>2, <4>3
    <3> QED
      BY <3>3, <3>4
  <2>2. head \in Elems /\ head \notin Elems'
    <3>1. 1 \in 1..L /\ \A i \in 1..(L - 1) : i + 1 \in 1..L /\ i + 1 # 1
      BY <1>1
    <3> QED
      BY <1>0, <1>2, <3>1 DEF Elems, IInv, ChainOK
  <2>3. \A q \in Producers : pc[q] # "idle" => node[q] # head
    <3> SUFFICES ASSUME NEW q \in Producers, pc[q] # "idle" PROVE node[q] # head
      OBVIOUS
    <3>1. CASE pc[q] = "link"
      <4>1. PICK i \in 1..(L - 1) : node[q] = chain[i + 1]
        BY <3>1, Zenon DEF IInv, LinksOK
      <4> QED
        BY <1>0, <1>1, <4>1 DEF IInv, ChainOK
    <3>2. CASE pc[q] # "link"
      BY <2>2, <3>2 DEF IInv, OwnersOK, TypeOK
    <3> QED
      BY <3>1, <3>2
  <2>4. Elems \subseteq heap
    BY <1>0, Zenon DEF IInv, OwnersOK
  <2> QED
    BY <1>0, <2>1, <2>2, <2>3, <2>4, Zenon DEF IInv, OwnersOK
<1>9. CountOK'
  <2>1. Reserved' = Reserved /\ Rejected' = Rejected
        /\ Retiring = 0 /\ Retiring' = 1
    BY <1>0, Zenon DEF Reserved, Rejected, Retiring
  <2> QED
    BY <1>0, <1>1, <1>2, <2>1 DEF IInv, CountOK, Counted
<1>10. OrderOK'
  <2>1. \A i \in 2..(L - 1) : i + 1 \in 2..L /\ chain'[i] = chain[i + 1]
                             /\ msg'[chain'[i]] = msg[chain[i + 1]]
    <3> TAKE i \in 2..(L - 1)
    <3>1. i \in 1..(L - 1) /\ i + 1 \in 1..L /\ i + 1 # 2 /\ i + 1 \in 2..L
      BY <1>1
    <3> QED
      BY <1>2, <1>3, <3>1
  <2>2. \A j \in 2..(L - 1) : m[1] = msg[chain[j + 1]][1] => m[2] < msg[chain[j + 1]][2]
    <3>1. 2 \in 2..L /\ \A j \in 2..(L - 1) : 2 < j + 1
      BY <1>1
    <3> QED
      BY <2>1, <3>1, Zenon DEF IInv, OrderOK
  <2>3. \A i \in 1..Len(taken) : taken[i][1] = m[1] => taken[i][2] < m[2]
    <3>1. 2 \in 2..L
      BY <1>1
    <3> QED
      BY <3>1, Zenon DEF IInv, OrderOK
  <2>4. SenderOrder'
    <3> SUFFICES ASSUME NEW i \in 1..(Len(taken) + 1), NEW j \in 1..(Len(taken) + 1),
                        i < j, taken'[i][1] = taken'[j][1]
                 PROVE  taken'[i][2] < taken'[j][2]
      BY <1>4, Zenon DEF SenderOrder
    <3>1. i \in 1..Len(taken)
      BY <1>4
    <3>2. CASE j = Len(taken) + 1
      BY <1>4, <2>3, <3>1, <3>2
    <3>3. CASE j # Len(taken) + 1
      <4>1. j \in 1..Len(taken)
        BY <1>4, <3>3
      <4> QED
        BY <1>4, <3>1, <4>1, Zenon DEF IInv, OrderOK, SenderOrder
    <3> QED
      BY <3>2, <3>3
  <2>5. \A i \in 1..(Len(taken) + 1), j \in 2..(L - 1) :
         taken'[i][1] = msg'[chain'[j]][1] => taken'[i][2] < msg'[chain'[j]][2]
    <3> TAKE i \in 1..(Len(taken) + 1), j \in 2..(L - 1)
    <3>1. CASE i = Len(taken) + 1
      <4>1. taken'[i] = m
        BY <1>4, <3>1
      <4>2. msg'[chain'[j]] = msg[chain[j + 1]]
        BY <2>1, Zenon
      <4> QED
        BY <2>2, <4>1, <4>2, Zenon
    <3>2. CASE i # Len(taken) + 1
      <4>1. i \in 1..Len(taken)
        BY <1>4, <3>2
      <4>2. j + 1 \in 2..L /\ msg'[chain'[j]] = msg[chain[j + 1]]
        BY <2>1
      <4>3. taken[i][1] = msg[chain[j + 1]][1] => taken[i][2] < msg[chain[j + 1]][2]
        BY <4>1, <4>2, Zenon DEF IInv, OrderOK
      <4> QED
        BY <1>4, <4>1, <4>2, <4>3
    <3> QED
      BY <3>1, <3>2
  <2>6. \A i, j \in 2..(L - 1) :
         i < j /\ msg'[chain'[i]][1] = msg'[chain'[j]][1]
           => msg'[chain'[i]][2] < msg'[chain'[j]][2]
    <3> TAKE i, j \in 2..(L - 1)
    <3> HAVE i < j /\ msg'[chain'[i]][1] = msg'[chain'[j]][1]
    <3>1. i + 1 \in 2..L /\ j + 1 \in 2..L /\ i + 1 < j + 1
      BY <1>1
    <3>2. /\ msg'[chain'[i]] = msg[chain[i + 1]]
          /\ msg'[chain'[j]] = msg[chain[j + 1]]
      BY <2>1, Zenon
    <3> QED
      BY <3>1, <3>2, Zenon DEF IInv, OrderOK
  <2>7. \A q \in Producers :
       /\ \A i \in 1..(Len(taken) + 1) : taken'[i][1] = q =>
            taken'[i][2] <= sent[q] /\ (pc[q] = "swing" => taken'[i][2] # sent[q])
       /\ \A i \in 2..(L - 1) : msg'[chain'[i]][1] = q =>
            /\ msg'[chain'[i]][2] <= sent[q]
            /\ pc[q] = "swing" => msg'[chain'[i]][2] # sent[q]
    <3> TAKE q \in Producers
    <3>1. 2 \in 2..L
      BY <1>1
    <3>2. m[1] = q => m[2] <= sent[q] /\ (pc[q] = "swing" => m[2] # sent[q])
      BY <3>1, Zenon DEF IInv, OrderOK
    <3>3. ASSUME NEW i \in 1..(Len(taken) + 1), taken'[i][1] = q
          PROVE  taken'[i][2] <= sent[q] /\ (pc[q] = "swing" => taken'[i][2] # sent[q])
      <4>1. CASE i = Len(taken) + 1
        BY <1>4, <3>2, <3>3, <4>1
      <4>2. CASE i # Len(taken) + 1
        <5>1. i \in 1..Len(taken)
          BY <1>4, <4>2
        <5> QED
          BY <1>4, <3>3, <5>1, Zenon DEF IInv, OrderOK
      <4> QED
        BY <4>1, <4>2
    <3> QED
      BY <2>1, <3>3 DEF IInv, OrderOK
  <2> HIDE DEF L, m
  <2> QED
    BY <1>0, <1>2, <1>4, <2>4, <2>5, <2>6, <2>7, Zenon DEF OrderOK
<1>11. DoneOK'
  <2> SUFFICES ASSUME NEW d \in done
               PROVE  \/ \E i \in 1..Len(taken') : taken'[i] = d
                      \/ \E i \in 2..Len(chain') : msg'[chain'[i]] = d
    BY <1>0, Zenon DEF DoneOK
  <2>1. CASE \E i \in 1..Len(taken) : taken[i] = d
    BY <1>4, <2>1
  <2>2. CASE d = m
    BY <1>4, <2>2
  <2>3. CASE d # m /\ \E i \in 2..L : msg[chain[i]] = d
    <3>1. PICK i \in 2..L : msg[chain[i]] = d
      BY <2>3
    <3>2. i - 1 \in 2..(L - 1) /\ i - 1 \in 1..(L - 1) /\ (i - 1) + 1 = i /\ i # 2 /\ i \in 1..L
      BY <1>1, <2>3, <3>1
    <3>3. chain'[i - 1] = chain[i]
      BY <1>2, <3>2
    <3>4. i - 1 \in 2..Len(chain') /\ msg'[chain[i]] = d
      BY <1>2, <1>3, <3>1, <3>2
    <3> QED
      BY <3>3, <3>4
  <2> QED
    BY <2>1, <2>2, <2>3, Zenon DEF IInv, DoneOK
<1>12. WalkOK'
  BY <1>0, Zenon DEF WalkOK
<1> QED
  BY <1>5, <1>6, <1>7, <1>8, <1>9, <1>10, <1>11, <1>12, Zenon DEF IInv

\* The second half of sta_mailbox_dequeue preserves the invariant.
LEMMA RetireStep ==
  ASSUME IInv, Counted, DequeueRetire
  PROVE  IInv'
<1> USE MailboxAssumption
<1>0. /\ cpc = "retire" /\ cpc' = "idle" /\ heap' = heap \ {old}
      /\ UNCHANGED <<head, tail, next, msg, pc, node, prev, sent, closed, chain,
                     taken, done, walkVars>>
  BY Zenon DEF DequeueRetire, producerVars
<1>1. CountOK' /\ count' \in Nat
  <2>1. Reserved' = Reserved /\ Rejected' = Rejected
        /\ Retiring = 1 /\ Retiring' = 0
    BY <1>0, Zenon DEF Reserved, Rejected, Retiring
  <2>2. Len(chain) - 1 \in Nat /\ count \in Nat
    BY DEF IInv, TypeOK, ChainOK
  <2>3. /\ Capacity = 0 => Rejected = {}
        /\ Capacity > 0 =>
             /\ count = Len(chain) - 1 + 1 + Cardinality(Reserved) + Cardinality(Rejected)
             /\ Len(chain) - 1 + 1 + Cardinality(Reserved) <= Capacity
    BY <2>1, Zenon DEF IInv, CountOK
  <2>4. Cardinality(Reserved) \in Nat /\ Cardinality(Rejected) \in Nat
    BY Zenon DEF Counted
  <2>5. chain' = chain /\ count' = IF Capacity > 0 THEN count - 1 ELSE count
    BY <1>0, Zenon DEF DequeueRetire
  <2> QED
    BY <2>1, <2>2, <2>3, <2>4, <2>5 DEF CountOK
<1>2. TypeOK'
  BY <1>0, <1>1, Zenon DEF IInv, TypeOK, DequeueRetire, walkVars
<1>3. ChainOK' /\ LinksOK' /\ DoneOK' /\ WalkOK'
  <2>1. ChainOK'
    BY <1>0, Zenon DEF IInv, ChainOK, Message
  <2>2. LinksOK'
    BY <1>0, Zenon DEF IInv, LinksOK, Sending
  <2>3. DoneOK' /\ WalkOK'
    BY <1>0 DEF IInv, DoneOK, WalkOK
  <2> QED
    BY <2>1, <2>2, <2>3
<1>4. OwnersOK'
  <2>1. Elems' = Elems
    BY <1>0, Zenon DEF Elems
  <2> QED
    BY <1>0, <2>1, SMTT(15) DEF IInv, OwnersOK
<1>5. OrderOK'
  BY <1>0, Zenon DEF IInv, OrderOK, SenderOrder
<1> QED
  BY <1>1, <1>2, <1>3, <1>4, <1>5, Zenon DEF IInv

\* A step that changes nothing preserves the invariant.
LEMMA IdleStep ==
  ASSUME IInv, UNCHANGED vars
  PROVE  IInv'
<1>1. TypeOK'
  BY Zenon DEF IInv, TypeOK, vars
<1>2. ChainOK'
  BY Zenon DEF IInv, ChainOK, vars
<1>3. LinksOK'
  BY Zenon DEF IInv, LinksOK, Sending, vars
<1>4. OwnersOK'
  <2>1. Elems' = Elems
    BY Zenon DEF Elems, vars
  <2>2. UNCHANGED <<pc, node, sent, heap, cpc, old, closed, chain>>
    BY Zenon DEF vars
  <2> QED
    BY <2>1, <2>2, SMTT(15) DEF IInv, OwnersOK
<1>5. CountOK'
  BY Zenon DEF IInv, CountOK, Reserved, Rejected, Retiring, vars
<1>6. OrderOK'
  BY Zenon DEF IInv, OrderOK, SenderOrder, vars
<1>7. DoneOK'
  BY Zenon DEF IInv, DoneOK, Message, vars
<1>8. WalkOK'
  <2>1. UNCHANGED <<cpc, cursor, visited, due, chain, msg, next>>
    BY Zenon DEF vars
  <2> QED
    BY <2>1, SMTT(20) DEF IInv, WalkOK
<1> QED
  BY <1>1, <1>2, <1>3, <1>4, <1>5, <1>6, <1>7, <1>8, Zenon DEF IInv

(* A successor the consumer can see is the second node of the chain. *)
LEMMA SecondNode ==
  ASSUME IInv, cpc # "gone", next[head] # NULL
  PROVE  Len(chain) >= 2 /\ next[head] = chain[2] /\ head = chain[1]
<1> DEFINE L == Len(chain)
<1>1. L \in Nat \ {0} /\ head = chain[1]
  BY DEF IInv, TypeOK, ChainOK
<1>2. L # 1
  BY <1>1, ZenonT(30) DEF IInv, ChainOK, LinksOK
<1>3. 1 \in 1..(L - 1) /\ L >= 2 /\ 1 + 1 = 2
  <2> HIDE DEF L
  <2> QED
    BY <1>1, <1>2
<1> QED
  BY <1>1, <1>3, Zenon DEF IInv, LinksOK

(* Everything but the walk's own state is as before. *)
LEMMA WalkFrame ==
  ASSUME IInv, cpc # "gone", cpc # "retire", cpc' \in {"idle", "walk"},
         UNCHANGED <<heap, head, tail, next, msg, count, pc, node, prev, sent,
                     old, closed, chain, taken, done>>
  PROVE  ChainOK' /\ LinksOK' /\ OwnersOK' /\ CountOK' /\ OrderOK' /\ DoneOK'
<1>1. ChainOK' /\ LinksOK' /\ DoneOK'
  <2>1. ChainOK'
    BY Zenon DEF IInv, ChainOK
  <2>2. LinksOK'
    BY Zenon DEF IInv, LinksOK, Sending
  <2>3. DoneOK'
    BY Zenon DEF IInv, DoneOK, Message
  <2> QED
    BY <2>1, <2>2, <2>3
<1>2. OwnersOK'
  <2>1. Elems' = Elems
    BY Zenon DEF Elems
  <2>2. cpc' # "gone" /\ cpc' # "retire"
    OBVIOUS
  <2> QED
    BY <2>1, <2>2, Zenon DEF IInv, OwnersOK
<1>3. CountOK'
  BY Zenon DEF IInv, CountOK, Reserved, Rejected, Retiring
<1>4. OrderOK'
  BY Zenon DEF IInv, OrderOK, SenderOrder
<1> QED
  BY <1>1, <1>2, <1>3, <1>4

\* The steps of sta_mailbox_walk preserve the invariant.
LEMMA WalkSteps ==
  ASSUME IInv, WalkStart \/ WalkStep \/ WalkEnd
  PROVE  IInv'
<1> USE MailboxAssumption
<1> DEFINE L == Len(chain)
<1>0. L \in Nat \ {0} /\ \A i \in 2..L : msg[chain[i]] \in Message
  BY DEF IInv, TypeOK, ChainOK
<1>1. CASE WalkStart
  <2>1. ChainOK' /\ LinksOK' /\ OwnersOK' /\ CountOK' /\ OrderOK' /\ DoneOK'
    BY <1>1, WalkFrame, Zenon DEF WalkStart, producerVars
  <2>2. \A m \in due' : \E j \in 2..L :
          msg[chain[j]] = m /\ \A k \in 1..(j - 1) : next[chain[k]] # NULL
    BY <1>1, Zenon DEF WalkStart, Reachable
  <2>3. due' \subseteq Message /\ owed' \subseteq Message /\ crashed' \in BOOLEAN
    <3>1. due' \subseteq Message
      BY <1>0, <2>2
    <3>2. owed' \subseteq Message
      BY <1>1, Zenon DEF WalkStart, IInv, TypeOK
    <3>3. crashed' \in BOOLEAN
      BY <1>1, Zenon, Zenon DEF WalkStart
    <3> QED
      BY <3>1, <3>2, <3>3
  <2>4. next[head] \in Nodes \cup {NULL} /\ head = chain[1] /\ cpc # "gone"
    BY <1>0, <1>1 DEF WalkStart, IInv, TypeOK, ChainOK
  <2>5. TypeOK'
    BY <1>1, <2>3, <2>4, Zenon DEF WalkStart, IInv, TypeOK, producerVars
  <2>6. WalkOK'
    <3>1. CASE next[head] = NULL
      <4>1. due' = {}
        <5>1. \A j \in 2..L : 1 \in 1..(j - 1)
          BY <1>0
        <5> QED
          BY <2>2, <2>4, <3>1, <5>1
      <4> QED
        BY <1>1, <3>1, <4>1, Zenon DEF WalkStart, WalkOK
    <3>2. CASE next[head] # NULL
      <4>1. L >= 2 /\ next[head] = chain[2]
        BY <2>4, <3>2, SecondNode
      <4>2. 2 \in 2..L
        BY <1>0, <4>1
      <4>3. /\ cursor' = chain[2] /\ visited' = {}
            /\ UNCHANGED <<chain, msg, next>>
        BY <1>1, <4>1, Zenon DEF WalkStart
      <4>4. \E i \in 2..L :
             /\ cursor' = chain[i]
             /\ \A m \in due' \ visited' :
                  \E j \in i..L : /\ msg[chain[j]] = m
                                 /\ \A k \in 1..(j - 1) : next[chain[k]] # NULL
        BY <2>2, <4>2, <4>3
      <4> HIDE DEF L
      <4>5. Len(chain') = L /\ cursor' # NULL
        BY <3>2, <4>1, <4>3, Zenon DEF L
      <4>6. \E i \in 2..Len(chain') :
             /\ cursor' = chain'[i]
             /\ \A m \in due' \ visited' :
                  \E j \in i..Len(chain') :
                    /\ msg'[chain'[j]] = m
                    /\ \A k \in 1..(j - 1) : next'[chain'[k]] # NULL
        BY <4>3, <4>4, <4>5
      <4> QED
        BY <4>3, <4>5, <4>6, Zenon DEF WalkOK
    <3> QED
      BY <3>1, <3>2
  <2> QED
    BY <2>1, <2>5, <2>6, Zenon DEF IInv
<1>2. CASE WalkStep
  <2>1. ChainOK' /\ LinksOK' /\ OwnersOK' /\ CountOK' /\ OrderOK' /\ DoneOK'
    BY <1>2, WalkFrame, Zenon DEF WalkStep, producerVars
  <2>2. PICK i \in 2..L :
           /\ cursor = chain[i]
           /\ \A m \in due \ visited :
                \E j \in i..L : /\ msg[chain[j]] = m
                               /\ \A k \in 1..(j - 1) : next[chain[k]] # NULL
    BY <1>2, Zenon DEF WalkStep, IInv, WalkOK
  <2>3. /\ cursor' = next[chain[i]] /\ visited' = visited \cup {msg[chain[i]]}
        /\ UNCHANGED <<heap, head, tail, next, msg, count, pc, node, prev, sent,
                       cpc, old, crashed, closed, chain, taken, done, due, owed>>
    BY <1>2, <2>2, Zenon DEF WalkStep, producerVars
  <2>4. TypeOK'
    <3>1. chain[i] \in Nodes /\ msg[chain[i]] \in Message
      BY <1>0, <2>2 DEF IInv, TypeOK
    <3> QED
      BY <2>3, <3>1, Zenon DEF IInv, TypeOK
  <2>5. WalkOK'
    <3>1. \A m \in visited' : \E j \in 2..L : msg[chain[j]] = m
      BY <1>2, <2>2, <2>3, Zenon DEF WalkStep, IInv, WalkOK
    <3>2. ASSUME NEW m \in due \ visited'
          PROVE  \E j \in (i + 1)..L :
                   /\ msg[chain[j]] = m
                   /\ \A k \in 1..(j - 1) : next[chain[k]] # NULL
      <4>1. PICK j \in i..L : /\ msg[chain[j]] = m
                             /\ \A k \in 1..(j - 1) : next[chain[k]] # NULL
        BY <2>2, <2>3, Zenon
      <4>2. j # i
        BY <2>3, <4>1
      <4>3. j \in (i + 1)..L
        BY <1>0, <4>1, <4>2
      <4> QED
        BY <4>1, <4>3
    <3>3. CASE next[chain[i]] = NULL
      <4>1. due \subseteq visited'
        <5>1. \A j \in (i + 1)..L : i \in 1..(j - 1)
          BY <1>0
        <5> QED
          BY <3>2, <3>3, <5>1
      <4> QED
        BY <2>3, <3>1, <3>3, <4>1, Zenon DEF WalkOK
    <3>4. CASE next[chain[i]] # NULL
      <4>1. i # L
        BY <3>4, Zenon DEF IInv, ChainOK, LinksOK
      <4>2. i \in 1..(L - 1) /\ i + 1 \in 2..L
        BY <1>0, <4>1
      <4>3. next[chain[i]] = chain[i + 1]
        BY <3>4, <4>2, Zenon DEF IInv, LinksOK
      <4>4. \E h \in 2..L :
           /\ cursor' = chain[h]
           /\ \A m \in due \ visited' :
                \E j \in h..L : /\ msg[chain[j]] = m
                               /\ \A k \in 1..(j - 1) : next[chain[k]] # NULL
        BY <2>3, <3>2, <4>2, <4>3, Zenon
      <4> HIDE DEF L
      <4>5. L = Len(chain')
        BY <2>3, Zenon DEF L
      <4> QED
        BY <2>3, <3>1, <3>4, <4>4, <4>5 DEF WalkOK
    <3> QED
      BY <3>3, <3>4
  <2> QED
    BY <2>1, <2>4, <2>5, Zenon DEF IInv
<1>3. CASE WalkEnd
  <2>1. ChainOK' /\ LinksOK' /\ OwnersOK' /\ CountOK' /\ OrderOK' /\ DoneOK'
    BY <1>3, WalkFrame, Zenon DEF WalkEnd, producerVars
  <2>2. TypeOK' /\ WalkOK'
    BY <1>3, Zenon DEF WalkEnd, IInv, TypeOK, WalkOK, producerVars, walkVars
  <2> QED
    BY <2>1, <2>2, Zenon DEF IInv
<1> QED
  BY <1>1, <1>2, <1>3

\* The steps of sta_mailbox_destroy preserve the invariant.
LEMMA DestroySteps ==
  ASSUME IInv, DestroyStart \/ DestroyEnd
  PROVE  IInv'
<1> USE MailboxAssumption
<1>1. CASE DestroyStart
  <2>0. /\ closed' = TRUE /\ \A p \in Producers : pc[p] = "idle"
        /\ UNCHANGED <<heap, head, tail, next, msg, count, pc, node, prev, sent,
                       cpc, old, chain, taken, done, walkVars>>
    BY <1>1, Zenon DEF DestroyStart, producerVars
  <2>1. TypeOK'
    BY <2>0, Zenon DEF IInv, TypeOK, walkVars
  <2>2. ChainOK' /\ LinksOK' /\ DoneOK' /\ WalkOK'
    <3>1. ChainOK'
      BY <2>0, Zenon DEF IInv, ChainOK
    <3>2. LinksOK'
      BY <2>0, Zenon DEF IInv, LinksOK, Sending
    <3>3. DoneOK'
      BY <2>0, Zenon DEF IInv, DoneOK, Message
    <3>4. WalkOK'
      <4>1. UNCHANGED <<cpc, visited, chain, msg, cursor, due, next>>
        BY <2>0, Zenon DEF walkVars
      <4>2. WalkOK
        BY Zenon DEF IInv
      <4> QED
        BY <4>1, <4>2 DEF WalkOK
    <3> QED
      BY <3>1, <3>2, <3>3, <3>4
  <2>3. OwnersOK' /\ CountOK'
    BY <2>0, Zenon DEF IInv, OwnersOK, CountOK, Elems, Reserved, Rejected, Retiring
  <2>4. OrderOK'
    BY <2>0, Zenon DEF IInv, OrderOK, SenderOrder
  <2> QED
    BY <2>1, <2>2, <2>3, <2>4, Zenon DEF IInv
<1>2. CASE DestroyEnd
  <2>0. /\ closed /\ cpc = "idle" /\ cpc' = "gone" /\ heap' = heap \ {head}
        /\ next[head] = NULL /\ head' = NULL
        /\ UNCHANGED <<tail, next, msg, count, pc, node, prev, sent, old, closed,
                       chain, taken, done, walkVars>>
    BY <1>2, Zenon DEF DestroyEnd, producerVars
  <2>1. \A p \in Producers : pc[p] = "idle"
    BY <2>0, Zenon DEF IInv, OwnersOK
  <2>2. Len(chain) = 1
    <3> DEFINE L == Len(chain)
    <3>1. L \in Nat \ {0} /\ head = chain[1]
      BY <2>0 DEF IInv, TypeOK, ChainOK
    <3>2. CASE L # 1
      <4>1. 1 \in 1..(L - 1) /\ 2 \in 1..L /\ 1 + 1 = 2
        <5> HIDE DEF L
        <5> QED
          BY <3>1, <3>2
      <4>2. next[chain[1]] = chain[2]
        BY <2>1, <4>1, Zenon DEF IInv, LinksOK
      <4> QED
        BY <2>0, <3>1, <4>1, <4>2 DEF IInv, TypeOK
    <3> QED
      BY <3>2
  <2>3. Elems = {head} /\ Elems' = Elems
    <3>1. 1..Len(chain) = {1} /\ head = chain[1]
      BY <2>0, <2>2 DEF IInv, ChainOK
    <3> QED
      BY <2>0, <3>1, Zenon DEF Elems
  <2>4. heap' = {}
    BY <2>0, <2>1, <2>3, Zenon DEF IInv, OwnersOK
  <2>5. TypeOK'
    BY <2>0, <2>4, Zenon DEF IInv, TypeOK, walkVars
  <2>6. ChainOK' /\ LinksOK' /\ DoneOK' /\ WalkOK'
    <3>1. ChainOK'
      BY <2>0, Zenon DEF IInv, ChainOK
    <3>2. LinksOK'
      BY <2>0, Zenon DEF IInv, LinksOK, Sending
    <3>3. DoneOK'
      BY <2>0, Zenon DEF IInv, DoneOK, Message
    <3>4. WalkOK'
      BY <2>0, Zenon DEF IInv, WalkOK
    <3> QED
      BY <3>1, <3>2, <3>3, <3>4
  <2>7. OwnersOK'
    BY <2>0, <2>1, <2>2, <2>4, Zenon DEF IInv, OwnersOK
  <2>8. CountOK'
    BY <2>0, Zenon DEF IInv, CountOK, Reserved, Rejected, Retiring
  <2>9. OrderOK'
    BY <2>0, Zenon DEF IInv, OrderOK, SenderOrder
  <2> QED
    BY <2>5, <2>6, <2>7, <2>8, <2>9, Zenon DEF IInv
<1> QED
  BY <1>1, <1>2
-----------------------------------------------------------------------------
(* What is queued *)

(* The mailbox implements a bounded first-in first-out queue *)

(* Sequences of the same length with the same elements are equal. *)
LEMMA SameSequence ==
  ASSUME NEW S, NEW s \in Seq(S), NEW t \in Seq(S), Len(s) = Len(t),
         \A i \in 1..Len(s) : s[i] = t[i]
  PROVE  s = t
OBVIOUS

\* A function on 1..n is a sequence of length n.
LEMMA FunctionSequence ==
  ASSUME NEW S, NEW n \in Nat, NEW f \in [1..n -> S]
  PROVE  f \in Seq(S) /\ Len(f) = n
OBVIOUS

QueuedShape ==
  /\ Queued \in Seq(Message) /\ Len(Queued) = Len(chain) - 1
  /\ \A i \in 1..(Len(chain) - 1) : Queued[i] = msg[chain[i + 1]]

\* The refinement mapping yields a sequence of messages.
LEMMA QueuedType == IInv => QueuedShape
<1> SUFFICES ASSUME IInv PROVE QueuedShape
  OBVIOUS
<1> DEFINE L == Len(chain)
<1>1. L \in Nat \ {0}
  BY DEF IInv, TypeOK, ChainOK
<1>2. \A i \in 1..(L - 1) : i + 1 \in 2..L /\ msg[chain[i + 1]] \in Message
  BY <1>1 DEF IInv, ChainOK
<1>3. L - 1 \in Nat
  BY <1>1
<1> HIDE DEF L
<1>4. Queued = [i \in 1..(L - 1) |-> msg[chain[i + 1]]]
  BY Zenon DEF L, Queued
<1>5. Queued \in [1..(L - 1) -> Message]
  BY <1>2, <1>4
<1>6. Queued \in Seq(Message) /\ Len(Queued) = L - 1
  BY <1>3, <1>5, FunctionSequence
<1> QED
  BY <1>4, <1>6, Zenon DEF L, QueuedShape

\* The first half of a dequeue is the step at which the queue gives it out.
LEMMA TakeTakes ==
  ASSUME IInv, IInv', DequeueTake
  PROVE  Queue!Take
<1> USE MailboxAssumption
<1> DEFINE L == Len(chain)
<1>0. L \in Nat /\ L >= 2 /\ next[head] = chain[2] /\ chain \in Seq(Nodes)
  BY SecondNode DEF DequeueTake, IInv, TypeOK
<1>1. /\ Len(chain') = L - 1
      /\ \A i \in 1..(L - 1) : chain'[i] = chain[i + 1]
  <2>1. chain' = Tail(chain) /\ chain # <<>>
    BY <1>0 DEF DequeueTake
  <2> QED
    BY <1>0, <2>1, TailFacts
<1>2. /\ Queued \in Seq(Message) /\ Len(Queued) = L - 1 /\ Queued # <<>>
      /\ Queued[1] = msg[chain[2]]
      /\ \A i \in 1..(L - 1) : Queued[i] = msg[chain[i + 1]]
  <2>1. 1 \in 1..(L - 1) /\ 1 + 1 = 2
    <3> HIDE DEF L
    <3> QED
      BY <1>0
  <2>2. /\ Queued \in Seq(Message) /\ Len(Queued) = L - 1
        /\ \A i \in 1..(L - 1) : Queued[i] = msg[chain[i + 1]]
    BY QueuedType, Zenon DEF QueuedShape
  <2>3. Len(Queued) # 0
    BY <1>0, <2>2
  <2>4. Queued # <<>>
    BY <2>3
  <2>5. Queued[1] = msg[chain[2]]
    BY <2>1, <2>2
  <2> QED
    BY <2>2, <2>4, <2>5
<1>3. /\ Queued' \in Seq(Message) /\ Len(Queued') = L - 2
      /\ \A i \in 1..(L - 2) : Queued'[i] = msg'[chain'[i + 1]]
  <2>1. QueuedShape'
    BY QueuedType, PTL
  <2>2. /\ Queued' \in Seq(Message) /\ Len(Queued') = Len(chain') - 1
        /\ \A i \in 1..(Len(chain') - 1) : Queued'[i] = msg'[chain'[i + 1]]
    BY <2>1, Zenon DEF QueuedShape
  <2>3. Len(chain') - 1 = L - 2
    <3> HIDE DEF L
    <3> QED
      BY <1>0, <1>1
  <2> QED
    BY <2>2, <2>3
<1>4. /\ Tail(Queued) \in Seq(Message) /\ Len(Tail(Queued)) = L - 2
      /\ \A i \in 1..(L - 2) : Tail(Queued)[i] = Queued[i + 1]
  BY <1>0, <1>2, TailFacts
<1>5. \A i \in 1..(L - 2) : Queued'[i] = Tail(Queued)[i]
  <2> SUFFICES ASSUME NEW i \in 1..(L - 2)
               PROVE  Queued'[i] = Tail(Queued)[i]
    BY Zenon
  <2>1. /\ i + 1 \in 1..(L - 1) /\ (i + 1) + 1 \in 1..L /\ (i + 1) + 1 # 2 /\ 2 \in 1..L
    BY <1>0
  <2>2. chain'[i + 1] = chain[(i + 1) + 1]
    BY <1>1, <2>1
  <2>3. chain[(i + 1) + 1] # chain[2] /\ chain[(i + 1) + 1] \in Nodes
    BY <1>0, <2>1 DEF IInv, ChainOK
  <2>4. msg'[chain'[i + 1]] = msg[chain[(i + 1) + 1]]
    BY <1>0, <2>2, <2>3 DEF DequeueTake, IInv, TypeOK
  <2> QED
    BY <1>2, <1>3, <1>4, <2>1, <2>4
<1>6. Queued' = Tail(Queued)
  BY <1>3, <1>4, <1>5, SameSequence
<1> QED
  BY <1>0, <1>2, <1>6 DEF Queue!Take, DequeueTake
=============================================================================
