--------------------------- MODULE MailboxProofs ---------------------------
(***************************************************************************)
(* The theorems about Mailbox, for every set of producers, every set of    *)
(* nodes and every capacity: its invariant, the safety properties that     *)
(* follow from it, and that it implements MessageQueue.                    *)
(***************************************************************************)
EXTENDS MailboxStepProofs, FiniteSetTheorems

\* sta_mailbox_init establishes the invariant.
LEMMA MailboxInit == Init => IInv
<1> SUFFICES ASSUME Init PROVE IInv
  OBVIOUS
<1> PICK stub \in Nodes :
    /\ heap = {stub} /\ head = stub /\ tail = stub
    /\ chain = <<stub>>
  BY Zenon DEF Init
<1> USE MailboxAssumption
<1>1. TypeOK
  <2>1. chain \in Seq(Nodes) /\ taken \in Seq(Message)
    BY DEF Init
  <2>2. /\ next \in [Nodes -> Nodes \cup {NULL}]
        /\ msg \in [Nodes -> Message \cup {NULL}]
    BY DEF Init
  <2>3. crashed \in BOOLEAN /\ closed \in BOOLEAN
    BY Zenon, Zenon DEF Init
  <2> QED
    BY <2>1, <2>2, <2>3 DEF Init, TypeOK
<1>2. ChainOK
  BY DEF Init, ChainOK
<1>3. LinksOK
  BY DEF Init, LinksOK
<1>4. OwnersOK
  BY DEF Init, OwnersOK, Elems
<1>5. CountOK
  <2>1. Reserved = {} /\ Rejected = {}
    BY Zenon DEF Init, Reserved, Rejected
  <2> QED
    BY <2>1, FS_EmptySet DEF Init, CountOK, Retiring
<1>6. OrderOK
  BY DEF Init, OrderOK, SenderOrder
<1>7. DoneOK /\ WalkOK
  BY Zenon DEF Init, DoneOK, WalkOK
<1> QED
  BY <1>1, <1>2, <1>3, <1>4, <1>5, <1>6, <1>7, Zenon DEF IInv

(* The sets CountOK counts are finite. *)
LEMMA CountsFinite ==
  /\ IsFiniteSet(Reserved) /\ Cardinality(Reserved) \in Nat
  /\ IsFiniteSet(Rejected) /\ Cardinality(Rejected) \in Nat
BY MailboxAssumption, FS_Subset, FS_CardinalityType, Zenon DEF Reserved, Rejected

\* The reservation (malloc and fetch_add) preserves the invariant.
LEMMA ReserveStep ==
  ASSUME IInv, NEW p \in Producers, Reserve(p)
  PROVE  IInv'
<1> USE MailboxAssumption
<1> PICK n \in Nodes \ heap : heap' = heap \cup {n} /\ node' = [node EXCEPT ![p] = n]
  BY Zenon DEF Reserve
<1>0. /\ pc[p] = "idle" /\ pc'[p] \in {"backout", "swing"} /\ node'[p] = n
      /\ sent'[p] = sent[p] + 1 /\ sent[p] \in 0..(MaxSends - 1)
      /\ \A q \in Producers \ {p} :
           pc'[q] = pc[q] /\ node'[q] = node[q] /\ sent'[q] = sent[q]
      /\ UNCHANGED <<head, tail, next, msg, prev, cpc, old, closed, chain,
                     taken, done, walkVars>>
  BY DEF IInv, TypeOK, Reserve
<1>1. TypeOK'
  BY DEF IInv, TypeOK, Reserve, walkVars
<1>2. ChainOK'
  BY <1>0, Zenon DEF IInv, ChainOK, Message
<1>3. LinksOK'
  <2>1. \A i \in 1..(Len(chain) - 1) :
       \/ next[chain[i]] = chain[i + 1]
       \/ /\ next[chain[i]] = NULL
          /\ \E q \in Producers :
               pc'[q] = "link" /\ prev[q] = chain[i] /\ node'[q] = chain[i + 1]
    <3>1. \A q \in Producers : pc[q] = "link" =>
            pc'[q] = "link" /\ node'[q] = node[q]
      BY <1>0
    <3> TAKE i \in 1..(Len(chain) - 1)
    <3>2. CASE next[chain[i]] # chain[i + 1]
      BY <3>1, <3>2, GapHasOwner
    <3> QED
      BY <3>2
  <2>2. \A q \in Producers : pc'[q] = "link" =>
         pc[q] = "link" /\ node'[q] = node[q] /\ sent'[q] = sent[q]
    BY <1>0
  <2> QED
    BY <1>0, <2>1, <2>2 DEF IInv, LinksOK, Sending
<1>4. OwnersOK'
  <2>1. Elems' = Elems
    BY <1>0, Zenon DEF Elems
  <2>2. closed => FALSE
    BY Zenon DEF Reserve
  <2>3. cpc # "gone"
    BY <2>2, Zenon DEF IInv, OwnersOK
  <2>4. \A q \in Producers : pc'[q] # "idle" => node'[q] \in heap'
    BY <1>0 DEF IInv, OwnersOK
  <2>5. \A q \in Producers : pc'[q] \in {"swing", "backout"} =>
          node'[q] \notin Elems /\ sent'[q] \in 1..MaxSends
    BY <1>0, <2>3 DEF IInv, OwnersOK
  <2>6. \A q, r \in Producers :
          pc'[q] # "idle" /\ pc'[r] # "idle" /\ node'[q] = node'[r] => q = r
    BY <1>0 DEF IInv, OwnersOK
  <2>7. cpc = "retire" => old \in heap \ Elems /\
            \A q \in Producers : pc'[q] # "idle" => node'[q] # old
    BY <1>0 DEF IInv, OwnersOK
  <2>8. \A k \in heap' :
       \/ k \in Elems
       \/ cpc = "retire" /\ k = old
       \/ \E q \in Producers : pc'[q] \in {"swing", "backout"} /\ k = node'[q]
    BY <1>0 DEF IInv, OwnersOK
  <2> QED
    BY <1>0, <2>1, <2>2, <2>3, <2>4, <2>5, <2>6, <2>7, <2>8 DEF IInv, OwnersOK
<1>5. CountOK'
  <2> DEFINE L == Len(chain) - 1 + Retiring
  <2>1. L \in Nat /\ count \in Nat /\ L' = L
    BY <1>0 DEF IInv, TypeOK, ChainOK, Retiring
  <2>2. p \notin Reserved /\ p \notin Rejected
    BY <1>0, Zenon DEF Reserved, Rejected
  <2>3. CASE Capacity > 0 /\ count >= Capacity
    <3>1. Rejected' = Rejected \cup {p} /\ Reserved' = Reserved
      BY <1>0, <2>3 DEF Reserve, Reserved, Rejected, IInv, TypeOK
    <3>2. Cardinality(Rejected') = Cardinality(Rejected) + 1
      BY <2>2, <3>1, CountsFinite, FS_AddElement, Zenon
    <3>3. L' + Cardinality(Reserved') <= Capacity
      BY <2>1, <2>3, <3>1, Zenon DEF IInv, CountOK
    <3>4. count' = L' + Cardinality(Reserved') + Cardinality(Rejected')
      BY <2>1, <2>3, <3>1, <3>2, CountsFinite DEF IInv, CountOK, Reserve
    <3> QED
      BY <2>3, <3>3, <3>4 DEF CountOK
  <2>4. CASE ~ (Capacity > 0 /\ count >= Capacity)
    <3>1. Reserved' = Reserved \cup {p} /\ Rejected' = Rejected
      BY <1>0, <2>4 DEF Reserve, Reserved, Rejected, IInv, TypeOK
    <3>2. Cardinality(Reserved') = Cardinality(Reserved) + 1
      BY <2>2, <3>1, CountsFinite, FS_AddElement, Zenon
    <3>3. Capacity > 0 => L' + Cardinality(Reserved') <= Capacity
      BY <2>1, <2>4, <3>1, <3>2, CountsFinite DEF IInv, CountOK
    <3>4. Capacity > 0 =>
            count' = L' + Cardinality(Reserved') + Cardinality(Rejected')
      BY <2>1, <3>1, <3>2, CountsFinite DEF IInv, CountOK, Reserve
    <3> QED
      BY <3>1, <3>3, <3>4, Zenon DEF IInv, CountOK
  <2> QED
    BY <2>3, <2>4
<1>6. OrderOK'
  <2>1. SenderOrder'
    BY <1>0, Zenon DEF IInv, OrderOK, SenderOrder
  <2>2. ASSUME NEW q \in Producers, NEW m \in Message,
               m[1] = q => m[2] <= sent[q] /\ (pc[q] = "swing" => m[2] # sent[q])
        PROVE  m[1] = q => m[2] <= sent'[q] /\ (pc'[q] = "swing" => m[2] # sent'[q])
    BY <1>0, <2>2 DEF IInv, TypeOK, Message
  <2>3. (\A i \in 1..Len(taken) : taken[i] \in Message)
        /\ \A i \in 2..Len(chain) : msg[chain[i]] \in Message
    BY DEF IInv, TypeOK, ChainOK
  <2> QED
    BY <1>0, <2>1, <2>2, <2>3 DEF IInv, OrderOK
<1>7. DoneOK' /\ WalkOK'
  BY DEF IInv, DoneOK, WalkOK, Reserve, walkVars
<1> QED
  BY <1>1, <1>2, <1>3, <1>4, <1>5, <1>6, <1>7, Zenon DEF IInv

\* Backing out of a full mailbox preserves the invariant.
LEMMA BackoutStep ==
  ASSUME IInv, NEW p \in Producers, Backout(p)
  PROVE  IInv'
<1> USE MailboxAssumption
<1> DEFINE n == node[p]
<1>0. /\ pc[p] = "backout" /\ pc'[p] = "idle" /\ heap' = heap \ {n}
      /\ \A q \in Producers \ {p} : pc'[q] = pc[q] /\ node'[q] = node[q]
      /\ UNCHANGED <<head, tail, next, msg, prev, sent, cpc, old, closed, chain,
                     taken, done, walkVars>>
  BY Zenon DEF IInv, TypeOK, Backout
<1>1. CountOK' /\ count' \in Nat
  <2> DEFINE L == Len(chain) - 1 + Retiring
  <2>1. L \in Nat /\ count \in Nat /\ L' = L
    BY <1>0 DEF IInv, TypeOK, ChainOK, Retiring
  <2>2. p \in Rejected /\ Rejected' = Rejected \ {p} /\ Reserved' = Reserved
    BY <1>0, Zenon DEF Reserved, Rejected
  <2>3. Cardinality(Rejected) # 0 /\ Cardinality(Rejected') = Cardinality(Rejected) - 1
    BY <2>2, CountsFinite, FS_RemoveElement, FS_EmptySet
  <2>4. Capacity > 0
    BY <2>2 DEF IInv, CountOK
  <2>5. L' + Cardinality(Reserved') <= Capacity
    BY <2>1, <2>2, <2>4, Zenon DEF IInv, CountOK
  <2>6. /\ count' = L' + Cardinality(Reserved') + Cardinality(Rejected')
        /\ count' \in Nat
    BY <2>1, <2>2, <2>3, <2>4, CountsFinite DEF IInv, CountOK, Backout
  <2> QED
    BY <2>4, <2>5, <2>6 DEF CountOK
<1>2. TypeOK'
  BY <1>1, Zenon DEF IInv, TypeOK, Backout, walkVars
<1>3. ChainOK' /\ DoneOK' /\ WalkOK'
  BY <1>0 DEF IInv, ChainOK, Message, DoneOK, WalkOK, walkVars
<1>4. LinksOK'
  <2>1. \A q \in Producers : pc[q] = "link" =>
          pc'[q] = "link" /\ node'[q] = node[q]
    BY <1>0
  <2>2. \A q \in Producers : pc'[q] = "link" =>
          pc[q] = "link" /\ node'[q] = node[q]
    BY <1>0
  <2>3. \A i \in 1..(Len(chain) - 1) :
       \/ next[chain[i]] = chain[i + 1]
       \/ /\ next[chain[i]] = NULL
          /\ \E q \in Producers :
               pc'[q] = "link" /\ prev[q] = chain[i] /\ node'[q] = chain[i + 1]
    BY <2>1 DEF IInv, LinksOK
  <2>4. \A q \in Producers : pc'[q] = "link" =>
          /\ msg[node'[q]] = <<q, sent[q]>>
          /\ \E i \in 1..(Len(chain) - 1) :
               /\ prev[q] = chain[i] /\ node'[q] = chain[i + 1]
               /\ next[prev[q]] = NULL
    <3> SUFFICES ASSUME NEW q \in Producers, pc'[q] = "link"
                 PROVE  /\ msg[node[q]] = <<q, sent[q]>>
                        /\ \E i \in 1..(Len(chain) - 1) :
                             /\ prev[q] = chain[i] /\ node[q] = chain[i + 1]
                             /\ next[prev[q]] = NULL
      BY <2>2
    <3> QED
      BY <2>2, Zenon DEF IInv, LinksOK, Sending
  <2> QED
    <3>1. next'[tail'] = NULL
      BY <1>0, TailEnds, Zenon
    <3> QED
      BY <1>0, <2>3, <2>4, <3>1 DEF LinksOK, Sending
<1>5. OwnersOK'
  <2>1. Elems' = Elems /\ n \notin Elems
    BY <1>0 DEF Elems, IInv, OwnersOK
  <2>2. ~closed /\ cpc # "gone"
    BY <1>0, Zenon DEF IInv, OwnersOK
  <2>3. \A q \in Producers : pc'[q] # "idle" => q # p /\ node'[q] \in heap'
    BY <1>0 DEF IInv, OwnersOK
  <2>4. \A q, r \in Producers :
          pc'[q] # "idle" /\ pc'[r] # "idle" /\ node'[q] = node'[r] => q = r
    BY <1>0, <2>3 DEF IInv, OwnersOK
  <2>5. \A k \in heap' :
          \/ k \in Elems
          \/ cpc = "retire" /\ k = old
          \/ \E q \in Producers : pc'[q] \in {"swing", "backout"} /\ k = node'[q]
    BY <1>0 DEF IInv, OwnersOK
  <2> QED
    BY <1>0, <2>1, <2>2, <2>3, <2>4, <2>5 DEF IInv, OwnersOK
<1>6. OrderOK'
  <2>1. \A q \in Producers : pc'[q] = "swing" => pc[q] = "swing"
    BY <1>0
  <2> QED
    BY <1>0, <2>1 DEF IInv, OrderOK, SenderOrder
<1> QED
  BY <1>1, <1>2, <1>3, <1>4, <1>5, <1>6, Zenon DEF IInv

\* The exchange of tail preserves the invariant: it opens a gap with an owner.
LEMMA SwingStep ==
  ASSUME IInv, NEW p \in Producers, Swing(p)
  PROVE  IInv'
<1> USE MailboxAssumption
<1> DEFINE n == node[p]
           L == Len(chain)
<1>0. /\ pc[p] = "swing" /\ pc'[p] = "link" /\ prev'[p] = tail /\ tail' = n
      /\ n \in heap /\ n \in Nodes /\ n \notin Elems /\ sent[p] \in 1..MaxSends
      /\ \A q \in Producers \ {p} : pc'[q] = pc[q] /\ prev'[q] = prev[q]
      /\ UNCHANGED <<heap, head, count, node, sent, cpc, old, closed, taken, done,
                     walkVars>>
  BY DEF IInv, TypeOK, OwnersOK, Swing
<1>1. /\ chain' \in Seq(Nodes) /\ Len(chain') = L + 1 /\ L \in Nat \ {0}
      /\ \A i \in 1..L : chain'[i] = chain[i]
      /\ chain'[L + 1] = n
  BY <1>0, AppendFacts DEF IInv, TypeOK, ChainOK, Swing
<1>2. /\ msg'[n] = <<p, sent[p]>> /\ msg'[n] \in Message /\ next'[n] = NULL
      /\ \A i \in 1..L : /\ chain[i] \in Nodes /\ chain[i] # n
                         /\ msg'[chain[i]] = msg[chain[i]]
                         /\ next'[chain[i]] = next[chain[i]]
  <2>1. \A i \in 1..L : chain[i] \in Nodes /\ chain[i] # n
    BY <1>0, SMTT(20) DEF IInv, TypeOK, Elems
  <2> QED
    BY <1>0, <2>1 DEF IInv, TypeOK, Swing, Sending, Message
<1>3. TypeOK'
  <2>1. Sending(p) \in Message
    BY <1>0, <1>2, Zenon DEF Sending
  <2> QED
    BY <1>0, <1>1, <2>1 DEF IInv, TypeOK, Swing, walkVars
<1>4. ChainOK'
  <2>1. \A i, j \in 1..(L + 1) : chain'[i] = chain'[j] => i = j
    BY <1>1, <1>2 DEF IInv, ChainOK
  <2>2. \A i \in 2..(L + 1) : msg'[chain'[i]] \in Message
    BY <1>1, <1>2 DEF IInv, ChainOK
  <2>3. cpc' # "gone" => head' = chain'[1]
    <3>1. 1 \in 1..L
      BY <1>1
    <3> QED
      BY <1>0, <1>1, <3>1, Zenon DEF IInv, ChainOK
  <2>4. tail' = chain'[Len(chain')] /\ chain' # <<>>
    BY <1>0, <1>1
  <2> QED
    BY <1>1, <2>1, <2>2, <2>3, <2>4 DEF ChainOK, Message
<1>5. LinksOK'
  <2>1. tail = chain[L] /\ next'[tail] = NULL
    <3>1. L \in 1..L
      BY <1>1
    <3> QED
      BY <1>2, <3>1, TailEnds, Zenon
  <2>2. \A i \in 1..L :
       \/ next'[chain'[i]] = chain'[i + 1]
       \/ /\ next'[chain'[i]] = NULL
          /\ \E q \in Producers :
               pc'[q] = "link" /\ prev'[q] = chain'[i] /\ node[q] = chain'[i + 1]
    <3> TAKE i \in 1..L
    <3>1. CASE i = L
      BY <1>0, <1>1, <2>1, <3>1
    <3>2. CASE i # L
      <4>1. i \in 1..(L - 1) /\ i + 1 \in 1..L
        BY <1>1, <3>2
      <4>2. chain'[i] = chain[i] /\ chain'[i + 1] = chain[i + 1]
            /\ next'[chain[i]] = next[chain[i]]
        BY <1>1, <1>2, <4>1
      <4>3. \A q \in Producers : pc[q] = "link" =>
              pc'[q] = "link" /\ prev'[q] = prev[q]
        BY <1>0
      <4> QED
        BY <4>1, <4>2, <4>3 DEF IInv, LinksOK
    <3> QED
      BY <3>1, <3>2
  <2>3. ASSUME NEW q \in Producers, pc'[q] = "link"
        PROVE  /\ msg'[node[q]] = <<q, sent[q]>>
               /\ \E i \in 1..L : /\ prev'[q] = chain'[i] /\ node[q] = chain'[i + 1]
                                  /\ next'[prev'[q]] = NULL
    <3>1. CASE q = p
      BY <1>0, <1>1, <1>2, <2>1, <3>1
    <3>2. CASE q # p
      <4>1. pc[q] = "link" /\ prev'[q] = prev[q]
        BY <1>0, <2>3, <3>2
      <4>2. PICK i \in 1..(L - 1) : /\ prev[q] = chain[i] /\ node[q] = chain[i + 1]
                                    /\ next[prev[q]] = NULL
        BY <4>1, OwnerHasGap, Zenon
      <4>3. i \in 1..L /\ i + 1 \in 1..L
        BY <1>1, <4>2
      <4>4. msg'[node[q]] = msg[node[q]]
        BY <1>2, <4>2, <4>3
      <4>5. msg[node[q]] = <<q, sent[q]>>
        BY <4>1, OwnerHasGap, Zenon DEF Sending
      <4> QED
        BY <1>1, <1>2, <4>1, <4>2, <4>3, <4>4, <4>5
    <3> QED
      BY <3>1, <3>2
  <2>4. Len(chain') - 1 = L /\ node' = node /\ sent' = sent /\ next'[tail'] = NULL
    BY <1>0, <1>1, <1>2
  <2> HIDE DEF L
  <2> QED
    BY <2>2, <2>3, <2>4 DEF LinksOK, Sending
<1>6. OwnersOK'
  <2>1. Elems' = Elems \cup {n}
    BY <1>1 DEF Elems
  <2>2. ~closed /\ cpc # "gone"
    BY <1>0, Zenon DEF IInv, OwnersOK
  <2>3. \A q \in Producers : pc'[q] # "idle" => pc[q] # "idle"
    BY <1>0
  <2>4. \A q \in Producers : pc'[q] \in {"swing", "backout"} =>
          q # p /\ pc[q] \in {"swing", "backout"} /\ node[q] # n
    BY <1>0, Zenon DEF IInv, OwnersOK
  <2>5. cpc = "retire" => old # n
    BY <1>0, Zenon DEF IInv, OwnersOK
  <2>6. \A k \in heap :
          \/ k \in Elems'
          \/ cpc = "retire" /\ k = old
          \/ \E q \in Producers : pc'[q] \in {"swing", "backout"} /\ k = node[q]
    BY <1>0, <2>1 DEF IInv, OwnersOK
  <2> QED
    BY <1>0, <2>1, <2>2, <2>3, <2>4, <2>5, <2>6 DEF IInv, OwnersOK
<1>7. CountOK'
  <2>1. L \in Nat /\ Retiring' = Retiring /\ Retiring \in Nat
    BY <1>0, <1>1, Zenon DEF Retiring
  <2>2. p \in Reserved /\ Reserved' = Reserved \ {p} /\ Rejected' = Rejected
    BY <1>0, Zenon DEF Reserved, Rejected
  <2>3. Cardinality(Reserved') = Cardinality(Reserved) - 1
    BY <2>2, CountsFinite, FS_RemoveElement, Zenon
  <2>4. /\ Capacity = 0 => Rejected = {}
        /\ Capacity > 0 =>
             /\ count = L - 1 + Retiring + Cardinality(Reserved) + Cardinality(Rejected)
             /\ L - 1 + Retiring + Cardinality(Reserved) <= Capacity
    BY Zenon DEF IInv, CountOK
  <2>5. Cardinality(Reserved) \in Nat /\ Cardinality(Rejected) \in Nat
    BY CountsFinite
  <2>6. count' = count /\ Len(chain') = L + 1
    BY <1>0, <1>1
  <2> HIDE DEF L
  <2> QED
    BY <2>1, <2>2, <2>3, <2>4, <2>5, <2>6 DEF CountOK
<1>8. OrderOK'
  <2>1. \A i \in 1..Len(taken) : taken[i] \in Message
    BY DEF IInv, TypeOK
  <2>2. \A i \in 2..L : msg[chain[i]] \in Message /\ i \in 1..L
    BY <1>1 DEF IInv, ChainOK
  <2>3. \A i \in 2..L : chain'[i] = chain[i] /\ msg'[chain'[i]] = msg[chain[i]]
    BY <1>1, <1>2
  <2>4. msg'[chain'[L + 1]] = <<p, sent[p]>>
    BY <1>1, <1>2
  <2>5. \A i \in 1..Len(taken) : taken[i][1] = p => taken[i][2] < sent[p]
    BY <1>0, <2>1 DEF IInv, OrderOK, TypeOK, Message
  <2>6. \A i \in 2..L : msg[chain[i]][1] = p => msg[chain[i]][2] < sent[p]
    BY <1>0, <2>2, SMTT(20) DEF IInv, OrderOK, TypeOK, Message
  <2>7. \A i \in 1..Len(taken), j \in 2..(L + 1) :
         taken[i][1] = msg'[chain'[j]][1] => taken[i][2] < msg'[chain'[j]][2]
    BY <1>1, <2>3, <2>4, <2>5 DEF IInv, OrderOK
  <2>8. \A i, j \in 2..(L + 1) :
         i < j /\ msg'[chain'[i]][1] = msg'[chain'[j]][1]
           => msg'[chain'[i]][2] < msg'[chain'[j]][2]
    <3> TAKE i, j \in 2..(L + 1)
    <3>1. CASE j = L + 1
      <4>1. i < j => i \in 2..L
        BY <1>1, <3>1
      <4> QED
        BY <2>3, <2>4, <2>6, <3>1, <4>1
    <3>2. CASE j # L + 1
      <4>1. i < j => i \in 2..L /\ j \in 2..L
        BY <1>1, <3>2
      <4> QED
        BY <2>3, <4>1, Zenon DEF IInv, OrderOK
    <3> QED
      BY <3>1, <3>2
  <2>9. \A q \in Producers : \A i \in 2..(L + 1) : msg'[chain'[i]][1] = q =>
            /\ msg'[chain'[i]][2] <= sent[q]
            /\ pc'[q] = "swing" => msg'[chain'[i]][2] # sent[q]
    <3> TAKE q \in Producers
    <3> TAKE i \in 2..(L + 1)
    <3>1. CASE i = L + 1
      <4>1. <<p, sent[p]>>[1] = p /\ <<p, sent[p]>>[2] = sent[p] /\ sent[p] \in Nat
        BY <1>0
      <4> QED
        BY <1>0, <2>4, <3>1, <4>1
    <3>2. CASE i # L + 1
      <4>1. i \in 2..L
        BY <1>1, <3>2
      <4>2. pc'[q] = "swing" => pc[q] = "swing"
        BY <1>0
      <4> QED
        BY <2>3, <4>1, <4>2 DEF IInv, OrderOK
    <3> QED
      BY <3>1, <3>2
  <2>10. \A q \in Producers : pc'[q] = "swing" => pc[q] = "swing"
    BY <1>0
  <2> HIDE DEF L
  <2> QED
    BY <1>0, <1>1, <2>7, <2>8, <2>9, <2>10, Zenon DEF IInv, OrderOK, SenderOrder
<1>9. DoneOK'
  <2>1. \A i \in 2..L : i \in 2..Len(chain') /\ msg'[chain'[i]] = msg[chain[i]]
    BY <1>1, <1>2
  <2> QED
    BY <1>0, <2>1 DEF IInv, DoneOK
<1>10. WalkOK'
  <2> SUFFICES ASSUME cpc = "walk" PROVE WalkOK'
    BY <1>0, Zenon DEF WalkOK
  <2>1. \A i \in 2..L : i \in 2..Len(chain') /\ chain'[i] = chain[i]
                         /\ msg'[chain'[i]] = msg[chain[i]]
    BY <1>1, <1>2
  <2>2. \A i \in 1..L : next'[chain'[i]] = next[chain[i]]
    BY <1>1, <1>2
  <2>3. cursor # NULL =>
         \E i \in 2..Len(chain') :
           /\ cursor = chain'[i]
           /\ \A m \in due \ visited :
                \E j \in i..Len(chain') :
                  /\ msg'[chain'[j]] = m
                  /\ \A k \in 1..(j - 1) : next'[chain'[k]] # NULL
    <3> HAVE cursor # NULL
    <3>1. PICK i \in 2..L :
           /\ cursor = chain[i]
           /\ \A m \in due \ visited :
                \E j \in i..L : /\ msg[chain[j]] = m
                               /\ \A k \in 1..(j - 1) : next[chain[k]] # NULL
      BY Zenon DEF IInv, WalkOK
    <3>2. \A m \in due \ visited :
            \E j \in i..Len(chain') : /\ msg'[chain'[j]] = m
                           /\ \A k \in 1..(j - 1) : next'[chain'[k]] # NULL
      <4> TAKE m \in due \ visited
      <4>1. PICK j \in i..L : /\ msg[chain[j]] = m
                             /\ \A k \in 1..(j - 1) : next[chain[k]] # NULL
        BY <3>1
      <4>2. j \in 2..L /\ j \in i..Len(chain') /\ \A k \in 1..(j - 1) : k \in 1..L
        BY <1>1, <4>1
      <4>3. msg'[chain'[j]] = m
        BY <2>1, <4>1, <4>2
      <4>4. \A k \in 1..(j - 1) : next'[chain'[k]] # NULL
        BY <2>2, <4>1, <4>2
      <4> QED
        BY <4>2, <4>3, <4>4
    <3> QED
      BY <2>1, <3>1, <3>2
  <2> QED
    <3>1. /\ \A m \in visited : \E i \in 2..L : msg[chain[i]] = m
          /\ cursor = NULL => due \subseteq visited
      BY Zenon DEF IInv, WalkOK
    <3>2. /\ visited' = visited /\ cursor' = cursor /\ due' = due
      BY <1>0, Zenon DEF walkVars
    <3>3. \A m \in visited : \E i \in 2..Len(chain') : msg'[chain'[i]] = m
      BY <2>1, <3>1, Zenon
    <3> QED
      BY <2>3, <3>1, <3>2, <3>3, Zenon DEF WalkOK
<1> QED
  BY <1>3, <1>4, <1>5, <1>6, <1>7, <1>8, <1>9, <1>10, Zenon DEF IInv

(* IInv is an inductive invariant of the mailbox. *)
THEOREM MailboxInvariant == Spec => []IInv
<1>1. IInv /\ [Next]_vars => IInv'
  <2> SUFFICES ASSUME IInv, [Next]_vars PROVE IInv'
    OBVIOUS
  <2>1. CASE UNCHANGED vars
    BY <2>1, IdleStep
  <2>2. ASSUME NEW p \in Producers, Producer(p) PROVE IInv'
    BY <2>2, NoMemStep, ReserveStep, BackoutStep, SwingStep, LinkStep, Zenon DEF Producer
  <2>3. CASE Consumer
    BY <2>3, CountsFinite, TakeStep, RetireStep, WalkSteps, DestroySteps, Zenon DEF Consumer, Counted
  <2> QED
    BY <2>1, <2>2, <2>3, Zenon DEF Next
<1> QED
  BY <1>1, MailboxInit, PTL DEF Spec

-----------------------------------------------------------------------------
(* What follows from the invariant *)

(* No producer or consumer step touches a freed node. *)
THEOREM MailboxNoUseAfterFree == Spec => []NoUseAfterFree
<1>1. IInv => NoUseAfterFree
  <2> SUFFICES ASSUME IInv PROVE NoUseAfterFree
    OBVIOUS
  <2> DEFINE L == Len(chain)
  <2>1. L \in Nat \ {0}
    BY DEF IInv, TypeOK, ChainOK
  <2>2. cpc # "gone" => \A i \in 1..L : chain[i] \in heap
    BY Zenon DEF IInv, OwnersOK, Elems
  <2>3. cpc # "gone" => {head, tail} \subseteq heap
    BY <2>1, <2>2 DEF IInv, ChainOK
  <2>4. ASSUME NEW p \in Producers, pc[p] = "link" PROVE prev[p] \in heap
    <3>1. PICK i \in 1..(L - 1) : prev[p] = chain[i]
      BY <2>4, Zenon DEF IInv, LinksOK
    <3>2. i \in 1..L
      BY <2>1
    <3>3. cpc # "gone"
      BY <2>4, Zenon DEF IInv, OwnersOK
    <3> QED
      BY <2>2, <3>1, <3>2, <3>3
  <2>5. cpc = "walk" /\ cursor # NULL => cursor \in heap
    <3>1. \A i \in 2..L : i \in 1..L
      BY <2>1
    <3> QED
      BY <2>2, <3>1 DEF IInv, WalkOK
  <2> QED
    BY <2>3, <2>4, <2>5, Zenon DEF IInv, OwnersOK, NoUseAfterFree
<1> QED
  BY <1>1, MailboxInvariant, PTL

(* In a bounded mailbox a zero count means an empty queue. *)
THEOREM MailboxEmptyIsTruthful ==
  ASSUME Capacity > 0
  PROVE  Spec => []EmptyIsTruthful
<1>1. IInv => EmptyIsTruthful
  <2> SUFFICES ASSUME IInv, count = 0 PROVE Queued = <<>>
    BY Zenon DEF EmptyIsTruthful
  <2> DEFINE L == Len(chain)
  <2>1. L \in Nat \ {0} /\ Retiring \in Nat
    BY DEF IInv, TypeOK, ChainOK, Retiring
  <2>2. L = 1
    <3> HIDE DEF L
    <3>1. count = L - 1 + Retiring + Cardinality(Reserved) + Cardinality(Rejected)
      BY MailboxAssumption, Zenon DEF L, IInv, CountOK
    <3> QED
      BY <2>1, <3>1, CountsFinite
  <2> QED
    BY <2>2 DEF Queued
<1> QED
  BY <1>1, MailboxInvariant, PTL

(* The walk covers what it could reach, and invents nothing. *)
THEOREM MailboxWalkCovers == Spec => []WalkCovers
<1>1. IInv => WalkCovers
  <2> SUFFICES ASSUME IInv, cpc = "walk" PROVE WalkCovers
    BY Zenon DEF WalkCovers
  <2> DEFINE L == Len(chain)
  <2>1. L \in Nat \ {0}
    BY DEF IInv, TypeOK, ChainOK
  <2>2. \A i \in 2..L : /\ i - 1 \in DOMAIN Queued
                       /\ Queued[i - 1] = msg[chain[i]]
    BY <2>1 DEF Queued
  <2>3. \A m \in visited : \E i \in 2..L : msg[chain[i]] = m
    BY Zenon DEF IInv, WalkOK
  <2>4. visited \subseteq {Queued[i] : i \in DOMAIN Queued}
    BY <2>2, <2>3
  <2> QED
    BY <2>4, Zenon DEF IInv, WalkOK, WalkCovers
<1> QED
  BY <1>1, MailboxInvariant, PTL

(* Messages of one sender are taken in the order they were sent. *)
THEOREM MailboxSenderOrder == Spec => []SenderOrder
<1>1. IInv => SenderOrder
  BY Zenon DEF IInv, OrderOK
<1> QED
  BY <1>1, MailboxInvariant, PTL

(* Destroying the mailbox frees every node and every accepted message. *)
THEOREM MailboxDestroyFreesAll == Spec => []DestroyFreesAll
<1>1. IInv => DestroyFreesAll
  <2> SUFFICES ASSUME IInv, cpc = "gone" PROVE DestroyFreesAll
    BY Zenon DEF DestroyFreesAll
  <2>1. heap = {} /\ Len(chain) = 1
    BY Zenon DEF IInv, OwnersOK
  <2>2. Queued = <<>>
    BY <2>1 DEF Queued
  <2> QED
    BY <2>1, <2>2 DEF IInv, DoneOK, DestroyFreesAll
<1> QED
  BY <1>1, MailboxInvariant, PTL

-----------------------------------------------------------------------------
(* Mailbox implements MessageQueue *)

\* The exchange of tail is the step at which the queue accepts the message.
LEMMA SwingAccepts ==
  ASSUME IInv, IInv', NEW p \in Producers, Swing(p)
  PROVE  Queue!Accept(Sending(p)) /\ Sending(p) \in Message
<1> USE MailboxAssumption
<1> DEFINE L == Len(chain)
           n == node[p]
<1>0. L \in Nat \ {0} /\ n \in Nodes /\ n \notin Elems /\ chain \in Seq(Nodes)
  <2>1. L \in Nat \ {0} /\ chain \in Seq(Nodes)
    BY DEF IInv, TypeOK, ChainOK
  <2>2. n \in heap /\ n \notin Elems
    BY Zenon DEF IInv, OwnersOK, Swing
  <2>3. n \in Nodes
    BY <2>2, Zenon DEF IInv, TypeOK
  <2> QED
    BY <2>1, <2>2, <2>3
<1>1. Sending(p) \in Message
  BY Zenon DEF IInv, OwnersOK, Swing, Sending, Message
<1>2. /\ Len(chain') = L + 1 /\ chain'[L + 1] = n
      /\ \A i \in 1..L : chain'[i] = chain[i] /\ chain[i] # n
  <2>1. chain' = Append(chain, n)
    BY Zenon DEF Swing
  <2>2. \A i \in 1..L : chain[i] # n
    BY <1>0, Zenon DEF Elems
  <2> QED
    BY <1>0, <2>1, <2>2, AppendFacts
<1>3. /\ Len(Queued') = L /\ Queued' \in Seq(Message)
      /\ \A i \in 1..L : Queued'[i] = msg'[chain'[i + 1]]
  <2>1. QueuedShape'
    BY QueuedType, PTL
  <2> QED
    BY <1>0, <1>2, <2>1 DEF QueuedShape
<1>4. /\ Append(Queued, Sending(p)) \in Seq(Message)
      /\ Len(Append(Queued, Sending(p))) = L
      /\ \A i \in 1..(L - 1) : Append(Queued, Sending(p))[i] = msg[chain[i + 1]]
      /\ Append(Queued, Sending(p))[L] = Sending(p)
  BY <1>0, <1>1, QueuedType, AppendFacts DEF QueuedShape
<1>5. \A i \in 1..L : Queued'[i] = Append(Queued, Sending(p))[i]
  <2> SUFFICES ASSUME NEW i \in 1..L
               PROVE  Queued'[i] = Append(Queued, Sending(p))[i]
    BY Zenon
  <2>1. CASE i = L
    <3>1. Queued'[L] = msg'[n]
      <4>1. L \in 1..L
        BY <1>0
      <4> QED
        BY <1>2, <1>3, <4>1
    <3> QED
      BY <1>0, <1>4, <2>1, <3>1, Zenon DEF Swing, IInv, TypeOK
  <2>2. CASE i # L
    <3>1. i \in 1..(L - 1) /\ i + 1 \in 1..L
      BY <1>0, <2>2
    <3>2. chain'[i + 1] = chain[i + 1] /\ chain[i + 1] # n /\ chain[i + 1] \in Nodes
      BY <1>0, <1>2, <3>1
    <3>3. msg'[chain'[i + 1]] = msg[chain[i + 1]]
      BY <3>2 DEF Swing, IInv, TypeOK
    <3> QED
      BY <1>3, <1>4, <3>1, <3>3, Zenon
  <2> QED
    BY <2>1, <2>2, Zenon
<1>6. Queued' = Append(Queued, Sending(p))
  BY <1>3, <1>4, <1>5, SameSequence, Zenon
<1>7. Capacity > 0 => Len(Queued) < Capacity
  <2>1. p \in Reserved
    BY Zenon DEF Swing, Reserved
  <2>2. Cardinality(Reserved) # 0
    BY <2>1, CountsFinite, FS_EmptySet
  <2>3. Retiring \in Nat
    BY Zenon DEF Retiring
  <2>4. Capacity > 0 => L - 1 + Retiring + Cardinality(Reserved) <= Capacity
    BY Zenon DEF IInv, CountOK
  <2>5. Len(Queued) = L - 1
    BY QueuedType, Zenon DEF QueuedShape
  <2> QED
    BY <1>0, <2>2, <2>3, <2>4, <2>5, CountsFinite
<1> QED
  BY <1>1, <1>6, <1>7, Zenon DEF Queue!Accept, Swing

(* Every behaviour of the mailbox is one of MessageQueue: each step accepts a *)
(* message, takes one, or leaves the queue alone.                             *)
THEOREM MailboxImplementsQueue == Spec => ImplementsQueue
<1>1. Init => Queue!QInit
  <2> SUFFICES ASSUME Init PROVE Queued = <<>> /\ taken = <<>>
    BY Zenon DEF Queue!QInit
  <2>1. Len(chain) = 1
    BY DEF Init
  <2> QED
    BY <2>1 DEF Init, Queued
<1>2. IInv /\ IInv' /\ [Next]_vars => [Queue!QNext]_(Queue!qvars)
  <2> SUFFICES ASSUME IInv, IInv', [Next]_vars
               PROVE  Queue!QNext \/ UNCHANGED <<Queued, taken>>
    BY Zenon DEF Queue!qvars
  <2>1. CASE UNCHANGED <<chain, msg, taken>>
    BY <2>1, Zenon DEF Queued
  <2>2. ASSUME NEW p \in Producers, Swing(p) PROVE Queue!QNext
    BY <2>2, SwingAccepts, Zenon DEF Queue!QNext
  <2>3. CASE DequeueTake
    BY <2>3, TakeTakes, Zenon DEF Queue!QNext
  <2>4. ASSUME NEW p \in Producers, Producer(p), ~ Swing(p)
        PROVE  UNCHANGED <<chain, msg, taken>>
    BY <2>4, Zenon DEF Producer, EnqueueNoMem, Reserve, Backout, Link
  <2>5. ASSUME Consumer, ~ DequeueTake
        PROVE  UNCHANGED <<chain, msg, taken>>
    BY <2>5, Zenon DEF Consumer, DequeueRetire, WalkStart, WalkStep, WalkEnd,
                DestroyStart, DestroyEnd
  <2>6. CASE UNCHANGED vars
    BY <2>6, <2>1, Zenon DEF vars
  <2> QED
    BY <2>1, <2>2, <2>3, <2>4, <2>5, <2>6, Zenon DEF Next
<1> QED
  BY <1>1, <1>2, MailboxInvariant, PTL DEF Spec, ImplementsQueue, Queue!QSpec
=============================================================================
