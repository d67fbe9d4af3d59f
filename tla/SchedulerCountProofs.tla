----------------------- MODULE SchedulerCountProofs -----------------------
(***************************************************************************)
(* What is counted: reference counts are exact, and so no thread and no    *)
(* queue has an actor that has been freed, whatever actors do and however  *)
(* often one is queued; and the places of an actor are one at most.        *)
(***************************************************************************)
EXTENDS SchedulerProofs, FiniteSetTheorems

\* The references an actor has, kind by kind, as RefsExact adds them up.
Bit(b) == IF b THEN 1 ELSE 0
Occurs(q, a) == Cardinality(Positions(q, a))
Beyond(q, k, a) == Cardinality({i \in (k + 1)..Len(q) : q[i] = a})
Slots(d, a) == UNION {Positions(d[w], a) \X {w} : w \in Workers}
Registry(a) == IF kpc[a] = "done" THEN 0 ELSE 1
Lookups(a) == Cardinality({s \in Senders : tgt[s] = a})
Pushes(a) == Cardinality({s \in Senders : tgt[s] = a /\ spc[s] = "push"})
Holds(a) == Cardinality({w \in Workers : cur[w] = a})
InDeques(a) == Cardinality(Slots(deque, a))
Count(a) == Registry(a) + Lookups(a) + Pushes(a) + Holds(a) + Occurs(overflow, a) + InDeques(a) + lost[a]

\* Types of the variables the counts need, and what is known of an actor that
\* has been freed.
CountTyping ==
  /\ refs = [a \in Actors |-> refs[a]] /\ kpc = [a \in Actors |-> kpc[a]]
  /\ lost \in [Actors -> Nat]
CountOK == \A a \in Actors : refs[a] = Count(a)
FreedOK ==
  /\ \A a \in registered : kpc[a] \in {"idle", "unregister"}
  /\ freed \subseteq Actors /\ \A a \in freed : refs[a] = 0
-----------------------------------------------------------------------------
(* Counting *)

\* Two subsets of a finite set that differ in one element at most.
LEMMA CountMove ==
  ASSUME NEW S, IsFiniteSet(S), NEW P \in SUBSET S, NEW Q \in SUBSET S, NEW x,
         \A y \in S : y # x => (y \in P <=> y \in Q)
  PROVE  /\ Cardinality(P) \in Nat /\ Cardinality(Q) \in Nat
         /\ Cardinality(Q) = Cardinality(P) - Bit(x \in P) + Bit(x \in Q)
<1>1. IsFiniteSet(P) /\ IsFiniteSet(Q)
  BY FS_Subset, Zenon
<1>2. Cardinality(P) \in Nat /\ Cardinality(Q) \in Nat
  BY <1>1, FS_CardinalityType, Zenon
<1>3. P \ {x} = Q \ {x}
  OBVIOUS
<1>4. /\ Cardinality(P \ {x}) = IF x \in P THEN Cardinality(P) - 1 ELSE Cardinality(P)
      /\ Cardinality(Q \ {x}) = IF x \in Q THEN Cardinality(Q) - 1 ELSE Cardinality(Q)
  BY <1>1, FS_RemoveElement, Zenon
<1> QED
  BY <1>2, <1>3, <1>4 DEF Bit

\* The union of two sets with nothing in common.
LEMMA CountUnion ==
  ASSUME NEW P, NEW Q, IsFiniteSet(P), IsFiniteSet(Q), P \cap Q = {}
  PROVE  IsFiniteSet(P \cup Q) /\ Cardinality(P \cup Q) = Cardinality(P) + Cardinality(Q)
<1>1. Cardinality(P) \in Nat /\ Cardinality(Q) \in Nat /\ Cardinality(P \cap Q) = 0
  BY FS_CardinalityType, FS_EmptySet, Zenon
<1>2. IsFiniteSet(P \cup Q) /\ Cardinality(P \cup Q) = Cardinality(P) + Cardinality(Q) - Cardinality(P \cap Q)
  BY FS_Union, Zenon
<1> QED
  BY <1>1, <1>2

\* As many as there are in another set.
LEMMA CountShift ==
  ASSUME NEW P, IsFiniteSet(P), P \subseteq Nat, NEW n \in Nat
  PROVE  IsFiniteSet({i + n : i \in P}) /\ Cardinality({i + n : i \in P}) = Cardinality(P)
<1> DEFINE T == {i + n : i \in P}
           f == [i \in P |-> i + n]
<1>1. f \in Bijection(P, T)
  <2>1. f \in [P -> T] /\ \A i, j \in P : f[i] = f[j] => i = j
    OBVIOUS
  <2>2. \A t \in T : \E i \in P : f[i] = t
    OBVIOUS
  <2> QED
    BY <2>1, <2>2 DEF Bijection, Injection, IsInjective, Surjection
<1>2. ExistsBijection(P, T)
  BY <1>1, Zenon DEF ExistsBijection
<1> QED
  BY <1>2, FS_Bijection, Zenon

\* Tagging the members of a set keeps their number.
LEMMA CountPairs ==
  ASSUME NEW P, IsFiniteSet(P), NEW w
  PROVE  IsFiniteSet(P \X {w}) /\ Cardinality(P \X {w}) = Cardinality(P)
<1> DEFINE T == P \X {w}
           f == [i \in P |-> <<i, w>>]
<1>1. f \in Bijection(P, T)
  <2>1. f \in [P -> T] /\ \A i, j \in P : f[i] = f[j] => i = j
    OBVIOUS
  <2>2. \A t \in T : \E i \in P : f[i] = t
    OBVIOUS
  <2> QED
    BY <2>1, <2>2 DEF Bijection, Injection, IsInjective, Surjection
<1>2. ExistsBijection(P, T)
  BY <1>1, Zenon DEF ExistsBijection
<1> QED
  BY <1>2, FS_Bijection, Zenon

\* Occurrences in a queue.
LEMMA OccursType ==
  ASSUME NEW S, NEW q \in Seq(S), NEW a
  PROVE  /\ IsFiniteSet(Positions(q, a)) /\ Occurs(q, a) \in Nat
         /\ Positions(q, a) = {i \in 1..Len(q) : q[i] = a}
         /\ Occurs(q, a) = 0 => \A i \in 1..Len(q) : q[i] # a
<1>1. DOMAIN q = 1..Len(q) /\ Len(q) \in Nat
  OBVIOUS
<1>2. Positions(q, a) = {i \in 1..Len(q) : q[i] = a}
  BY <1>1, Zenon DEF Positions
<1>3. IsFiniteSet(1..Len(q))
  BY <1>1, FS_Interval
<1>4. IsFiniteSet(Positions(q, a))
  BY <1>2, <1>3, FS_Subset
<1>5. Occurs(q, a) \in Nat /\ (Occurs(q, a) = 0 <=> Positions(q, a) = {})
  BY <1>4, FS_CardinalityType, FS_EmptySet, Zenon DEF Occurs
<1> QED
  BY <1>2, <1>4, <1>5

\* An actor occurs in a queue of one once or not at all.
LEMMA OccursOne ==
  ASSUME NEW x, NEW a
  PROVE  Occurs(<<x>>, a) = Bit(x = a)
<1>1. Positions(<<x>>, a) = IF x = a THEN {1} ELSE {}
  BY DEF Positions
<1> QED
  BY <1>1, FS_EmptySet, FS_Singleton DEF Occurs, Bit

\* An actor occurs in two queues as often as in the one after the other.
LEMMA OccursJoin ==
  ASSUME NEW S, NEW p \in Seq(S), NEW q \in Seq(S), NEW a
  PROVE  Occurs(p \o q, a) = Occurs(p, a) + Occurs(q, a)
<1>1. /\ p \o q \in Seq(S) /\ Len(p \o q) = Len(p) + Len(q) /\ Len(p) \in Nat /\ Len(q) \in Nat
      /\ \A i \in 1..Len(p) + Len(q) : (p \o q)[i] = IF i <= Len(p) THEN p[i] ELSE q[i - Len(p)]
  OBVIOUS
<1>2. PICK P : P = Positions(p, a)
  BY Zenon
<1>3. PICK Q : Q = {i + Len(p) : i \in Positions(q, a)}
  BY Zenon
<1>4. /\ P = {i \in 1..Len(p) : p[i] = a} /\ IsFiniteSet(P) /\ IsFiniteSet(Positions(q, a))
      /\ Positions(q, a) = {i \in 1..Len(q) : q[i] = a}
      /\ Positions(p \o q, a) = {i \in 1..Len(p \o q) : (p \o q)[i] = a}
  <2>1. PICK r : r = p \o q
    BY Zenon
  <2>2. Positions(r, a) = {i \in 1..Len(r) : r[i] = a}
    <3>1. r \in Seq(S)
      BY <1>1, <2>1, Zenon
    <3> QED
      BY <3>1, OccursType, Zenon
  <2>3. /\ P = {i \in 1..Len(p) : p[i] = a} /\ IsFiniteSet(P)
        /\ IsFiniteSet(Positions(q, a)) /\ Positions(q, a) = {i \in 1..Len(q) : q[i] = a}
    BY <1>2, OccursType, Zenon
  <2> QED
    BY <2>1, <2>2, <2>3, Zenon
<1>5. IsFiniteSet(Q) /\ Cardinality(Q) = Occurs(q, a)
  <2>1. Positions(q, a) \subseteq Nat
    BY <1>1, <1>4
  <2> QED
    BY <1>1, <1>3, <1>4, <2>1, CountShift, Zenon DEF Occurs
<1>6. P \cap Q = {}
  BY <1>1, <1>3, <1>4
<1>7. Positions(p \o q, a) = P \cup Q
  <2>1. ASSUME NEW i \in Positions(p \o q, a) PROVE i \in P \cup Q
    <3>1. i \in 1..Len(p) + Len(q) /\ (p \o q)[i] = a
      BY <1>1, <1>4
    <3>2. CASE i <= Len(p)
      BY <1>1, <1>4, <3>1, <3>2
    <3>3. CASE i > Len(p)
      <4>1. i - Len(p) \in 1..Len(q) /\ q[i - Len(p)] = a /\ i = (i - Len(p)) + Len(p)
        BY <1>1, <3>1, <3>3
      <4>2. i - Len(p) \in Positions(q, a)
        BY <1>4, <4>1
      <4> QED
        BY <1>3, <4>1, <4>2
    <3> QED
      BY <1>1, <3>1, <3>2, <3>3
  <2>2. ASSUME NEW i \in P PROVE i \in Positions(p \o q, a)
    BY <1>1, <1>4
  <2>3. ASSUME NEW i \in Q PROVE i \in Positions(p \o q, a)
    <3>1. PICK j \in 1..Len(q) : i = j + Len(p) /\ q[j] = a
      BY <1>3, <1>4
    <3>2. i \in 1..Len(p \o q) /\ (p \o q)[i] = a
      BY <1>1, <3>1
    <3> QED
      BY <1>4, <3>2
  <2> QED
    BY <2>1, <2>2, <2>3
<1> QED
  BY <1>2, <1>4, <1>5, <1>6, <1>7, CountUnion, Zenon DEF Occurs

\* Taking from the ends.
LEMMA OccursTake ==
  ASSUME NEW S, NEW q \in Seq(S), q # <<>>, NEW a
  PROVE  /\ Occurs(q, a) = (IF Head(q) = a THEN 1 ELSE 0) + Occurs(Tail(q), a)
         /\ Occurs(q, a) = Occurs(Front(q), a) + (IF Last(q) = a THEN 1 ELSE 0)
<1>1. /\ Head(q) \in S /\ Tail(q) \in Seq(S) /\ q = <<Head(q)>> \o Tail(q) /\ <<Head(q)>> \in Seq(S)
  OBVIOUS
<1>2. Occurs(<<Head(q)>> \o Tail(q), a) = (IF Head(q) = a THEN 1 ELSE 0) + Occurs(Tail(q), a)
  <2>1. PICK p : p = <<Head(q)>>
    BY Zenon
  <2>2. PICK r : r = Tail(q)
    BY Zenon
  <2>3. Occurs(p \o r, a) = Occurs(p, a) + Occurs(r, a)
    BY <1>1, <2>1, <2>2, OccursJoin, Zenon
  <2>4. Occurs(p, a) = (IF Head(q) = a THEN 1 ELSE 0)
    BY <2>1, OccursOne DEF Bit
  <2> QED
    BY <2>1, <2>2, <2>3, <2>4
<1>3. Last(q) \in S /\ Front(q) \in Seq(S) /\ q = Front(q) \o <<Last(q)>> /\ <<Last(q)>> \in Seq(S)
  <2>1. Len(q) \in Nat /\ Len(q) > 0 /\ Last(q) = q[Len(q)] /\ Front(q) = SubSeq(q, 1, Len(q) - 1)
    BY DEF Front, Last
  <2>2. Len(q) - 1 \in 0..Len(q)
    BY <2>1
  <2>3. Front(q) \in Seq(S) /\ Len(Front(q)) = Len(q) - 1 /\ \A i \in 1..Len(q) - 1 : Front(q)[i] = q[i]
    <3>1. PICK k : k = Len(q) - 1
      BY Zenon
    <3>2. PICK r : r = SubSeq(q, 1, k)
      BY Zenon
    <3>3. k \in 0..Len(q)
      BY <2>2, <3>1, Zenon
    <3>4. r \in Seq(S) /\ Len(r) = k /\ \A i \in 1..k : r[i] = q[i]
      BY <3>2, <3>3, SubFacts, Zenon
    <3> QED
      BY <2>1, <3>1, <3>2, <3>4, Zenon
  <2>4. Last(q) \in S
    BY <2>1
  <2>5. q = Front(q) \o <<Last(q)>>
    BY <2>1, <2>3, <2>4
  <2> QED
    BY <2>3, <2>4, <2>5
<1>4. Occurs(Front(q) \o <<Last(q)>>, a) = Occurs(Front(q), a) + (IF Last(q) = a THEN 1 ELSE 0)
  <2>1. PICK p : p = <<Last(q)>>
    BY Zenon
  <2>2. PICK r : r = Front(q)
    BY Zenon
  <2>3. Occurs(r \o p, a) = Occurs(r, a) + Occurs(p, a)
    BY <1>3, <2>1, <2>2, OccursJoin, Zenon
  <2>4. Occurs(p, a) = (IF Last(q) = a THEN 1 ELSE 0)
    BY <2>1, OccursOne DEF Bit
  <2> QED
    BY <2>1, <2>2, <2>3, <2>4
<1> QED
  BY <1>1, <1>2, <1>3, <1>4, Zenon

\* The occurrences after the first k.
LEMMA OccursCut ==
  ASSUME NEW S, NEW q \in Seq(S), NEW k \in 0..Len(q), NEW a
  PROVE  Beyond(q, k, a) \in Nat /\ Occurs(q, a) = Occurs(SubSeq(q, 1, k), a) + Beyond(q, k, a)
<1>1. /\ SubSeq(q, 1, k) \in Seq(S) /\ Len(SubSeq(q, 1, k)) = k /\ Len(q) \in Nat /\ k \in Nat /\ k <= Len(q)
      /\ \A i \in 1..k : SubSeq(q, 1, k)[i] = q[i]
  BY SubFacts
<1>2. PICK p : p = SubSeq(q, 1, k)
  BY Zenon
<1>3. PICK R : R = {i \in (k + 1)..Len(q) : q[i] = a}
  BY Zenon
<1>4. /\ Positions(p, a) = {i \in 1..Len(p) : p[i] = a} /\ Positions(q, a) = {i \in 1..Len(q) : q[i] = a}
      /\ IsFiniteSet(Positions(p, a)) /\ IsFiniteSet(Positions(q, a))
  <2>1. p \in Seq(S)
    BY <1>1, <1>2, Zenon
  <2> QED
    BY <2>1, OccursType, Zenon
<1>5. Positions(q, a) = Positions(p, a) \cup R /\ Positions(p, a) \cap R = {}
  BY <1>1, <1>2, <1>3, <1>4
<1>6. IsFiniteSet(R)
  BY <1>4, <1>5, FS_Subset
<1>7. Cardinality(R) \in Nat
  BY <1>6, FS_CardinalityType, Zenon
<1> QED
  BY <1>2, <1>3, <1>4, <1>5, <1>6, <1>7, CountUnion, Zenon DEF Occurs, Beyond

\* Entries of all deques.
LEMMA SlotsType ==
  ASSUME NEW d \in [Workers -> Seq(Actors)], NEW a, NEW V \in SUBSET Workers
  PROVE  /\ IsFiniteSet(UNION {Positions(d[v], a) \X {v} : v \in V})
         /\ Cardinality(UNION {Positions(d[v], a) \X {v} : v \in V}) \in Nat
<1> DEFINE T == {Positions(d[v], a) \X {v} : v \in V}
           f == [v \in V |-> Positions(d[v], a) \X {v}]
<1>1. IsFiniteSet(V)
  BY SchedulerAssumption, FS_Subset, Zenon
<1>2. f \in Surjection(V, T)
  BY Zenon DEF Surjection
<1>3. IsFiniteSet(T)
  BY <1>1, <1>2, FS_Surjection, Zenon DEF ExistsSurjection
<1>4. \A t \in T : IsFiniteSet(t)
  <2> SUFFICES ASSUME NEW v \in V PROVE IsFiniteSet(Positions(d[v], a) \X {v})
    BY Zenon
  <2>1. d[v] \in Seq(Actors)
    OBVIOUS
  <2>2. IsFiniteSet(Positions(d[v], a))
    BY <2>1, OccursType, Zenon
  <2> QED
    BY <2>2, CountPairs, Zenon
<1>5. IsFiniteSet(UNION T)
  BY <1>3, <1>4, FS_UNION, Zenon
<1> QED
  BY <1>5, FS_CardinalityType, Zenon

\* One deque and the others.
LEMMA SlotsSplit ==
  ASSUME NEW d \in [Workers -> Seq(Actors)], NEW a, NEW w \in Workers
  PROVE  Cardinality(Slots(d, a)) =
           Cardinality(UNION {Positions(d[v], a) \X {v} : v \in Workers \ {w}}) + Occurs(d[w], a)
<1>1. PICK R : R = UNION {Positions(d[v], a) \X {v} : v \in Workers \ {w}}
  BY Zenon
<1>2. PICK P : P = Positions(d[w], a) \X {w}
  BY Zenon
<1>3. IsFiniteSet(R)
  BY <1>1, SlotsType, Zenon
<1>4. IsFiniteSet(P) /\ Cardinality(P) = Occurs(d[w], a)
  <2>1. IsFiniteSet(Positions(d[w], a))
    BY OccursType, Zenon
  <2> QED
    BY <1>2, <2>1, CountPairs, Zenon DEF Occurs
<1>5. Slots(d, a) = R \cup P
  BY <1>1, <1>2 DEF Slots
<1>6. R \cap P = {}
  BY <1>1, <1>2
<1>7. Cardinality(R \cup P) = Cardinality(R) + Cardinality(P)
  BY <1>3, <1>4, <1>6, CountUnion, Zenon
<1> QED
  BY <1>1, <1>4, <1>5, <1>7, Zenon

\* Another content for one deque.
LEMMA SlotsSet ==
  ASSUME NEW d \in [Workers -> Seq(Actors)], NEW a, NEW w \in Workers, NEW q \in Seq(Actors),
         NEW e, e = [d EXCEPT ![w] = q]
  PROVE  Cardinality(Slots(e, a)) + Occurs(d[w], a) = Cardinality(Slots(d, a)) + Occurs(q, a)
<1>1. /\ e \in [Workers -> Seq(Actors)] /\ e[w] = q /\ \A v \in Workers \ {w} : e[v] = d[v]
      /\ d[w] \in Seq(Actors)
  OBVIOUS
<1>2. PICK R : R = UNION {Positions(d[v], a) \X {v} : v \in Workers \ {w}}
  BY Zenon
<1>3. R = UNION {Positions(e[v], a) \X {v} : v \in Workers \ {w}}
  BY <1>1, <1>2
<1>4. Cardinality(R) \in Nat
  BY <1>2, SlotsType, Zenon
<1>5. Occurs(d[w], a) \in Nat /\ Occurs(q, a) \in Nat
  BY <1>1, OccursType, Zenon
<1>6. Cardinality(Slots(d, a)) = Cardinality(R) + Occurs(d[w], a)
  BY <1>2, SlotsSplit, Zenon
<1>7. Cardinality(Slots(e, a)) = Cardinality(R) + Occurs(q, a)
  BY <1>1, <1>3, SlotsSplit, Zenon
<1> QED
  BY <1>4, <1>5, <1>6, <1>7
-----------------------------------------------------------------------------
(* Counts *)

\* Counts are numbers.
LEMMA CountType ==
  ASSUME Typing, CountTyping, NEW a \in Actors
  PROVE  /\ Registry(a) \in Nat /\ Lookups(a) \in Nat /\ Pushes(a) \in Nat /\ Holds(a) \in Nat
         /\ Occurs(overflow, a) \in Nat /\ InDeques(a) \in Nat /\ lost[a] \in Nat
<1>1. Registry(a) \in Nat
  BY DEF Registry
<1>2. IsFiniteSet(Workers) /\ IsFiniteSet(Senders)
  BY SchedulerAssumption, Zenon
<1>3. /\ IsFiniteSet({s \in Senders : tgt[s] = a})
      /\ IsFiniteSet({s \in Senders : tgt[s] = a /\ spc[s] = "push"})
      /\ IsFiniteSet({w \in Workers : cur[w] = a})
  BY <1>2, FS_Subset
<1>4. Lookups(a) \in Nat /\ Pushes(a) \in Nat /\ Holds(a) \in Nat
  BY <1>3, FS_CardinalityType, Zenon DEF Lookups, Pushes, Holds
<1>5. Occurs(overflow, a) \in Nat
  BY OccursType, Zenon DEF Typing, QueueTyping
<1>6. InDeques(a) \in Nat
  BY SlotsType, Zenon DEF InDeques, Slots, Typing, QueueTyping
<1> QED
  BY <1>1, <1>4, <1>5, <1>6 DEF CountTyping

\* Nothing refers to an actor whose count is zero.
LEMMA ZeroMeansNone ==
  ASSUME Typing, CountTyping, CountOK, NEW a \in Actors
  PROVE  /\ refs[a] \in Nat
         /\ refs[a] = 0 => /\ kpc[a] = "done"
                           /\ \A s \in Senders : tgt[s] # a
                           /\ \A w \in Workers : cur[w] # a
                           /\ Positions(overflow, a) = {}
                           /\ \A w \in Workers : Positions(deque[w], a) = {}
<1>1. /\ Registry(a) \in Nat /\ Lookups(a) \in Nat /\ Pushes(a) \in Nat /\ Holds(a) \in Nat
      /\ Occurs(overflow, a) \in Nat /\ InDeques(a) \in Nat /\ lost[a] \in Nat
  BY CountType, Zenon
<1>2. refs[a] = Registry(a) + Lookups(a) + Pushes(a) + Holds(a) + Occurs(overflow, a) + InDeques(a) + lost[a]
  BY DEF CountOK, Count
<1>3. refs[a] \in Nat /\ (refs[a] = 0 => /\ Registry(a) = 0 /\ Lookups(a) = 0 /\ Holds(a) = 0
                                         /\ Occurs(overflow, a) = 0 /\ InDeques(a) = 0)
  <2>1. PICK k \in Nat : k = Registry(a)
    BY <1>1, Zenon
  <2>2. PICK l \in Nat : l = Lookups(a)
    BY <1>1, Zenon
  <2>3. PICK p \in Nat : p = Pushes(a)
    BY <1>1, Zenon
  <2>4. PICK h \in Nat : h = Holds(a)
    BY <1>1, Zenon
  <2>5. PICK o \in Nat : o = Occurs(overflow, a)
    BY <1>1, Zenon
  <2>6. PICK d \in Nat : d = InDeques(a)
    BY <1>1, Zenon
  <2>7. PICK n \in Nat : n = lost[a]
    BY <1>1, Zenon
  <2>8. refs[a] = k + l + p + h + o + d + n
    BY <1>2, <2>1, <2>2, <2>3, <2>4, <2>5, <2>6, <2>7, Zenon
  <2>9. refs[a] \in Nat /\ (refs[a] = 0 => k = 0 /\ l = 0 /\ h = 0 /\ o = 0 /\ d = 0)
    BY <2>8
  <2> QED
    BY <2>1, <2>2, <2>4, <2>5, <2>6, <2>9, Zenon
<1>4. ASSUME refs[a] = 0
      PROVE  kpc[a] = "done" /\ (\A s \in Senders : tgt[s] # a) /\ (\A w \in Workers : cur[w] # a)
  <2>1. kpc[a] = "done"
    BY <1>3, <1>4 DEF Registry
  <2>2. IsFiniteSet({s \in Senders : tgt[s] = a}) /\ IsFiniteSet({w \in Workers : cur[w] = a})
    BY SchedulerAssumption, FS_Subset
  <2>3. {s \in Senders : tgt[s] = a} = {} /\ {w \in Workers : cur[w] = a} = {}
    BY <1>3, <1>4, <2>2, FS_EmptySet, Zenon DEF Lookups, Holds
  <2> QED
    BY <2>1, <2>3
<1>5. ASSUME refs[a] = 0
      PROVE  Positions(overflow, a) = {}
  <2>1. IsFiniteSet(Positions(overflow, a))
    BY OccursType, Zenon DEF Typing, QueueTyping
  <2> QED
    BY <1>3, <1>5, <2>1, FS_EmptySet, Zenon DEF Occurs
<1>6. ASSUME refs[a] = 0, NEW w \in Workers
      PROVE  Positions(deque[w], a) = {}
  <2>1. IsFiniteSet(Slots(deque, a))
    BY SlotsType, Zenon DEF Slots, Typing, QueueTyping
  <2>2. Slots(deque, a) = {}
    BY <1>3, <1>6, <2>1, FS_EmptySet, Zenon DEF InDeques
  <2> QED
    <3>1. \A i \in Positions(deque[w], a) : <<i, w>> \in Slots(deque, a)
      BY DEF Slots
    <3> QED
      BY <2>2, <3>1
<1> QED
  BY <1>3, <1>4, <1>5, <1>6, Zenon

\* One sender moves.
LEMMA SenderCount ==
  ASSUME NEW s \in Senders, NEW a, \A r \in Senders \ {s} : tgt'[r] = tgt[r] /\ spc'[r] = spc[r]
  PROVE  /\ Lookups(a)' = Lookups(a) - (IF tgt[s] = a THEN 1 ELSE 0) + (IF tgt'[s] = a THEN 1 ELSE 0)
         /\ Pushes(a)' = Pushes(a) - (IF tgt[s] = a /\ spc[s] = "push" THEN 1 ELSE 0)
                                   + (IF tgt'[s] = a /\ spc'[s] = "push" THEN 1 ELSE 0)
<1>1. IsFiniteSet(Senders)
  BY SchedulerAssumption, Zenon
<1>2. PICK P : P = {r \in Senders : tgt[r] = a}
  BY Zenon
<1>3. PICK Q : Q = {r \in Senders : tgt'[r] = a}
  BY Zenon
<1>4. Cardinality(Q) = Cardinality(P) - Bit(s \in P) + Bit(s \in Q)
  <2>1. P \in SUBSET Senders /\ Q \in SUBSET Senders /\ \A r \in Senders : r # s => (r \in P <=> r \in Q)
    BY <1>2, <1>3
  <2> QED
    BY <1>1, <2>1, CountMove
<1>5. PICK P2 : P2 = {r \in Senders : tgt[r] = a /\ spc[r] = "push"}
  BY Zenon
<1>6. PICK Q2 : Q2 = {r \in Senders : tgt'[r] = a /\ spc'[r] = "push"}
  BY Zenon
<1>7. Cardinality(Q2) = Cardinality(P2) - Bit(s \in P2) + Bit(s \in Q2)
  <2>1. P2 \in SUBSET Senders /\ Q2 \in SUBSET Senders /\ \A r \in Senders : r # s => (r \in P2 <=> r \in Q2)
    BY <1>5, <1>6
  <2> QED
    BY <1>1, <2>1, CountMove
<1>8. Lookups(a) = Cardinality(P) /\ Lookups(a)' = Cardinality(Q)
  BY <1>2, <1>3, Zenon DEF Lookups
<1>9. Pushes(a) = Cardinality(P2) /\ Pushes(a)' = Cardinality(Q2)
  BY <1>5, <1>6, Zenon DEF Pushes
<1>10. /\ (s \in P <=> tgt[s] = a) /\ (s \in Q <=> tgt'[s] = a)
       /\ (s \in P2 <=> tgt[s] = a /\ spc[s] = "push") /\ (s \in Q2 <=> tgt'[s] = a /\ spc'[s] = "push")
  BY <1>2, <1>3, <1>5, <1>6, Zenon
<1> QED
  BY <1>4, <1>7, <1>8, <1>9, <1>10 DEF Bit

\* One worker takes or gives up an actor.
LEMMA WorkerCount ==
  ASSUME NEW w \in Workers, NEW a, NEW x, cur' = [cur EXCEPT ![w] = x],
         cur \in [Workers -> Actors \cup {NULL}]
  PROVE  Holds(a)' = Holds(a) - (IF cur[w] = a THEN 1 ELSE 0) + (IF x = a THEN 1 ELSE 0)
<1>1. IsFiniteSet(Workers)
  BY SchedulerAssumption, Zenon
<1>2. PICK P : P = {v \in Workers : cur[v] = a}
  BY Zenon
<1>3. PICK Q : Q = {v \in Workers : cur'[v] = a}
  BY Zenon
<1>4. Cardinality(Q) = Cardinality(P) - Bit(w \in P) + Bit(w \in Q)
  <2>1. P \in SUBSET Workers /\ Q \in SUBSET Workers /\ \A v \in Workers : v # w => (v \in P <=> v \in Q)
    BY <1>2, <1>3
  <2> QED
    BY <1>1, <2>1, CountMove
<1>5. Holds(a) = Cardinality(P) /\ Holds(a)' = Cardinality(Q)
  BY <1>2, <1>3, Zenon DEF Holds
<1>6. (w \in P <=> cur[w] = a) /\ (w \in Q <=> x = a)
  BY <1>2, <1>3
<1> QED
  BY <1>4, <1>5, <1>6 DEF Bit

\* One deque changes.
LEMMA DequeCount ==
  ASSUME Typing, NEW a, NEW w \in Workers, NEW q \in Seq(Actors), deque' = [deque EXCEPT ![w] = q]
  PROVE  InDeques(a)' + Occurs(deque[w], a) = InDeques(a) + Occurs(q, a)
<1>1. deque \in [Workers -> Seq(Actors)]
  BY DEF Typing, QueueTyping
<1>2. PICK e : e = deque'
  BY Zenon
<1>3. Cardinality(Slots(e, a)) + Occurs(deque[w], a) = Cardinality(Slots(deque, a)) + Occurs(q, a)
  BY <1>1, <1>2, SlotsSet, ZenonT(40)
<1>4. InDeques(a)' = Cardinality(Slots(e, a)) /\ InDeques(a) = Cardinality(Slots(deque, a))
  BY <1>2, Zenon DEF InDeques, Slots
<1> QED
  BY <1>3, <1>4, Zenon

\* What does not change.
LEMMA SameCount ==
  ASSUME NEW a
  PROVE  /\ kpc' = kpc => Registry(a)' = Registry(a)
         /\ UNCHANGED <<tgt, spc>> => Lookups(a)' = Lookups(a) /\ Pushes(a)' = Pushes(a)
         /\ cur' = cur => Holds(a)' = Holds(a)
         /\ deque' = deque => InDeques(a)' = InDeques(a)
         /\ overflow' = overflow => Occurs(overflow', a) = Occurs(overflow, a)
BY Zenon DEF Registry, Lookups, Pushes, Holds, InDeques, Slots

\* What sta_actor_release leaves.
LEMMA ReleaseFacts ==
  ASSUME CountTyping, NEW x \in Actors, Release(x), NEW a \in Actors
  PROVE  refs'[a] = IF a = x THEN refs[a] - 1 ELSE refs[a]
BY DEF CountTyping, Release

\* The initial state.
LEMMA InitCount == Init => CountTyping /\ CountOK /\ FreedOK
<1> SUFFICES ASSUME Init PROVE CountTyping /\ CountOK /\ FreedOK
  OBVIOUS
<1>1. CountTyping /\ FreedOK
  BY DEF Init, CountTyping, FreedOK
<1>2. ASSUME NEW a \in Actors PROVE refs[a] = Count(a)
  <2>1. /\ {s \in Senders : tgt[s] = a} = {} /\ {s \in Senders : tgt[s] = a /\ spc[s] = "push"} = {}
        /\ {w \in Workers : cur[w] = a} = {}
    BY SchedulerAssumption DEF Init
  <2>2. Positions(overflow, a) = {} /\ Slots(deque, a) = {}
    BY DEF Init, Positions, Slots
  <2>3. Cardinality({}) = 0
    BY FS_EmptySet
  <2>4. Lookups(a) = 0 /\ Pushes(a) = 0 /\ Holds(a) = 0 /\ Occurs(overflow, a) = 0 /\ InDeques(a) = 0
    BY <2>1, <2>2, <2>3, Zenon DEF Lookups, Pushes, Holds, Occurs, InDeques
  <2>5. Registry(a) = 1 /\ lost[a] = 0 /\ refs[a] = 1
    BY DEF Init, Registry
  <2> QED
    BY <2>4, <2>5 DEF Count
<1> QED
  BY <1>1, <1>2 DEF CountOK

\* A step keeps the types.
LEMMA CountTypingStep ==
  ASSUME Typing, CountTyping, [Next]_vars
  PROVE  CountTyping'
<1>1. ASSUME NEW s \in Senders, Sender(s) PROVE CountTyping'
  BY <1>1 DEF Sender, Lookup, CheckTarget, Enqueue, LinkMsg, Wake, WakeNew, TakeQueueRef, PushOverflow, ReleaseTarget, Release,
               CountTyping, actorVars
<1>2. ASSUME NEW a \in Actors, Killer(a) PROVE CountTyping'
  BY <1>2 DEF Killer, KillStore, KillUnregister, KillRelease, Release, CountTyping, actorVars
<1>3. ASSUME NEW w \in Workers, Worker(w) PROVE CountTyping'
  <2>1. CASE DrainOverflow(w)
    <3>1. CASE overflow = <<>>
      BY <2>1, <3>1 DEF DrainOverflow, CountTyping, actorVars
    <3>2. CASE overflow # <<>>
      <4> DEFINE room == DequeCap - Len(deque[w])
                 kept == IF Len(Tail(overflow)) <= room THEN Len(Tail(overflow)) ELSE room
      <4>1. kept \in 0..Len(Tail(overflow)) /\ Tail(overflow) \in Seq(Actors)
        BY <3>2, DrainTyping DEF Typing, QueueTyping
      <4>2. lost' = [a \in Actors |-> lost[a] + Beyond(Tail(overflow), kept, a)] /\ UNCHANGED <<refs, kpc>>
        BY <2>1, <3>2, Zenon DEF DrainOverflow, actorVars, Beyond
      <4> HIDE DEF kept
      <4>3. \A a \in Actors : Beyond(Tail(overflow), kept, a) \in Nat
        BY <4>1, OccursCut, Zenon
      <4>4. \A a \in Actors : lost[a] + Beyond(Tail(overflow), kept, a) \in Nat
        BY <4>3 DEF CountTyping
      <4> QED
        BY <4>2, <4>4, Zenon DEF CountTyping
    <3> QED
      BY <3>1, <3>2
  <2>2. CASE PushOwn(w)
    BY <2>2 DEF PushOwn, CountTyping, actorVars
  <2>3. CASE Drop(w)
    BY <2>3 DEF Drop, Release, CountTyping
  <2>4. CASE ~DrainOverflow(w) /\ ~PushOwn(w) /\ ~Drop(w)
    BY <1>3, <2>4, Zenon DEF Worker, FindWork, Process, Dispose, PopOwn, Steal, StealNothing, Sleep, Claim, Dequeue, Execute,
          Crash, Drain, Check, IsEmpty, StoreReady, StoreSuspended, Recheck, Rewake, CountTyping, actorVars
  <2> QED
    BY <2>1, <2>2, <2>3, <2>4
<1>4. CASE StopRequest \/ StopDrain
  BY <1>4 DEF StopRequest, StopDrain, Release, CountTyping, actorVars
<1>5. CASE UNCHANGED vars
  BY <1>5, Zenon DEF vars, CountTyping
<1> QED
  BY <1>1, <1>2, <1>3, <1>4, <1>5, Zenon DEF Next

\* A sender's step: sta_registry_lookup and sta_scheduler_enqueue take references.
LEMMA SenderRefs ==
  ASSUME Typing, CountTyping, CountOK, Typing', NEW s \in Senders, Sender(s), NEW a \in Actors
  PROVE  refs'[a] = Count(a)'
<1>1. /\ Registry(a) \in Nat /\ Lookups(a) \in Nat /\ Pushes(a) \in Nat /\ Holds(a) \in Nat
      /\ Occurs(overflow, a) \in Nat /\ InDeques(a) \in Nat /\ lost[a] \in Nat
  BY CountType, Zenon
<1>2. PICK l : l = Lookups(a)
  BY Zenon
<1>3. PICK p : p = Pushes(a)
  BY Zenon
<1>4. PICK o : o = Occurs(overflow, a)
  BY Zenon
<1>5. PICK c : c = Registry(a) + Holds(a) + InDeques(a) + lost[a]
  BY Zenon
<1>6. PICK l2 : l2 = Lookups(a)'
  BY Zenon
<1>7. PICK p2 : p2 = Pushes(a)'
  BY Zenon
<1>8. PICK o2 : o2 = Occurs(overflow', a)
  BY Zenon
<1>9. l \in Nat /\ p \in Nat /\ o \in Nat /\ c \in Nat
  BY <1>1, <1>2, <1>3, <1>4, <1>5
<1>10. refs[a] = c + l + p + o
  BY <1>1, <1>2, <1>3, <1>4, <1>5 DEF CountOK, Count
<1>11. UNCHANGED <<kpc, cur, deque, lost>>
  BY Zenon DEF Sender, Lookup, CheckTarget, Enqueue, LinkMsg, Wake, WakeNew, TakeQueueRef, PushOverflow, ReleaseTarget,
               workerVars
<1>12. /\ l2 = l - (IF tgt[s] = a THEN 1 ELSE 0) + (IF tgt'[s] = a THEN 1 ELSE 0)
       /\ p2 = p - (IF tgt[s] = a /\ spc[s] = "push" THEN 1 ELSE 0)
                 + (IF tgt'[s] = a /\ spc'[s] = "push" THEN 1 ELSE 0)
  <2>1. \A r \in Senders \ {s} : tgt'[r] = tgt[r] /\ spc'[r] = spc[r]
    BY DEF Sender, Lookup, CheckTarget, Enqueue, LinkMsg, Wake, WakeNew, TakeQueueRef, PushOverflow, ReleaseTarget,
           SGoto, Typing, ThreadTyping
  <2> QED
    BY <1>2, <1>3, <1>6, <1>7, <2>1, SenderCount, Zenon
<1>13. Count(a)' = c + l2 + p2 + o2
  <2>1. Registry(a)' = Registry(a) /\ Holds(a)' = Holds(a) /\ InDeques(a)' = InDeques(a) /\ lost'[a] = lost[a]
    BY <1>11, SameCount, Zenon
  <2>2. Count(a)' = Registry(a)' + l2 + p2 + Holds(a)' + o2 + InDeques(a)' + lost'[a]
    BY <1>6, <1>7, <1>8, Zenon DEF Count
  <2>3. Occurs(overflow', a) \in Nat
    BY OccursType, Zenon DEF Typing, QueueTyping
  <2>4. l2 \in Int /\ p2 \in Int /\ o2 \in Int
    BY <1>8, <1>9, <1>12, <2>3
  <2> QED
    BY <1>1, <1>5, <2>1, <2>2, <2>4
<1>14. ASSUME ~PushOverflow(s) PROVE o2 = o
  BY <1>4, <1>8, <1>14, Zenon DEF Sender, Lookup, CheckTarget, Enqueue, LinkMsg, Wake, WakeNew, TakeQueueRef, ReleaseTarget
<1> SUFFICES refs'[a] = c + l2 + p2 + o2
  BY <1>13
<1> USE <1>9, <1>10, <1>12 DEF CountTyping, Typing, ThreadTyping, SGoto
<1>15. CASE Lookup(s)
  <2>1. ~PushOverflow(s)
    BY <1>15 DEF Lookup, PushOverflow
  <2> QED
    BY <1>14, <1>15, <2>1, SchedulerAssumption DEF Lookup
<1>16. CASE CheckTarget(s) \/ Enqueue(s) \/ LinkMsg(s)
  <2>1. ~PushOverflow(s)
    BY <1>16 DEF CheckTarget, Enqueue, LinkMsg, PushOverflow
  <2>2. spc[s] # "push" /\ refs' = refs /\ tgt' = tgt
    BY <1>16 DEF CheckTarget, Enqueue, LinkMsg, actorVars
  <2>3. spc'[s] # "push"
    BY <1>16 DEF CheckTarget, Enqueue, LinkMsg
  <2> QED
    BY <1>14, <2>1, <2>2, <2>3
<1>17. CASE Wake(s) \/ WakeNew(s)
  <2>1. ~PushOverflow(s)
    BY <1>17 DEF Wake, WakeNew, PushOverflow
  <2> QED
    BY <1>14, <1>17, <2>1 DEF Wake, WakeNew
<1>18. CASE TakeQueueRef(s)
  <2>1. ~PushOverflow(s)
    BY <1>18 DEF TakeQueueRef, PushOverflow
  <2> QED
    BY <1>14, <1>18, <2>1 DEF TakeQueueRef
<1>19. CASE PushOverflow(s)
  <2>1. o2 = (IF tgt[s] = a THEN 1 ELSE 0) + o
    <3>1. tgt[s] \in Actors /\ <<tgt[s]>> \in Seq(Actors) /\ overflow \in Seq(Actors)
      BY <1>19 DEF PushOverflow, QueueTyping
    <3>2. PICK q : q = <<tgt[s]>>
      BY Zenon
    <3>3. overflow' = q \o overflow
      BY <1>19, <3>2, Zenon DEF PushOverflow
    <3>4. Occurs(q \o overflow, a) = Occurs(q, a) + Occurs(overflow, a)
      BY <3>1, <3>2, OccursJoin, Zenon
    <3>5. Occurs(q, a) = IF tgt[s] = a THEN 1 ELSE 0
      BY <3>2, OccursOne DEF Bit
    <3> QED
      BY <1>4, <1>8, <3>3, <3>4, <3>5, Zenon
  <2> QED
    BY <1>19, <2>1 DEF PushOverflow, actorVars
<1>20. CASE ReleaseTarget(s)
  <2>1. ~PushOverflow(s)
    BY <1>20 DEF ReleaseTarget, PushOverflow
  <2>2. tgt[s] \in Actors /\ Release(tgt[s])
    BY <1>20 DEF ReleaseTarget
  <2>3. refs'[a] = IF a = tgt[s] THEN refs[a] - 1 ELSE refs[a]
    BY <2>2, ReleaseFacts
  <2> QED
    BY <1>14, <1>20, <2>1, <2>3, SchedulerAssumption DEF ReleaseTarget
<1> QED
  BY <1>15, <1>16, <1>17, <1>18, <1>19, <1>20, Zenon DEF Sender

\* A termination gives the registry's reference back.
LEMMA KillerRefs ==
  ASSUME Typing, CountTyping, CountOK, NEW x \in Actors, Killer(x), NEW a \in Actors
  PROVE  refs'[a] = Count(a)'
<1>1. /\ Registry(a) \in Nat /\ Lookups(a) \in Nat /\ Pushes(a) \in Nat /\ Holds(a) \in Nat
      /\ Occurs(overflow, a) \in Nat /\ InDeques(a) \in Nat /\ lost[a] \in Nat
  BY CountType, Zenon
<1>2. UNCHANGED <<tgt, spc, cur, deque, overflow, lost>>
  BY Zenon DEF Killer, KillStore, KillUnregister, KillRelease, workerVars, senderVars
<1>3. PICK c : c = Lookups(a) + Pushes(a) + Holds(a) + Occurs(overflow, a) + InDeques(a) + lost[a]
  BY Zenon
<1>4. PICK k : k = Registry(a)
  BY Zenon
<1>5. PICK k2 : k2 = Registry(a)'
  BY Zenon
<1>6. k \in Nat /\ c \in Nat /\ refs[a] = k + c
  BY <1>1, <1>3, <1>4 DEF CountOK, Count
<1>7. k2 \in Nat
  BY <1>5 DEF Registry
<1>8. Count(a)' = k2 + c
  <2>1. /\ Lookups(a)' = Lookups(a) /\ Pushes(a)' = Pushes(a) /\ Holds(a)' = Holds(a) /\ InDeques(a)' = InDeques(a)
        /\ Occurs(overflow', a) = Occurs(overflow, a) /\ lost'[a] = lost[a]
    BY <1>2, SameCount, Zenon
  <2>2. Count(a)' = k2 + Lookups(a) + Pushes(a) + Holds(a) + Occurs(overflow, a) + InDeques(a) + lost[a]
    BY <1>5, <2>1, Zenon DEF Count
  <2> QED
    BY <1>1, <1>3, <1>7, <2>2
<1>9. CASE KillStore(x) \/ KillUnregister(x)
  <2>1. k2 = k /\ refs' = refs
    BY <1>4, <1>5, <1>9 DEF KillStore, KillUnregister, Registry, CountTyping
  <2> QED
    BY <1>6, <1>8, <2>1
<1>10. CASE KillRelease(x)
  <2>1. k2 = k - (IF a = x THEN 1 ELSE 0)
    BY <1>4, <1>5, <1>10 DEF KillRelease, Registry, CountTyping
  <2>2. refs'[a] = IF a = x THEN refs[a] - 1 ELSE refs[a]
    BY <1>10, ReleaseFacts DEF KillRelease
  <2> QED
    BY <1>6, <1>8, <2>1, <2>2
<1> QED
  BY <1>9, <1>10, Zenon DEF Killer

\* Steps that leave the actors, the senders and terminations alone.
LEMMA QueueRule ==
  ASSUME Typing, CountTyping, CountOK, NEW a \in Actors, UNCHANGED <<kpc, tgt, spc>>,
         NEW h \in Int, NEW o \in Int, NEW d \in Int, NEW n \in Int,
         Holds(a)' = Holds(a) + h, Occurs(overflow', a) = Occurs(overflow, a) + o,
         InDeques(a)' = InDeques(a) + d, lost'[a] = lost[a] + n,
         refs'[a] = refs[a] + (h + o + d + n)
  PROVE  refs'[a] = Count(a)'
<1>1. /\ Registry(a) \in Nat /\ Lookups(a) \in Nat /\ Pushes(a) \in Nat /\ Holds(a) \in Nat
      /\ Occurs(overflow, a) \in Nat /\ InDeques(a) \in Nat /\ lost[a] \in Nat
  BY CountType, Zenon
<1>2. PICK c : c = Registry(a) + Lookups(a) + Pushes(a)
  BY Zenon
<1>3. PICK q : q = Holds(a) + Occurs(overflow, a) + InDeques(a) + lost[a]
  BY Zenon
<1>4. c \in Nat /\ q \in Nat /\ refs[a] = c + q
  BY <1>1, <1>2, <1>3 DEF CountOK, Count
<1>5. Registry(a)' = Registry(a) /\ Lookups(a)' = Lookups(a) /\ Pushes(a)' = Pushes(a)
  BY SameCount, Zenon
<1>6. Count(a)' = Registry(a) + Lookups(a) + Pushes(a) + (Holds(a) + h) + (Occurs(overflow, a) + o) + (InDeques(a) + d)
                    + (lost[a] + n)
  BY <1>5, Zenon DEF Count
<1>7. Count(a)' = c + q + (h + o + d + n)
  BY <1>1, <1>2, <1>3, <1>6
<1> QED
  BY <1>4, <1>7

\* Numbers that do not change.
LEMMA QueueSame ==
  ASSUME Typing, CountTyping, NEW a \in Actors
  PROVE  /\ cur' = cur => Holds(a)' = Holds(a) + 0
         /\ deque' = deque => InDeques(a)' = InDeques(a) + 0
         /\ overflow' = overflow => Occurs(overflow', a) = Occurs(overflow, a) + 0
         /\ lost' = lost => lost'[a] = lost[a] + 0
         /\ Holds(a) \in Nat /\ InDeques(a) \in Nat /\ Occurs(overflow, a) \in Nat /\ lost[a] \in Nat
<1>1. Holds(a) \in Nat /\ InDeques(a) \in Nat /\ Occurs(overflow, a) \in Nat /\ lost[a] \in Nat
  BY CountType, Zenon
<1>2. /\ cur' = cur => Holds(a)' = Holds(a)
      /\ deque' = deque => InDeques(a)' = InDeques(a)
      /\ overflow' = overflow => Occurs(overflow', a) = Occurs(overflow, a)
      /\ lost' = lost => lost'[a] = lost[a]
  BY SameCount, Zenon
<1> QED
  BY <1>1, <1>2

\* The same number after a step.
LEMMA InDequesType ==
  ASSUME NEW a, deque' \in [Workers -> Seq(Actors)]
  PROVE  InDeques(a)' \in Nat
<1>1. PICK e : e = deque'
  BY Zenon
<1>2. Cardinality(Slots(e, a)) \in Nat
  <2>1. e \in [Workers -> Seq(Actors)]
    BY <1>1, Zenon
  <2> QED
    BY <2>1, SlotsType, Zenon DEF Slots
<1> QED
  BY <1>1, <1>2, Zenon DEF InDeques, Slots

\* A worker takes an actor from a deque, its own or another's.
LEMMA TakeRefs ==
  ASSUME Typing, CountTyping, CountOK, NEW w \in Workers, NEW v \in Workers, NEW x \in Actors, NEW q \in Seq(Actors),
         NEW a \in Actors, cur[w] = NULL, cur' = [cur EXCEPT ![w] = x], deque' = [deque EXCEPT ![v] = q],
         Occurs(deque[v], a) = Occurs(q, a) + (IF x = a THEN 1 ELSE 0),
         UNCHANGED <<kpc, tgt, spc, overflow, lost, refs>>
  PROVE  refs'[a] = Count(a)'
<1>1. PICK b : b = IF x = a THEN 1 ELSE 0
  BY Zenon
<1>2. /\ Holds(a) \in Nat /\ InDeques(a) \in Nat /\ lost'[a] = lost[a] + 0
      /\ Occurs(overflow', a) = Occurs(overflow, a) + 0
  BY QueueSame, Zenon
<1>3. b \in Int /\ -b \in Int /\ 0 \in Int
  BY <1>1
<1>4. Holds(a)' = Holds(a) + b
  <2>1. cur \in [Workers -> Actors \cup {NULL}] /\ cur[w] # a
    BY SchedulerAssumption DEF Typing, ThreadTyping
  <2>2. Holds(a)' = Holds(a) - (IF cur[w] = a THEN 1 ELSE 0) + b
    BY <1>1, <2>1, WorkerCount, Zenon
  <2> QED
    BY <1>2, <1>3, <2>1, <2>2
<1>5. InDeques(a)' = InDeques(a) + (-b)
  <2>1. Occurs(q, a) \in Nat
    BY OccursType, Zenon
  <2>2. InDeques(a)' + Occurs(deque[v], a) = InDeques(a) + Occurs(q, a)
    BY DequeCount, Zenon
  <2>3. deque' \in [Workers -> Seq(Actors)]
    BY DEF Typing, QueueTyping
  <2>4. InDeques(a)' \in Nat
    BY <2>3, InDequesType, Zenon
  <2>5. Occurs(deque[v], a) = Occurs(q, a) + b
    BY <1>1, Zenon
  <2> QED
    BY <1>2, <1>3, <2>1, <2>2, <2>4, <2>5
<1>6. refs'[a] = refs[a] + (b + 0 + (-b) + 0)
  <2>1. refs[a] \in Nat
    BY ZeroMeansNone, Zenon
  <2> QED
    BY <1>3, <2>1
<1> QED
  BY <1>2, <1>3, <1>4, <1>5, <1>6, QueueRule, Zenon

\* Steps that touch no reference and no queue.
LEMMA QuietRefs ==
  ASSUME Typing, CountTyping, CountOK, NEW a \in Actors, UNCHANGED <<kpc, tgt, spc, cur, deque, overflow, lost, refs>>
  PROVE  refs'[a] = Count(a)'
<1>1. /\ Holds(a)' = Holds(a) + 0 /\ Occurs(overflow', a) = Occurs(overflow, a) + 0
      /\ InDeques(a)' = InDeques(a) + 0 /\ lost'[a] = lost[a] + 0
  BY QueueSame, Zenon
<1>2. refs'[a] = refs[a] + (0 + 0 + 0 + 0) /\ 0 \in Int
  <2>1. refs[a] \in Nat
    BY ZeroMeansNone, Zenon
  <2> QED
    BY <2>1
<1> QED
  BY <1>1, <1>2, QueueRule, Zenon

\* The worker that finds nothing else takes all of the overflow list.
LEMMA DrainRefs ==
  ASSUME Typing, CountTyping, CountOK, NEW w \in Workers, DrainOverflow(w), NEW a \in Actors
  PROVE  refs'[a] = Count(a)'
<1>1. CASE overflow = <<>>
  <2>1. UNCHANGED <<kpc, tgt, spc, cur, deque, overflow, lost, refs>>
    BY <1>1, Zenon DEF DrainOverflow, actorVars, senderVars
  <2> QED
    BY <2>1, QuietRefs, Zenon
<1>2. CASE overflow # <<>>
  <2> DEFINE room == DequeCap - Len(deque[w])
             kept == IF Len(Tail(overflow)) <= room THEN Len(Tail(overflow)) ELSE room
  <2>1. kept \in 0..Len(Tail(overflow)) /\ Head(overflow) \in Actors
    BY <1>2, DrainTyping DEF Typing
  <2>2. /\ cur' = [cur EXCEPT ![w] = Head(overflow)]
        /\ deque' = [deque EXCEPT ![w] = deque[w] \o SubSeq(Tail(overflow), 1, kept)]
        /\ lost' = [c \in Actors |-> lost[c] + Beyond(Tail(overflow), kept, c)]
        /\ overflow' = <<>> /\ UNCHANGED <<kpc, tgt, spc, refs>>
    BY <1>2, Zenon DEF DrainOverflow, actorVars, senderVars, Beyond
  <2> HIDE DEF kept
  <2>3. PICK rest : rest = Tail(overflow)
    BY Zenon
  <2>4. PICK first : first = SubSeq(rest, 1, kept)
    BY Zenon
  <2>5. /\ overflow \in Seq(Actors) /\ rest \in Seq(Actors) /\ deque[w] \in Seq(Actors)
        /\ first \in Seq(Actors) /\ kept \in 0..Len(rest)
    <3>1. overflow \in Seq(Actors) /\ rest \in Seq(Actors) /\ deque[w] \in Seq(Actors)
      BY <1>2, <2>3 DEF Typing, QueueTyping
    <3>2. kept \in 0..Len(rest)
      BY <2>1, <2>3, Zenon
    <3> QED
      BY <2>4, <3>1, <3>2, SubFacts, Zenon
  <2>6. PICK q : q = deque[w] \o first
    BY Zenon
  <2>7. q \in Seq(Actors) /\ Occurs(q, a) = Occurs(deque[w], a) + Occurs(first, a)
    <3>1. q \in Seq(Actors)
      BY <2>5, <2>6
    <3> QED
      BY <2>5, <2>6, <3>1, OccursJoin, Zenon
  <2>8. PICK b : b = IF Head(overflow) = a THEN 1 ELSE 0
    BY Zenon
  <2>9. PICK f : f = Occurs(first, a)
    BY Zenon
  <2>10. PICK g : g = Beyond(rest, kept, a)
    BY Zenon
  <2>11. b \in Nat /\ f \in Nat /\ g \in Nat
    <3>1. b \in Nat
      BY <2>8
    <3> QED
      BY <2>5, <2>9, <2>10, <3>1, OccursType, OccursCut, Zenon
  <2>12. Occurs(overflow, a) = b + f + g
    <3>1. Occurs(overflow, a) = (IF Head(overflow) = a THEN 1 ELSE 0) + Occurs(rest, a)
      <4>1. Occurs(overflow, a) = (IF Head(overflow) = a THEN 1 ELSE 0) + Occurs(Tail(overflow), a)
        BY <1>2, <2>5, OccursTake, Zenon
      <4> QED
        BY <2>3, <4>1
    <3>2. Occurs(rest, a) = f + g
      BY <2>4, <2>5, <2>9, <2>10, OccursCut, Zenon
    <3>3. (IF Head(overflow) = a THEN 1 ELSE 0) = b
      BY <2>8
    <3> QED
      BY <2>11, <3>1, <3>2, <3>3
  <2>13. /\ Holds(a) \in Nat /\ InDeques(a) \in Nat /\ lost[a] \in Nat
    BY QueueSame, Zenon
  <2>14. Holds(a)' = Holds(a) + b
    <3>1. cur \in [Workers -> Actors \cup {NULL}] /\ cur[w] # a
      BY SchedulerAssumption DEF Typing, ThreadTyping, DrainOverflow, Looking
    <3>2. Holds(a)' = Holds(a) - (IF cur[w] = a THEN 1 ELSE 0) + b
      BY <2>2, <2>8, <3>1, WorkerCount, Zenon
    <3> QED
      BY <2>11, <2>13, <3>1, <3>2
  <2>15. InDeques(a)' = InDeques(a) + f
    <3>1. deque' = [deque EXCEPT ![w] = q]
      BY <2>2, <2>3, <2>4, <2>6, Zenon
    <3>2. InDeques(a)' + Occurs(deque[w], a) = InDeques(a) + Occurs(q, a)
      BY <2>7, <3>1, DequeCount, Zenon
    <3>3. deque' \in [Workers -> Seq(Actors)]
      BY <2>7, <3>1 DEF Typing, QueueTyping
    <3>4. InDeques(a)' \in Nat
      BY <3>3, InDequesType, Zenon
    <3>5. Occurs(deque[w], a) \in Nat
      BY <2>5, OccursType, Zenon
    <3>6. PICK m : m = InDeques(a)'
      BY Zenon
    <3>7. PICK n : n = InDeques(a)
      BY Zenon
    <3>8. PICK o : o = Occurs(deque[w], a)
      BY Zenon
    <3>9. m + o = n + (o + f) /\ m \in Nat /\ n \in Nat /\ o \in Nat /\ f \in Nat
      BY <2>7, <2>9, <2>11, <2>13, <3>2, <3>4, <3>5, <3>6, <3>7, <3>8, Zenon
    <3>10. m = n + f
      BY <3>9
    <3> QED
      BY <3>6, <3>7, <3>10, Zenon
  <2>16. lost'[a] = lost[a] + g
    BY <2>2, <2>3, <2>10, Zenon
  <2>17. Occurs(overflow', a) = Occurs(overflow, a) + (-(b + f + g))
    <3>1. Positions(<<>>, a) = {}
      BY DEF Positions
    <3>2. Occurs(overflow', a) = 0
      BY <2>2, <3>1, FS_EmptySet, Zenon DEF Occurs
    <3> QED
      BY <2>11, <2>12, <3>2
  <2>18. refs'[a] = refs[a] + (b + (-(b + f + g)) + f + g)
    <3>1. refs[a] \in Nat
      BY ZeroMeansNone, Zenon
    <3> QED
      BY <2>2, <2>11, <3>1
  <2>19. b \in Int /\ -(b + f + g) \in Int /\ f \in Int /\ g \in Int
    BY <2>11
  <2> QED
    BY <2>2, <2>14, <2>15, <2>16, <2>17, <2>18, <2>19, QueueRule, Zenon
<1> QED
  BY <1>1, <1>2

\* A worker hands its actor and its reference to its deque, or loses both.
LEMMA PushRefs ==
  ASSUME Typing, CountTyping, CountOK, NEW w \in Workers, PushOwn(w), NEW a \in Actors
  PROVE  refs'[a] = Count(a)'
<1>1. /\ cur[w] \in Actors /\ deque[w] \in Seq(Actors) /\ cur \in [Workers -> Actors \cup {NULL}]
      /\ deque \in [Workers -> Seq(Actors)] /\ NULL # a
  BY SchedulerAssumption, Zenon DEF PushOwn, Typing, ThreadTyping, QueueTyping, Looking
<1>2. PICK b : b = IF cur[w] = a THEN 1 ELSE 0
  BY Zenon
<1>3. b \in Nat /\ b \in Int /\ -b \in Int /\ 0 \in Int
  BY <1>2
<1>4. /\ Holds(a) \in Nat /\ InDeques(a) \in Nat /\ lost[a] \in Nat
  BY QueueSame, Zenon
<1>5. Holds(a)' = Holds(a) + (-b)
  <2>1. cur' = [cur EXCEPT ![w] = NULL]
    BY Zenon DEF PushOwn
  <2>2. Holds(a)' = Holds(a) - b + (IF NULL = a THEN 1 ELSE 0)
    BY <1>1, <1>2, <2>1, WorkerCount, Zenon
  <2> QED
    BY <1>1, <1>3, <1>4, <2>2
<1>6. UNCHANGED <<kpc, tgt, spc, refs, overflow>>
  BY Zenon DEF PushOwn, actorVars, senderVars
<1>7. Occurs(overflow', a) = Occurs(overflow, a) + 0
  BY <1>6, QueueSame, Zenon
<1>8. refs[a] \in Nat
  BY ZeroMeansNone, Zenon
<1>9. CASE Len(deque[w]) < DequeCap
  <2>1. PICK q : q = Append(deque[w], cur[w])
    BY Zenon
  <2>2. deque' = [deque EXCEPT ![w] = q] /\ lost' = lost
    BY <1>9, <2>1, Zenon DEF PushOwn
  <2>3. q \in Seq(Actors) /\ Occurs(q, a) = Occurs(deque[w], a) + b
    <3>1. q \in Seq(Actors) /\ q = deque[w] \o <<cur[w]>> /\ <<cur[w]>> \in Seq(Actors)
      BY <1>1, <2>1
    <3>2. PICK p : p = <<cur[w]>>
      BY Zenon
    <3>3. Occurs(q, a) = Occurs(deque[w], a) + Occurs(p, a)
      BY <1>1, <3>1, <3>2, OccursJoin, Zenon
    <3>4. Occurs(p, a) = b
      BY <1>2, <3>2, OccursOne DEF Bit
    <3> QED
      BY <3>1, <3>3, <3>4, Zenon
  <2>4. InDeques(a)' = InDeques(a) + b
    <3>1. InDeques(a)' + Occurs(deque[w], a) = InDeques(a) + Occurs(q, a)
      BY <2>2, <2>3, DequeCount, Zenon
    <3>2. deque' \in [Workers -> Seq(Actors)]
      BY <1>1, <2>2, <2>3
    <3>3. InDeques(a)' \in Nat
      BY <3>2, InDequesType, Zenon
    <3>4. Occurs(deque[w], a) \in Nat
      BY <1>1, OccursType, Zenon
    <3> QED
      BY <1>3, <1>4, <2>3, <3>1, <3>3, <3>4
  <2>5. lost'[a] = lost[a] + 0
    BY <2>2, QueueSame, Zenon
  <2>6. refs'[a] = refs[a] + ((-b) + 0 + b + 0)
    BY <1>3, <1>6, <1>8
  <2> QED
    BY <1>3, <1>5, <1>6, <1>7, <2>4, <2>5, <2>6, QueueRule, Zenon
<1>10. CASE ~(Len(deque[w]) < DequeCap)
  <2>1. deque' = deque /\ lost' = [lost EXCEPT ![cur[w]] = @ + 1]
    BY <1>10, Zenon DEF PushOwn
  <2>2. InDeques(a)' = InDeques(a) + 0
    BY <2>1, QueueSame, Zenon
  <2>3. lost'[a] = lost[a] + b
    BY <1>1, <1>2, <1>4, <2>1 DEF CountTyping
  <2>4. refs'[a] = refs[a] + ((-b) + 0 + 0 + b)
    BY <1>3, <1>6, <1>8
  <2> QED
    BY <1>3, <1>5, <1>6, <1>7, <2>2, <2>3, <2>4, QueueRule, Zenon
<1> QED
  BY <1>9, <1>10

\* A reference of the worker's or of a queue is given back.
LEMMA GiveBackRefs ==
  ASSUME Typing, CountTyping, CountOK, NEW x \in Actors, Release(x), NEW a \in Actors, UNCHANGED <<kpc, tgt, spc, lost>>,
         NEW b, b = (IF x = a THEN 1 ELSE 0),
         \/ Holds(a)' = Holds(a) + (-b) /\ UNCHANGED <<deque, overflow>>
         \/ Occurs(overflow', a) = Occurs(overflow, a) + (-b) /\ UNCHANGED <<cur, deque>>
         \/ InDeques(a)' = InDeques(a) + (-b) /\ UNCHANGED <<cur, overflow>>
  PROVE  refs'[a] = Count(a)'
<1>1. refs[a] \in Nat /\ refs'[a] = refs[a] + (-b) /\ -b \in Int /\ 0 \in Int
  <2>1. refs[a] \in Nat
    BY ZeroMeansNone, Zenon
  <2>2. refs'[a] = IF a = x THEN refs[a] - 1 ELSE refs[a]
    BY ReleaseFacts
  <2> QED
    BY <2>1, <2>2
<1>2. /\ cur' = cur => Holds(a)' = Holds(a) + 0
      /\ deque' = deque => InDeques(a)' = InDeques(a) + 0
      /\ overflow' = overflow => Occurs(overflow', a) = Occurs(overflow, a) + 0
      /\ lost'[a] = lost[a] + 0
  BY QueueSame, Zenon
<1>3. CASE Holds(a)' = Holds(a) + (-b) /\ UNCHANGED <<deque, overflow>>
  <2>1. refs'[a] = refs[a] + ((-b) + 0 + 0 + 0)
    BY <1>1
  <2>2. Occurs(overflow', a) = Occurs(overflow, a) + 0 /\ InDeques(a)' = InDeques(a) + 0 /\ lost'[a] = lost[a] + 0
    BY <1>2, <1>3, Zenon
  <2> QED
    BY <1>1, <1>3, <2>1, <2>2, QueueRule, Zenon
<1>4. CASE Occurs(overflow', a) = Occurs(overflow, a) + (-b) /\ UNCHANGED <<cur, deque>>
  <2>1. refs'[a] = refs[a] + (0 + (-b) + 0 + 0)
    BY <1>1
  <2>2. Holds(a)' = Holds(a) + 0 /\ InDeques(a)' = InDeques(a) + 0 /\ lost'[a] = lost[a] + 0
    BY <1>2, <1>4, Zenon
  <2> QED
    BY <1>1, <1>4, <2>1, <2>2, QueueRule, Zenon
<1>5. CASE InDeques(a)' = InDeques(a) + (-b) /\ UNCHANGED <<cur, overflow>>
  <2>1. refs'[a] = refs[a] + (0 + 0 + (-b) + 0)
    BY <1>1
  <2>2. Holds(a)' = Holds(a) + 0 /\ Occurs(overflow', a) = Occurs(overflow, a) + 0 /\ lost'[a] = lost[a] + 0
    BY <1>2, <1>5, Zenon
  <2> QED
    BY <1>1, <1>5, <2>1, <2>2, QueueRule, Zenon
<1> QED
  BY <1>3, <1>4, <1>5, Zenon

\* One entry less in a deque.
LEMMA TakenCount ==
  ASSUME Typing, NEW v \in Workers, NEW a, NEW x, NEW q \in Seq(Actors), deque' = [deque EXCEPT ![v] = q],
         Occurs(deque[v], a) = Occurs(q, a) + (IF x = a THEN 1 ELSE 0), InDeques(a) \in Nat, NEW b,
         b = IF x = a THEN 1 ELSE 0
  PROVE  InDeques(a)' = InDeques(a) + (-b)
<1>1. Occurs(q, a) \in Nat /\ b \in Nat
  <2>1. b \in Nat
    OBVIOUS
  <2> QED
    BY <2>1, OccursType, Zenon
<1>2. InDeques(a)' + Occurs(deque[v], a) = InDeques(a) + Occurs(q, a)
  BY DequeCount, Zenon
<1>3. deque' \in [Workers -> Seq(Actors)]
  BY DEF Typing, QueueTyping
<1>4. InDeques(a)' \in Nat
  BY <1>3, InDequesType, Zenon
<1> QED
  BY <1>1, <1>2, <1>4

\* The ends of a deque.
LEMMA EndsCount ==
  ASSUME Typing, NEW v \in Workers, deque[v] # <<>>, NEW a
  PROVE  /\ Front(deque[v]) \in Seq(Actors) /\ Last(deque[v]) \in Actors
         /\ Tail(deque[v]) \in Seq(Actors) /\ Head(deque[v]) \in Actors
         /\ Occurs(deque[v], a) = Occurs(Front(deque[v]), a) + (IF Last(deque[v]) = a THEN 1 ELSE 0)
         /\ Occurs(deque[v], a) = Occurs(Tail(deque[v]), a) + (IF Head(deque[v]) = a THEN 1 ELSE 0)
<1>1. deque[v] \in Seq(Actors) /\ Len(deque[v]) <= DequeCap
  BY DEF Typing, QueueTyping
<1>2. /\ Front(deque[v]) \in Seq(Actors) /\ Last(deque[v]) \in Actors
      /\ Tail(deque[v]) \in Seq(Actors) /\ Head(deque[v]) \in Actors
  BY <1>1, DequeTyping, Zenon
<1>3. /\ Occurs(deque[v], a) = (IF Head(deque[v]) = a THEN 1 ELSE 0) + Occurs(Tail(deque[v]), a)
      /\ Occurs(deque[v], a) = Occurs(Front(deque[v]), a) + (IF Last(deque[v]) = a THEN 1 ELSE 0)
  BY <1>1, OccursTake, Zenon
<1>4. Occurs(Tail(deque[v]), a) \in Nat /\ Occurs(Front(deque[v]), a) \in Nat
  BY <1>2, OccursType, Zenon
<1>5. PICK f : f = Occurs(Front(deque[v]), a)
  BY Zenon
<1>6. PICK t : t = Occurs(Tail(deque[v]), a)
  BY Zenon
<1>7. /\ Occurs(deque[v], a) = f + (IF Last(deque[v]) = a THEN 1 ELSE 0)
      /\ Occurs(deque[v], a) = t + (IF Head(deque[v]) = a THEN 1 ELSE 0)
  BY <1>3, <1>4, <1>5, <1>6
<1> QED
  BY <1>2, <1>5, <1>6, <1>7, Zenon

\* A worker's step.
LEMMA WorkerRefs ==
  ASSUME Typing, CountTyping, CountOK, NEW w \in Workers, Worker(w), NEW a \in Actors
  PROVE  refs'[a] = Count(a)'
<1>1. CASE PopOwn(w) /\ running /\ deque[w] # <<>>
  <2>1. /\ cur' = [cur EXCEPT ![w] = Last(deque[w])] /\ deque' = [deque EXCEPT ![w] = Front(deque[w])]
        /\ UNCHANGED <<kpc, tgt, spc, overflow, lost, refs>>
    BY <1>1, Zenon DEF PopOwn, Front, Last, actorVars, senderVars
  <2>2. cur[w] = NULL
    BY <1>1 DEF PopOwn, Typing, ThreadTyping, Looking
  <2>3. /\ Front(deque[w]) \in Seq(Actors) /\ Last(deque[w]) \in Actors
        /\ Occurs(deque[w], a) = Occurs(Front(deque[w]), a) + (IF Last(deque[w]) = a THEN 1 ELSE 0)
    BY <1>1, EndsCount, Zenon
  <2> QED
    BY <2>1, <2>2, <2>3, TakeRefs, Zenon
<1>2. CASE Steal(w)
  <2>1. PICK v \in Workers : /\ deque[v] # <<>> /\ cur' = [cur EXCEPT ![w] = Head(deque[v])]
                             /\ deque' = [deque EXCEPT ![v] = Tail(deque[v])]
    BY <1>2, Zenon DEF Steal
  <2>2. UNCHANGED <<kpc, tgt, spc, overflow, lost, refs>>
    BY <1>2, Zenon DEF Steal, actorVars, senderVars
  <2>3. cur[w] = NULL
    BY <1>2 DEF Steal, Typing, ThreadTyping, Looking
  <2>4. /\ Tail(deque[v]) \in Seq(Actors) /\ Head(deque[v]) \in Actors
        /\ Occurs(deque[v], a) = Occurs(Tail(deque[v]), a) + (IF Head(deque[v]) = a THEN 1 ELSE 0)
    BY <2>1, EndsCount, Zenon
  <2> QED
    BY <2>1, <2>2, <2>3, <2>4, TakeRefs, Zenon
<1>3. CASE Drop(w)
  <2>1. cur[w] \in Actors /\ cur \in [Workers -> Actors \cup {NULL}] /\ NULL # a
    BY <1>3, SchedulerAssumption DEF Drop, Typing, ThreadTyping, Looking
  <2>2. /\ Release(cur[w]) /\ cur' = [cur EXCEPT ![w] = NULL]
        /\ UNCHANGED <<kpc, tgt, spc, lost, deque, overflow>>
    BY <1>3, Zenon DEF Drop, senderVars
  <2>3. PICK b : b = IF cur[w] = a THEN 1 ELSE 0
    BY Zenon
  <2>4. Holds(a)' = Holds(a) + (-b)
    <3>1. Holds(a) \in Nat /\ b \in Nat
      <4>1. b \in Nat
        BY <2>3
      <4> QED
        BY <4>1, CountType, Zenon
    <3>2. Holds(a)' = Holds(a) - b + (IF NULL = a THEN 1 ELSE 0)
      BY <2>1, <2>2, <2>3, WorkerCount, Zenon
    <3> QED
      BY <2>1, <3>1, <3>2
  <2> QED
    BY <2>1, <2>2, <2>3, <2>4, GiveBackRefs, Zenon
<1>4. CASE UNCHANGED <<kpc, tgt, spc, cur, deque, overflow, lost, refs>>
  BY <1>4, QuietRefs, Zenon
<1>5. CASE PopOwn(w) /\ ~(running /\ deque[w] # <<>>)
  BY <1>4, <1>5, Zenon DEF PopOwn, actorVars, senderVars
<1>6. CASE StealNothing(w) \/ Sleep(w) \/ Process(w)
  BY <1>4, <1>6, Zenon DEF StealNothing, Sleep, Process, Claim, Dequeue, Execute, Crash, Drain, actorVars, senderVars
<1>7. CASE Check(w) \/ IsEmpty(w) \/ StoreReady(w) \/ StoreSuspended(w) \/ Recheck(w) \/ Rewake(w)
  BY <1>4, <1>7, Zenon DEF Check, IsEmpty, StoreReady, StoreSuspended, Recheck, Rewake, actorVars, senderVars
<1> QED
  BY <1>1, <1>2, <1>3, <1>5, <1>6, <1>7, DrainRefs, PushRefs, Zenon DEF Worker, FindWork, Dispose

\* sta_scheduler_stop gives back the references of the queues.
LEMMA StopRefs ==
  ASSUME Typing, CountTyping, CountOK, StopDrain, NEW a \in Actors
  PROVE  refs'[a] = Count(a)'
<1>1. UNCHANGED <<kpc, tgt, spc, cur, lost>>
  BY Zenon DEF StopDrain, workerVars, senderVars
<1>2. InDeques(a) \in Nat /\ Occurs(overflow, a) \in Nat
  BY CountType, Zenon
<1>3. ASSUME NEW w \in Workers, deque[w] # <<>>, Release(Last(deque[w])),
             deque' = [deque EXCEPT ![w] = Front(deque[w])], overflow' = overflow
      PROVE  refs'[a] = Count(a)'
  <2>1. /\ Front(deque[w]) \in Seq(Actors) /\ Last(deque[w]) \in Actors
        /\ Occurs(deque[w], a) = Occurs(Front(deque[w]), a) + (IF Last(deque[w]) = a THEN 1 ELSE 0)
    BY <1>3, EndsCount, Zenon
  <2>2. PICK b : b = IF Last(deque[w]) = a THEN 1 ELSE 0
    BY Zenon
  <2>3. InDeques(a)' = InDeques(a) + (-b)
    BY <1>2, <1>3, <2>1, <2>2, TakenCount, Zenon
  <2> QED
    BY <1>1, <1>3, <2>1, <2>2, <2>3, GiveBackRefs, Zenon
<1>4. ASSUME overflow # <<>>, Release(Head(overflow)), overflow' = Tail(overflow), deque' = deque
      PROVE  refs'[a] = Count(a)'
  <2>1. overflow \in Seq(Actors) /\ Head(overflow) \in Actors /\ Tail(overflow) \in Seq(Actors)
    BY <1>4 DEF Typing, QueueTyping
  <2>2. PICK b : b = IF Head(overflow) = a THEN 1 ELSE 0
    BY Zenon
  <2>3. Occurs(overflow, a) = (IF Head(overflow) = a THEN 1 ELSE 0) + Occurs(Tail(overflow), a)
    BY <1>4, <2>1, OccursTake, Zenon
  <2>4. Occurs(Tail(overflow), a) \in Nat
    BY <2>1, OccursType, Zenon
  <2>5. Occurs(overflow', a) = Occurs(overflow, a) + (-b)
    BY <1>4, <2>2, <2>3, <2>4
  <2> QED
    BY <1>1, <1>4, <2>1, <2>2, <2>5, GiveBackRefs, Zenon
<1> QED
  BY <1>3, <1>4, Zenon DEF StopDrain, Front, Last

\* A step keeps the counts.
LEMMA CountStep ==
  ASSUME Typing, CountTyping, CountOK, [Next]_vars
  PROVE  CountOK'
<1>1. Typing'
  BY TypingStep, Zenon
<1>2. ASSUME NEW a \in Actors PROVE refs'[a] = Count(a)'
  <2>1. CASE StopRequest \/ UNCHANGED vars
    <3>1. UNCHANGED <<kpc, tgt, spc, cur, deque, overflow, lost, refs>>
      BY <2>1, Zenon DEF StopRequest, vars, actorVars, workerVars, senderVars
    <3> QED
      BY <3>1, QuietRefs, Zenon
  <2> QED
    BY <1>1, <2>1, SenderRefs, KillerRefs, WorkerRefs, StopRefs, Zenon DEF Next
<1> QED
  BY <1>2, Zenon DEF CountOK
-----------------------------------------------------------------------------
(* What has been freed *)

\* What is enough for a step to leave freed actors alone: the actor whose count
\* changes has a reference.
LEMMA FreedRule ==
  ASSUME CountTyping, FreedOK, \A a \in Actors : refs[a] \in Nat,
         \/ UNCHANGED <<refs, freed>>
         \/ \E x \in Actors : refs[x] # 0 /\ refs' = [refs EXCEPT ![x] = @ + 1] /\ freed' = freed
         \/ \E x \in Actors : refs[x] # 0 /\ Release(x)
  PROVE  freed' \subseteq Actors /\ \A a \in freed' : refs'[a] = 0
<1>1. CASE UNCHANGED <<refs, freed>>
  BY <1>1, Zenon DEF FreedOK
<1>2. ASSUME NEW x \in Actors, refs[x] # 0, refs' = [refs EXCEPT ![x] = @ + 1], freed' = freed
      PROVE  freed' \subseteq Actors /\ \A a \in freed' : refs'[a] = 0
  BY <1>2, Zenon DEF FreedOK, CountTyping
<1>3. ASSUME NEW x \in Actors, refs[x] # 0, Release(x)
      PROVE  freed' \subseteq Actors /\ \A a \in freed' : refs'[a] = 0
  <2>1. \A a \in Actors : refs'[a] = IF a = x THEN refs[a] - 1 ELSE refs[a]
    BY <1>3, ReleaseFacts
  <2>2. freed' = IF refs[x] = 1 THEN freed \cup {x} ELSE freed
    BY <1>3, Zenon DEF Release
  <2> QED
    BY <1>3, <2>1, <2>2 DEF FreedOK
<1> QED
  BY <1>1, <1>2, <1>3, Zenon

\* A step keeps what is known of freed actors.
LEMMA FreedStep ==
  ASSUME Typing, CountTyping, CountOK, FreedOK, [Next]_vars
  PROVE  FreedOK'
<1>1. ASSUME NEW a \in Actors
      PROVE  /\ refs[a] \in Nat
             /\ a \in registered \/ kpc[a] # "done" => refs[a] # 0
             /\ \A s \in Senders : tgt[s] = a => refs[a] # 0
             /\ \A w \in Workers : cur[w] = a => refs[a] # 0
             /\ \A w \in Workers : Positions(deque[w], a) # {} => refs[a] # 0
             /\ Positions(overflow, a) # {} => refs[a] # 0
  <2>1. a \in registered => kpc[a] # "done"
    BY DEF FreedOK
  <2> QED
    BY <2>1, ZeroMeansNone, Zenon
<1> DEFINE Safe == /\ \A a \in registered' : kpc'[a] \in {"idle", "unregister"}
                   /\ \/ UNCHANGED <<refs, freed>>
                      \/ \E x \in Actors : refs[x] # 0 /\ refs' = [refs EXCEPT ![x] = @ + 1] /\ freed' = freed
                      \/ \E x \in Actors : refs[x] # 0 /\ Release(x)
<1> SUFFICES Safe
  BY <1>1, FreedRule, Zenon DEF FreedOK
<1>2. CASE UNCHANGED <<registered, kpc, refs, freed>>
  BY <1>2, Zenon DEF FreedOK
<1>3. ASSUME UNCHANGED <<registered, kpc>>, NEW x \in Actors, refs[x] # 0, Release(x)
      PROVE  Safe
  BY <1>3, Zenon DEF FreedOK
<1>4. ASSUME NEW s \in Senders, Sender(s) PROVE Safe
  <2>1. CASE Lookup(s)
    <3>1. PICK x \in registered : refs' = [refs EXCEPT ![x] = @ + 1]
      BY <2>1, Zenon DEF Lookup
    <3>2. x \in Actors
      BY DEF Typing, ThreadTyping
    <3>3. UNCHANGED <<registered, kpc, freed>>
      BY <2>1, Zenon DEF Lookup
    <3> QED
      BY <1>1, <3>1, <3>2, <3>3, Zenon DEF FreedOK
  <2>2. CASE TakeQueueRef(s)
    <3>1. tgt[s] \in Actors
      BY <2>2 DEF TakeQueueRef, Typing, ThreadTyping
    <3>2. UNCHANGED <<registered, kpc, freed>> /\ refs' = [refs EXCEPT ![tgt[s]] = @ + 1]
      BY <2>2, Zenon DEF TakeQueueRef
    <3> QED
      BY <1>1, <3>1, <3>2, Zenon DEF FreedOK
  <2>3. CASE ReleaseTarget(s)
    <3>1. tgt[s] \in Actors
      BY <2>3 DEF ReleaseTarget, Typing, ThreadTyping
    <3>2. UNCHANGED <<registered, kpc>> /\ Release(tgt[s])
      BY <2>3, Zenon DEF ReleaseTarget
    <3> QED
      BY <1>1, <1>3, <3>1, <3>2, Zenon
  <2>4. CASE ~Lookup(s) /\ ~TakeQueueRef(s) /\ ~ReleaseTarget(s)
    <3>1. UNCHANGED <<registered, kpc, refs, freed>>
      BY <1>4, <2>4, Zenon DEF Sender, CheckTarget, Enqueue, LinkMsg, Wake, WakeNew, PushOverflow, actorVars
    <3> QED
      BY <1>2, <3>1, Zenon
  <2> QED
    BY <2>1, <2>2, <2>3, <2>4, Zenon
<1>5. ASSUME NEW x \in Actors, Killer(x) PROVE Safe
  <2>1. CASE KillStore(x)
    BY <2>1 DEF KillStore, FreedOK, CountTyping
  <2>2. CASE KillUnregister(x)
    BY <2>2 DEF KillUnregister, FreedOK, CountTyping
  <2>3. CASE KillRelease(x)
    <3>1. kpc[x] # "done" /\ x \notin registered
      BY <2>3 DEF KillRelease, FreedOK
    <3>2. refs[x] # 0 /\ Release(x)
      BY <1>1, <2>3, <3>1, Zenon DEF KillRelease
    <3>3. \A a \in registered' : kpc'[a] \in {"idle", "unregister"}
      BY <2>3, <3>1 DEF KillRelease, FreedOK, CountTyping
    <3> QED
      BY <3>2, <3>3, Zenon
  <2> QED
    BY <1>5, <2>1, <2>2, <2>3, Zenon DEF Killer
<1>6. ASSUME NEW w \in Workers, Worker(w) PROVE Safe
  <2>1. CASE Drop(w)
    <3>1. cur[w] \in Actors
      BY <2>1 DEF Drop, Typing, ThreadTyping, Looking
    <3>2. UNCHANGED <<registered, kpc>> /\ Release(cur[w])
      BY <2>1, Zenon DEF Drop
    <3> QED
      BY <1>1, <1>3, <3>1, <3>2, Zenon
  <2>2. CASE ~Drop(w)
    <3>1. UNCHANGED <<registered, kpc, refs, freed>>
      BY <1>6, <2>2, Zenon DEF Worker, FindWork, Process, Dispose, PopOwn, Steal, StealNothing, DrainOverflow, Sleep, Claim,
            Dequeue, Execute, Crash, Drain, Check, IsEmpty, StoreReady, StoreSuspended, Recheck, Rewake, PushOwn, actorVars
    <3> QED
      BY <1>2, <3>1, Zenon
  <2> QED
    BY <2>1, <2>2
<1>7. CASE StopDrain
  <2>1. UNCHANGED <<registered, kpc>>
    BY <1>7, Zenon DEF StopDrain
  <2>2. ASSUME NEW w \in Workers, deque[w] # <<>>, Release(Last(deque[w])) PROVE Safe
    <3>1. deque[w] \in Seq(Actors)
      BY DEF Typing, QueueTyping
    <3>2. Last(deque[w]) \in Actors /\ Len(deque[w]) \in Positions(deque[w], Last(deque[w]))
      BY <2>2, <3>1 DEF Last, Positions
    <3> QED
      BY <1>1, <1>3, <2>1, <2>2, <3>2, Zenon
  <2>3. ASSUME overflow # <<>>, Release(Head(overflow)) PROVE Safe
    <3>1. Head(overflow) \in Actors /\ 1 \in Positions(overflow, Head(overflow))
      BY <2>3 DEF Typing, QueueTyping, Positions
    <3> QED
      BY <1>1, <1>3, <2>1, <2>3, <3>1, Zenon
  <2> QED
    BY <1>7, <2>2, <2>3, Zenon DEF StopDrain, Last
<1>8. CASE StopRequest \/ UNCHANGED vars
  BY <1>2, <1>8, Zenon DEF StopRequest, vars, actorVars
<1> QED
  BY <1>4, <1>5, <1>6, <1>7, <1>8, Zenon DEF Next

\* The reference count of an actor is the number of references to it: of the
\* registry, of senders, of workers and of queue entries, those that a full
\* deque turned away included.
THEOREM CountsExact == Spec => []RefsExact
<1>1. Init => Typing /\ CountTyping /\ CountOK
  BY InitTyping, InitCount, Zenon
<1>2. (Typing /\ CountTyping /\ CountOK) /\ [Next]_vars => (Typing /\ CountTyping /\ CountOK)'
  BY TypingStep, CountTypingStep, CountStep, Zenon
<1>3. Typing /\ CountTyping /\ CountOK => RefsExact
  BY Zenon DEF CountOK, Count, Registry, Lookups, Pushes, Holds, Occurs, InDeques, Slots, RefsExact
<1> QED
  BY <1>1, <1>2, <1>3, PTL DEF Spec

\* An actor that has been freed is in no thread's hands, in no run queue and no
\* longer in the registry: sta_actor_release frees it with the last reference.
THEOREM FreedUntouched == Spec => []NoUseAfterFree
<1> DEFINE IInv == Typing /\ CountTyping /\ CountOK /\ FreedOK
<1>1. Init => IInv
  BY InitTyping, InitCount, Zenon
<1>2. IInv /\ [Next]_vars => IInv'
  BY TypingStep, CountTypingStep, CountStep, FreedStep, Zenon
<1>3. IInv => NoUseAfterFree
  <2> SUFFICES ASSUME IInv, NEW a \in freed
               PROVE  /\ a \notin registered /\ kpc[a] = "done"
                      /\ \A s \in Senders : tgt[s] # a
                      /\ \A w \in Workers : cur[w] # a
                      /\ Entries(a) = {}
    BY Zenon DEF NoUseAfterFree
  <2>1. a \in Actors /\ refs[a] = 0
    BY DEF FreedOK
  <2>2. /\ kpc[a] = "done" /\ \A s \in Senders : tgt[s] # a
        /\ \A w \in Workers : cur[w] # a
        /\ Positions(overflow, a) = {}
        /\ \A w \in Workers : Positions(deque[w], a) = {}
    BY <2>1, ZeroMeansNone, Zenon
  <2>3. a \notin registered
    BY <2>2 DEF FreedOK
  <2>4. Entries(a) = {}
    BY <2>2 DEF Entries
  <2> QED
    BY <2>2, <2>3, <2>4, Zenon
<1> QED
  BY <1>1, <1>2, <1>3, PTL DEF Spec
-----------------------------------------------------------------------------
(* Places are one at most *)

\* A queue without repetition is no longer than there are elements.
LEMMA Pigeonhole ==
  ASSUME NEW S, IsFiniteSet(S), NEW q \in Seq(S), Distinct(q)
  PROVE  Len(q) <= Cardinality(S)
<1> DEFINE f == [i \in 1..Len(q) |-> q[i]]
<1>1. f \in Injection(1..Len(q), S)
  BY DEF Distinct, Injection, IsInjective
<1>2. Len(q) \in Nat
  OBVIOUS
<1>3. Cardinality(1..Len(q)) = Len(q)
  <2>1. 1 \in Int /\ Len(q) \in Int
    BY <1>2
  <2>2. Cardinality(1..Len(q)) = IF 1 > Len(q) THEN 0 ELSE Len(q) - 1 + 1
    BY <2>1, FS_Interval, Zenon
  <2> QED
    BY <1>2, <2>2
<1> QED
  BY <1>1, <1>3, FS_Injection

\* What is in a set with one element at most.
LEMMA AtMostOne ==
  ASSUME NEW S, \A x, y \in S : x = y
  PROVE  IsFiniteSet(S) /\ Cardinality(S) \in {0, 1} /\ (Cardinality(S) = 0 <=> S = {})
<1>1. CASE S = {}
  BY <1>1, FS_EmptySet
<1>2. CASE S # {}
  <2>1. PICK x : S = {x}
    BY <1>2
  <2>2. IsFiniteSet({x}) /\ Cardinality({x}) = 1
    BY FS_Singleton
  <2> QED
    BY <2>1, <2>2
<1> QED
  BY <1>1, <1>2

\* An entry is one of an actor's places.
LEMMA EntryPlace ==
  ASSUME Typing, NEW a, NEW x \in Entries(a)
  PROVE  \/ \E s \in Senders : x = <<s, "sender">> /\ Sending(s, a)
         \/ \E w \in Workers : x = <<w, "worker">> /\ Owned(w, a) /\ wpc[w] \in {"push", "claim"}
         \/ \E i \in 1..Len(overflow) : x = <<i, "overflow">> /\ overflow[i] = a
         \/ \E w \in Workers : \E i \in 1..Len(deque[w]) : x = <<i, w>> /\ deque[w][i] = a
<1>1. CASE \E s \in Senders : x = <<s, "sender">> /\ tgt[s] = a /\ spc[s] \in {"ref", "push"}
  BY <1>1, Zenon DEF Sending
<1>2. CASE \E w \in Workers : x = <<w, "worker">> /\ cur[w] = a /\ wpc[w] \in {"push", "claim"}
  <2>1. \A l : l \in {"push", "claim"} => l \in Owning
    BY DEF Owning
  <2> QED
    BY <1>2, <2>1, Zenon DEF Owned
<1>3. CASE \E i \in Positions(overflow, a) : x = <<i, "overflow">>
  <2>1. DOMAIN overflow = 1..Len(overflow)
    BY DEF Typing, QueueTyping
  <2> QED
    BY <1>3, <2>1, Zenon DEF Positions
<1>4. CASE \E w \in Workers : \E i \in Positions(deque[w], a) : x = <<i, w>>
  <2>1. \A w \in Workers : DOMAIN deque[w] = 1..Len(deque[w])
    BY DEF Typing, QueueTyping
  <2> QED
    BY <1>4, <2>1, Zenon DEF Positions
<1>5. PICK A, B : /\ A = {s \in Senders : tgt[s] = a /\ spc[s] \in {"ref", "push"}}
                  /\ B = {w \in Workers : cur[w] = a /\ wpc[w] \in {"push", "claim"}}
  BY Zenon
<1>6. \/ x \in A \X {"sender"} \/ x \in B \X {"worker"} \/ x \in Positions(overflow, a) \X {"overflow"}
      \/ \E w \in Workers : x \in Positions(deque[w], a) \X {w}
  BY <1>5, Zenon DEF Entries
<1>7. CASE x \in A \X {"sender"}
  <2>1. \E s \in A : x = <<s, "sender">>
    BY <1>7
  <2> QED
    BY <1>1, <1>5, <2>1, Zenon
<1>8. CASE x \in B \X {"worker"}
  <2>1. \E w \in B : x = <<w, "worker">>
    BY <1>8
  <2> QED
    BY <1>2, <1>5, <2>1, Zenon
<1>9. CASE x \in Positions(overflow, a) \X {"overflow"}
  <2>1. \E i \in Positions(overflow, a) : x = <<i, "overflow">>
    BY <1>9
  <2> QED
    BY <1>3, <2>1, Zenon
<1>10. ASSUME NEW w \in Workers, x \in Positions(deque[w], a) \X {w}
       PROVE  \E v \in Workers : \E i \in Positions(deque[v], a) : x = <<i, v>>
  <2>1. \E i \in Positions(deque[w], a) : x = <<i, w>>
    BY <1>10
  <2> QED
    BY <2>1, Zenon
<1> QED
  BY <1>4, <1>6, <1>7, <1>8, <1>9, <1>10, Zenon

\* One place, so one entry, and none for an actor that runs.
LEMMA OneEntry ==
  ASSUME Typing, PlaceOK, NEW a \in Actors
  PROVE  /\ Cardinality(Entries(a)) + Cardinality(Runners(a)) <= 1
         /\ Cardinality(Runners(a)) <= 1
<1>1. OnePlace(a) /\ Distinct(overflow) /\ \A w \in Workers : Distinct(deque[w])
  BY Zenon DEF PlaceOK
<1>2. \A i \in 1..Len(overflow) : overflow[i] = a => Overflowing(a)
  BY Zenon DEF Overflowing, Elems
<1>3. \A w \in Workers : \A i \in 1..Len(deque[w]) : deque[w][i] = a => Queued(w, a)
  BY Zenon DEF Queued, Elems
<1>k. /\ ~((\E s \in Senders : Sending(s, a)) /\ (\E w \in Workers : Owned(w, a)))
      /\ ~((\E s \in Senders : Sending(s, a)) /\ (\E w \in Workers : Queued(w, a)))
      /\ ~((\E s \in Senders : Sending(s, a)) /\ Overflowing(a))
      /\ ~((\E w \in Workers : Owned(w, a)) /\ (\E w \in Workers : Queued(w, a)))
      /\ ~((\E w \in Workers : Owned(w, a)) /\ Overflowing(a))
      /\ ~((\E w \in Workers : Queued(w, a)) /\ Overflowing(a))
  BY <1>1, Zenon DEF OnePlace
<1>4. \A x, y \in Entries(a) : x = y
  <2> SUFFICES ASSUME NEW x \in Entries(a), NEW y \in Entries(a) PROVE x = y
    OBVIOUS
  <2>1. CASE \E s \in Senders : x = <<s, "sender">> /\ Sending(s, a)
    <3>1. \E s \in Senders : y = <<s, "sender">> /\ Sending(s, a)
      BY <1>k, <1>2, <1>3, <2>1, EntryPlace, Zenon
    <3> QED
      BY <1>1, <2>1, <3>1, Zenon DEF OnePlace
  <2>2. CASE \E w \in Workers : x = <<w, "worker">> /\ Owned(w, a)
    <3>1. \E w \in Workers : y = <<w, "worker">> /\ Owned(w, a)
      <4>1. /\ ~(\E s \in Senders : Sending(s, a)) /\ ~(\E v \in Workers : Queued(v, a)) /\ ~Overflowing(a)
        BY <1>k, <2>2, Zenon
      <4> QED
        BY <1>2, <1>3, <4>1, EntryPlace, Zenon
    <3> QED
      BY <1>1, <2>2, <3>1, Zenon DEF OnePlace
  <2>3. CASE \E i \in 1..Len(overflow) : x = <<i, "overflow">> /\ overflow[i] = a
    <3>1. \E i \in 1..Len(overflow) : y = <<i, "overflow">> /\ overflow[i] = a
      BY <1>k, <1>2, <1>3, <2>3, EntryPlace, Zenon
    <3> QED
      BY <1>1, <2>3, <3>1, Zenon DEF Distinct
  <2>4. CASE \E w \in Workers : \E i \in 1..Len(deque[w]) : x = <<i, w>> /\ deque[w][i] = a
    <3>1. \E w \in Workers : \E i \in 1..Len(deque[w]) : y = <<i, w>> /\ deque[w][i] = a
      <4>1. \E v \in Workers : Queued(v, a)
        BY <1>3, <2>4, Zenon
      <4>2. /\ ~(\E s \in Senders : Sending(s, a)) /\ ~(\E v \in Workers : Owned(v, a)) /\ ~Overflowing(a)
        BY <1>k, <4>1, Zenon
      <4> QED
        BY <1>2, <4>2, EntryPlace, Zenon
    <3> QED
      BY <1>1, <1>3, <2>4, <3>1, Zenon DEF OnePlace, Distinct
  <2> QED
    BY <2>1, <2>2, <2>3, <2>4, EntryPlace, Zenon
<1>5. \A w \in Runners(a) : w \in Workers /\ Owned(w, a) /\ wpc[w] \notin {"push", "claim"}
  BY DEF Runners, Owned, Owning, Running
<1>6. \A w, v \in Runners(a) : w = v
  BY <1>1, <1>5, Zenon DEF OnePlace
<1>7. ASSUME NEW w \in Runners(a) PROVE Entries(a) = {}
  <2> SUFFICES ASSUME NEW x \in Entries(a) PROVE FALSE
    OBVIOUS
  <2>1. \E v \in Workers : Owned(v, a) /\ wpc[v] \in {"push", "claim"}
    BY <1>k, <1>2, <1>3, <1>5, EntryPlace, Zenon
  <2> QED
    BY <1>1, <1>5, <2>1, Zenon DEF OnePlace
<1>8. /\ Cardinality(Entries(a)) \in {0, 1} /\ (Cardinality(Entries(a)) = 0 <=> Entries(a) = {})
  BY <1>4, AtMostOne, Zenon
<1>9. /\ Cardinality(Runners(a)) \in {0, 1} /\ (Cardinality(Runners(a)) = 0 <=> Runners(a) = {})
  BY <1>6, AtMostOne, Zenon
<1> QED
  BY <1>7, <1>8, <1>9

\* An actor is in one run queue at most, once, and in none while it runs
\* (sta_scheduler_enqueue, worker_thread_main), and so one worker runs it at a
\* time, whatever the number of actors, unless actors suspend themselves in
\* Future>>wait.
THEOREM ActorsQueuedOnce ==
  ASSUME "suspended" \notin Outcomes
  PROVE  Spec => [](QueuedOnce /\ SingleRunner)
<1>1. Typing /\ PlaceOK => QueuedOnce /\ SingleRunner
  <2> SUFFICES ASSUME Typing, PlaceOK, NEW a \in Actors
               PROVE  /\ Cardinality(Entries(a)) + Cardinality(Runners(a)) <= 1
                      /\ Cardinality(Runners(a)) <= 1
    BY Zenon DEF QueuedOnce, SingleRunner
  <2> QED
    BY OneEntry, Zenon
<1>2. Typing /\ PlaceOK /\ [Next]_vars => (Typing /\ PlaceOK)'
  BY PlaceStep, TypingStep, Zenon
<1> QED
  BY <1>1, <1>2, InitTyping, InitPlaces, PTL DEF Spec

\* When a deque has room for all actors, a READY actor is in exactly one run
\* queue until the scheduler is stopped: none is forgotten although the results
\* of sta_deque_push are ignored.
THEOREM ReadyQueuedExactlyOnce ==
  ASSUME "suspended" \notin Outcomes, IsFiniteSet(Actors), Cardinality(Actors) <= DequeCap
  PROVE  Spec => []RunnableOnce
<1> DEFINE Inv == Typing /\ PlaceOK /\ ReadyOK
<1>1. RoomForAll
  <2> SUFFICES ASSUME NEW q \in Seq(Actors), Distinct(q) PROVE Len(q) <= DequeCap
    BY Zenon DEF RoomForAll
  <2>1. Len(q) \in Nat /\ Cardinality(Actors) \in Nat /\ DequeCap \in Nat
    <3>1. Cardinality(Actors) \in Nat
      BY FS_CardinalityType, Zenon
    <3> QED
      BY <3>1, SchedulerAssumption
  <2>2. Len(q) <= Cardinality(Actors)
    BY Pigeonhole, Zenon
  <2> QED
    BY <2>1, <2>2
<1>2. Inv => RunnableOnce
  <2> SUFFICES ASSUME Inv PROVE QueuedOnce /\ ReadyIsQueued
    BY Zenon DEF RunnableOnce
  <2>1. QueuedOnce
    BY OneEntry, Zenon DEF QueuedOnce
  <2>2. ASSUME NEW a \in Actors, Coming(a) PROVE Entries(a) # {}
    <3>1. CASE Overflowing(a)
      <4>1. PICK i \in 1..Len(overflow) : overflow[i] = a
        BY <3>1, Zenon DEF Overflowing, Elems
      <4>2. DOMAIN overflow = 1..Len(overflow)
        BY DEF Typing, QueueTyping
      <4>3. <<i, "overflow">> \in Entries(a)
        BY <4>1, <4>2 DEF Entries, Positions
      <4> QED
        BY <4>3, Zenon
    <3>2. CASE \E s \in Senders : Sending(s, a)
      <4>1. PICK s \in Senders : tgt[s] = a /\ spc[s] \in {"ref", "push"}
        BY <3>2, Zenon DEF Sending
      <4>2. <<s, "sender">> \in Entries(a)
        BY <4>1 DEF Entries
      <4> QED
        BY <4>2, Zenon
    <3>3. ASSUME NEW w \in Workers, Queued(w, a) PROVE Entries(a) # {}
      <4>1. PICK i \in 1..Len(deque[w]) : deque[w][i] = a
        BY <3>3, Zenon DEF Queued, Elems
      <4>2. DOMAIN deque[w] = 1..Len(deque[w])
        BY DEF Typing, QueueTyping
      <4>3. i \in Positions(deque[w], a)
        BY <4>1, <4>2, Zenon DEF Positions
      <4>4. <<i, w>> \in Entries(a)
        BY <4>3 DEF Entries
      <4> QED
        BY <4>4, Zenon
    <3>4. CASE \E w \in Workers : cur[w] = a /\ wpc[w] \in {"push", "claim"}
      <4>1. PICK w \in Workers : cur[w] = a /\ wpc[w] \in {"push", "claim"}
        BY <3>4, Zenon
      <4>2. <<w, "worker">> \in Entries(a)
        BY <4>1 DEF Entries
      <4> QED
        BY <4>2, Zenon
    <3> QED
      BY <2>2, <3>1, <3>2, <3>3, <3>4, Zenon DEF Coming
  <2> QED
    BY <2>1, <2>2, Zenon DEF ReadyOK, ReadyIsQueued
<1>3. Inv /\ [Next]_vars => Inv'
  BY <1>1, ReadyStep, PlaceStep, TypingStep, Zenon
<1>4. Init => Inv
  BY InitTyping, InitPlaces, Zenon
<1> QED
  BY <1>2, <1>3, <1>4, PTL DEF Spec
=============================================================================
