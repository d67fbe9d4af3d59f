------------------------- MODULE MethodDictProofs -------------------------
(***************************************************************************)
(* MethodDict: a lookup that runs while methods are installed answers with *)
(* a method bound during it, and the tally keeps room in the array, for    *)
(* every number of readers, every set of selectors and every hash.         *)
(***************************************************************************)
EXTENDS MethodDict, FiniteSetTheorems, TLAPS

----------------------------------------------------------------------------
(* The inductive invariant.  f and m are the selectors and the methods of  *)
(* an array with cap pairs.                                                *)

\* The slot a search for s looks at in step i.
At(cap, s, i) == (Hash[s] + i) % cap

\* The first i slots of the search are taken by other selectors.
Passed(f, cap, s, i) == \A j \in 0 .. (i - 1) : f[At(cap, s, j)] \notin {0, s}

\* Ends, of any array.
Reaches(f, cap, s, p) ==
  \E i \in 0 .. (cap - 1) : p = At(cap, s, i) /\ f[p] \in {0, s} /\ Passed(f, cap, s, i)

\* A search for a selector that is there comes to it, and an empty slot has no
\* method.
TableOK(f, m, cap) ==
  /\ f \in [0 .. (cap - 1) -> Selectors \cup {0}] /\ m \in [0 .. (cap - 1) -> Nat]
  /\ \A p \in 0 .. (cap - 1) : (f[p] # 0 => Reaches(f, cap, f[p], p)) /\ (f[p] = 0 => m[p] = 0)

\* What the array has for s is one of M, where 0 stands for no entry.
Gives(f, m, cap, s, M) ==
  /\ \A p \in 0 .. (cap - 1) : f[p] = s => m[p] \in M
  /\ (\A p \in 0 .. (cap - 1) : f[p] # s) => 0 \in M

\* The slots below n that have a selector.
Taken(f, n) == {p \in 0 .. (n - 1) : f[p] # 0}

\* g is f with x stored in slot p.
Stored(f, g, cap, p, x) == g[p] = x /\ \A q \in 0 .. (cap - 1) : q # p => g[q] = f[q]

Table(S) == UNION {[0 .. (n - 1) -> S] : n \in Nat}

ArrayTyping ==
  /\ caps \in Seq(Nat \ {0}) /\ selAt \in Seq(Table(Selectors \cup {0})) /\ methodAt \in Seq(Table(Nat))
  /\ Len(selAt) = Len(caps) /\ Len(methodAt) = Len(caps)

WriterTyping ==
  /\ array \in 1 .. Len(caps) /\ tally \in Nat
  /\ wpc \in {"idle", "load", "rehash", "key", "method", "tally"}
  /\ wmethod \in Nat /\ wi \in Nat
  /\ inserts \in Nat /\ bound \in [Selectors -> Nat]

ReaderTyping ==
  /\ rpc \in [Readers -> {"idle", "probe", "method", "done"}]
  /\ rsel \in [Readers -> Selectors \cup {0}]
  /\ rarray \in [Readers -> Nat] /\ ri \in [Readers -> Nat] /\ result \in [Readers -> Nat]
  /\ seen \in [Readers -> SUBSET Nat]

ArraysOK == \A k \in 1 .. Len(caps) : TableOK(selAt[k], methodAt[k], caps[k])

\* The dictionary's array has what was installed.
BoundOK == \A s \in Selectors : Gives(selAt[array], methodAt[array], caps[array], s, {bound[s]})

\* The insertion under way: its selector is in no slot until it is stored.
WriterOK ==
  /\ wpc \in {"load", "rehash", "key", "method"} => wsel \in Selectors
  /\ wpc \in {"load", "rehash", "key"} => \A p \in Slots(array) : selAt[array][p] # wsel
  /\ wpc = "method" => wi \in Slots(array) /\ selAt[array][wi] = wsel

\* f and m have the entries below n of f0 and m0, and no others.
Copied(f, m, cap, f0, m0, n) ==
  /\ \A p \in 0 .. (cap - 1) : f[p] # 0 => \E q \in 0 .. (n - 1) : f0[q] = f[p] /\ m0[q] = m[p]
  /\ \A q \in 0 .. (n - 1) : f0[q] # 0 => \E p \in 0 .. (cap - 1) : f[p] = f0[q]
  /\ Cardinality(Taken(f, cap)) = Cardinality(Taken(f0, n))

\* The array being filled has the entries moved so far.
RehashOK ==
  wpc = "rehash" =>
    /\ array < Len(caps) /\ caps[Len(caps)] = 2 * caps[array] /\ wi <= caps[array]
    /\ Copied(selAt[Len(caps)], methodAt[Len(caps)], caps[Len(caps)], selAt[array], methodAt[array], wi)

\* The tally counts the entries, less the one being installed, and leaves room.
TallyOK ==
  /\ Cardinality(Taken(selAt[array], caps[array])) = IF wpc \in {"method", "tally"} THEN tally + 1 ELSE tally
  /\ tally < caps[array]
  /\ wpc \in {"key", "method", "tally"} => tally + 1 < caps[array]

\* A lookup's array has what was bound during the lookup and is not the one
\* being filled; the slots it has passed are taken by other selectors.
ReaderOK(r) ==
  /\ rpc[r] # "idle" => rsel[r] \in Selectors
  /\ rpc[r] \in {"probe", "method"} =>
       /\ rarray[r] \in 1 .. Len(caps) /\ (wpc = "rehash" => rarray[r] # Len(caps))
       /\ Gives(selAt[rarray[r]], methodAt[rarray[r]], caps[rarray[r]], rsel[r], seen[r])
  /\ rpc[r] = "probe" =>
       ri[r] <= caps[rarray[r]] /\ Passed(selAt[rarray[r]], caps[rarray[r]], rsel[r], ri[r])
  /\ rpc[r] = "method" => ri[r] \in Slots(rarray[r]) /\ selAt[rarray[r]][ri[r]] = rsel[r]
  /\ rpc[r] = "done" => result[r] \in seen[r]

ReadersOK == \A r \in Readers : ReaderOK(r)

IInv ==
  /\ ArrayTyping /\ WriterTyping /\ ReaderTyping
  /\ ArraysOK /\ BoundOK /\ WriterOK /\ RehashOK /\ TallyOK /\ ReadersOK

----------------------------------------------------------------------------
(* Searches.                                                               *)

\* A set of naturals that is not empty has a least element.
LEMMA Least ==
  ASSUME NEW T, T \subseteq Nat, T # {}
  PROVE  \E x \in T : \A y \in T : x <= y
<1>1. PICK R : R = OpToRel(<, Nat)
  BY Zenon
<1>2. IsWellFoundedOn(R, Nat)
  BY <1>1, NatLessThanWellFounded, Zenon
<1>3. PICK x \in T : \A y \in T : <<y, x>> \notin R
  BY <1>2, WFMin, Zenon
<1>4. \A y \in Nat : y < x => <<y, x>> \in R
  BY <1>1 DEF OpToRel
<1>5. \A y \in T : ~(y < x)
  BY <1>3, <1>4, Zenon
<1>6. \A y \in T : y \in Nat /\ x \in Nat
  BY Zenon
<1>7. \A y \in T : x <= y
  <2> SUFFICES ASSUME NEW y \in T PROVE x <= y
    BY Zenon
  <2>1. ~(y < x)
    BY <1>5, Zenon
  <2>2. y \in Nat /\ x \in Nat
    BY <1>6, Zenon
  <2> QED
    BY ONLY <2>1, <2>2
<1> QED
  BY <1>3, <1>7, Zenon

\* The remainder when the search has not gone round the end of the array, and
LEMMA ModBelow ==
  ASSUME NEW a \in Nat, NEW n \in Nat \ {0}, NEW i \in 0 .. (n - 1), (a % n) + i < n
  PROVE  (a + i) % n = (a % n) + i
OBVIOUS

\* when it has.
LEMMA ModRound ==
  ASSUME NEW a \in Nat, NEW n \in Nat \ {0}, NEW i \in 0 .. (n - 1), (a % n) + i >= n
  PROVE  (a + i) % n = (a % n) + i - n
<1>1. PICK q \in Int : q = a \div n
  OBVIOUS
<1>2. a = (n * q) + (a % n)
  BY <1>1
<1>3. a % n \in 0 .. (n - 1)
  OBVIOUS
<1>4. PICK r \in 0 .. (n - 1) : r = (a % n) + i - n
  BY <1>3
<1>5. n * (q + 1) = (n * q) + n
  OBVIOUS
<1>6. a + i = (n * (q + 1)) + r
  BY <1>2, <1>3, <1>4, <1>5
<1>7. ((n * (q + 1)) + r) % n = r
  OBVIOUS
<1> QED
  BY <1>4, <1>6, <1>7

\* The slots of a search are slots of the array.
LEMMA AtRange ==
  ASSUME Constants, NEW cap \in Nat \ {0}, NEW s \in Selectors, NEW i \in Nat
  PROVE  At(cap, s, i) \in 0 .. (cap - 1)
<1>1. PICK h \in Nat : h = Hash[s]
  BY DEF Constants
<1>2. (h + i) % cap \in 0 .. (cap - 1)
  OBVIOUS
<1> QED
  BY <1>1, <1>2 DEF At

\* A search that goes on looks at every slot.
LEMMA AtCovers ==
  ASSUME Constants, NEW cap \in Nat \ {0}, NEW s \in Selectors, NEW e \in 0 .. (cap - 1)
  PROVE  \E i \in 0 .. (cap - 1) : At(cap, s, i) = e
<1>1. PICK h \in Nat : h = Hash[s]
  BY DEF Constants
<1>2. PICK b \in 0 .. (cap - 1) : b = h % cap
  OBVIOUS
<1>0. b \in 0 .. (cap - 1)
  BY <1>2
<1>3. CASE b <= e
  <2>1. PICK i \in 0 .. (cap - 1) : i = e - b
    BY <1>0, <1>3
  <2>2. (h % cap) + i = e
    BY <1>2, <2>1
  <2>3. (h % cap) + i < cap
    BY <2>2
  <2>4. (h + i) % cap = (h % cap) + i
    BY <2>3, ModBelow, Zenon
  <2> QED
    BY <1>1, <2>2, <2>4 DEF At
<1>4. CASE e < b
  <2>1. PICK i \in 0 .. (cap - 1) : i = e + cap - b
    BY <1>0, <1>4
  <2>2. (h % cap) + i = e + cap
    BY <1>2, <2>1
  <2>3. (h % cap) + i >= cap
    BY <2>2
  <2>4. (h + i) % cap = (h % cap) + i - cap
    BY <2>3, ModRound, Zenon
  <2>5. (h + i) % cap = e
    BY <2>2, <2>4
  <2> QED
    BY <1>1, <2>5 DEF At
<1> QED
  BY <1>2, <1>3, <1>4

\* A search of an array that is not full comes to a slot.
LEMMA Room ==
  ASSUME Constants, NEW cap \in Nat \ {0}, NEW s \in Selectors,
         NEW f \in [0 .. (cap - 1) -> Selectors \cup {0}], Cardinality(Taken(f, cap)) < cap
  PROVE  \E p \in 0 .. (cap - 1) : Reaches(f, cap, s, p)
<1>1. \E e \in 0 .. (cap - 1) : f[e] = 0
  <2> SUFFICES ASSUME \A e \in 0 .. (cap - 1) : f[e] # 0 PROVE FALSE
    BY Zenon
  <2>1. Taken(f, cap) = 0 .. (cap - 1)
    BY DEF Taken
  <2>2. Cardinality(0 .. (cap - 1)) = cap
    BY FS_Interval
  <2>3. Cardinality(Taken(f, cap)) = cap
    BY <2>1, <2>2, Zenon
  <2> QED
    BY <2>3
<1>2. PICK e \in 0 .. (cap - 1) : f[e] = 0
  BY <1>1, Zenon
<1>3. PICK d \in 0 .. (cap - 1) : At(cap, s, d) = e
  BY AtCovers, Zenon
<1>4. PICK T : T = {i \in 0 .. (cap - 1) : f[At(cap, s, i)] \in {0, s}}
  BY Zenon
<1>5. T \subseteq Nat
  BY <1>4
<1>6. d \in T
  BY <1>2, <1>3, <1>4, Zenon
<1>7. PICK i \in T : \A j \in T : i <= j
  BY <1>5, <1>6, Least, Zenon
<1>8. i \in 0 .. (cap - 1) /\ f[At(cap, s, i)] \in {0, s}
  BY <1>4, <1>7, Zenon
<1>9. Passed(f, cap, s, i)
  <2> SUFFICES ASSUME NEW j \in 0 .. (i - 1), f[At(cap, s, j)] \in {0, s} PROVE FALSE
    BY Zenon DEF Passed
  <2>1. j \in 0 .. (cap - 1) /\ ~(i <= j)
    BY <1>8
  <2>2. j \in T
    BY <1>4, <2>1, Zenon
  <2> QED
    BY <1>7, <2>1, <2>2, Zenon
<1>10. PICK p : p = At(cap, s, i)
  BY Zenon
<1>11. p \in 0 .. (cap - 1)
  BY <1>8, <1>10, AtRange
<1>12. Reaches(f, cap, s, p)
  BY <1>8, <1>9, <1>10, Zenon DEF Reaches
<1> QED
  BY <1>11, <1>12, Zenon

\* A selector is in one slot only.
LEMMA OneSlot ==
  ASSUME NEW cap \in Nat \ {0}, NEW f, NEW s, NEW p, NEW q, s # 0, f[p] = s, f[q] = s,
         Reaches(f, cap, s, p), Reaches(f, cap, s, q)
  PROVE  p = q
<1>1. PICK i \in 0 .. (cap - 1) : p = At(cap, s, i) /\ Passed(f, cap, s, i)
  BY Zenon DEF Reaches
<1>2. PICK j \in 0 .. (cap - 1) : q = At(cap, s, j) /\ Passed(f, cap, s, j)
  BY Zenon DEF Reaches
<1>3. CASE i = j
  BY <1>1, <1>2, <1>3, Zenon
<1>4. CASE i < j
  <2>1. i \in 0 .. (j - 1)
    BY <1>4
  <2>2. f[p] \notin {0, s}
    BY <1>1, <1>2, <2>1, Zenon DEF Passed
  <2> QED
    BY <2>2, Zenon
<1>5. CASE j < i
  <2>1. j \in 0 .. (i - 1)
    BY <1>5
  <2>2. f[q] \notin {0, s}
    BY <1>1, <1>2, <2>1, Zenon DEF Passed
  <2> QED
    BY <2>2, Zenon
<1>6. i = j \/ i < j \/ j < i
  OBVIOUS
<1> QED
  BY <1>3, <1>4, <1>5, <1>6, Zenon

\* A search that ends without the selector shows that it is in no slot.
LEMMA Absent ==
  ASSUME NEW cap \in Nat \ {0}, NEW f, NEW m, TableOK(f, m, cap), NEW s, s # 0,
         NEW i \in 0 .. cap, Passed(f, cap, s, i), i = cap \/ f[At(cap, s, i)] = 0
  PROVE  \A p \in 0 .. (cap - 1) : f[p] # s
<1> SUFFICES ASSUME NEW p \in 0 .. (cap - 1), f[p] = s PROVE FALSE
  BY Zenon
<1>1. Reaches(f, cap, s, p)
  BY Zenon DEF TableOK
<1>2. PICK j \in 0 .. (cap - 1) : p = At(cap, s, j) /\ Passed(f, cap, s, j)
  BY <1>1, Zenon DEF Reaches
<1>3. ~(j < i)
  <2> SUFFICES ASSUME j < i PROVE FALSE
    BY Zenon
  <2>1. j \in 0 .. (i - 1)
    OBVIOUS
  <2> QED
    BY <1>2, <2>1, Zenon DEF Passed
<1>4. i # cap
  BY <1>3
<1>5. f[At(cap, s, i)] = 0
  BY <1>4, Zenon
<1>6. i # j
  BY <1>2, <1>5, Zenon
<1>7. i \in 0 .. (j - 1)
  BY <1>3, <1>6
<1> QED
  BY <1>2, <1>5, <1>7, Zenon DEF Passed

----------------------------------------------------------------------------
(* The stores.                                                             *)

\* Storing a selector in an empty slot keeps every search that came to its
\* selector and every slot that a search has passed.
LEMMA Fill ==
  ASSUME Constants, NEW cap \in Nat \ {0}, NEW f, NEW s \in Selectors, NEW p \in 0 .. (cap - 1), f[p] = 0,
         NEW g, Stored(f, g, cap, p, s)
  PROVE  /\ \A t \in Selectors, i \in 0 .. cap : Passed(f, cap, t, i) => Passed(g, cap, t, i)
         /\ \A t \in Selectors, q \in 0 .. (cap - 1) :
              Reaches(f, cap, t, q) /\ f[q] = t => Reaches(g, cap, t, q)
         /\ Reaches(f, cap, s, p) => Reaches(g, cap, s, p)
<1>0. 0 \notin Selectors
  BY Zenon DEF Constants
<1>2. g[p] = s /\ \A q \in 0 .. (cap - 1) : q # p => g[q] = f[q]
  BY Zenon DEF Stored
<1>3. \A t \in Selectors, i \in 0 .. cap : Passed(f, cap, t, i) => Passed(g, cap, t, i)
  <2> SUFFICES ASSUME NEW t \in Selectors, NEW i \in 0 .. cap, Passed(f, cap, t, i),
                      NEW j \in 0 .. (i - 1)
               PROVE  g[At(cap, t, j)] \notin {0, t}
    BY Zenon DEF Passed
  <2>1. f[At(cap, t, j)] \notin {0, t}
    BY Zenon DEF Passed
  <2>2. j \in Nat
    OBVIOUS
  <2>3. At(cap, t, j) \in 0 .. (cap - 1)
    BY <2>2, AtRange, Zenon
  <2>4. At(cap, t, j) # p
    BY <2>1, Zenon
  <2> QED
    BY <1>2, <2>1, <2>3, <2>4, Zenon
<1>4. ASSUME NEW t \in Selectors, NEW q \in 0 .. (cap - 1), Reaches(f, cap, t, q), g[q] = t
      PROVE  Reaches(g, cap, t, q)
  <2>1. PICK i \in 0 .. (cap - 1) : q = At(cap, t, i) /\ Passed(f, cap, t, i)
    BY <1>4, Zenon DEF Reaches
  <2>2. i \in 0 .. cap
    OBVIOUS
  <2>3. Passed(g, cap, t, i)
    BY <1>3, <2>1, <2>2, Zenon
  <2> QED
    BY <1>4, <2>1, <2>3, Zenon DEF Reaches
<1>5. \A t \in Selectors, q \in 0 .. (cap - 1) :
        Reaches(f, cap, t, q) /\ f[q] = t => Reaches(g, cap, t, q)
  <2> SUFFICES ASSUME NEW t \in Selectors, NEW q \in 0 .. (cap - 1), Reaches(f, cap, t, q), f[q] = t
               PROVE  Reaches(g, cap, t, q)
    BY Zenon
  <2>1. g[q] = t
    BY <1>0, <1>2, Zenon
  <2> QED
    BY <1>4, <2>1, Zenon
<1>6. Reaches(f, cap, s, p) => Reaches(g, cap, s, p)
  BY <1>2, <1>4, Zenon
<1> QED
  BY <1>3, <1>5, <1>6, Zenon

\* The taken slots below n are finitely many.
LEMMA TakenFinite ==
  ASSUME NEW f, NEW n \in Nat
  PROVE  IsFiniteSet(Taken(f, n))
<1>1. IsFiniteSet(0 .. (n - 1)) /\ Taken(f, n) \subseteq 0 .. (n - 1)
  BY FS_Interval DEF Taken
<1> QED
  BY <1>1, FS_Subset, Zenon

\* Storing a selector in an empty slot takes one slot more.
LEMMA FillCounts ==
  ASSUME NEW cap \in Nat \ {0}, NEW f, NEW s, s # 0, NEW p \in 0 .. (cap - 1), f[p] = 0,
         NEW g, Stored(f, g, cap, p, s)
  PROVE  Cardinality(Taken(g, cap)) = Cardinality(Taken(f, cap)) + 1
<1>1. Taken(g, cap) = Taken(f, cap) \cup {p} /\ p \notin Taken(f, cap)
  BY DEF Taken, Stored
<1>2. IsFiniteSet(Taken(f, cap))
  BY TakenFinite
<1> QED
  BY <1>1, <1>2, FS_AddElement

\* Storing a method changes what the array has for its selector only.
LEMMA StoreMethod ==
  ASSUME Constants, NEW cap \in Nat \ {0}, NEW f, NEW m, TableOK(f, m, cap), NEW s \in Selectors,
         NEW p \in 0 .. (cap - 1), f[p] = s, NEW x \in Nat,
         NEW m2 \in [0 .. (cap - 1) -> Nat], Stored(m, m2, cap, p, x)
  PROVE  /\ TableOK(f, m2, cap)
         /\ \A t, M : t # s /\ Gives(f, m, cap, t, M) => Gives(f, m2, cap, t, M)
         /\ \A M : Gives(f, m, cap, s, M) => Gives(f, m2, cap, s, M \cup {x})
         /\ \A M : Gives(f, m, cap, s, M) /\ (\A q \in 0 .. (cap - 1) : f[q] = s => q = p)
              => Gives(f, m2, cap, s, {x})
<1>0. 0 \notin Selectors
  BY Zenon DEF Constants
<1>3. m2[p] = x /\ \A q \in 0 .. (cap - 1) : q # p => m2[q] = m[q]
  BY Zenon DEF Stored
<1>4. \A q \in 0 .. (cap - 1) : f[q] # s => m2[q] = m[q]
  BY <1>3, Zenon
<1>5. f \in [0 .. (cap - 1) -> Selectors \cup {0}]
  BY Zenon DEF TableOK
<1>6. \A q \in 0 .. (cap - 1) : (f[q] # 0 => Reaches(f, cap, f[q], q)) /\ (f[q] = 0 => m[q] = 0)
  BY Zenon DEF TableOK
<1>7. \A q \in 0 .. (cap - 1) : f[q] = 0 => m2[q] = 0
  BY <1>0, <1>4, <1>6, Zenon
<1>8. TableOK(f, m2, cap)
  BY <1>5, <1>6, <1>7, Zenon DEF TableOK
<1>9. \A t, M : t # s /\ Gives(f, m, cap, t, M) => Gives(f, m2, cap, t, M)
  BY <1>4, Zenon DEF Gives
<1>10. \A M : Gives(f, m, cap, s, M) => Gives(f, m2, cap, s, M \cup {x})
  BY <1>3, Zenon DEF Gives
<1>11. \A M : Gives(f, m, cap, s, M) /\ (\A q \in 0 .. (cap - 1) : f[q] = s => q = p)
         => Gives(f, m2, cap, s, {x})
  BY <1>3, Zenon DEF Gives
<1> QED
  BY <1>8, <1>9, <1>10, <1>11, Zenon

\* Storing a new selector changes nothing that the array gives: the slot has no
\* method yet.
LEMMA StoreKey ==
  ASSUME Constants, NEW cap \in Nat \ {0}, NEW f, NEW m, TableOK(f, m, cap), NEW s \in Selectors,
         NEW p \in 0 .. (cap - 1), f[p] = 0, Reaches(f, cap, s, p),
         \A q \in 0 .. (cap - 1) : f[q] # s,
         NEW g \in [0 .. (cap - 1) -> Selectors \cup {0}], Stored(f, g, cap, p, s)
  PROVE  /\ TableOK(g, m, cap)
         /\ \A M : \A t \in Selectors : Gives(f, m, cap, t, M) => Gives(g, m, cap, t, M)
         /\ \A t \in Selectors, i \in 0 .. cap : Passed(f, cap, t, i) => Passed(g, cap, t, i)
<1>0. 0 \notin Selectors
  BY Zenon DEF Constants
<1>1. f \in [0 .. (cap - 1) -> Selectors \cup {0}] /\ m \in [0 .. (cap - 1) -> Nat]
  BY Zenon DEF TableOK
<1>2. g[p] = s /\ \A q \in 0 .. (cap - 1) : q # p => g[q] = f[q]
  BY Zenon DEF Stored
<1>3. /\ \A t \in Selectors, i \in 0 .. cap : Passed(f, cap, t, i) => Passed(g, cap, t, i)
      /\ \A t \in Selectors, q \in 0 .. (cap - 1) :
           Reaches(f, cap, t, q) /\ f[q] = t => Reaches(g, cap, t, q)
      /\ Reaches(f, cap, s, p) => Reaches(g, cap, s, p)
  BY Fill, Zenon
<1>4. Reaches(g, cap, s, p)
  BY <1>3, Zenon
<1>5. \A t \in Selectors, i \in 0 .. cap : Passed(f, cap, t, i) => Passed(g, cap, t, i)
  BY <1>3, Zenon
<1>6. \A q \in 0 .. (cap - 1) : (g[q] # 0 => Reaches(g, cap, g[q], q)) /\ (g[q] = 0 => m[q] = 0)
  <2> SUFFICES ASSUME NEW q \in 0 .. (cap - 1)
               PROVE  (g[q] # 0 => Reaches(g, cap, g[q], q)) /\ (g[q] = 0 => m[q] = 0)
    BY Zenon
  <2>1. CASE q = p
    BY <1>0, <1>2, <1>4, <2>1, Zenon
  <2>2. CASE q # p
    <3>1. g[q] = f[q]
      BY <1>2, <2>2, Zenon
    <3>2. f[q] # 0 => f[q] \in Selectors
      BY <1>1
    <3>3. (f[q] # 0 => Reaches(f, cap, f[q], q)) /\ (f[q] = 0 => m[q] = 0)
      BY Zenon DEF TableOK
    <3> QED
      BY <1>3, <3>1, <3>2, <3>3, Zenon
  <2> QED
    BY <2>1, <2>2, Zenon
<1>7. TableOK(g, m, cap)
  BY <1>1, <1>2, <1>6, Zenon DEF TableOK
<1>8. \A M : \A t \in Selectors : Gives(f, m, cap, t, M) => Gives(g, m, cap, t, M)
  <2> SUFFICES ASSUME NEW t \in Selectors, NEW M, Gives(f, m, cap, t, M)
               PROVE  Gives(g, m, cap, t, M)
    BY Zenon
  <2>1. CASE t = s
    <3>1. 0 \in M /\ m[p] = 0
      BY <2>1, Zenon DEF Gives, TableOK
    <3>2. \A q \in 0 .. (cap - 1) : g[q] = s => q = p
      BY <1>2, Zenon
    <3> QED
      BY <1>2, <2>1, <3>1, <3>2, Zenon DEF Gives
  <2>2. CASE t # s
    <3>1. \A q \in 0 .. (cap - 1) : g[q] = t <=> f[q] = t
      BY <1>0, <1>2, <2>2, Zenon
    <3> QED
      BY <3>1, Zenon DEF Gives
  <2> QED
    BY <2>1, <2>2, Zenon
<1> QED
  BY <1>5, <1>7, <1>8, Zenon

----------------------------------------------------------------------------
(* The growth.                                                             *)

\* An entry that has not been moved is not in the new array.
LEMMA NotMovedYet ==
  ASSUME NEW cap, NEW f, NEW m, NEW cap0 \in Nat \ {0}, NEW f0, NEW m0, TableOK(f0, m0, cap0),
         NEW n \in 0 .. (cap0 - 1), f0[n] # 0, Copied(f, m, cap, f0, m0, n)
  PROVE  \A p \in 0 .. (cap - 1) : f[p] # f0[n]
<1> SUFFICES ASSUME NEW p \in 0 .. (cap - 1), f[p] = f0[n] PROVE FALSE
  BY Zenon
<1>1. PICK q \in 0 .. (n - 1) : f0[q] = f0[n]
  BY Zenon DEF Copied
<1>2. q \in 0 .. (cap0 - 1) /\ q # n
  OBVIOUS
<1>3. Reaches(f0, cap0, f0[n], q) /\ Reaches(f0, cap0, f0[n], n)
  BY <1>1, <1>2, Zenon DEF TableOK
<1>4. PICK s : s = f0[n]
  BY Zenon
<1>5. q = n
  BY <1>1, <1>3, <1>4, OneSlot, Zenon
<1> QED
  BY <1>2, <1>5, Zenon

\* The next slot of the old array is empty,
LEMMA CopyNothing ==
  ASSUME NEW cap, NEW f, NEW m, NEW f0, NEW m0, NEW n \in Nat, NEW k, k = n + 1, f0[n] = 0, Copied(f, m, cap, f0, m0, n)
  PROVE  Copied(f, m, cap, f0, m0, k)
<1>1. 0 .. (k - 1) = (0 .. (n - 1)) \cup {n}
  OBVIOUS
<1>2. Taken(f0, k) = Taken(f0, n)
  <2>1. \A p : p \in Taken(f0, k) <=> p \in 0 .. (k - 1) /\ f0[p] # 0
    BY Zenon DEF Taken
  <2>2. \A p : p \in Taken(f0, n) <=> p \in 0 .. (n - 1) /\ f0[p] # 0
    BY Zenon DEF Taken
  <2>3. \A p : p \in 0 .. (k - 1) <=> p \in 0 .. (n - 1) \/ p = n
    BY <1>1, Zenon
  <2>4. \A p : p \in Taken(f0, k) <=> p \in Taken(f0, n)
    BY <2>1, <2>2, <2>3, Zenon
  <2> QED
    BY <2>4, Zenon
<1>3. \A p \in 0 .. (cap - 1) : f[p] # 0 => \E q \in 0 .. (k - 1) : f0[q] = f[p] /\ m0[q] = m[p]
  <2> SUFFICES ASSUME NEW p \in 0 .. (cap - 1), f[p] # 0
               PROVE  \E q \in 0 .. (k - 1) : f0[q] = f[p] /\ m0[q] = m[p]
    BY Zenon
  <2>1. PICK q \in 0 .. (n - 1) : f0[q] = f[p] /\ m0[q] = m[p]
    BY Zenon DEF Copied
  <2> QED
    BY <1>1, <2>1, Zenon
<1>4. \A q \in 0 .. (k - 1) : f0[q] # 0 => \E p \in 0 .. (cap - 1) : f[p] = f0[q]
  <2> SUFFICES ASSUME NEW q \in 0 .. (k - 1), f0[q] # 0 PROVE \E p \in 0 .. (cap - 1) : f[p] = f0[q]
    BY Zenon
  <2>1. q \in 0 .. (n - 1)
    BY <1>1, Zenon
  <2> QED
    BY <2>1, Zenon DEF Copied
<1>5. Cardinality(Taken(f, cap)) = Cardinality(Taken(f0, k))
  BY <1>2, Zenon DEF Copied
<1> QED
  BY <1>3, <1>4, <1>5, Zenon DEF Copied

\* or has an entry, which raw_insert moves.
LEMMA CopyEntry ==
  ASSUME NEW cap \in Nat \ {0}, NEW f, NEW m, NEW f0, NEW m0, NEW n \in Nat, NEW k, k = n + 1, f0[n] # 0,
         Copied(f, m, cap, f0, m0, n), NEW p \in 0 .. (cap - 1), f[p] = 0,
         NEW g, Stored(f, g, cap, p, f0[n]), NEW m2, Stored(m, m2, cap, p, m0[n])
  PROVE  Copied(g, m2, cap, f0, m0, k)
<1>1. 0 .. (k - 1) = (0 .. (n - 1)) \cup {n} /\ n \notin 0 .. (n - 1)
  OBVIOUS
<1>2. g[p] = f0[n] /\ m2[p] = m0[n]
  BY Zenon DEF Stored
<1>3. \A q \in 0 .. (cap - 1) : q # p => g[q] = f[q] /\ m2[q] = m[q]
  BY Zenon DEF Stored
<1>4. \A q \in 0 .. (cap - 1) : g[q] # 0 =>
        \E i \in 0 .. (k - 1) : f0[i] = g[q] /\ m0[i] = m2[q]
  <2> SUFFICES ASSUME NEW q \in 0 .. (cap - 1), g[q] # 0
               PROVE  \E i \in 0 .. (k - 1) : f0[i] = g[q] /\ m0[i] = m2[q]
    BY Zenon
  <2>1. CASE q = p
    BY <1>1, <1>2, <2>1, Zenon
  <2>2. CASE q # p
    <3>1. PICK i \in 0 .. (n - 1) : f0[i] = f[q] /\ m0[i] = m[q]
      BY <1>3, <2>2, Zenon DEF Copied
    <3> QED
      BY <1>1, <1>3, <2>2, <3>1, Zenon
  <2> QED
    BY <2>1, <2>2, Zenon
<1>5. \A i \in 0 .. (k - 1) : f0[i] # 0 => \E q \in 0 .. (cap - 1) : g[q] = f0[i]
  <2> SUFFICES ASSUME NEW i \in 0 .. (k - 1), f0[i] # 0 PROVE \E q \in 0 .. (cap - 1) : g[q] = f0[i]
    BY Zenon
  <2>1. CASE i = n
    BY <1>2, <2>1, Zenon
  <2>2. CASE i # n
    <3>1. i \in 0 .. (n - 1)
      BY <1>1, <2>2, Zenon
    <3>2. PICK q \in 0 .. (cap - 1) : f[q] = f0[i]
      BY <3>1, Zenon DEF Copied
    <3>3. q # p
      BY <3>2, Zenon
    <3> QED
      BY <1>3, <3>2, <3>3, Zenon
  <2> QED
    BY <2>1, <2>2, Zenon
<1>6. Cardinality(Taken(g, cap)) = Cardinality(Taken(f, cap)) + 1
  BY FillCounts
<1>7. Cardinality(Taken(f0, k)) = Cardinality(Taken(f0, n)) + 1
  <2>1. Taken(f0, k) = Taken(f0, n) \cup {n} /\ n \notin Taken(f0, n)
    BY <1>1, Zenon DEF Taken
  <2>2. IsFiniteSet(Taken(f0, n))
    BY TakenFinite, Zenon
  <2> QED
    BY <2>1, <2>2, FS_AddElement
<1>8. Cardinality(Taken(g, cap)) = Cardinality(Taken(f0, k))
  BY <1>6, <1>7, Zenon DEF Copied
<1> QED
  BY <1>4, <1>5, <1>8, Zenon DEF Copied

----------------------------------------------------------------------------
(* The arrays in the state.                                                *)

\* u is t with x stored in slot p of array k.
StoredIn(t, u, k, p, x) == u = [t EXCEPT ![k][p] = x]

\* Array k of t has cap slots with members of S.
HasArray(t, S, k, cap) == t \in Seq(Table(S)) /\ k \in 1 .. Len(t) /\ t[k] \in [0 .. (cap - 1) -> S]

\* The other arrays of t are those of u.
SameBut(t, u, k) == Len(u) = Len(t) /\ \A l \in 1 .. Len(t) : l # k => u[l] = t[l]

\* Storing into one array of the sequence,
LEMMA Put ==
  ASSUME NEW S, NEW t, NEW k, NEW cap \in Nat, HasArray(t, S, k, cap),
         NEW p \in 0 .. (cap - 1), NEW x \in S, NEW u, StoredIn(t, u, k, p, x)
  PROVE  HasArray(u, S, k, cap) /\ SameBut(t, u, k) /\ Stored(t[k], u[k], cap, p, x)
<1>0. t \in Seq(Table(S)) /\ k \in 1 .. Len(t) /\ t[k] \in [0 .. (cap - 1) -> S]
  BY Zenon DEF HasArray
<1>1. PICK T : T = Table(S)
  BY Zenon
<1>2. PICK g : g = [t[k] EXCEPT ![p] = x]
  BY Zenon
<1>3. g \in [0 .. (cap - 1) -> S]
  BY <1>0, <1>2
<1>4. g \in T
  BY <1>1, <1>3, Zenon DEF Table
<1>5. u = [t EXCEPT ![k] = g]
  BY <1>2, Zenon DEF StoredIn
<1>6. t \in Seq(T) /\ k \in 1 .. Len(t)
  BY <1>0, <1>1, Zenon
<1>7. u \in Seq(T) /\ Len(u) = Len(t) /\ u[k] = g /\ \A l \in 1 .. Len(t) : l # k => u[l] = t[l]
  BY ONLY <1>4, <1>5, <1>6
<1>8. Stored(t[k], g, cap, p, x)
  BY <1>0, <1>2 DEF Stored
<1>9. HasArray(u, S, k, cap)
  BY <1>0, <1>1, <1>3, <1>7, Zenon DEF HasArray
<1> QED
  BY <1>7, <1>8, <1>9, Zenon DEF SameBut

\* and an array more.
LEMMA Add ==
  ASSUME NEW S, NEW t \in Seq(Table(S)), NEW cap \in Nat, NEW g \in [0 .. (cap - 1) -> S],
         NEW u, u = Append(t, g)
  PROVE  /\ u \in Seq(Table(S)) /\ Len(u) = Len(t) + 1
         /\ u[Len(t) + 1] = g /\ \A l \in 1 .. Len(t) : u[l] = t[l]
<1>1. PICK T : T = Table(S)
  BY Zenon
<1>2. g \in T /\ t \in Seq(T)
  BY <1>1, Zenon DEF Table
<1>3. u \in Seq(T) /\ Len(u) = Len(t) + 1 /\ u[Len(t) + 1] = g /\ \A l \in 1 .. Len(t) : u[l] = t[l]
  BY <1>2
<1> QED
  BY <1>1, <1>3, Zenon

\* An array has a capacity and its entries.
LEMMA Shape ==
  ASSUME ArrayTyping, ArraysOK, NEW k \in 1 .. Len(caps)
  PROVE  /\ caps[k] \in Nat \ {0}
         /\ TableOK(selAt[k], methodAt[k], caps[k])
         /\ selAt[k] \in [0 .. (caps[k] - 1) -> Selectors \cup {0}] /\ methodAt[k] \in [0 .. (caps[k] - 1) -> Nat]
<1>1. caps[k] \in Nat \ {0}
  BY DEF ArrayTyping
<1>2. TableOK(selAt[k], methodAt[k], caps[k])
  BY Zenon DEF ArraysOK
<1> QED
  BY <1>1, <1>2, Zenon DEF TableOK

\* Ends is Reaches of the array in the state.
LEMMA EndsReaches ==
  ASSUME NEW k, NEW s, NEW p
  PROVE  Ends(k, s, p) <=> Reaches(selAt[k], caps[k], s, p)
BY Zenon DEF Ends, Reaches, Slots, Pos, At, Passed

\* More answers are allowed.
LEMMA GivesMore ==
  ASSUME NEW f, NEW m, NEW cap, NEW s, NEW M, NEW N, M \subseteq N, Gives(f, m, cap, s, M)
  PROVE  Gives(f, m, cap, s, N)
BY Zenon DEF Gives

\* A method is stored, in InsertFind or InsertMethod.
LEMMA MethodStored ==
  ASSUME Constants, IInv, NEW p \in Slots(array), NEW s \in Selectors, selAt[array][p] = s,
         NEW x \in Nat, methodAt' = [methodAt EXCEPT ![array][p] = x], Installed(s, x),
         UNCHANGED <<caps, selAt, array, readerVars>>, wpc' # "rehash"
  PROVE  /\ ArrayTyping' /\ ArraysOK' /\ BoundOK' /\ ReaderTyping' /\ ReadersOK'
         /\ bound' \in [Selectors -> Nat]
<1>1. PICK f, m, cap, m2, k :
        f = selAt[array] /\ m = methodAt[array] /\ cap = caps[array] /\ m2 = methodAt'[array] /\ k = array
  BY Zenon
<1>2. ArrayTyping /\ ArraysOK /\ BoundOK /\ WriterTyping /\ ReaderTyping /\ ReadersOK
  BY Zenon DEF IInv
<1>3. k \in 1 .. Len(caps)
  BY <1>1, <1>2, Zenon DEF WriterTyping
<1>4. /\ cap \in Nat \ {0} /\ TableOK(f, m, cap)
      /\ f \in [0 .. (cap - 1) -> Selectors \cup {0}] /\ m \in [0 .. (cap - 1) -> Nat]
  BY <1>1, <1>2, <1>3, Shape, Zenon
<1>5. p \in 0 .. (cap - 1) /\ f[p] = s
  BY <1>1, Zenon DEF Slots
<1>6. caps' = caps /\ selAt' = selAt /\ array' = array
  BY Zenon
<1>7. rpc' = rpc /\ rsel' = rsel /\ rarray' = rarray /\ ri' = ri /\ result' = result
  BY Zenon DEF readerVars
<1>8. /\ methodAt' \in Seq(Table(Nat)) /\ Len(methodAt') = Len(methodAt)
      /\ m2 \in [0 .. (cap - 1) -> Nat] /\ Stored(m, m2, cap, p, x)
      /\ \A l \in 1 .. Len(methodAt) : l # k => methodAt'[l] = methodAt[l]
  <2>1. HasArray(methodAt, Nat, k, cap) /\ cap \in Nat
    BY <1>1, <1>2, <1>3, <1>4, Zenon DEF HasArray, ArrayTyping
  <2>2. StoredIn(methodAt, methodAt', k, p, x)
    BY <1>1, Zenon DEF StoredIn
  <2>3. HasArray(methodAt', Nat, k, cap) /\ SameBut(methodAt, methodAt', k)
        /\ Stored(methodAt[k], methodAt'[k], cap, p, x)
    BY <1>5, <2>1, <2>2, Put, Zenon
  <2> QED
    BY <1>1, <2>3, Zenon DEF HasArray, SameBut
<1>9. /\ TableOK(f, m2, cap)
      /\ \A t, M : t # s /\ Gives(f, m, cap, t, M) => Gives(f, m2, cap, t, M)
      /\ \A M : Gives(f, m, cap, s, M) => Gives(f, m2, cap, s, M \cup {x})
      /\ \A M : Gives(f, m, cap, s, M) /\ (\A q \in 0 .. (cap - 1) : f[q] = s => q = p)
           => Gives(f, m2, cap, s, {x})
  BY <1>4, <1>5, <1>8, StoreMethod, Zenon
<1>10. \A l \in 1 .. Len(caps) : l # k => methodAt'[l] = methodAt[l]
  BY <1>2, <1>8, Zenon DEF ArrayTyping
<1>11. ArrayTyping'
  BY <1>2, <1>6, <1>8, Zenon DEF ArrayTyping
<1>12. ArraysOK'
  <2> SUFFICES ASSUME NEW l \in 1 .. Len(caps) PROVE TableOK(selAt[l], methodAt'[l], caps[l])
    BY <1>6, Zenon DEF ArraysOK
  <2>1. CASE l = k
    BY <1>1, <1>9, <2>1, Zenon
  <2>2. CASE l # k
    BY <1>2, <1>10, <2>2, Zenon DEF ArraysOK
  <2> QED
    BY <2>1, <2>2, Zenon
<1>13. bound' = [bound EXCEPT ![s] = x] /\ bound \in [Selectors -> Nat]
  BY <1>2, Zenon DEF Installed, WriterTyping
<1>14. bound' \in [Selectors -> Nat] /\ bound'[s] = x /\ \A t \in Selectors : t # s => bound'[t] = bound[t]
  BY <1>13
<1>15. \A q \in 0 .. (cap - 1) : f[q] = s => q = p
  <2> SUFFICES ASSUME NEW q \in 0 .. (cap - 1), f[q] = s PROVE q = p
    BY Zenon
  <2>1. s # 0
    BY Zenon DEF Constants
  <2>2. Reaches(f, cap, s, p) /\ Reaches(f, cap, s, q)
    BY <1>4, <1>5, <2>1, Zenon DEF TableOK
  <2> QED
    BY <1>4, <1>5, <2>1, <2>2, OneSlot, Zenon
<1>16. \A t \in Selectors : Gives(f, m, cap, t, {bound[t]})
  BY <1>1, <1>2, Zenon DEF BoundOK
<1>17. BoundOK'
  <2> SUFFICES ASSUME NEW t \in Selectors PROVE Gives(f, m2, cap, t, {bound'[t]})
    BY <1>1, <1>6, Zenon DEF BoundOK
  <2>1. CASE t = s
    BY <1>9, <1>14, <1>15, <1>16, <2>1, Zenon
  <2>2. CASE t # s
    <3>1. Gives(f, m2, cap, t, {bound[t]})
      BY <1>9, <1>16, <2>2, Zenon
    <3> QED
      BY <1>14, <2>2, <3>1, Zenon
  <2> QED
    BY <2>1, <2>2, Zenon
<1>18. /\ \A r \in Readers : seen[r] \subseteq seen'[r]
       /\ \A r \in Readers : rpc[r] # "idle" /\ rsel[r] = s => seen'[r] = seen[r] \cup {x}
       /\ seen' \in [Readers -> SUBSET Nat]
  <2>1. seen' = [r \in Readers |-> IF rpc[r] # "idle" /\ rsel[r] = s THEN seen[r] \cup {x} ELSE seen[r]]
    BY Zenon DEF Installed
  <2>2. seen \in [Readers -> SUBSET Nat]
    BY <1>2, Zenon DEF ReaderTyping
  <2> QED
    BY <2>1, <2>2
<1>19. ReaderTyping'
  BY <1>2, <1>7, <1>18, Zenon DEF ReaderTyping
<1>20. ReadersOK'
  <2> SUFFICES ASSUME NEW r \in Readers PROVE ReaderOK(r)'
    BY Zenon DEF ReadersOK
  <2>1. ReaderOK(r)
    BY <1>2, Zenon DEF ReadersOK
  <2>2. rpc[r] # "idle" => rsel[r] \in Selectors
    BY <2>1, Zenon DEF ReaderOK
  <2>3. ASSUME rpc[r] \in {"probe", "method"}
        PROVE  /\ rarray[r] \in 1 .. Len(caps)
               /\ Gives(selAt[rarray[r]], methodAt'[rarray[r]], caps[rarray[r]], rsel[r], seen'[r])
    <3>1. PICK l, t, M : l = rarray[r] /\ t = rsel[r] /\ M = seen[r]
      BY Zenon
    <3>2. l \in 1 .. Len(caps) /\ Gives(selAt[l], methodAt[l], caps[l], t, M)
      BY <2>1, <2>3, <3>1, Zenon DEF ReaderOK
    <3>3. M \subseteq seen'[r] /\ (t = s => seen'[r] = M \cup {x})
      <4>1. rpc[r] # "idle"
        BY <2>3
      <4> QED
        BY <1>18, <3>1, <4>1, Zenon
    <3>4. CASE l # k
      <4>1. Gives(selAt[l], methodAt'[l], caps[l], t, M)
        BY <1>10, <3>2, <3>4, Zenon
      <4>2. Gives(selAt[l], methodAt'[l], caps[l], t, seen'[r])
        BY <3>3, <4>1, GivesMore, Zenon
      <4> QED
        BY <3>1, <3>2, <4>2, Zenon
    <3>5. CASE l = k
      <4>1. Gives(f, m, cap, t, M)
        BY <1>1, <3>2, <3>5, Zenon
      <4>2. CASE t = s
        <5>1. Gives(f, m2, cap, t, seen'[r])
          BY <1>9, <3>3, <4>1, <4>2, Zenon
        <5> QED
          BY <1>1, <3>1, <3>2, <3>5, <5>1, Zenon
      <4>3. CASE t # s
        <5>1. Gives(f, m2, cap, t, M)
          BY <1>9, <4>1, <4>3, Zenon
        <5>2. Gives(f, m2, cap, t, seen'[r])
          BY <3>3, <5>1, GivesMore, Zenon
        <5> QED
          BY <1>1, <3>1, <3>2, <3>5, <5>2, Zenon
      <4> QED
        BY <4>2, <4>3, Zenon
    <3> QED
      BY <3>4, <3>5, Zenon
  <2>4. rpc[r] = "probe" =>
          ri[r] <= caps[rarray[r]] /\ Passed(selAt[rarray[r]], caps[rarray[r]], rsel[r], ri[r])
    BY <2>1, Zenon DEF ReaderOK
  <2>5. rpc[r] = "method" => ri[r] \in 0 .. (caps[rarray[r]] - 1) /\ selAt[rarray[r]][ri[r]] = rsel[r]
    BY <2>1, Zenon DEF ReaderOK, Slots
  <2>6. rpc[r] = "done" => result[r] \in seen'[r]
    BY <1>18, <2>1, Zenon DEF ReaderOK
  <2> QED
    BY <1>6, <1>7, <2>2, <2>3, <2>4, <2>5, <2>6, Zenon DEF ReaderOK, Slots
<1> QED
  BY <1>11, <1>12, <1>14, <1>17, <1>19, <1>20, Zenon

\* What a step of the insertion must leave to the lookups under way in array l.
Keeps(l, s, M) ==
  /\ l \in 1 .. Len(caps') /\ (wpc' = "rehash" => l # Len(caps')) /\ caps'[l] = caps[l]
  /\ Gives(selAt'[l], methodAt'[l], caps[l], s, M)
  /\ \A i \in 0 .. caps[l] : Passed(selAt[l], caps[l], s, i) => Passed(selAt'[l], caps[l], s, i)
  /\ \A p \in 0 .. (caps[l] - 1) : selAt[l][p] = s => selAt'[l][p] = s

\* The lookups after a step of the insertion.
LEMMA ReadersKept ==
  ASSUME IInv, UNCHANGED <<readerVars, seen>>,
         \A r \in Readers : rpc[r] \in {"probe", "method"} => Keeps(rarray[r], rsel[r], seen[r])
  PROVE  ReaderTyping' /\ ReadersOK'
<1>1. /\ rpc' = rpc /\ rsel' = rsel /\ rarray' = rarray /\ ri' = ri /\ result' = result /\ seen' = seen
  BY Zenon DEF readerVars
<1>2. ReaderTyping /\ ReadersOK /\ ArrayTyping /\ ArraysOK
  BY Zenon DEF IInv
<1>3. ReaderTyping'
  BY <1>1, <1>2, Zenon DEF ReaderTyping
<1>4. ReadersOK'
  <2> SUFFICES ASSUME NEW r \in Readers PROVE ReaderOK(r)'
    BY Zenon DEF ReadersOK
  <2>1. ReaderOK(r)
    BY <1>2, Zenon DEF ReadersOK
  <2>2. PICK l, s, M, i : l = rarray[r] /\ s = rsel[r] /\ M = seen[r] /\ i = ri[r]
    BY Zenon
  <2>3. rpc[r] # "idle" => s \in Selectors
    BY <2>1, <2>2, Zenon DEF ReaderOK
  <2>4. rpc[r] \in {"probe", "method"} => Keeps(l, s, M)
    BY <2>2, Zenon
  <2>5. rpc[r] \in {"probe", "method"} =>
          /\ l \in 1 .. Len(caps') /\ (wpc' = "rehash" => l # Len(caps')) /\ caps'[l] = caps[l]
          /\ Gives(selAt'[l], methodAt'[l], caps'[l], s, M)
    BY <2>4, Zenon DEF Keeps
  <2>6. rpc[r] = "probe" => i <= caps'[l] /\ Passed(selAt'[l], caps'[l], s, i)
    <3> SUFFICES ASSUME rpc[r] = "probe" PROVE i <= caps'[l] /\ Passed(selAt'[l], caps'[l], s, i)
      BY Zenon
    <3>1. i <= caps[l] /\ Passed(selAt[l], caps[l], s, i) /\ l \in 1 .. Len(caps)
      BY <2>1, <2>2, Zenon DEF ReaderOK
    <3>2. i \in Nat
      BY <1>2, <2>2, Zenon DEF ReaderTyping
    <3>3. caps[l] \in Nat
      BY <1>2, <3>1, Shape, Zenon
    <3>4. i \in 0 .. caps[l]
      BY <3>1, <3>2, <3>3
    <3>5. Passed(selAt'[l], caps[l], s, i) /\ caps'[l] = caps[l]
      BY <2>4, <3>1, <3>4, Zenon DEF Keeps
    <3> QED
      BY <3>1, <3>5, Zenon
  <2>7. rpc[r] = "method" => i \in 0 .. (caps'[l] - 1) /\ selAt'[l][i] = s
    <3> SUFFICES ASSUME rpc[r] = "method" PROVE i \in 0 .. (caps'[l] - 1) /\ selAt'[l][i] = s
      BY Zenon
    <3>1. i \in 0 .. (caps[l] - 1) /\ selAt[l][i] = s
      BY <2>1, <2>2, Zenon DEF ReaderOK, Slots
    <3>2. selAt'[l][i] = s /\ caps'[l] = caps[l]
      BY <2>4, <3>1, Zenon DEF Keeps
    <3> QED
      BY <3>1, <3>2, Zenon
  <2>8. rpc[r] = "done" => result[r] \in M
    BY <2>1, <2>2, Zenon DEF ReaderOK
  <2> QED
    BY <1>1, <2>2, <2>3, <2>5, <2>6, <2>7, <2>8, Zenon DEF ReaderOK, Slots
<1> QED
  BY <1>3, <1>4, Zenon

\* The lookups after a step that leaves their arrays alone.
LEMMA ReadersSame ==
  ASSUME IInv, UNCHANGED <<readerVars, seen>>,
         \A r \in Readers : rpc[r] \in {"probe", "method"} =>
           /\ rarray[r] \in 1 .. Len(caps') /\ (wpc' = "rehash" => rarray[r] # Len(caps'))
           /\ caps'[rarray[r]] = caps[rarray[r]] /\ selAt'[rarray[r]] = selAt[rarray[r]]
           /\ methodAt'[rarray[r]] = methodAt[rarray[r]]
  PROVE  ReaderTyping' /\ ReadersOK'
<1>1. ASSUME NEW r \in Readers, rpc[r] \in {"probe", "method"} PROVE Keeps(rarray[r], rsel[r], seen[r])
  <2>1. PICK l, s, M : l = rarray[r] /\ s = rsel[r] /\ M = seen[r]
    BY Zenon
  <2>2. Gives(selAt[l], methodAt[l], caps[l], s, M)
    BY <1>1, <2>1, Zenon DEF IInv, ReadersOK, ReaderOK
  <2>3. /\ l \in 1 .. Len(caps') /\ (wpc' = "rehash" => l # Len(caps'))
        /\ caps'[l] = caps[l] /\ selAt'[l] = selAt[l] /\ methodAt'[l] = methodAt[l]
    BY <1>1, <2>1, Zenon
  <2>4. Keeps(l, s, M)
    BY <2>2, <2>3, Zenon DEF Keeps
  <2> QED
    BY <2>1, <2>4, Zenon
<1> QED
  BY <1>1, ReadersKept, Zenon

\* The parts of the invariant about the arrays and the lookups, when neither moves.
LEMMA Untouched ==
  ASSUME IInv, UNCHANGED <<arrayVars, readerVars, seen>>, wpc' # "rehash"
  PROVE  ArrayTyping' /\ ArraysOK' /\ ReaderTyping' /\ ReadersOK'
<1>1. caps' = caps /\ selAt' = selAt /\ methodAt' = methodAt
  BY Zenon DEF arrayVars
<1>2. ArrayTyping' /\ ArraysOK'
  BY <1>1, Zenon DEF IInv, ArrayTyping, ArraysOK
<1>3. \A r \in Readers : rpc[r] \in {"probe", "method"} => rarray[r] \in 1 .. Len(caps)
  BY Zenon DEF IInv, ReadersOK, ReaderOK
<1>4. ReaderTyping' /\ ReadersOK'
  BY <1>1, <1>3, ReadersSame, Zenon
<1> QED
  BY <1>2, <1>4, Zenon

----------------------------------------------------------------------------
(* The insertion.                                                          *)

\* The search of an insertion: the method is updated, or the selector is new.
LEMMA InsertFindKeeps ==
  ASSUME Constants, IInv, NEW sel \in Selectors, InsertFind(sel)
  PROVE  IInv'
<1>1. /\ ArrayTyping /\ ArraysOK /\ WriterTyping /\ ReaderTyping /\ BoundOK /\ TallyOK /\ ReadersOK
  BY Zenon DEF IInv
<1>2. wpc = "idle" /\ inserts' = inserts + 1 /\ inserts \in Nat
  BY <1>1, Zenon DEF InsertFind, WriterTyping
<1>3. inserts + 1 \in Nat
  BY <1>2
<1>4. caps' = caps /\ selAt' = selAt /\ array' = array /\ tally' = tally /\ UNCHANGED readerVars
  BY Zenon DEF InsertFind
<1>5. array \in 1 .. Len(caps)
  BY <1>1, Zenon DEF WriterTyping
<1>6. CASE \E p \in Slots(array) :
             /\ Ends(array, sel, p) /\ selAt[array][p] = sel
             /\ methodAt' = [methodAt EXCEPT ![array][p] = inserts + 1]
             /\ Installed(sel, inserts + 1) /\ UNCHANGED writerVars
  <2>1. PICK p \in Slots(array) :
             /\ selAt[array][p] = sel
             /\ methodAt' = [methodAt EXCEPT ![array][p] = inserts + 1]
             /\ Installed(sel, inserts + 1) /\ UNCHANGED writerVars
    BY <1>6, Zenon
  <2>2. wpc' = "idle" /\ wmethod' = wmethod /\ wi' = wi
    BY <1>2, <2>1, Zenon DEF writerVars
  <2>3. wpc' # "rehash" /\ wpc' \notin {"load", "rehash", "key", "method"} /\ wpc' \notin {"key", "method", "tally"}
    BY <2>2
  <2>4. /\ ArrayTyping' /\ ArraysOK' /\ BoundOK' /\ ReaderTyping' /\ ReadersOK'
        /\ bound' \in [Selectors -> Nat]
    <3>1. PICK x \in Nat : x = inserts + 1
      BY <1>3, Zenon
    <3>2. methodAt' = [methodAt EXCEPT ![array][p] = x] /\ Installed(sel, x)
      BY <2>1, <3>1, Zenon
    <3>3. UNCHANGED <<caps, selAt, array, readerVars>>
      BY <1>4, Zenon
    <3> QED
      BY <2>1, <2>3, <3>2, <3>3, MethodStored, Zenon
  <2>5. WriterTyping'
    BY <1>1, <1>2, <1>3, <1>4, <2>2, <2>4, Zenon DEF WriterTyping
  <2>6. WriterOK' /\ RehashOK'
    BY <2>3 DEF WriterOK, RehashOK
  <2>7. TallyOK'
    BY <1>1, <1>2, <1>4, <2>2, Zenon DEF TallyOK
  <2> QED
    BY <2>4, <2>5, <2>6, <2>7, Zenon DEF IInv
<1>7. CASE /\ ~Has(array, sel)
           /\ wpc' = "load" /\ wsel' = sel /\ wmethod' = inserts + 1
           /\ UNCHANGED <<methodAt, wi, bound, seen>>
  <2>1. methodAt' = methodAt /\ wi' = wi /\ bound' = bound /\ seen' = seen
    BY <1>7, Zenon
  <2>2. wpc' = "load" /\ wpc' # "rehash" /\ wpc' # "method" /\ wpc' \notin {"method", "tally"}
        /\ wpc' \notin {"key", "method", "tally"} /\ wpc \notin {"method", "tally"}
    BY <1>2, <1>7
  <2>3. ArrayTyping' /\ ArraysOK' /\ ReaderTyping' /\ ReadersOK'
    <3>1. UNCHANGED <<arrayVars, readerVars, seen>>
      BY <1>4, <2>1, Zenon DEF arrayVars
    <3> QED
      BY <2>2, <3>1, Untouched, Zenon
  <2>4. WriterTyping'
    BY <1>1, <1>2, <1>3, <1>4, <1>7, <2>1, Zenon DEF WriterTyping
  <2>5. BoundOK'
    BY <1>1, <1>4, <2>1, Zenon DEF BoundOK
  <2>6. \A p \in 0 .. (caps[array] - 1) : selAt[array][p] # sel
    <3> SUFFICES ASSUME NEW p \in 0 .. (caps[array] - 1), selAt[array][p] = sel PROVE FALSE
      BY Zenon
    <3>1. sel # 0
      BY Zenon DEF Constants
    <3>2. Reaches(selAt[array], caps[array], sel, p)
      BY <1>1, <1>5, <3>1, Shape, Zenon DEF TableOK
    <3>3. Ends(array, sel, p)
      BY <3>2, EndsReaches, Zenon
    <3> QED
      BY <1>7, <3>3, Zenon DEF Has, Slots
  <2>7. WriterOK'
    <3>1. \A p \in Slots(array)' : selAt'[array'][p] # wsel'
      BY <1>4, <1>7, <2>6, Zenon DEF Slots
    <3>2. wsel' \in Selectors
      BY <1>7, Zenon
    <3> QED
      BY <2>2, <3>1, <3>2, Zenon DEF WriterOK
  <2>8. RehashOK'
    BY <2>2, Zenon DEF RehashOK
  <2>9. TallyOK'
    <3>1. Cardinality(Taken(selAt[array], caps[array])) = tally /\ tally < caps[array]
      BY <1>1, <2>2, Zenon DEF TallyOK
    <3> QED
      BY <1>4, <2>2, <3>1, Zenon DEF TallyOK
  <2> QED
    BY <2>3, <2>4, <2>5, <2>7, <2>8, <2>9, Zenon DEF IInv
<1> QED
  BY <1>6, <1>7, Zenon DEF InsertFind

\* The load factor allows one entry more, so an empty slot remains after it.
LEMMA InsertFitsKeeps ==
  ASSUME Constants, IInv, InsertFits
  PROVE  IInv'
<1>1. ArrayTyping /\ ArraysOK /\ WriterTyping /\ BoundOK /\ WriterOK /\ TallyOK
  BY Zenon DEF IInv
<1>2. /\ wpc = "load" /\ ~Overloaded /\ wpc' = "key"
      /\ array' = array /\ tally' = tally /\ wsel' = wsel /\ wmethod' = wmethod /\ wi' = wi
      /\ UNCHANGED <<arrayVars, readerVars, seen>> /\ bound' = bound /\ inserts' = inserts
  BY Zenon DEF InsertFits
<1>3. caps' = caps /\ selAt' = selAt /\ methodAt' = methodAt
  BY <1>2, Zenon DEF arrayVars
<1>4. /\ wpc' # "rehash" /\ wpc' # "method" /\ wpc' \notin {"method", "tally"} /\ wpc \notin {"method", "tally"}
      /\ wpc \in {"load", "rehash", "key"} /\ wpc \in {"load", "rehash", "key", "method"}
  BY <1>2
<1>5. ArrayTyping' /\ ArraysOK' /\ ReaderTyping' /\ ReadersOK'
  BY <1>2, <1>4, Untouched, Zenon
<1>6. WriterTyping'
  BY <1>1, <1>2, <1>3, Zenon DEF WriterTyping
<1>7. BoundOK'
  BY <1>1, <1>2, <1>3, Zenon DEF BoundOK
<1>8. WriterOK'
  <2>1. wsel \in Selectors /\ \A p \in 0 .. (caps[array] - 1) : selAt[array][p] # wsel
    BY <1>1, <1>4, Zenon DEF WriterOK, Slots
  <2> QED
    BY <1>2, <1>3, <1>4, <2>1, Zenon DEF WriterOK, Slots
<1>9. RehashOK'
  BY <1>4, Zenon DEF RehashOK
<1>10. TallyOK'
  <2>1. Cardinality(Taken(selAt[array], caps[array])) = tally /\ tally < caps[array]
    BY <1>1, <1>4, Zenon DEF TallyOK
  <2>2. PICK c \in Nat \ {0} : c = caps[array]
    BY <1>1, Shape, Zenon DEF WriterTyping
  <2>3. PICK n \in Nat : n = tally
    BY <1>1, Zenon DEF WriterTyping
  <2>4. ~((n + 1) * 10 > c * 7)
    BY <1>2, <2>2, <2>3, Zenon DEF Overloaded
  <2>5. n + 1 < c
    BY <2>4
  <2>6. tally + 1 < caps[array]
    BY <2>2, <2>3, <2>5, Zenon
  <2> QED
    BY <1>2, <1>3, <1>4, <2>1, <2>6, Zenon DEF TallyOK
<1> QED
  BY <1>5, <1>6, <1>7, <1>8, <1>9, <1>10, Zenon DEF IInv

\* Without memory for the larger array nothing is installed.
LEMMA InsertNoMemKeeps ==
  ASSUME Constants, IInv, InsertNoMem
  PROVE  IInv'
<1>1. ArrayTyping /\ ArraysOK /\ WriterTyping /\ BoundOK /\ WriterOK /\ TallyOK
  BY Zenon DEF IInv
<1>2. /\ wpc = "load" /\ wpc' = "idle"
      /\ array' = array /\ tally' = tally /\ wmethod' = 0 /\ wi' = wi
      /\ UNCHANGED <<arrayVars, readerVars, seen>> /\ bound' = bound /\ inserts' = inserts
  BY Zenon DEF InsertNoMem
<1>3. caps' = caps /\ selAt' = selAt /\ methodAt' = methodAt
  BY <1>2, Zenon DEF arrayVars
<1>4. /\ wpc' # "rehash" /\ wpc' # "method" /\ wpc' \notin {"method", "tally"} /\ wpc \notin {"method", "tally"}
      /\ wpc' \notin {"load", "rehash", "key"} /\ wpc' \notin {"load", "rehash", "key", "method"}
      /\ wpc' \notin {"key", "method", "tally"} /\ 0 \in Nat
  BY <1>2
<1>5. ArrayTyping' /\ ArraysOK' /\ ReaderTyping' /\ ReadersOK'
  BY <1>2, <1>4, Untouched, Zenon
<1>6. WriterTyping'
  BY <1>1, <1>2, <1>3, <1>4, Zenon DEF WriterTyping
<1>7. BoundOK'
  BY <1>1, <1>2, <1>3, Zenon DEF BoundOK
<1>8. WriterOK' /\ RehashOK'
  BY <1>4, Zenon DEF WriterOK, RehashOK
<1>9. TallyOK'
  <2>1. Cardinality(Taken(selAt[array], caps[array])) = tally /\ tally < caps[array]
    BY <1>1, <1>4, Zenon DEF TallyOK
  <2> QED
    BY <1>2, <1>3, <1>4, <2>1, Zenon DEF TallyOK
<1> QED
  BY <1>5, <1>6, <1>7, <1>8, <1>9, Zenon DEF IInv

\* The tally catches up with the entries.
LEMMA InsertTallyKeeps ==
  ASSUME Constants, IInv, InsertTally
  PROVE  IInv'
<1>1. ArrayTyping /\ ArraysOK /\ WriterTyping /\ BoundOK /\ WriterOK /\ TallyOK
  BY Zenon DEF IInv
<1>2. /\ wpc = "tally" /\ wpc' = "idle"
      /\ array' = array /\ tally' = tally + 1 /\ wmethod' = wmethod /\ wi' = wi
      /\ UNCHANGED <<arrayVars, readerVars, seen>> /\ bound' = bound /\ inserts' = inserts
  BY Zenon DEF InsertTally
<1>3. caps' = caps /\ selAt' = selAt /\ methodAt' = methodAt
  BY <1>2, Zenon DEF arrayVars
<1>4. /\ wpc' # "rehash" /\ wpc' # "method" /\ wpc' \notin {"method", "tally"} /\ wpc \in {"method", "tally"}
      /\ wpc' \notin {"load", "rehash", "key"} /\ wpc' \notin {"load", "rehash", "key", "method"}
      /\ wpc' \notin {"key", "method", "tally"} /\ wpc \in {"key", "method", "tally"}
  BY <1>2
<1>5. ArrayTyping' /\ ArraysOK' /\ ReaderTyping' /\ ReadersOK'
  BY <1>2, <1>4, Untouched, Zenon
<1>6. WriterTyping'
  <2>1. tally + 1 \in Nat
    BY <1>1 DEF WriterTyping
  <2> QED
    BY <1>1, <1>2, <1>3, <2>1, Zenon DEF WriterTyping
<1>7. BoundOK'
  BY <1>1, <1>2, <1>3, Zenon DEF BoundOK
<1>8. WriterOK' /\ RehashOK'
  BY <1>4, Zenon DEF WriterOK, RehashOK
<1>9. TallyOK'
  <2>1. Cardinality(Taken(selAt[array], caps[array])) = tally + 1 /\ tally + 1 < caps[array]
    BY <1>1, <1>4, Zenon DEF TallyOK
  <2> QED
    BY <1>2, <1>3, <1>4, <2>1, Zenon DEF TallyOK
<1> QED
  BY <1>5, <1>6, <1>7, <1>8, <1>9, Zenon DEF IInv

\* The method of a new entry is stored: it is what a lookup may see from now on.
LEMMA InsertMethodKeeps ==
  ASSUME Constants, IInv, InsertMethod
  PROVE  IInv'
<1>1. ArrayTyping /\ ArraysOK /\ WriterTyping /\ BoundOK /\ WriterOK /\ TallyOK
  BY Zenon DEF IInv
<1>2. /\ wpc = "method" /\ wpc' = "tally"
      /\ methodAt' = [methodAt EXCEPT ![array][wi] = wmethod] /\ Installed(wsel, wmethod)
      /\ array' = array /\ tally' = tally /\ wmethod' = 0 /\ wi' = 0
      /\ caps' = caps /\ selAt' = selAt /\ UNCHANGED readerVars /\ inserts' = inserts
  BY Zenon DEF InsertMethod
<1>3. /\ wpc' # "rehash" /\ wpc' # "method" /\ wpc' \in {"method", "tally"} /\ wpc \in {"method", "tally"}
      /\ wpc' \notin {"load", "rehash", "key"} /\ wpc' \notin {"load", "rehash", "key", "method"}
      /\ wpc \in {"key", "method", "tally"} /\ wpc \in {"load", "rehash", "key", "method"} /\ 0 \in Nat
  BY <1>2
<1>4. wsel \in Selectors /\ wi \in Slots(array) /\ selAt[array][wi] = wsel /\ wmethod \in Nat
  BY <1>1, <1>2, <1>3, Zenon DEF WriterOK, WriterTyping
<1>5. /\ ArrayTyping' /\ ArraysOK' /\ BoundOK' /\ ReaderTyping' /\ ReadersOK'
      /\ bound' \in [Selectors -> Nat]
  <2>1. PICK p, s, x : p = wi /\ s = wsel /\ x = wmethod
    BY Zenon
  <2>2. methodAt' = [methodAt EXCEPT ![array][p] = x] /\ Installed(s, x)
    BY <1>2, <2>1, Zenon
  <2>3. UNCHANGED <<caps, selAt, array, readerVars>>
    BY <1>2, Zenon
  <2>4. p \in Slots(array) /\ s \in Selectors /\ selAt[array][p] = s /\ x \in Nat
    BY <1>4, <2>1, Zenon
  <2> QED
    BY <1>3, <2>2, <2>3, <2>4, MethodStored, Zenon
<1>6. WriterTyping'
  BY <1>1, <1>2, <1>3, <1>5, Zenon DEF WriterTyping
<1>7. WriterOK' /\ RehashOK'
  BY <1>3, Zenon DEF WriterOK, RehashOK
<1>8. TallyOK'
  <2>1. /\ Cardinality(Taken(selAt[array], caps[array])) = tally + 1 /\ tally + 1 < caps[array]
        /\ tally < caps[array]
    BY <1>1, <1>3, Zenon DEF TallyOK
  <2> QED
    BY <1>2, <1>3, <2>1, Zenon DEF TallyOK
<1> QED
  BY <1>5, <1>6, <1>7, <1>8, Zenon DEF IInv

\* The array being filled becomes the dictionary's: it has every entry.
LEMMA InsertPublishKeeps ==
  ASSUME Constants, IInv, InsertPublish
  PROVE  IInv'
<1>1. ArrayTyping /\ ArraysOK /\ WriterTyping /\ BoundOK /\ WriterOK /\ RehashOK /\ TallyOK
  BY Zenon DEF IInv
<1>2. /\ wpc = "rehash" /\ wi = caps[array] /\ wpc' = "key" /\ wi' = 0 /\ array' = Len(caps)
      /\ tally' = tally /\ wsel' = wsel /\ wmethod' = wmethod
      /\ UNCHANGED <<arrayVars, readerVars, seen>> /\ bound' = bound /\ inserts' = inserts
  BY Zenon DEF InsertPublish
<1>3. caps' = caps /\ selAt' = selAt /\ methodAt' = methodAt
  BY <1>2, Zenon DEF arrayVars
<1>4. /\ wpc' # "rehash" /\ wpc' # "method" /\ wpc' \notin {"method", "tally"} /\ wpc \notin {"method", "tally"}
      /\ wpc \in {"load", "rehash", "key"} /\ wpc \in {"load", "rehash", "key", "method"} /\ 0 \in Nat
  BY <1>2
<1>5. ArrayTyping' /\ ArraysOK' /\ ReaderTyping' /\ ReadersOK'
  BY <1>2, <1>4, Untouched, Zenon
<1>6. PICK n, f, m, cap, f0, m0, cap0 :
        /\ n = Len(caps) /\ f = selAt[n] /\ m = methodAt[n] /\ cap = caps[n]
        /\ f0 = selAt[array] /\ m0 = methodAt[array] /\ cap0 = caps[array]
  BY Zenon
<1>7. /\ array < n /\ cap = 2 * cap0 /\ Copied(f, m, cap, f0, m0, cap0) /\ wi = cap0
  BY <1>1, <1>2, <1>6, Zenon DEF RehashOK
<1>8. array \in 1 .. n /\ n \in Nat
  BY <1>1, <1>6 DEF WriterTyping, ArrayTyping
<1>9. n \in 1 .. Len(caps)
  BY <1>6, <1>8
<1>10. WriterTyping'
  BY <1>1, <1>2, <1>3, <1>4, <1>6, <1>9, Zenon DEF WriterTyping
<1>11. cap0 \in Nat \ {0} /\ cap \in Nat \ {0}
  BY <1>1, <1>6, <1>8, <1>9, Shape, Zenon
<1>12. \A s \in Selectors : s # 0 /\ Gives(f0, m0, cap0, s, {bound[s]})
  BY <1>1, <1>6, Zenon DEF BoundOK, Constants
<1>13. BoundOK'
  <2> SUFFICES ASSUME NEW s \in Selectors PROVE Gives(f, m, cap, s, {bound[s]})
    BY <1>2, <1>3, <1>6, Zenon DEF BoundOK
  <2>1. s # 0 /\ Gives(f0, m0, cap0, s, {bound[s]})
    BY <1>12, Zenon
  <2>2. \A p \in 0 .. (cap - 1) : f[p] = s => m[p] \in {bound[s]}
    <3> SUFFICES ASSUME NEW p \in 0 .. (cap - 1), f[p] = s PROVE m[p] \in {bound[s]}
      BY Zenon
    <3>1. PICK q \in 0 .. (cap0 - 1) : f0[q] = f[p] /\ m0[q] = m[p]
      BY <1>7, <2>1, Zenon DEF Copied
    <3> QED
      BY <2>1, <3>1, Zenon DEF Gives
  <2>3. ASSUME \A p \in 0 .. (cap - 1) : f[p] # s PROVE 0 \in {bound[s]}
    <3>1. \A q \in 0 .. (cap0 - 1) : f0[q] # s
      <4> SUFFICES ASSUME NEW q \in 0 .. (cap0 - 1), f0[q] = s PROVE FALSE
        BY Zenon
      <4>1. f0[q] # 0
        BY <2>1, Zenon
      <4>2. PICK p \in 0 .. (cap - 1) : f[p] = f0[q]
        BY <1>7, <4>1, Zenon DEF Copied
      <4> QED
        BY <2>3, <4>2, Zenon
    <3> QED
      BY <2>1, <3>1, Zenon DEF Gives
  <2> QED
    BY <2>2, <2>3, Zenon DEF Gives
<1>14. WriterOK'
  <2>1. wsel \in Selectors /\ \A q \in 0 .. (cap0 - 1) : f0[q] # wsel
    BY <1>1, <1>4, <1>6, Zenon DEF WriterOK, Slots
  <2>2. \A p \in 0 .. (cap - 1) : f[p] # wsel
    <3> SUFFICES ASSUME NEW p \in 0 .. (cap - 1), f[p] = wsel PROVE FALSE
      BY Zenon
    <3>1. f[p] # 0
      BY <2>1, Zenon DEF Constants
    <3>2. PICK q \in 0 .. (cap0 - 1) : f0[q] = f[p]
      BY <1>7, <3>1, Zenon DEF Copied
    <3> QED
      BY <2>1, <3>2, Zenon
  <2> QED
    BY <1>2, <1>3, <1>4, <1>6, <2>1, <2>2, Zenon DEF WriterOK, Slots
<1>15. RehashOK'
  BY <1>4, Zenon DEF RehashOK
<1>16. TallyOK'
  <2>1. Cardinality(Taken(f0, cap0)) = tally /\ tally < cap0
    BY <1>1, <1>4, <1>6, Zenon DEF TallyOK
  <2>2. Cardinality(Taken(f, cap)) = tally
    BY <1>7, <2>1, Zenon DEF Copied
  <2>3. tally \in Nat
    BY <1>1, Zenon DEF WriterTyping
  <2>4. tally < cap /\ tally + 1 < cap
    BY <1>7, <1>11, <2>1, <2>3
  <2> QED
    BY <1>2, <1>3, <1>4, <1>6, <2>2, <2>4, Zenon DEF TallyOK
<1> QED
  BY <1>5, <1>10, <1>13, <1>14, <1>15, <1>16, Zenon DEF IInv

\* A new array is empty, and nothing has been moved to it.
LEMMA BlankOK ==
  ASSUME NEW cap \in Nat \ {0}, NEW f0, NEW m0
  PROVE  /\ Blank(cap) \in [0 .. (cap - 1) -> Selectors \cup {0}] /\ Blank(cap) \in [0 .. (cap - 1) -> Nat]
         /\ TableOK(Blank(cap), Blank(cap), cap) /\ Copied(Blank(cap), Blank(cap), cap, f0, m0, 0)
         /\ Taken(Blank(cap), cap) = {} /\ \A s, M : s # 0 /\ 0 \in M => Gives(Blank(cap), Blank(cap), cap, s, M)
<1>1. PICK f : f = Blank(cap)
  BY Zenon
<1>2. /\ f \in [0 .. (cap - 1) -> Selectors \cup {0}] /\ f \in [0 .. (cap - 1) -> Nat]
      /\ \A p \in 0 .. (cap - 1) : f[p] = 0
  BY <1>1 DEF Blank
<1>3. TableOK(f, f, cap)
  BY <1>2, Zenon DEF TableOK
<1>4. Taken(f, cap) = {}
  BY <1>2, Zenon DEF Taken
<1>5. 0 .. (0 - 1) = {}
  OBVIOUS
<1>6. Taken(f0, 0) = {}
  BY <1>5, Zenon DEF Taken
<1>7. Copied(f, f, cap, f0, m0, 0)
  BY <1>2, <1>4, <1>5, <1>6, Zenon DEF Copied
<1>8. \A s, M : s # 0 /\ 0 \in M => Gives(f, f, cap, s, M)
  BY <1>2, Zenon DEF Gives
<1> QED
  BY <1>1, <1>2, <1>3, <1>4, <1>7, <1>8, Zenon

\* The larger array is made, and no lookup is in it.
LEMMA InsertGrowKeeps ==
  ASSUME Constants, IInv, InsertGrow
  PROVE  IInv'
<1>1. ArrayTyping /\ ArraysOK /\ WriterTyping /\ BoundOK /\ WriterOK /\ TallyOK /\ ReadersOK
  BY Zenon DEF IInv
<1>2. PICK n, c, g : n = Len(caps) /\ c = 2 * caps[array] /\ g = Blank(c)
  BY Zenon
<1>3. /\ wpc = "load" /\ wpc' = "rehash" /\ wi' = 0
      /\ caps' = Append(caps, c) /\ selAt' = Append(selAt, g) /\ methodAt' = Append(methodAt, g)
      /\ array' = array /\ tally' = tally /\ wsel' = wsel /\ wmethod' = wmethod
      /\ UNCHANGED <<readerVars, seen>> /\ bound' = bound /\ inserts' = inserts
  BY <1>2, Zenon DEF InsertGrow
<1>4. /\ wpc' # "method" /\ wpc' \notin {"method", "tally"} /\ wpc \notin {"method", "tally"}
      /\ wpc \in {"load", "rehash", "key"} /\ wpc \in {"load", "rehash", "key", "method"} /\ 0 \in Nat
      /\ wpc' \notin {"key", "method", "tally"} /\ wpc # "rehash"
  BY <1>3
<1>5. array \in 1 .. Len(caps) /\ n = Len(caps) /\ n \in Nat
  BY <1>1, <1>2 DEF WriterTyping, ArrayTyping
<1>6. caps[array] \in Nat \ {0}
  BY <1>1, <1>5, Shape, Zenon
<1>7. c \in Nat \ {0} /\ c \in Nat
  BY <1>2, <1>6
<1>8. caps \in Seq(Nat \ {0}) /\ Len(caps) = n /\ Len(selAt) = n /\ Len(methodAt) = n
  BY <1>1, <1>2, Zenon DEF ArrayTyping
<1>9. /\ caps' \in Seq(Nat \ {0}) /\ Len(caps') = n + 1 /\ caps'[n + 1] = c
      /\ \A l \in 1 .. n : caps'[l] = caps[l]
  BY <1>3, <1>7, <1>8
<1>10. /\ g \in [0 .. (c - 1) -> Selectors \cup {0}] /\ g \in [0 .. (c - 1) -> Nat]
       /\ TableOK(g, g, c) /\ Copied(g, g, c, selAt[array], methodAt[array], 0)
  BY <1>2, <1>7, BlankOK, Zenon
<1>11. /\ selAt' \in Seq(Table(Selectors \cup {0})) /\ Len(selAt') = n + 1 /\ selAt'[n + 1] = g
       /\ \A l \in 1 .. n : selAt'[l] = selAt[l]
  <2>1. selAt \in Seq(Table(Selectors \cup {0}))
    BY <1>1, Zenon DEF ArrayTyping
  <2>2. PICK S, t, u : S = Selectors \cup {0} /\ t = selAt /\ u = selAt'
    BY Zenon
  <2>3. t \in Seq(Table(S)) /\ g \in [0 .. (c - 1) -> S] /\ u = Append(t, g)
    BY <1>3, <1>10, <2>1, <2>2, Zenon
  <2>4. /\ u \in Seq(Table(S)) /\ Len(u) = Len(t) + 1
        /\ u[Len(t) + 1] = g /\ \A l \in 1 .. Len(t) : u[l] = t[l]
    BY <1>7, <2>3, Add
  <2> QED
    BY <1>8, <2>2, <2>4, Zenon
<1>12. /\ methodAt' \in Seq(Table(Nat)) /\ Len(methodAt') = n + 1 /\ methodAt'[n + 1] = g
       /\ \A l \in 1 .. n : methodAt'[l] = methodAt[l]
  <2>1. methodAt \in Seq(Table(Nat))
    BY <1>1, Zenon DEF ArrayTyping
  <2>2. PICK S, t, u : S = Nat /\ t = methodAt /\ u = methodAt'
    BY Zenon
  <2>3. t \in Seq(Table(S)) /\ g \in [0 .. (c - 1) -> S] /\ u = Append(t, g)
    BY <1>3, <1>10, <2>1, <2>2, Zenon
  <2>4. /\ u \in Seq(Table(S)) /\ Len(u) = Len(t) + 1
        /\ u[Len(t) + 1] = g /\ \A l \in 1 .. Len(t) : u[l] = t[l]
    BY <1>7, <2>3, Add
  <2> QED
    BY <1>8, <2>2, <2>4, Zenon
<1>13. ArrayTyping'
  BY <1>9, <1>11, <1>12, Zenon DEF ArrayTyping
<1>14. 1 .. (n + 1) = (1 .. n) \cup {n + 1} /\ n + 1 \notin 1 .. n
  BY <1>5
<1>15. ArraysOK'
  <2> SUFFICES ASSUME NEW l \in 1 .. (n + 1) PROVE TableOK(selAt'[l], methodAt'[l], caps'[l])
    BY <1>9, Zenon DEF ArraysOK
  <2>1. CASE l = n + 1
    BY <1>9, <1>10, <1>11, <1>12, <2>1, Zenon
  <2>2. CASE l \in 1 .. n
    <3>1. TableOK(selAt[l], methodAt[l], caps[l])
      BY <1>1, <1>2, <2>2, Zenon DEF ArraysOK
    <3> QED
      BY <1>9, <1>11, <1>12, <2>2, <3>1, Zenon
  <2> QED
    BY <1>14, <2>1, <2>2, Zenon
<1>16. /\ array \in 1 .. n /\ array \in 1 .. (n + 1) /\ array < n + 1
  BY <1>5
<1>17. caps'[array] = caps[array] /\ selAt'[array] = selAt[array] /\ methodAt'[array] = methodAt[array]
  BY <1>9, <1>11, <1>12, <1>16, Zenon
<1>18. WriterTyping'
  BY <1>1, <1>3, <1>4, <1>9, <1>16, Zenon DEF WriterTyping
<1>19. BoundOK'
  BY <1>1, <1>3, <1>17, Zenon DEF BoundOK
<1>20. WriterOK'
  <2>1. wsel \in Selectors /\ \A p \in 0 .. (caps[array] - 1) : selAt[array][p] # wsel
    BY <1>1, <1>4, Zenon DEF WriterOK, Slots
  <2> QED
    BY <1>3, <1>4, <1>17, <2>1, Zenon DEF WriterOK, Slots
<1>21. RehashOK'
  <2>1. 0 <= caps[array]
    BY <1>6
  <2> QED
    BY <1>2, <1>3, <1>9, <1>10, <1>11, <1>12, <1>16, <1>17, <2>1, Zenon DEF RehashOK
<1>22. TallyOK'
  <2>1. Cardinality(Taken(selAt[array], caps[array])) = tally /\ tally < caps[array]
    BY <1>1, <1>4, Zenon DEF TallyOK
  <2> QED
    BY <1>3, <1>4, <1>17, <2>1, Zenon DEF TallyOK
<1>23. ReaderTyping' /\ ReadersOK'
  <2>1. ASSUME NEW r \in Readers, rpc[r] \in {"probe", "method"}
        PROVE  /\ rarray[r] \in 1 .. Len(caps') /\ (wpc' = "rehash" => rarray[r] # Len(caps'))
               /\ caps'[rarray[r]] = caps[rarray[r]] /\ selAt'[rarray[r]] = selAt[rarray[r]]
               /\ methodAt'[rarray[r]] = methodAt[rarray[r]]
    <3>1. rarray[r] \in 1 .. n
      BY <1>1, <1>2, <2>1, Zenon DEF ReadersOK, ReaderOK
    <3> QED
      BY <1>9, <1>11, <1>12, <1>14, <3>1, Zenon
  <2> QED
    BY <1>3, <2>1, ReadersSame, Zenon
<1> QED
  BY <1>13, <1>15, <1>18, <1>19, <1>20, <1>21, <1>22, <1>23, Zenon DEF IInv

\* raw_insert of an entry of the old array into the new one.
LEMMA MoveEntry ==
  ASSUME Constants, NEW cap \in Nat \ {0}, NEW f, NEW m, TableOK(f, m, cap),
         NEW cap0 \in Nat \ {0}, NEW f0, NEW m0, TableOK(f0, m0, cap0),
         NEW n \in 0 .. (cap0 - 1), NEW k, k = n + 1, f0[n] # 0, Copied(f, m, cap, f0, m0, n),
         NEW p \in 0 .. (cap - 1), Reaches(f, cap, f0[n], p),
         NEW g \in [0 .. (cap - 1) -> Selectors \cup {0}], Stored(f, g, cap, p, f0[n]),
         NEW m2 \in [0 .. (cap - 1) -> Nat], Stored(m, m2, cap, p, m0[n])
  PROVE  TableOK(g, m2, cap) /\ Copied(g, m2, cap, f0, m0, k)
<1>1. PICK s, x : s = f0[n] /\ x = m0[n]
  BY Zenon
<1>2. f0 \in [0 .. (cap0 - 1) -> Selectors \cup {0}] /\ m0 \in [0 .. (cap0 - 1) -> Nat]
  BY Zenon DEF TableOK
<1>3. s \in Selectors /\ x \in Nat
  BY ONLY <1>1, <1>2, n \in 0 .. (cap0 - 1), f0[n] # 0
<1>4. \A q \in 0 .. (cap - 1) : f[q] # s
  <2>1. \A q \in 0 .. (cap - 1) : f[q] # f0[n]
    BY NotMovedYet
  <2> QED
    BY <1>1, <2>1, Zenon
<1>5. f[p] = 0 /\ Reaches(f, cap, s, p)
  BY <1>1, <1>4, Zenon DEF Reaches
<1>6. Stored(f, g, cap, p, s) /\ Stored(m, m2, cap, p, x)
  BY <1>1, Zenon
<1>7. TableOK(g, m, cap)
  BY <1>3, <1>4, <1>5, <1>6, StoreKey, Zenon
<1>8. g[p] = s
  BY <1>6, Zenon DEF Stored
<1>9. TableOK(g, m2, cap)
  BY <1>3, <1>6, <1>7, <1>8, StoreMethod, Zenon
<1>10. n \in Nat
  OBVIOUS
<1>11. Copied(g, m2, cap, f0, m0, k)
  BY <1>5, <1>10, CopyEntry, Zenon
<1> QED
  BY <1>9, <1>11, Zenon

\* One slot of the old array is moved.
LEMMA InsertRehashKeeps ==
  ASSUME Constants, IInv, InsertRehash
  PROVE  IInv'
<1>1. ArrayTyping /\ ArraysOK /\ WriterTyping /\ BoundOK /\ WriterOK /\ RehashOK /\ TallyOK /\ ReadersOK
  BY Zenon DEF IInv
<1>2. /\ wpc = "rehash" /\ wi < caps[array] /\ wi' = wi + 1
      /\ caps' = caps /\ array' = array /\ tally' = tally /\ wpc' = wpc /\ wsel' = wsel /\ wmethod' = wmethod
      /\ UNCHANGED <<readerVars, seen>> /\ bound' = bound /\ inserts' = inserts
  BY Zenon DEF InsertRehash
<1>3. /\ wpc' # "method" /\ wpc' \notin {"method", "tally"} /\ wpc \notin {"method", "tally"}
      /\ wpc \in {"load", "rehash", "key"} /\ wpc \in {"load", "rehash", "key", "method"}
      /\ wpc' \notin {"key", "method", "tally"}
  BY <1>2
<1>4. PICK n, f, m, cap, f0, m0, cap0, i, k :
        /\ n = Len(caps) /\ f = selAt[n] /\ m = methodAt[n] /\ cap = caps[n]
        /\ f0 = selAt[array] /\ m0 = methodAt[array] /\ cap0 = caps[array] /\ i = wi /\ k = wi + 1
  BY Zenon
<1>5. array < n /\ cap = 2 * cap0 /\ Copied(f, m, cap, f0, m0, i) /\ i < cap0 /\ k = i + 1
  BY <1>1, <1>2, <1>4, Zenon DEF RehashOK
<1>6. array \in 1 .. n /\ n \in Nat
  BY <1>1, <1>4 DEF WriterTyping, ArrayTyping
<1>7. n \in 1 .. Len(caps) /\ array # n
  BY <1>4, <1>5, <1>6
<1>8. /\ cap0 \in Nat \ {0} /\ cap \in Nat \ {0} /\ TableOK(f, m, cap) /\ TableOK(f0, m0, cap0)
      /\ f \in [0 .. (cap - 1) -> Selectors \cup {0}] /\ m \in [0 .. (cap - 1) -> Nat]
  BY <1>1, <1>4, <1>6, <1>7, Shape, Zenon
<1>9. i \in Nat
  BY <1>1, <1>4, Zenon DEF WriterTyping
<1>10. i \in 0 .. (cap0 - 1) /\ k \in Nat /\ k <= cap0
  BY <1>5, <1>8, <1>9
<1>11. WriterTyping'
  BY <1>1, <1>2, <1>4, <1>10, Zenon DEF WriterTyping
\* It remains to show what becomes of the arrays.
<1>12. /\ ArrayTyping' /\ \A l \in 1 .. n : l # n => selAt'[l] = selAt[l] /\ methodAt'[l] = methodAt[l]
       /\ TableOK(selAt'[n], methodAt'[n], cap) /\ Copied(selAt'[n], methodAt'[n], cap, f0, m0, k)
  <2>1. CASE selAt[array][wi] = 0 /\ UNCHANGED <<selAt, methodAt>>
    <3>1. f0[i] = 0 /\ selAt' = selAt /\ methodAt' = methodAt
      BY <1>4, <2>1, Zenon
    <3>2. ArrayTyping'
      BY <1>1, <1>2, <3>1, Zenon DEF ArrayTyping
    <3>3. Copied(f, m, cap, f0, m0, k)
      BY <1>5, <1>9, <3>1, CopyNothing, Zenon
    <3> QED
      BY <1>4, <1>8, <3>1, <3>2, <3>3, Zenon
  <2>2. CASE /\ selAt[array][wi] # 0
             /\ \E p \in Slots(Len(caps)) :
                  /\ Ends(Len(caps), selAt[array][wi], p)
                  /\ selAt' = [selAt EXCEPT ![Len(caps)][p] = selAt[array][wi]]
                  /\ methodAt' = [methodAt EXCEPT ![Len(caps)][p] = methodAt[array][wi]]
    <3>1. PICK s, x : s = f0[i] /\ x = m0[i]
      BY Zenon
    <3>2. s # 0
      BY <1>4, <2>2, <3>1, Zenon
    <3>3. PICK p \in 0 .. (cap - 1) :
            /\ Ends(n, s, p) /\ StoredIn(selAt, selAt', n, p, s) /\ StoredIn(methodAt, methodAt', n, p, x)
      BY <1>4, <2>2, <3>1, Zenon DEF Slots, StoredIn
    <3>4. Reaches(f, cap, s, p)
      BY <1>4, <3>3, EndsReaches, Zenon
    <3>5. s \in Selectors \cup {0} /\ x \in Nat
      <4>1. f0 \in [0 .. (cap0 - 1) -> Selectors \cup {0}] /\ m0 \in [0 .. (cap0 - 1) -> Nat]
        BY <1>8, Zenon DEF TableOK
      <4> QED
        BY <1>10, <3>1, <4>1, Zenon
    <3>6. HasArray(selAt, Selectors \cup {0}, n, cap) /\ HasArray(methodAt, Nat, n, cap) /\ cap \in Nat
      BY <1>1, <1>4, <1>7, <1>8, Zenon DEF HasArray, ArrayTyping
    <3>7. /\ HasArray(selAt', Selectors \cup {0}, n, cap) /\ SameBut(selAt, selAt', n)
          /\ Stored(selAt[n], selAt'[n], cap, p, s)
      BY <3>3, <3>5, <3>6, Put, Zenon
    <3>8. /\ HasArray(methodAt', Nat, n, cap) /\ SameBut(methodAt, methodAt', n)
          /\ Stored(methodAt[n], methodAt'[n], cap, p, x)
      BY <3>3, <3>5, <3>6, Put, Zenon
    <3>9. PICK g, m2 : g = selAt'[n] /\ m2 = methodAt'[n]
      BY Zenon
    <3>10. /\ g \in [0 .. (cap - 1) -> Selectors \cup {0}] /\ m2 \in [0 .. (cap - 1) -> Nat]
           /\ Stored(f, g, cap, p, f0[i]) /\ Stored(m, m2, cap, p, m0[i])
      BY <1>4, <3>1, <3>7, <3>8, <3>9, Zenon DEF HasArray
    <3>11. f0[i] # 0 /\ Reaches(f, cap, f0[i], p)
      BY <3>1, <3>2, <3>4, Zenon
    <3>12. TableOK(g, m2, cap) /\ Copied(g, m2, cap, f0, m0, k)
      BY <1>5, <1>8, <1>10, <3>3, <3>10, <3>11, MoveEntry, Zenon
    <3>13. Len(selAt) = n /\ Len(methodAt) = n
      BY <1>1, <1>4, Zenon DEF ArrayTyping
    <3>14. ArrayTyping'
      BY <1>1, <1>2, <1>4, <3>7, <3>8, <3>13, Zenon DEF ArrayTyping, HasArray, SameBut
    <3>15. \A l \in 1 .. n : l # n => selAt'[l] = selAt[l] /\ methodAt'[l] = methodAt[l]
      BY <3>7, <3>8, <3>13, Zenon DEF SameBut
    <3> QED
      BY <3>9, <3>12, <3>14, <3>15, Zenon
  <2> QED
    BY <2>1, <2>2, Zenon DEF InsertRehash
<1>13. selAt'[array] = f0 /\ methodAt'[array] = m0
  BY <1>4, <1>6, <1>7, <1>12, Zenon
<1>14. ArraysOK'
  <2> SUFFICES ASSUME NEW l \in 1 .. n PROVE TableOK(selAt'[l], methodAt'[l], caps[l])
    BY <1>2, <1>4, Zenon DEF ArraysOK
  <2>1. CASE l = n
    BY <1>4, <1>12, <2>1, Zenon
  <2>2. CASE l # n
    <3>1. TableOK(selAt[l], methodAt[l], caps[l])
      BY <1>1, <1>4, Zenon DEF ArraysOK
    <3> QED
      BY <1>12, <2>2, <3>1, Zenon
  <2> QED
    BY <2>1, <2>2, Zenon
<1>15. BoundOK'
  BY <1>1, <1>2, <1>4, <1>13, Zenon DEF BoundOK
<1>16. WriterOK'
  <2>1. wsel \in Selectors /\ \A p \in 0 .. (caps[array] - 1) : f0[p] # wsel
    BY <1>1, <1>3, <1>4, Zenon DEF WriterOK, Slots
  <2> QED
    BY <1>2, <1>3, <1>13, <2>1, Zenon DEF WriterOK, Slots
<1>17. RehashOK'
  BY <1>2, <1>4, <1>5, <1>10, <1>12, <1>13, Zenon DEF RehashOK
<1>18. TallyOK'
  <2>1. Cardinality(Taken(f0, caps[array])) = tally /\ tally < caps[array]
    BY <1>1, <1>3, <1>4, Zenon DEF TallyOK
  <2> QED
    BY <1>2, <1>3, <1>13, <2>1, Zenon DEF TallyOK
<1>19. ReaderTyping' /\ ReadersOK'
  <2>1. ASSUME NEW r \in Readers, rpc[r] \in {"probe", "method"}
        PROVE  /\ rarray[r] \in 1 .. Len(caps') /\ (wpc' = "rehash" => rarray[r] # Len(caps'))
               /\ caps'[rarray[r]] = caps[rarray[r]] /\ selAt'[rarray[r]] = selAt[rarray[r]]
               /\ methodAt'[rarray[r]] = methodAt[rarray[r]]
    <3>1. rarray[r] \in 1 .. n /\ rarray[r] # n
      BY <1>1, <1>2, <1>4, <2>1, Zenon DEF ReadersOK, ReaderOK
    <3> QED
      BY <1>2, <1>4, <1>12, <3>1, Zenon
  <2> QED
    BY <1>2, <2>1, ReadersSame, Zenon
<1> QED
  BY <1>11, <1>12, <1>14, <1>15, <1>16, <1>17, <1>18, <1>19, Zenon DEF IInv

\* The selector is stored: nobody sees a method yet.
LEMMA InsertKeyKeeps ==
  ASSUME Constants, IInv, InsertKey
  PROVE  IInv'
<1>1. ArrayTyping /\ ArraysOK /\ WriterTyping /\ BoundOK /\ WriterOK /\ TallyOK /\ ReadersOK
  BY Zenon DEF IInv
<1>2. /\ wpc = "key" /\ wpc' = "method"
      /\ caps' = caps /\ methodAt' = methodAt /\ array' = array /\ tally' = tally
      /\ wsel' = wsel /\ wmethod' = wmethod
      /\ UNCHANGED <<readerVars, seen>> /\ bound' = bound /\ inserts' = inserts
  BY Zenon DEF InsertKey
<1>3. /\ wpc' # "rehash" /\ wpc' \in {"method", "tally"} /\ wpc \notin {"method", "tally"}
      /\ wpc \in {"load", "rehash", "key"} /\ wpc \in {"load", "rehash", "key", "method"}
      /\ wpc \in {"key", "method", "tally"} /\ wpc' \notin {"load", "rehash", "key"}
  BY <1>2
<1>4. PICK k, f, m, cap, s, g : /\ k = array /\ f = selAt[k] /\ m = methodAt[k] /\ cap = caps[k]
                                /\ s = wsel /\ g = selAt'[k]
  BY Zenon
<1>5. k \in 1 .. Len(caps)
  BY <1>1, <1>4, Zenon DEF WriterTyping
<1>6. /\ cap \in Nat \ {0} /\ TableOK(f, m, cap)
      /\ f \in [0 .. (cap - 1) -> Selectors \cup {0}] /\ m \in [0 .. (cap - 1) -> Nat]
  BY <1>1, <1>4, <1>5, Shape, Zenon
<1>7. s \in Selectors /\ \A q \in 0 .. (cap - 1) : f[q] # s
  BY <1>1, <1>3, <1>4, Zenon DEF WriterOK, Slots
<1>8. PICK p \in 0 .. (cap - 1) : Ends(k, s, p) /\ StoredIn(selAt, selAt', k, p, s) /\ wi' = p
  BY <1>4, Zenon DEF InsertKey, Slots, StoredIn
<1>9. Reaches(f, cap, s, p)
  BY <1>4, <1>8, EndsReaches, Zenon
<1>10. f[p] = 0
  BY <1>7, <1>9, Zenon DEF Reaches
<1>11. /\ HasArray(selAt', Selectors \cup {0}, k, cap) /\ SameBut(selAt, selAt', k)
       /\ Stored(selAt[k], selAt'[k], cap, p, s)
  <2>1. HasArray(selAt, Selectors \cup {0}, k, cap) /\ cap \in Nat /\ s \in Selectors \cup {0}
    BY <1>1, <1>4, <1>5, <1>6, <1>7, Zenon DEF HasArray, ArrayTyping
  <2> QED
    BY <1>8, <2>1, Put, Zenon
<1>12. g \in [0 .. (cap - 1) -> Selectors \cup {0}] /\ Stored(f, g, cap, p, s)
  BY <1>4, <1>11, Zenon DEF HasArray
<1>13. g[p] = s /\ \A q \in 0 .. (cap - 1) : q # p => g[q] = f[q]
  BY <1>12, Zenon DEF Stored
<1>14. /\ TableOK(g, m, cap)
       /\ \A M : \A t \in Selectors : Gives(f, m, cap, t, M) => Gives(g, m, cap, t, M)
       /\ \A t \in Selectors, i \in 0 .. cap : Passed(f, cap, t, i) => Passed(g, cap, t, i)
  BY <1>6, <1>7, <1>9, <1>10, <1>12, StoreKey, Zenon
<1>15. \A l \in 1 .. Len(caps) : l # k => selAt'[l] = selAt[l]
  BY <1>1, <1>11, Zenon DEF SameBut, ArrayTyping
<1>16. ArrayTyping'
  BY <1>1, <1>2, <1>11, Zenon DEF ArrayTyping, HasArray, SameBut
<1>17. ArraysOK'
  <2> SUFFICES ASSUME NEW l \in 1 .. Len(caps) PROVE TableOK(selAt'[l], methodAt[l], caps[l])
    BY <1>2, Zenon DEF ArraysOK
  <2>1. CASE l = k
    BY <1>4, <1>14, <2>1, Zenon
  <2>2. CASE l # k
    BY <1>1, <1>15, <2>2, Zenon DEF ArraysOK
  <2> QED
    BY <2>1, <2>2, Zenon
<1>18. WriterTyping'
  <2>1. p \in Nat
    OBVIOUS
  <2> QED
    BY <1>1, <1>2, <1>8, <2>1, Zenon DEF WriterTyping
<1>19. BoundOK'
  <2> SUFFICES ASSUME NEW t \in Selectors PROVE Gives(g, m, cap, t, {bound[t]})
    BY <1>2, <1>4, Zenon DEF BoundOK
  <2>1. Gives(f, m, cap, t, {bound[t]})
    BY <1>1, <1>4, Zenon DEF BoundOK
  <2> QED
    BY <1>14, <2>1, Zenon
<1>20. WriterOK'
  BY <1>2, <1>3, <1>4, <1>7, <1>8, <1>13, Zenon DEF WriterOK, Slots
<1>21. RehashOK'
  BY <1>3, Zenon DEF RehashOK
<1>22. TallyOK'
  <2>1. Cardinality(Taken(f, cap)) = tally /\ tally < cap /\ tally + 1 < cap
    BY <1>1, <1>3, <1>4, Zenon DEF TallyOK
  <2>2. s # 0
    BY <1>7, Zenon DEF Constants
  <2>3. Cardinality(Taken(g, cap)) = Cardinality(Taken(f, cap)) + 1
    BY <1>6, <1>10, <1>12, <2>2, FillCounts
  <2> QED
    BY <1>2, <1>3, <1>4, <2>1, <2>3, Zenon DEF TallyOK
<1>23. ReaderTyping' /\ ReadersOK'
  <2>1. ASSUME NEW r \in Readers, rpc[r] \in {"probe", "method"} PROVE Keeps(rarray[r], rsel[r], seen[r])
    <3>1. PICK l, t, M : l = rarray[r] /\ t = rsel[r] /\ M = seen[r]
      BY Zenon
    <3>2. l \in 1 .. Len(caps) /\ Gives(selAt[l], methodAt[l], caps[l], t, M)
      BY <1>1, <2>1, <3>1, Zenon DEF ReadersOK, ReaderOK
    <3>3. t \in Selectors
      <4>1. rpc[r] # "idle"
        BY <2>1
      <4> QED
        BY <1>1, <3>1, <4>1, Zenon DEF ReadersOK, ReaderOK
    <3>4. CASE l # k
      <4>1. selAt'[l] = selAt[l]
        BY <1>15, <3>2, <3>4, Zenon
      <4>2. Keeps(l, t, M)
        BY <1>2, <1>3, <3>2, <4>1, Zenon DEF Keeps
      <4> QED
        BY <3>1, <4>2, Zenon
    <3>5. CASE l = k
      <4>1. Gives(g, m, cap, t, M)
        BY <1>4, <1>14, <3>2, <3>3, <3>5, Zenon
      <4>2. \A q \in 0 .. (cap - 1) : f[q] = t => g[q] = t
        BY <1>10, <1>13, <3>3, Zenon DEF Constants
      <4>3. Keeps(l, t, M)
        BY <1>2, <1>3, <1>4, <1>14, <3>2, <3>3, <3>5, <4>1, <4>2, Zenon DEF Keeps
      <4> QED
        BY <3>1, <4>3, Zenon
    <3> QED
      BY <3>4, <3>5, Zenon
  <2> QED
    BY <1>2, <2>1, ReadersKept, Zenon
<1> QED
  BY <1>16, <1>17, <1>18, <1>19, <1>20, <1>21, <1>22, <1>23, Zenon DEF IInv

----------------------------------------------------------------------------
(* The lookup.                                                             *)

\* The parts of the invariant that a lookup does not touch.
LEMMA LookupLeaves ==
  ASSUME IInv, UNCHANGED <<arrayVars, array, tally, writerVars, bound, inserts>>
  PROVE  /\ ArrayTyping' /\ ArraysOK' /\ WriterTyping' /\ BoundOK' /\ WriterOK' /\ RehashOK' /\ TallyOK'
         /\ caps' = caps /\ selAt' = selAt /\ methodAt' = methodAt /\ array' = array /\ wpc' = wpc
<1>1. /\ caps' = caps /\ selAt' = selAt /\ methodAt' = methodAt /\ array' = array /\ tally' = tally
      /\ wpc' = wpc /\ wsel' = wsel /\ wmethod' = wmethod /\ wi' = wi /\ bound' = bound /\ inserts' = inserts
  BY Zenon DEF arrayVars, writerVars
<1>2. ArrayTyping' /\ ArraysOK'
  BY <1>1, Zenon DEF IInv, ArrayTyping, ArraysOK
<1>3. WriterTyping' /\ BoundOK'
  BY <1>1, Zenon DEF IInv, WriterTyping, BoundOK
<1>4. WriterOK' /\ RehashOK'
  BY <1>1, Zenon DEF IInv, WriterOK, RehashOK, Slots
<1>5. TallyOK'
  BY <1>1, Zenon DEF IInv, TallyOK
<1> QED
  BY <1>1, <1>2, <1>3, <1>4, <1>5, Zenon

\* The other lookups.
LEMMA OtherReader ==
  ASSUME NEW r, ReaderOK(r), UNCHANGED <<arrayVars, wpc>>, rpc'[r] = rpc[r], rsel'[r] = rsel[r],
         rarray'[r] = rarray[r], ri'[r] = ri[r], result'[r] = result[r], seen'[r] = seen[r]
  PROVE  ReaderOK(r)'
<1>1. caps' = caps /\ selAt' = selAt /\ methodAt' = methodAt /\ wpc' = wpc
  BY Zenon DEF arrayVars
<1> QED
  BY <1>1, Zenon DEF ReaderOK, Slots

\* A lookup starts in the dictionary's array, with what is bound now.
LEMMA LookupBeginKeeps ==
  ASSUME Constants, IInv, NEW r \in Readers, NEW sel \in Selectors, LookupBegin(r, sel)
  PROVE  IInv'
<1>1. ArrayTyping /\ ArraysOK /\ WriterTyping /\ ReaderTyping /\ BoundOK /\ RehashOK /\ ReadersOK
  BY Zenon DEF IInv
<1>2. /\ rpc' = [rpc EXCEPT ![r] = "probe"] /\ rsel' = [rsel EXCEPT ![r] = sel]
      /\ rarray' = [rarray EXCEPT ![r] = array] /\ ri' = [ri EXCEPT ![r] = 0]
      /\ seen' = [seen EXCEPT ![r] = {bound[sel]}] /\ result' = result
      /\ UNCHANGED <<arrayVars, array, tally, writerVars, bound, inserts>>
  BY Zenon DEF LookupBegin
<1>3. /\ ArrayTyping' /\ ArraysOK' /\ WriterTyping' /\ BoundOK' /\ WriterOK' /\ RehashOK' /\ TallyOK'
      /\ caps' = caps /\ selAt' = selAt /\ methodAt' = methodAt /\ array' = array /\ wpc' = wpc
  BY <1>2, LookupLeaves, Zenon
<1>4. array \in 1 .. Len(caps) /\ array \in Nat /\ bound[sel] \in Nat
  BY <1>1 DEF WriterTyping
<1>5. ReaderTyping'
  BY <1>1, <1>2, <1>4 DEF ReaderTyping
<1>6. /\ rpc'[r] = "probe" /\ rsel'[r] = sel /\ rarray'[r] = array /\ ri'[r] = 0
      /\ seen'[r] = {bound[sel]}
  BY <1>1, <1>2 DEF ReaderTyping
<1>7. \A t \in Readers : t # r =>
        /\ rpc'[t] = rpc[t] /\ rsel'[t] = rsel[t] /\ rarray'[t] = rarray[t] /\ ri'[t] = ri[t]
        /\ result'[t] = result[t] /\ seen'[t] = seen[t]
  BY <1>1, <1>2 DEF ReaderTyping
<1>8. Gives(selAt[array], methodAt[array], caps[array], sel, {bound[sel]})
  BY <1>1, Zenon DEF BoundOK
<1>9. wpc = "rehash" => array # Len(caps)
  BY <1>1, <1>4 DEF RehashOK
<1>10. 0 <= caps[array] /\ 0 .. (0 - 1) = {}
  <2>1. caps[array] \in Nat
    BY <1>1, <1>4, Shape, Zenon
  <2> QED
    BY <2>1
<1>11. Passed(selAt[array], caps[array], sel, 0)
  BY <1>10, Zenon DEF Passed
<1>12. rpc'[r] # "method" /\ rpc'[r] # "done"
  BY <1>6
<1>13. ReaderOK(r)'
  BY <1>3, <1>4, <1>6, <1>8, <1>9, <1>10, <1>11, <1>12, Zenon DEF ReaderOK
<1>14. ReadersOK'
  <2> SUFFICES ASSUME NEW t \in Readers PROVE ReaderOK(t)'
    BY Zenon DEF ReadersOK
  <2>1. CASE t = r
    BY <1>13, <2>1, Zenon
  <2>2. CASE t # r
    <3>1. UNCHANGED <<arrayVars, wpc>> /\ ReaderOK(t)
      BY <1>1, <1>2, <1>3, Zenon DEF ReadersOK
    <3> QED
      BY <1>7, <2>2, <3>1, OtherReader, Zenon
  <2> QED
    BY <2>1, <2>2, Zenon
<1> QED
  BY <1>3, <1>5, <1>14, Zenon DEF IInv

\* A lookup answers with m.
LEMMA AnswerKeeps ==
  ASSUME Constants, IInv, NEW r \in Readers, rpc[r] # "idle", NEW m \in Nat, m \in seen[r], Answer(r, m),
         UNCHANGED <<arrayVars, array, tally, writerVars, rsel, bound, seen, inserts, lookups>>
  PROVE  IInv'
<1>1. ReaderTyping /\ ReadersOK
  BY Zenon DEF IInv
<1>2. /\ rpc' = [rpc EXCEPT ![r] = "done"] /\ rsel' = rsel
      /\ rarray' = [rarray EXCEPT ![r] = 0] /\ ri' = [ri EXCEPT ![r] = 0]
      /\ seen' = seen /\ result' = [result EXCEPT ![r] = m]
      /\ UNCHANGED <<arrayVars, array, tally, writerVars, bound, inserts>>
  BY Zenon DEF Answer
<1>3. /\ ArrayTyping' /\ ArraysOK' /\ WriterTyping' /\ BoundOK' /\ WriterOK' /\ RehashOK' /\ TallyOK'
      /\ caps' = caps /\ selAt' = selAt /\ methodAt' = methodAt /\ array' = array /\ wpc' = wpc
  BY <1>2, LookupLeaves, Zenon
<1>4. ReaderTyping'
  BY <1>1, <1>2 DEF ReaderTyping
<1>5. rpc'[r] = "done" /\ result'[r] = m
  BY <1>1, <1>2 DEF ReaderTyping
<1>6. \A t \in Readers : t # r =>
        /\ rpc'[t] = rpc[t] /\ rsel'[t] = rsel[t] /\ rarray'[t] = rarray[t] /\ ri'[t] = ri[t]
        /\ result'[t] = result[t] /\ seen'[t] = seen[t]
  BY <1>1, <1>2 DEF ReaderTyping
<1>7. rsel[r] \in Selectors
  BY <1>1, Zenon DEF ReadersOK, ReaderOK
<1>8. rpc'[r] \notin {"probe", "method"} /\ rpc'[r] # "probe" /\ rpc'[r] # "method"
  BY <1>5
<1>9. ReaderOK(r)'
  BY <1>2, <1>5, <1>7, <1>8, Zenon DEF ReaderOK
<1>10. ReadersOK'
  <2> SUFFICES ASSUME NEW t \in Readers PROVE ReaderOK(t)'
    BY Zenon DEF ReadersOK
  <2>1. CASE t = r
    BY <1>9, <2>1, Zenon
  <2>2. CASE t # r
    <3>1. UNCHANGED <<arrayVars, wpc>> /\ ReaderOK(t)
      BY <1>1, <1>2, <1>3, Zenon DEF ReadersOK
    <3> QED
      BY <1>6, <2>2, <3>1, OtherReader, Zenon
  <2> QED
    BY <2>1, <2>2, Zenon
<1> QED
  BY <1>3, <1>4, <1>10, Zenon DEF IInv

\* A lookup answers with the method next to its selector.
LEMMA LookupMethodKeeps ==
  ASSUME Constants, IInv, NEW r \in Readers, LookupMethod(r)
  PROVE  IInv'
<1>1. ArrayTyping /\ ArraysOK /\ ReaderTyping /\ ReadersOK
  BY Zenon DEF IInv
<1>2. /\ rpc[r] = "method" /\ Answer(r, methodAt[rarray[r]][ri[r]])
      /\ UNCHANGED <<arrayVars, array, tally, writerVars, rsel, bound, seen, inserts, lookups>>
  BY Zenon DEF LookupMethod
<1>3. PICK l, s, M, p : l = rarray[r] /\ s = rsel[r] /\ M = seen[r] /\ p = ri[r]
  BY Zenon
<1>4. rpc[r] # "idle" /\ rpc[r] \in {"probe", "method"}
  BY <1>2
<1>5. l \in 1 .. Len(caps) /\ Gives(selAt[l], methodAt[l], caps[l], s, M)
  BY <1>1, <1>3, <1>4, Zenon DEF ReadersOK, ReaderOK
<1>6. p \in 0 .. (caps[l] - 1) /\ selAt[l][p] = s
  BY <1>1, <1>2, <1>3, Zenon DEF ReadersOK, ReaderOK, Slots
<1>7. methodAt[l][p] \in M
  BY <1>5, <1>6, Zenon DEF Gives
<1>8. methodAt[l][p] \in Nat
  <2>1. methodAt[l] \in [0 .. (caps[l] - 1) -> Nat]
    BY <1>1, <1>5, Shape, Zenon
  <2> QED
    BY <1>6, <2>1, Zenon
<1>9. PICK m \in Nat : m = methodAt[rarray[r]][ri[r]] /\ m \in seen[r]
  BY <1>3, <1>7, <1>8, Zenon
<1>10. Answer(r, m)
  BY <1>2, <1>9, Zenon
<1> QED
  BY <1>2, <1>4, <1>9, <1>10, AnswerKeeps, Zenon

\* A lookup is over.
LEMMA LookupEndKeeps ==
  ASSUME Constants, IInv, NEW r \in Readers, LookupEnd(r)
  PROVE  IInv'
<1>1. ReaderTyping /\ ReadersOK
  BY Zenon DEF IInv
<1>2. /\ rpc' = [rpc EXCEPT ![r] = "idle"] /\ rsel' = [rsel EXCEPT ![r] = 0]
      /\ rarray' = rarray /\ ri' = ri
      /\ seen' = [seen EXCEPT ![r] = {}] /\ result' = [result EXCEPT ![r] = 0]
      /\ UNCHANGED <<arrayVars, array, tally, writerVars, bound, inserts>>
  BY Zenon DEF LookupEnd
<1>3. /\ ArrayTyping' /\ ArraysOK' /\ WriterTyping' /\ BoundOK' /\ WriterOK' /\ RehashOK' /\ TallyOK'
      /\ caps' = caps /\ selAt' = selAt /\ methodAt' = methodAt /\ array' = array /\ wpc' = wpc
  BY <1>2, LookupLeaves, Zenon
<1>4. ReaderTyping'
  BY <1>1, <1>2 DEF ReaderTyping
<1>5. rpc'[r] = "idle"
  BY <1>1, <1>2 DEF ReaderTyping
<1>6. \A t \in Readers : t # r =>
        /\ rpc'[t] = rpc[t] /\ rsel'[t] = rsel[t] /\ rarray'[t] = rarray[t] /\ ri'[t] = ri[t]
        /\ result'[t] = result[t] /\ seen'[t] = seen[t]
  BY <1>1, <1>2 DEF ReaderTyping
<1>7. /\ rpc'[r] \notin {"probe", "method"} /\ rpc'[r] # "probe" /\ rpc'[r] # "method" /\ rpc'[r] # "done"
  BY <1>5
<1>8. ReaderOK(r)'
  BY <1>5, <1>7, Zenon DEF ReaderOK
<1>9. ReadersOK'
  <2> SUFFICES ASSUME NEW t \in Readers PROVE ReaderOK(t)'
    BY Zenon DEF ReadersOK
  <2>1. CASE t = r
    BY <1>8, <2>1, Zenon
  <2>2. CASE t # r
    <3>1. UNCHANGED <<arrayVars, wpc>> /\ ReaderOK(t)
      BY <1>1, <1>2, <1>3, Zenon DEF ReadersOK
    <3> QED
      BY <1>6, <2>2, <3>1, OtherReader, Zenon
  <2> QED
    BY <2>1, <2>2, Zenon
<1> QED
  BY <1>3, <1>4, <1>9, Zenon DEF IInv

\* A lookup goes on in its array.
LEMMA LookupMoves ==
  ASSUME IInv, NEW r \in Readers, ReaderTyping', ReaderOK(r)',
         UNCHANGED <<arrayVars, array, tally, writerVars, rsel, bound, seen, inserts>>,
         \A t \in Readers : t # r =>
           rpc'[t] = rpc[t] /\ rarray'[t] = rarray[t] /\ ri'[t] = ri[t] /\ result'[t] = result[t]
  PROVE  IInv'
<1>1. /\ ArrayTyping' /\ ArraysOK' /\ WriterTyping' /\ BoundOK' /\ WriterOK' /\ RehashOK' /\ TallyOK'
      /\ wpc' = wpc
  BY LookupLeaves, Zenon
<1>2. ReadersOK'
  <2> SUFFICES ASSUME NEW t \in Readers PROVE ReaderOK(t)'
    BY Zenon DEF ReadersOK
  <2>1. CASE t = r
    BY <2>1, Zenon
  <2>2. CASE t # r
    <3>1. UNCHANGED <<arrayVars, wpc>> /\ ReaderOK(t) /\ rsel'[t] = rsel[t] /\ seen'[t] = seen[t]
      BY <1>1, Zenon DEF IInv, ReadersOK
    <3> QED
      BY <2>2, <3>1, OtherReader, Zenon
  <2> QED
    BY <2>1, <2>2, Zenon
<1> QED
  BY <1>1, <1>2, Zenon DEF IInv

\* One slot of a lookup: it answers, finds the selector or goes on.
LEMMA LookupProbeKeeps ==
  ASSUME Constants, IInv, NEW r \in Readers, LookupProbe(r)
  PROVE  IInv'
<1>1. ArrayTyping /\ ArraysOK /\ ReaderTyping /\ ReadersOK
  BY Zenon DEF IInv
<1>2. PICK l, s, M, i, f, m, cap :
        /\ l = rarray[r] /\ s = rsel[r] /\ M = seen[r] /\ i = ri[r]
        /\ f = selAt[l] /\ m = methodAt[l] /\ cap = caps[l]
  BY Zenon
<1>3. PICK p : p = At(cap, s, i)
  BY Zenon
<1>4. Pos(l, s, i) = p
  BY <1>2, <1>3, Zenon DEF Pos, At
<1>5. /\ rpc[r] = "probe"
      /\ UNCHANGED <<arrayVars, array, tally, writerVars, rsel, bound, seen, inserts, lookups>>
      /\ \/ (i = cap \/ f[p] = 0) /\ Answer(r, 0)
         \/ /\ i < cap /\ f[p] = s
            /\ rpc' = [rpc EXCEPT ![r] = "method"] /\ ri' = [ri EXCEPT ![r] = p]
            /\ rarray' = [rarray EXCEPT ![r] = l] /\ UNCHANGED result
         \/ /\ i < cap /\ f[p] \notin {0, s}
            /\ ri' = [ri EXCEPT ![r] = @ + 1] /\ UNCHANGED <<rpc, rarray, result>>
  BY <1>2, <1>4, Zenon DEF LookupProbe, ProbeIn
<1>6. rpc[r] # "idle" /\ rpc[r] \in {"probe", "method"}
  BY <1>5
<1>7. /\ s \in Selectors /\ l \in 1 .. Len(caps) /\ (wpc = "rehash" => l # Len(caps))
      /\ Gives(f, m, cap, s, M) /\ i <= cap /\ Passed(f, cap, s, i)
  BY <1>1, <1>2, <1>5, <1>6, Zenon DEF ReadersOK, ReaderOK
<1>8. cap \in Nat \ {0} /\ TableOK(f, m, cap)
  BY <1>1, <1>2, <1>7, Shape, Zenon
<1>9. i \in Nat
  BY <1>1, <1>2, Zenon DEF ReaderTyping
<1>10. i \in 0 .. cap
  BY <1>7, <1>8, <1>9
<1>11. s # 0 /\ p \in 0 .. (cap - 1)
  BY <1>3, <1>7, <1>8, <1>9, AtRange, Zenon DEF Constants
<1>12. /\ caps' = caps /\ selAt' = selAt /\ methodAt' = methodAt /\ wpc' = wpc /\ rsel' = rsel /\ seen' = seen
       /\ UNCHANGED <<arrayVars, array, tally, writerVars, rsel, bound, seen, inserts>>
  BY <1>5, Zenon DEF arrayVars, writerVars
<1>13. CASE (i = cap \/ f[p] = 0) /\ Answer(r, 0)
  <2>1. \A q \in 0 .. (cap - 1) : f[q] # s
    BY <1>3, <1>7, <1>8, <1>10, <1>11, <1>13, Absent, Zenon
  <2>2. 0 \in seen[r]
    BY <1>2, <1>7, <2>1, Zenon DEF Gives
  <2>3. 0 \in Nat
    OBVIOUS
  <2> QED
    BY <1>5, <1>6, <1>13, <2>2, <2>3, AnswerKeeps, Zenon
<1>14. CASE /\ i < cap /\ f[p] = s
            /\ rpc' = [rpc EXCEPT ![r] = "method"] /\ ri' = [ri EXCEPT ![r] = p]
            /\ rarray' = [rarray EXCEPT ![r] = l] /\ UNCHANGED result
  <2>1. p \in Nat /\ l \in Nat
    BY <1>7, <1>8, <1>11
  <2>2. ReaderTyping'
    BY <1>1, <1>12, <1>14, <2>1 DEF ReaderTyping
  <2>3. rpc'[r] = "method" /\ ri'[r] = p /\ rarray'[r] = l
    BY <1>1, <1>14 DEF ReaderTyping
  <2>4. \A t \in Readers : t # r =>
          rpc'[t] = rpc[t] /\ rarray'[t] = rarray[t] /\ ri'[t] = ri[t] /\ result'[t] = result[t]
    BY <1>1, <1>14 DEF ReaderTyping
  <2>5. rpc'[r] # "probe" /\ rpc'[r] # "done"
    BY <2>3
  <2>6. ReaderOK(r)'
    BY <1>2, <1>7, <1>11, <1>12, <1>14, <2>3, <2>5, Zenon DEF ReaderOK, Slots
  <2> QED
    BY <1>12, <2>2, <2>4, <2>6, LookupMoves, Zenon
<1>15. CASE /\ i < cap /\ f[p] \notin {0, s}
            /\ ri' = [ri EXCEPT ![r] = @ + 1] /\ UNCHANGED <<rpc, rarray, result>>
  <2>1. ReaderTyping'
    BY <1>1, <1>12, <1>15 DEF ReaderTyping
  <2>2. ri'[r] = i + 1 /\ rpc'[r] = "probe" /\ rarray'[r] = l
    BY <1>1, <1>2, <1>5, <1>15 DEF ReaderTyping
  <2>3. \A t \in Readers : t # r =>
          rpc'[t] = rpc[t] /\ rarray'[t] = rarray[t] /\ ri'[t] = ri[t] /\ result'[t] = result[t]
    BY <1>1, <1>15 DEF ReaderTyping
  <2>0. PICK n : n = i + 1
    BY Zenon
  <2>4. n <= cap /\ 0 .. (n - 1) = (0 .. (i - 1)) \cup {i}
    BY <1>8, <1>9, <1>15, <2>0
  <2>5. Passed(f, cap, s, n)
    <3> SUFFICES ASSUME NEW j \in 0 .. (n - 1) PROVE f[At(cap, s, j)] \notin {0, s}
      BY Zenon DEF Passed
    <3>1. CASE j = i
      BY <1>3, <1>15, <3>1, Zenon
    <3>2. CASE j \in 0 .. (i - 1)
      BY <1>7, <3>2, Zenon DEF Passed
    <3> QED
      BY <2>4, <3>1, <3>2, Zenon
  <2>6. rpc'[r] # "method" /\ rpc'[r] # "done"
    BY <2>2
  <2>7. ReaderOK(r)'
    BY <1>2, <1>7, <1>12, <2>0, <2>2, <2>4, <2>5, <2>6, Zenon DEF ReaderOK
  <2> QED
    BY <1>12, <2>1, <2>3, <2>7, LookupMoves, Zenon
<1> QED
  BY <1>5, <1>13, <1>14, <1>15, Zenon

----------------------------------------------------------------------------
(* The theorems.                                                           *)

\* The invariant holds of the dictionary that sta_method_dict_create makes.
LEMMA InitIInv ==
  ASSUME Constants, Init
  PROVE  IInv
<1>1. PICK c, g : c = FirstCap /\ g = Blank(c)
  BY Zenon
<1>2. c \in Nat \ {0} /\ c \in Nat
  BY <1>1 DEF FirstCap, Constants
<1>3. /\ g \in [0 .. (c - 1) -> Selectors \cup {0}] /\ g \in [0 .. (c - 1) -> Nat]
      /\ TableOK(g, g, c) /\ Taken(g, c) = {} /\ \A s, M : s # 0 /\ 0 \in M => Gives(g, g, c, s, M)
  BY <1>1, <1>2, BlankOK, Zenon
<1>4. /\ caps = <<c>> /\ selAt = <<g>> /\ methodAt = <<g>> /\ array = 1 /\ tally = 0
      /\ wpc = "idle" /\ wmethod = 0 /\ wi = 0 /\ inserts = 0 /\ bound = [s \in Selectors |-> 0]
  BY <1>1, Zenon DEF Init
<1>5. /\ Len(caps) = 1 /\ Len(selAt) = 1 /\ Len(methodAt) = 1
      /\ caps[1] = c /\ selAt[1] = g /\ methodAt[1] = g
  BY <1>4
<1>6. ArrayTyping
  <2>1. g \in Table(Selectors \cup {0}) /\ g \in Table(Nat)
    BY <1>2, <1>3, Zenon DEF Table
  <2>2. \A S, x : x \in S => <<x>> \in Seq(S)
    OBVIOUS
  <2> QED
    BY <1>2, <1>4, <1>5, <2>1, <2>2, Zenon DEF ArrayTyping
<1>7. \A k \in 1 .. Len(caps) : k = 1
  BY <1>5
<1>8. ArraysOK
  BY <1>3, <1>5, <1>7, Zenon DEF ArraysOK
<1>9. WriterTyping
  <2>1. array \in 1 .. Len(caps) /\ 0 \in Nat
    BY <1>4, <1>5
  <2>2. bound \in [Selectors -> Nat]
    BY <1>4
  <2> QED
    BY <1>4, <2>1, <2>2, Zenon DEF WriterTyping
<1>10. BoundOK
  <2> SUFFICES ASSUME NEW s \in Selectors PROVE Gives(g, g, c, s, {bound[s]})
    BY <1>4, <1>5, Zenon DEF BoundOK
  <2>1. s # 0 /\ bound[s] = 0
    BY <1>4, Zenon DEF Constants
  <2> QED
    BY <1>3, <2>1, Zenon
<1>11. WriterOK /\ RehashOK
  BY <1>4 DEF WriterOK, RehashOK
<1>12. TallyOK
  <2>1. Cardinality(Taken(selAt[array], caps[array])) = 0
    BY <1>3, <1>4, <1>5, FS_EmptySet, Zenon
  <2>2. wpc \notin {"method", "tally"} /\ wpc \notin {"key", "method", "tally"}
    BY <1>4
  <2>3. tally < caps[array]
    BY <1>2, <1>4, <1>5
  <2> QED
    BY <1>4, <2>1, <2>2, <2>3, Zenon DEF TallyOK
<1>13. ReaderTyping
  BY DEF Init, ReaderTyping
<1>14. ReadersOK
  <2> SUFFICES ASSUME NEW r \in Readers PROVE ReaderOK(r)
    BY Zenon DEF ReadersOK
  <2>1. rpc[r] = "idle"
    BY Zenon DEF Init
  <2>2. rpc[r] \notin {"probe", "method"} /\ rpc[r] # "probe" /\ rpc[r] # "method" /\ rpc[r] # "done"
    BY <2>1
  <2> QED
    BY <2>1, <2>2, Zenon DEF ReaderOK
<1> QED
  BY <1>6, <1>8, <1>9, <1>10, <1>11, <1>12, <1>13, <1>14, Zenon DEF IInv

\* Every step of the insertion and of a lookup keeps the invariant.
LEMMA StepKeeps ==
  ASSUME Constants, IInv, [Next]_vars
  PROVE  IInv'
<1>1. CASE Insert
  BY <1>1, InsertFindKeeps, InsertFitsKeeps, InsertNoMemKeeps, InsertGrowKeeps, InsertRehashKeeps,
     InsertPublishKeeps, InsertKeyKeeps, InsertMethodKeeps, InsertTallyKeeps, Zenon DEF Insert
<1>2. CASE \E r \in Readers : Lookup(r)
  BY <1>2, LookupBeginKeeps, LookupProbeKeeps, LookupMethodKeeps, LookupEndKeeps, Zenon DEF Lookup
<1>3. CASE UNCHANGED vars
  <2>1. /\ UNCHANGED <<arrayVars, array, tally, writerVars, bound, inserts>>
        /\ rpc' = rpc /\ rsel' = rsel /\ rarray' = rarray /\ ri' = ri /\ result' = result /\ seen' = seen
    BY <1>3, Zenon DEF vars, readerVars
  <2>2. /\ ArrayTyping' /\ ArraysOK' /\ WriterTyping' /\ BoundOK' /\ WriterOK' /\ RehashOK' /\ TallyOK'
        /\ wpc' = wpc
    BY <2>1, LookupLeaves, Zenon
  <2>3. ReaderTyping'
    BY <2>1, Zenon DEF IInv, ReaderTyping
  <2>4. ReadersOK'
    <3> SUFFICES ASSUME NEW r \in Readers PROVE ReaderOK(r)'
      BY Zenon DEF ReadersOK
    <3>1. ReaderOK(r) /\ UNCHANGED <<arrayVars, wpc>>
      BY <2>1, <2>2, Zenon DEF IInv, ReadersOK
    <3> QED
      BY <2>1, <3>1, OtherReader, Zenon
  <2> QED
    BY <2>2, <2>3, <2>4, Zenon DEF IInv
<1> QED
  BY <1>1, <1>2, <1>3, Zenon DEF Next

\* What the invariant says of the tally: raw_insert always finds a slot.
LEMMA RoomForEach ==
  ASSUME Constants, IInv
  PROVE  TallyLeavesRoom
<1>1. ArrayTyping /\ ArraysOK /\ WriterTyping /\ WriterOK /\ RehashOK /\ TallyOK
  BY Zenon DEF IInv
<1>2. PICK f, m, cap : f = selAt[array] /\ m = methodAt[array] /\ cap = caps[array]
  BY Zenon
<1>3. array \in 1 .. Len(caps) /\ tally \in Nat
  BY <1>1, Zenon DEF WriterTyping
<1>4. cap \in Nat \ {0} /\ TableOK(f, m, cap) /\ f \in [0 .. (cap - 1) -> Selectors \cup {0}]
  BY <1>1, <1>2, <1>3, Shape, Zenon
<1>5. ASSUME wpc = "idle"
      PROVE  tally = Cardinality({p \in Slots(array) : selAt[array][p] # 0}) /\ tally < caps[array]
  <2>1. wpc \notin {"method", "tally"}
    BY <1>5
  <2> QED
    BY <1>1, <2>1, Zenon DEF TallyOK, Taken, Slots
<1>6. ASSUME wpc = "key"
      PROVE  \E p \in Slots(array) : Ends(array, wsel, p)
  <2>1. wpc \notin {"method", "tally"} /\ wpc \in {"load", "rehash", "key", "method"}
    BY <1>6
  <2>2. Cardinality(Taken(f, cap)) < cap /\ wsel \in Selectors
    BY <1>1, <1>2, <2>1, Zenon DEF TallyOK, WriterOK
  <2>3. PICK p \in 0 .. (cap - 1) : Reaches(f, cap, wsel, p)
    BY <1>4, <2>2, Room, Zenon
  <2> QED
    BY <1>2, <2>3, EndsReaches, Zenon DEF Slots
<1>7. ASSUME wpc = "rehash", wi < caps[array], selAt[array][wi] # 0
      PROVE  \E p \in Slots(Len(caps)) : Ends(Len(caps), selAt[array][wi], p)
  <2>1. wpc \notin {"method", "tally"}
    BY <1>7
  <2>2. PICK n, g, m2, c, i, s : /\ n = Len(caps) /\ g = selAt[n] /\ m2 = methodAt[n] /\ c = caps[n]
                                 /\ i = wi /\ s = f[i]
    BY Zenon
  <2>3. c = 2 * cap /\ i <= cap /\ Copied(g, m2, c, f, m, i)
    BY <1>1, <1>2, <1>7, <2>2, Zenon DEF RehashOK
  <2>4. i \in Nat /\ n \in 1 .. Len(caps)
    BY <1>1, <1>3, <2>2 DEF WriterTyping, ArrayTyping
  <2>5. g \in [0 .. (c - 1) -> Selectors \cup {0}] /\ c \in Nat \ {0}
    BY <1>1, <2>2, <2>4, Shape, Zenon
  <2>6. i \in 0 .. (cap - 1)
    BY <1>2, <1>4, <1>7, <2>2, <2>4
  <2>7. s \in Selectors
    BY <1>2, <1>4, <1>7, <2>2, <2>6
  <2>8. Cardinality(Taken(f, i)) <= Cardinality(Taken(f, cap)) /\ Cardinality(Taken(f, i)) \in Nat
    <3>1. Taken(f, i) \subseteq Taken(f, cap)
      BY <1>4, <2>6 DEF Taken
    <3>2. IsFiniteSet(Taken(f, cap))
      BY <1>4, TakenFinite
    <3>3. IsFiniteSet(Taken(f, i)) /\ Cardinality(Taken(f, i)) <= Cardinality(Taken(f, cap))
      BY <3>1, <3>2, FS_Subset, Zenon
    <3> QED
      BY <3>3, FS_CardinalityType, Zenon
  <2>9. Cardinality(Taken(f, cap)) = tally /\ tally < cap
    BY <1>1, <1>2, <2>1, Zenon DEF TallyOK
  <2>10. Cardinality(Taken(g, c)) = Cardinality(Taken(f, i))
    BY <2>3, Zenon DEF Copied
  <2>11. Cardinality(Taken(g, c)) < c
    BY <1>3, <1>4, <2>3, <2>8, <2>9, <2>10
  <2>12. PICK p \in 0 .. (c - 1) : Reaches(g, c, s, p)
    BY <2>5, <2>7, <2>11, Room, Zenon
  <2> QED
    BY <1>2, <2>2, <2>12, EndsReaches, Zenon DEF Slots
<1> QED
  BY <1>5, <1>6, <1>7, Zenon DEF TallyLeavesRoom

\* The invariant that relates the arrays, the insertion under way and the
\* lookups, for any readers, selectors and hash: the order of the stores in
\* sta_method_dict_insert and raw_insert keeps it.
THEOREM DictionaryInvariant ==
  ASSUME Constants
  PROVE  Spec => []IInv
<1>1. Init => IInv
  BY InitIInv
<1>2. IInv /\ [Next]_vars => IInv'
  BY StepKeeps
<1> QED
  BY <1>1, <1>2, PTL DEF Spec

\* A lookup that races with installations and growth returns a method bound to
\* its selector during the lookup (sta_method_dict_lookup), the tally is exact
\* between insertions, and raw_insert never drops an entry for want of a slot.
THEOREM DictionaryCurrent ==
  ASSUME Constants
  PROVE  Spec => []MethodsCurrent
<1>1. IInv => MethodsCurrent
  <2> SUFFICES ASSUME IInv PROVE MethodsCurrent
    BY Zenon
  <2>1. LookupIsCurrent
    BY Zenon DEF IInv, ReadersOK, ReaderOK, LookupIsCurrent
  <2>2. TallyLeavesRoom
    BY RoomForEach, Zenon
  <2> QED
    BY <2>1, <2>2, Zenon DEF MethodsCurrent
<1> QED
  BY <1>1, DictionaryInvariant, PTL
=============================================================================
