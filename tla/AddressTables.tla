---------------------------- MODULE AddressTables ---------------------------
(***************************************************************************)
(* The tables keyed by object addresses that live for one operation and    *)
(* are never removed from: the forwarding table of the collector           *)
(* (src/gc/gc.c), the visited set of the deep copy                         *)
(* (src/actor/deep_copy.c) and the id map of the image writer              *)
(* (src/image/image.c).  Each is private to the thread that uses it.       *)
(***************************************************************************)
EXTENDS LinearProbing

CONSTANTS Objects,   \* addresses, none of them 0
          Hash,      \* per kind of table, the hash of an address
          InitCap,   \* the capacity a table starts with
          MaxCap     \* bound: calloc fails for larger tables

Kinds == {"forward", "visited", "ids"}
Missing == 0

VARIABLES kind,      \* which of the three tables this is
          keys, vals, count,
          lost,      \* objects flagged STA_GC_FORWARDED without an entry
          given      \* ghost: the value each address was entered with

vars == <<kind, keys, vals, count, lost, given>>

NewTable == [i \in 0 .. (InitCap - 1) |-> Missing]

Init ==
  /\ kind \in Kinds
  /\ keys = NewTable /\ vals = NewTable /\ count = 0
  /\ lost = {} /\ given = [o \in Objects |-> Missing]

Slot(ks, o, i) == (Hash[kind][o] + i) % Cap(ks)

\* How far the search for o goes in ks before it meets a slot with one of stops;
\* the capacity if it meets none.
Reach(ks, o, stops) ==
  LET hits == {i \in 0 .. (Cap(ks) - 1) : ks[Slot(ks, o, i)] \in stops}
  IN IF hits = {} THEN Cap(ks) ELSE Min(hits)

\* fwd_table_get, visited_get, id_map_get: the last has no bound on its loop, so
\* its search of a full table without the key would not end.
Ends(o) == kind = "ids" => Reach(keys, o, {Missing, o}) < Cap(keys)
Get(o) ==
  LET i == Reach(keys, o, {Missing, o})
  IN IF i = Cap(keys) \/ keys[Slot(keys, o, i)] = Missing THEN Missing ELSE vals[Slot(keys, o, i)]

Overloaded == IF kind = "ids" THEN (count + 1) * 10 > Cap(keys) * 7
              ELSE count * 100 >= Cap(keys) * 70

\* The table <<keys, values>> with o entered: id_map_put walks to an empty slot,
\* the others stop at the address itself too.
Entered(t, o, v) ==
  LET pos == Slot(t[1], o, Reach(t[1], o, IF kind = "ids" THEN {Missing} ELSE {Missing, o}))
  IN <<[t[1] EXCEPT ![pos] = o], [t[2] EXCEPT ![pos] = v]>>

\* Faulty: the rehash keeps the values where they were.
GrownKeysOnly(t) ==
  LET Move(fresh, i) == IF t[1][i - 1] = Missing THEN fresh ELSE Entered(fresh, t[1][i - 1], t[2][i - 1])
      blank == [i \in 0 .. (2 * Cap(t[1]) - 1) |-> Missing]
      moved == FoldLeft(Move, <<blank, blank>>, [i \in 1 .. Cap(t[1]) |-> i])
  IN <<moved[1], [i \in DOMAIN blank |-> IF i \in DOMAIN t[2] THEN t[2][i] ELSE Missing]>>

\* fwd_table_grow, visited_grow, id_map_grow
Grown(t) ==
  LET Move(fresh, i) == IF t[1][i - 1] = Missing THEN fresh ELSE Entered(fresh, t[1][i - 1], t[2][i - 1])
      blank == [i \in 0 .. (2 * Cap(t[1]) - 1) |-> Missing]
  IN FoldLeft(Move, <<blank, blank>>, [i \in 1 .. Cap(t[1]) |-> i])

\* Enter o in table t.
PutIn(t, o) ==
  LET v == count + 1
  IN \E r \in {Entered(t, o, v)} :
       /\ keys' = r[1] /\ vals' = r[2] /\ count' = count + 1
       /\ given' = [given EXCEPT ![o] = v]
       /\ UNCHANGED <<kind, lost>>

\* The callers look an address up first and enter it when it is missing:
\* gc_copy (objects without payload, by their flag), deep_copy_oop, the
\* traversal of sta_image_save_to_file.
Unmet(o) == Ends(o) /\ Get(o) = Missing /\ o \notin lost

Put(o) == Unmet(o) /\ ~Overloaded /\ PutIn(<<keys, vals>>, o)

PutGrow(o) ==
  /\ Unmet(o) /\ Overloaded /\ 2 * Cap(keys) <= MaxCap
  /\ \E t \in {Grown(<<keys, vals>>)} : PutIn(t, o)

\* The tables of the next operation: init after destroy.
NextOperation ==
  /\ kind' \in Kinds
  /\ keys' = NewTable /\ vals' = NewTable /\ count' = 0
  /\ lost' = {} /\ given' = [o \in Objects |-> Missing]

\* No memory for a larger table.  The deep copy and the image writer give up;
\* gc_copy does not look at the result, and has moved and flagged the object.
PutFails(o) ==
  /\ Unmet(o) /\ Overloaded /\ 2 * Cap(keys) > MaxCap
  /\ \/ kind # "forward" /\ NextOperation
     \/ /\ kind = "forward"
        /\ lost' = lost \cup {o}
        /\ given' = [given EXCEPT ![o] = count + Cardinality(lost) + 1]
        /\ UNCHANGED <<kind, keys, vals, count>>

\* An address met again.
Again(o) == Ends(o) /\ (Get(o) # Missing \/ o \in lost) /\ UNCHANGED vars

\* The operation is over.
Finish == count > 0 /\ NextOperation

Next == Finish \/ \E o \in Objects : Put(o) \/ PutGrow(o) \/ PutFails(o) \/ Again(o)

Spec == Init /\ [][Next]_vars

\* An address that is met again has the value it was entered with, and any
\* other has none: what an object was moved to, copied to or numbered
\* (gc_copy, deep_copy_oop, the traversal of the image writer).
FoundAgain == \A o \in Objects : Ends(o) /\ Get(o) = given[o]

\* It holds through collisions and growth for every object that did not lose
\* its entry to a failed allocation, and every search ends.
GetsWhatWasPut == \A o \in Objects \ lost : Ends(o) /\ Get(o) = given[o]
=============================================================================
