----------------------------- MODULE MethodDict -----------------------------
(***************************************************************************)
(* src/vm/method_dict.c: a class's method dictionary while methods are     *)
(* installed by one thread (file-in, compile) and looked up by the threads *)
(* that run actors.  There is no lock; each load and store of a slot, of   *)
(* the array and of the tally is a step.  Arrays that a growth leaves      *)
(* behind stay on the heap, where a lookup may still be reading them.      *)
(***************************************************************************)
EXTENDS Integers, Sequences, FiniteSets

CONSTANTS Readers,
          Selectors,
          Hash,        \* sta_symbol_get_hash, per selector
          Capacity,    \* the capacity sta_method_dict_create is asked for
          MaxArrays,   \* bound: sta_heap_alloc fails for more arrays
          MaxInserts,  \* bound: methods installed
          MaxLookups   \* bound: lookups started

\* 0 is the null pointer: no selector, no method.
Constants ==
  /\ Hash \in [Selectors -> Nat] /\ 0 \notin Selectors
  /\ Capacity \in Nat /\ MaxArrays \in Nat /\ MaxInserts \in Nat /\ MaxLookups \in Nat

VARIABLES caps, selAt, methodAt,     \* the arrays ever made: capacity, and what the pairs hold
          array,                     \* dict_array: which of them is the dictionary's
          tally,
          wpc, wsel, wmethod, wi,    \* the insertion under way: its arguments, and a slot
          rpc, rsel, rarray, ri, result,  \* each lookup: selector, array, progress, answer
          bound,                     \* ghost: the method last installed for each selector
          seen,                      \* ghost: what was bound to the selector during a lookup
          inserts, lookups

arrayVars == <<caps, selAt, methodAt>>
writerVars == <<wpc, wsel, wmethod, wi>>
readerVars == <<rpc, rsel, rarray, ri, result>>
vars == <<arrayVars, array, tally, writerVars, readerVars, bound, seen, inserts, lookups>>

Slots(k) == 0 .. (caps[k] - 1)
Blank(cap) == [p \in 0 .. (cap - 1) |-> 0]
FirstCap == IF Capacity = 0 THEN 4 ELSE Capacity

Init ==
  /\ caps = <<FirstCap>> /\ selAt = <<Blank(FirstCap)>> /\ methodAt = <<Blank(FirstCap)>>
  /\ array = 1 /\ tally = 0
  /\ wpc = "idle" /\ wsel = 0 /\ wmethod = 0 /\ wi = 0
  /\ rpc = [r \in Readers |-> "idle"] /\ rsel = [r \in Readers |-> 0] /\ rarray = [r \in Readers |-> 0]
  /\ ri = [r \in Readers |-> 0] /\ result = [r \in Readers |-> 0]
  /\ bound = [s \in Selectors |-> 0] /\ seen = [r \in Readers |-> {}]
  /\ inserts = 0 /\ lookups = 0

\* The i-th slot that a search of array k for sel looks at.
Pos(k, sel, i) == (Hash[sel] + i) % caps[k]

\* A search of array k for sel comes to slot p, which is empty or has it.
Ends(k, sel, p) ==
  \E i \in Slots(k) :
    /\ p = Pos(k, sel, i) /\ selAt[k][p] \in {0, sel}
    /\ \A j \in 0 .. (i - 1) : selAt[k][Pos(k, sel, j)] \notin {0, sel}

Has(k, sel) == \E p \in Slots(k) : Ends(k, sel, p) /\ selAt[k][p] = sel

\* The ghosts when method m is installed for sel.
Installed(sel, m) ==
  /\ bound' = [bound EXCEPT ![sel] = m]
  /\ seen' = [r \in Readers |-> IF rpc[r] # "idle" /\ rsel[r] = sel THEN seen[r] \cup {m} ELSE seen[r]]

----------------------------------------------------------------------------
(* sta_method_dict_insert.                                                 *)

\* The search for the selector: an update stores the method and is done.
InsertFind(sel) ==
  /\ wpc = "idle" /\ inserts < MaxInserts
  /\ inserts' = inserts + 1
  /\ \/ \E p \in Slots(array) :
          /\ Ends(array, sel, p) /\ selAt[array][p] = sel
          /\ methodAt' = [methodAt EXCEPT ![array][p] = inserts + 1]
          /\ Installed(sel, inserts + 1)
          /\ UNCHANGED writerVars
     \/ /\ ~Has(array, sel)
        /\ wpc' = "load" /\ wsel' = sel /\ wmethod' = inserts + 1
        /\ UNCHANGED <<methodAt, wi, bound, seen>>
  /\ UNCHANGED <<caps, selAt, array, tally, readerVars, lookups>>

Overloaded == (tally + 1) * 10 > caps[array] * 7

InsertFits ==
  /\ wpc = "load" /\ ~Overloaded
  /\ wpc' = "key"
  /\ UNCHANGED <<arrayVars, array, tally, wsel, wmethod, wi, readerVars, bound, seen, inserts, lookups>>

\* No room on the heap for the larger array: the method is not installed.
InsertNoMem ==
  /\ wpc = "load" /\ Overloaded /\ Len(caps) >= MaxArrays
  /\ wpc' = "idle" /\ wsel' = 0 /\ wmethod' = 0
  /\ UNCHANGED <<arrayVars, array, tally, wi, readerVars, bound, seen, inserts, lookups>>

InsertGrow ==
  /\ wpc = "load" /\ Overloaded /\ Len(caps) < MaxArrays
  /\ caps' = Append(caps, 2 * caps[array])
  /\ selAt' = Append(selAt, Blank(2 * caps[array]))
  /\ methodAt' = Append(methodAt, Blank(2 * caps[array]))
  /\ wpc' = "rehash" /\ wi' = 0
  /\ UNCHANGED <<array, tally, wsel, wmethod, readerVars, bound, seen, inserts, lookups>>

\* raw_insert of one entry of the old array into the new one, which nobody else
\* sees yet.
InsertRehash ==
  /\ wpc = "rehash" /\ wi < caps[array]
  /\ \/ selAt[array][wi] = 0 /\ UNCHANGED <<selAt, methodAt>>
     \/ /\ selAt[array][wi] # 0
        /\ \E p \in Slots(Len(caps)) :
             /\ Ends(Len(caps), selAt[array][wi], p)
             /\ selAt' = [selAt EXCEPT ![Len(caps)][p] = selAt[array][wi]]
             /\ methodAt' = [methodAt EXCEPT ![Len(caps)][p] = methodAt[array][wi]]
  /\ wi' = wi + 1
  /\ UNCHANGED <<caps, array, tally, wpc, wsel, wmethod, readerVars, bound, seen, inserts, lookups>>

\* dict_set_array
InsertPublish ==
  /\ wpc = "rehash" /\ wi = caps[array]
  /\ array' = Len(caps)
  /\ wpc' = "key" /\ wi' = 0
  /\ UNCHANGED <<arrayVars, tally, wsel, wmethod, readerVars, bound, seen, inserts, lookups>>

\* raw_insert stores the selector first,
InsertKey ==
  /\ wpc = "key"
  /\ \E p \in Slots(array) :
       /\ Ends(array, wsel, p)
       /\ selAt' = [selAt EXCEPT ![array][p] = wsel]
       /\ wi' = p
  /\ wpc' = "method"
  /\ UNCHANGED <<caps, methodAt, array, tally, wsel, wmethod, readerVars, bound, seen, inserts, lookups>>

\* then the method.
InsertMethod ==
  /\ wpc = "method"
  /\ methodAt' = [methodAt EXCEPT ![array][wi] = wmethod]
  /\ wpc' = "tally" /\ wsel' = 0 /\ wmethod' = 0 /\ wi' = 0
  /\ Installed(wsel, wmethod)
  /\ UNCHANGED <<caps, selAt, array, tally, readerVars, inserts, lookups>>

InsertTally ==
  /\ wpc = "tally"
  /\ tally' = tally + 1
  /\ wpc' = "idle"
  /\ UNCHANGED <<arrayVars, array, wsel, wmethod, wi, readerVars, bound, seen, inserts, lookups>>

Insert ==
  \/ \E sel \in Selectors : InsertFind(sel)
  \/ InsertFits \/ InsertNoMem \/ InsertGrow \/ InsertRehash \/ InsertPublish
  \/ InsertKey \/ InsertMethod \/ InsertTally

----------------------------------------------------------------------------
(* sta_method_dict_lookup.                                                 *)

LookupBegin(r, sel) ==
  /\ rpc[r] = "idle" /\ lookups < MaxLookups
  /\ lookups' = lookups + 1
  /\ rpc' = [rpc EXCEPT ![r] = "probe"] /\ rsel' = [rsel EXCEPT ![r] = sel]
  /\ rarray' = [rarray EXCEPT ![r] = array] /\ ri' = [ri EXCEPT ![r] = 0]
  /\ seen' = [seen EXCEPT ![r] = {bound[sel]}]
  /\ UNCHANGED <<arrayVars, array, tally, writerVars, result, bound, inserts>>

\* The lookup of r answers with m.
Answer(r, m) ==
  /\ rpc' = [rpc EXCEPT ![r] = "done"] /\ result' = [result EXCEPT ![r] = m]
  /\ rarray' = [rarray EXCEPT ![r] = 0] /\ ri' = [ri EXCEPT ![r] = 0]

\* The search of r goes on in array k: an empty slot ends it, as does the end of
\* the array, and the selector leads to the method.
ProbeIn(r, k) ==
  /\ rpc[r] = "probe"
  /\ LET found == selAt[k][Pos(k, rsel[r], ri[r])]
     IN \/ (ri[r] = caps[k] \/ found = 0) /\ Answer(r, 0)
        \/ /\ ri[r] < caps[k] /\ found = rsel[r]
           /\ rpc' = [rpc EXCEPT ![r] = "method"] /\ ri' = [ri EXCEPT ![r] = Pos(k, rsel[r], ri[r])]
           /\ rarray' = [rarray EXCEPT ![r] = k] /\ UNCHANGED result
        \/ /\ ri[r] < caps[k] /\ found \notin {0, rsel[r]}
           /\ ri' = [ri EXCEPT ![r] = @ + 1]
           /\ UNCHANGED <<rpc, rarray, result>>
  /\ UNCHANGED <<arrayVars, array, tally, writerVars, rsel, bound, seen, inserts, lookups>>

\* Faulty: the array is loaded again for every slot.
LookupReload(r) == ProbeIn(r, array)

\* One slot of the array the search started in.
LookupProbe(r) == rpc[r] = "probe" /\ ProbeIn(r, rarray[r])

LookupMethod(r) ==
  /\ rpc[r] = "method"
  /\ Answer(r, methodAt[rarray[r]][ri[r]])
  /\ UNCHANGED <<arrayVars, array, tally, writerVars, rsel, bound, seen, inserts, lookups>>

LookupEnd(r) ==
  /\ rpc[r] = "done"
  /\ rpc' = [rpc EXCEPT ![r] = "idle"] /\ rsel' = [rsel EXCEPT ![r] = 0]
  /\ result' = [result EXCEPT ![r] = 0] /\ seen' = [seen EXCEPT ![r] = {}]
  /\ UNCHANGED <<arrayVars, array, tally, writerVars, rarray, ri, bound, inserts, lookups>>

Lookup(r) ==
  \/ \E sel \in Selectors : LookupBegin(r, sel)
  \/ LookupProbe(r) \/ LookupMethod(r) \/ LookupEnd(r)

Next == Insert \/ \E r \in Readers : Lookup(r)

Spec == Init /\ [][Next]_vars

----------------------------------------------------------------------------
(* Properties.                                                             *)

\* A lookup returns a method that was bound to the selector at some moment of
\* the lookup: an actor that sends a message while methods are installed runs
\* the old method or the new one, also when the dictionary grows under it
\* (the order of the stores of sta_method_dict_insert).
LookupIsCurrent == \A r \in Readers : rpc[r] = "done" => result[r] \in seen[r]

\* Between insertions the tally is the number of methods and leaves an empty
\* slot; raw_insert always finds one, where it would drop the method silently.
TallyLeavesRoom ==
  /\ wpc = "idle" => /\ tally = Cardinality({p \in Slots(array) : selAt[array][p] # 0})
                     /\ tally < caps[array]
  /\ wpc = "key" => \E p \in Slots(array) : Ends(array, wsel, p)
  /\ wpc = "rehash" /\ wi < caps[array] =>
       \/ selAt[array][wi] = 0
       \/ \E p \in Slots(Len(caps)) : Ends(Len(caps), selAt[array][wi], p)

\* A lookup returns a method that was bound during the lookup, also when the
\* dictionary grows under it (sta_method_dict_lookup against _insert), and the
\* dictionary always has an empty slot.
MethodsCurrent == LookupIsCurrent /\ TallyLeavesRoom
=============================================================================
