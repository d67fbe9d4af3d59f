--------------------------- MODULE LinearProbing ---------------------------
(***************************************************************************)
(* The open-addressing arithmetic that src/actor/registry.c and            *)
(* src/actor/future_table.c share.  A table is a function from the slots   *)
(* 0..cap-1 to ids; Empty marks a free slot.  The capacity is a power of   *)
(* two, so id & mask is id % cap.                                          *)
(***************************************************************************)
EXTENDS Integers, Sequences, FiniteSets, FiniteSetsExt, SequencesExt

Empty == -1

Cap(t) == Cardinality(DOMAIN t)

Fresh(cap) == [i \in 0..(cap - 1) |-> Empty]

\* next_pow2: the bit smearing computes the least power of two not below v.
NextPow2(v) == Min({p \in {2^k : k \in 0..8} : p >= v})

\* The first slot that the search for id comes to whose content is in stops:
\* from id & mask on, one slot at a time, around the end of the table.
FirstSlot(t, id, stops) ==
  LET cap   == Cap(t)
      At(d) == (id + d) % cap
  IN At(CHOOSE d \in 0..(cap - 1) :
          t[At(d)] \in stops /\ \A e \in 0..(d - 1) : t[At(e)] \notin stops)

\* Where the loop "while the slot is neither id nor empty" stops.
Stop(t, id) == FirstSlot(t, id, {Empty, id})

\* Walk to the first empty slot and put id there.
InsertFree(t, id) == [t EXCEPT ![FirstSlot(t, id, {Empty})] = id]

\* Insert the entries of the old table that are not in skipped, in slot order,
\* into one of newCap.
Rehash(t, newCap, skipped) ==
  LET Step(fresh, i) == IF t[i - 1] \in skipped THEN fresh ELSE InsertFree(fresh, t[i - 1])
  IN FoldLeft(Step, Fresh(newCap), [i \in 1..Cap(t) |-> i])
=============================================================================
