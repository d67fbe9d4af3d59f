---------------------------- MODULE FutureTable ----------------------------
(***************************************************************************)
(* src/actor/future_table.c: the table from future ids to futures, open    *)
(* addressing without tombstones: a removal re-inserts the entries behind  *)
(* the hole.  Every operation runs under table->lock, so each is one step. *)
(* A future is identified with its id; reference counts are in Futures.    *)
(***************************************************************************)
EXTENDS LinearProbing

CONSTANTS FirstIds,   \* values of next_id after some use of the table
          MaxNew,     \* bound: futures created
          IdSpace,    \* number of values of a uint32_t id
          Requested,  \* the capacity sta_future_table_create is asked for
          MaxCap      \* bound: calloc fails for larger tables

VARIABLES buckets, count, nextId,
          made    \* futures created so far

vars == <<buckets, count, nextId, made>>

Ids == 0..(IdSpace - 1)

TypeOK ==
  /\ buckets \in [DOMAIN buckets -> Ids \cup {Empty}]
  /\ count \in 0..Cap(buckets)
  /\ nextId \in Ids /\ made \in 0..MaxNew

\* sta_future_table_create, and the futures that have come and gone since.
Init ==
  /\ buckets = Fresh(NextPow2(IF Requested < 8 THEN 8 ELSE Requested))
  /\ count = 0 /\ made = 0
  /\ nextId \in FirstIds

NotLive == {Empty}

NeedsGrow == count * 10 >= Cap(buckets) * 7

\* Insert the next future into table t.
NewIn(t) ==
  /\ buckets' = InsertFree(t, nextId)
  /\ nextId' = (nextId + 1) % IdSpace
  /\ count' = count + 1
  /\ made' = made + 1

New ==
  /\ made < MaxNew /\ ~NeedsGrow
  /\ NewIn(buckets)

NewGrow ==
  /\ made < MaxNew /\ NeedsGrow
  /\ 2 * Cap(buckets) <= MaxCap
  /\ NewIn(Rehash(buckets, 2 * Cap(buckets), NotLive))

\* No memory for the larger table: no future, the ask fails.
NewNoMem ==
  /\ NeedsGrow
  /\ UNCHANGED vars

\* Re-insert the entries from slot i on, up to the next empty slot.
RECURSIVE Reinsert(_, _)
Reinsert(t, i) ==
  IF t[i] = Empty THEN t
  ELSE Reinsert(InsertFree([t EXCEPT ![i] = Empty], t[i]), (i + 1) % Cap(t))

\* Faulty: leaves a hole in the cluster.
RemoveHole(id) ==
  LET pos == Stop(buckets, id)
  IN /\ id # 0
     /\ IF buckets[pos] = id
        THEN buckets' = [buckets EXCEPT ![pos] = Empty] /\ count' = count - 1
        ELSE UNCHANGED <<buckets, count>>
     /\ UNCHANGED <<nextId, made>>

RemoveFuture(id) ==
  LET pos == Stop(buckets, id)
  IN /\ id # 0
     /\ IF buckets[pos] = id
        THEN /\ buckets' = Reinsert([buckets EXCEPT ![pos] = Empty],
                                    (pos + 1) % Cap(buckets))
             /\ count' = count - 1
        ELSE UNCHANGED <<buckets, count>>
     /\ UNCHANGED <<nextId, made>>

\* What sta_future_table_lookup finds: the id, or nothing.
Lookup(id) == IF id = 0 THEN Empty ELSE buckets[Stop(buckets, id)]

Next == New \/ NewGrow \/ NewNoMem \/ \E id \in Ids : RemoveFuture(id)

Spec == Init /\ [][Next]_vars

-----------------------------------------------------------------------------
(* Properties *)

Present == {buckets[i] : i \in DOMAIN buckets} \ {Empty}

\* The table is a partial map: growing and closing the hole that a removal
\* leaves move entries about without losing, duplicating or resurrecting one.
Map == INSTANCE IdMap WITH Keys <- Ids, Values <- {TRUE}, None <- FALSE,
                           map <- [k \in Ids |-> k \in Present]

ImplementsMap == Map!MapSpec

\* A lookup finds a future exactly when it is in the table, however many
\* removals have shifted the cluster it belongs to: a reply or a wait never
\* mistakes a pending future for one that is gone.
LookupFinds == \A id \in Ids : Lookup(id) = IF id \in Present THEN id ELSE Empty

\* count, from which needs_grow decides, is the number of futures, and leaves
\* an empty slot for the insertion loop of sta_future_table_new to find.
CountExact ==
  /\ count = Cardinality({i \in DOMAIN buckets : buckets[i] # Empty})
  /\ count < Cap(buckets)

\* future_table.c: "0 = no future", so no future is issued under id 0.
IdsAreFutures == [][made' > made => nextId # 0]_vars
=============================================================================
