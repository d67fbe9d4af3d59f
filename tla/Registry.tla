------------------------------ MODULE Registry ------------------------------
(***************************************************************************)
(* src/actor/registry.c: the table from actor ids to actors, open          *)
(* addressing with tombstones.  Every operation runs under reg->lock, so   *)
(* each is one step.  The reference that a lookup takes is modelled in     *)
(* Scheduler.                                                              *)
(***************************************************************************)
EXTENDS LinearProbing

CONSTANTS Ids,        \* actor ids, none of them 0 or UINT32_MAX
          ActorsOf,   \* per id, the actors that may be registered under it
          Requested,  \* the capacity sta_registry_create is asked for
          MaxCap,     \* bound: calloc fails for larger tables
          Lag,        \* bound: actors with an id that are yet to be registered
          NULL

Actors == UNION {ActorsOf[id] : id \in Ids}

Tombstone == -2

VARIABLES entries,   \* entries[i].actor_id
          actor,     \* entries[i].actor
          count, used,
          \* ids are issued in order, and once: those whose actor has come to
          \* sta_registry_register, and those whose actor has been unregistered
          known, retired

vars == <<entries, actor, count, used, known, retired>>

TypeOK ==
  /\ entries \in [DOMAIN entries -> Ids \cup {Empty, Tombstone}]
  /\ actor \in [DOMAIN entries -> Actors \cup {NULL}]
  /\ count \in 0..Cap(entries) /\ used \in 0..Cap(entries)
  /\ known \subseteq Ids /\ retired \subseteq known

\* sta_registry_create
Init ==
  LET cap == NextPow2(IF Requested < 8 THEN 8 ELSE Requested)
  IN /\ entries = Fresh(cap)
     /\ actor = [i \in 0..(cap - 1) |-> NULL]
     /\ count = 0 /\ used = 0 /\ known = {} /\ retired = {}

NotLive == {Empty, Tombstone}

NeedsGrow == used * 10 >= Cap(entries) * 7

\* Faulty: takes the first tombstone without looking for the id behind it.
PutSlotEarly(t, id) == FirstSlot(t, id, {Empty, Tombstone, id})

\* Where sta_registry_register puts id: on its own entry if the search meets
\* it, else on the first tombstone it passed, else on the empty slot.
PutSlot(t, id) ==
  LET stop == Stop(t, id)
  IN IF t[stop] = id THEN stop
     ELSE FirstSlot(t, id, {Empty, Tombstone})

\* The insertion into table t with actors a, of which u slots are used.
RegisterIn(t, a, u, id, v) ==
  LET slot == PutSlot(t, id)
  IN /\ entries' = [t EXCEPT ![slot] = id]
     /\ actor' = [a EXCEPT ![slot] = v]
     /\ used' = IF t[slot] = Empty THEN u + 1 ELSE u
     /\ count' = IF t[slot] = id THEN count ELSE count + 1

\* The actors of table t, when their ids have moved to the slots of fresh.
Moved(t, a, fresh) ==
  [i \in DOMAIN fresh |->
     IF fresh[i] = Empty THEN NULL
     ELSE a[CHOOSE j \in DOMAIN t : t[j] = fresh[i]]]

\* The actor with this id is live, and next in turn or nearly so.
MayRegister(id) ==
  /\ id \notin retired
  /\ Cardinality({j \in Ids \ known : j < id}) <= Lag

Register(id, v) ==
  /\ MayRegister(id) /\ ~NeedsGrow
  /\ RegisterIn(entries, actor, used, id, v)
  /\ known' = known \cup {id}
  /\ UNCHANGED retired

\* Rehashing into a table twice as large leaves the tombstones behind.
RegisterGrow(id, v) ==
  /\ MayRegister(id) /\ NeedsGrow
  /\ 2 * Cap(entries) <= MaxCap
  /\ LET fresh == Rehash(entries, 2 * Cap(entries), NotLive)
     IN RegisterIn(fresh, Moved(entries, actor, fresh), count, id, v)
  /\ known' = known \cup {id}
  /\ UNCHANGED retired

\* No memory for the larger table: the actor is silently not registered.
RegisterNoMem(id, v) ==
  /\ MayRegister(id) /\ NeedsGrow
  /\ known' = known \cup {id}
  /\ UNCHANGED <<entries, actor, count, used, retired>>

\* A tombstone keeps the searches that pass this slot going.
Unregister(id) ==
  LET stop == Stop(entries, id)
      hit  == entries[stop] = id
  IN /\ id \in known
     /\ entries' = IF hit THEN [entries EXCEPT ![stop] = Tombstone] ELSE entries
     /\ actor' = IF hit THEN [actor EXCEPT ![stop] = NULL] ELSE actor
     /\ count' = IF hit THEN count - 1 ELSE count
     /\ retired' = retired \cup {id}
     /\ UNCHANGED <<used, known>>

\* What sta_registry_lookup returns; the table does not change.
Lookup(id) == actor[Stop(entries, id)]

Next ==
  \E id \in Ids :
    \/ Unregister(id)
    \/ \E v \in ActorsOf[id] : Register(id, v) \/ RegisterGrow(id, v) \/ RegisterNoMem(id, v)

Spec == Init /\ [][Next]_vars

-----------------------------------------------------------------------------
(* Properties *)

\* The registry is a partial map from ids to actors: growing, tombstones and
\* their reuse never lose, duplicate or resurrect an entry.
AsMap ==
  [k \in Ids |-> IF \E i \in DOMAIN entries : entries[i] = k
                 THEN actor[CHOOSE i \in DOMAIN entries : entries[i] = k] ELSE NULL]

Map == INSTANCE IdMap WITH Keys <- Ids, Values <- Actors, None <- NULL,
                           map <- AsMap

ImplementsMap == Map!MapSpec

\* A lookup answers with the actor registered under the id, or NULL: a message
\* never reaches another actor, and a registered actor is never called dead.
LookupFinds == \A id \in Ids : Lookup(id) = AsMap[id]

\* An actor that has been unregistered is never found again, so nobody takes a
\* new reference to an actor that is being torn down.
RetiredIsGone == \A id \in retired : Lookup(id) = NULL

\* Every search ends: the loops of register, unregister and lookup are
\* "while (1)" and only an empty slot stops a search for an absent id.  There is
\* one because count and used, from which needs_grow decides, are exact.
ProbeEnds ==
  /\ count = Cardinality({i \in DOMAIN entries : entries[i] \notin NotLive})
  /\ used = Cardinality({i \in DOMAIN entries : entries[i] # Empty})
  /\ used < Cap(entries)
=============================================================================
