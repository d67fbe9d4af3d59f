---------------------------- MODULE SymbolTable ----------------------------
(***************************************************************************)
(* src/vm/symbol_table.c with the bump allocator of                        *)
(* src/vm/immutable_space.c: interning symbols.  Actors intern from the    *)
(* scheduler's threads (the symbol primitives, the reason of a crash), and *)
(* nothing locks the table: every access to it is a step of its own.  A    *)
(* probe reads its slots in one step.  An address is the number of an      *)
(* object in the immutable space; 0 is a null OOP.                         *)
(***************************************************************************)
EXTENDS LinearProbing

CONSTANTS Threads,
          Names,      \* the strings that are interned
          Hash,       \* sta_symbol_hash, per name
          Requested,  \* the capacity sta_symbol_table_init is asked for
          ImmCap,     \* the capacity of the immutable space, in objects
          MaxCalls    \* bound: calls of sta_symbol_intern

VARIABLES slots,     \* st->slots, a fresh array at each growth
          count,     \* st->count
          used,      \* sp->used
          bytes,     \* the name in the object at each address
          call,      \* the call each thread is in
          returned,  \* ghost: what calls returned, by name
          overlap,   \* ghost: two calls have been under way at a time
          calls

vars == <<slots, count, used, bytes, call, returned, overlap, calls>>

Idle == [pc |-> "idle"]
Blank == "blank"

\* round_up_pow2
Init ==
  /\ slots = [i \in 0 .. (NextPow2(IF Requested = 0 THEN 16 ELSE Requested) - 1) |-> 0]
  /\ count = 0 /\ used = 0
  /\ bytes = [a \in 1 .. ImmCap |-> Blank]
  /\ call = [t \in Threads |-> Idle]
  /\ returned = {} /\ overlap = FALSE /\ calls = 0

\* probe: the slot of the symbol with these bytes or the first empty one; a
\* full table without it is searched for ever.
At(t, name, d) == (Hash[name] + d) % Cap(t)
Stops(t, name, d) == t[At(t, name, d)] \in {0} \cup {a \in DOMAIN bytes : bytes[a] = name}
Ends(t, name) == \E d \in 0 .. (Cap(t) - 1) : Stops(t, name, d)
Probe(t, name) ==
  At(t, name, CHOOSE d \in 0 .. (Cap(t) - 1) : Stops(t, name, d) /\ \A e \in 0 .. (d - 1) : ~Stops(t, name, e))

\* sta_symbol_lookup
Lookup(name) == IF Ends(slots, name) THEN slots[Probe(slots, name)] ELSE 0

\* A growth that keeps the entries where they were.
GrownInPlace(t) == [i \in 0 .. (2 * Cap(t) - 1) |-> IF i < Cap(t) THEN t[i] ELSE 0]

\* table_grow: every symbol goes to the first free slot from its hash on.
Grown(t) ==
  LET Free(fresh, a) == CHOOSE d \in 0 .. (Cap(fresh) - 1) :
                          /\ fresh[At(fresh, bytes[a], d)] = 0
                          /\ \A e \in 0 .. (d - 1) : fresh[At(fresh, bytes[a], e)] # 0
      Place(fresh, i) == LET a == t[i - 1]
                         IN IF a = 0 THEN fresh ELSE [fresh EXCEPT ![At(fresh, bytes[a], Free(fresh, a))] = a]
  IN FoldLeft(Place, [i \in 0 .. (2 * Cap(t) - 1) |-> 0], [i \in 1 .. Cap(t) |-> i])

Goto(t, rec) == call' = [call EXCEPT ![t] = rec]
In(t, pc) == call[t].pc = pc

Return(t, result) ==
  /\ Goto(t, Idle)
  /\ returned' = returned \cup {<<call[t].name, result>>}

Begin(t, name) ==
  /\ In(t, "idle") /\ calls < MaxCalls
  /\ calls' = calls + 1
  /\ overlap' = (overlap \/ \E u \in Threads \ {t} : ~In(u, "idle"))
  /\ Goto(t, [pc |-> "probe", name |-> name])
  /\ UNCHANGED <<slots, count, used, bytes, returned>>

\* The first probe: an interned symbol is returned.
FirstProbe(t) ==
  /\ In(t, "probe") /\ Ends(slots, call[t].name)
  /\ LET idx == Probe(slots, call[t].name)
     IN \/ slots[idx] # 0 /\ Return(t, slots[idx])
        \/ /\ slots[idx] = 0
           /\ Goto(t, [pc |-> "load", name |-> call[t].name, idx |-> idx])
           /\ UNCHANGED returned
  /\ UNCHANGED <<slots, count, used, bytes, overlap, calls>>

\* Grows when the table is full.
OverloadedLate == count >= Cap(slots)

Overloaded == (count + 1) * 10 > Cap(slots) * 7

Roomy(t) ==
  /\ In(t, "load") /\ ~Overloaded
  /\ Goto(t, [call[t] EXCEPT !.pc = "alloc"])
  /\ UNCHANGED <<slots, count, used, bytes, returned, overlap, calls>>

\* table_grow fills the new array from the old one,
Rehashing(t) ==
  /\ In(t, "load") /\ Overloaded
  /\ Goto(t, [pc |-> "publish", name |-> call[t].name, fresh |-> Grown(slots)])
  /\ UNCHANGED <<slots, count, used, bytes, returned, overlap, calls>>

\* then replaces it; the slot for the symbol is looked for again.
Publish(t) ==
  /\ In(t, "publish")
  /\ slots' = call[t].fresh
  /\ Goto(t, [pc |-> "reprobe", name |-> call[t].name])
  /\ UNCHANGED <<count, used, bytes, returned, overlap, calls>>

Reprobe(t) ==
  /\ In(t, "reprobe") /\ Ends(slots, call[t].name)
  /\ Goto(t, [pc |-> "alloc", name |-> call[t].name, idx |-> Probe(slots, call[t].name)])
  /\ UNCHANGED <<slots, count, used, bytes, returned, overlap, calls>>

\* No memory for the larger array: the call returns 0.
NoMemory(t) ==
  /\ In(t, "load") /\ Overloaded
  /\ Return(t, 0)
  /\ UNCHANGED <<slots, count, used, bytes, overlap, calls>>

\* sta_immutable_alloc loads used,
Load(t) ==
  /\ In(t, "alloc")
  /\ \/ /\ used < ImmCap
        /\ Goto(t, [pc |-> "bump", name |-> call[t].name, idx |-> call[t].idx, addr |-> used + 1])
        /\ UNCHANGED returned
     \/ used >= ImmCap /\ Return(t, 0)
  /\ UNCHANGED <<slots, count, used, bytes, overlap, calls>>

\* and stores it behind the object; two steps, not one.
Bump(t) ==
  /\ In(t, "bump")
  /\ used' = call[t].addr
  /\ Goto(t, [call[t] EXCEPT !.pc = "write"])
  /\ UNCHANGED <<slots, count, bytes, returned, overlap, calls>>

\* The object is cleared and gets its hash and its bytes (alloc_symbol).
Write(t) ==
  /\ In(t, "write")
  /\ bytes' = [bytes EXCEPT ![call[t].addr] = call[t].name]
  /\ Goto(t, [call[t] EXCEPT !.pc = "enter"])
  /\ UNCHANGED <<slots, count, used, returned, overlap, calls>>

\* st->slots[idx] = sym: in the array that st->slots is by now.
Enter(t) ==
  /\ In(t, "enter")
  /\ slots' = [slots EXCEPT ![call[t].idx] = call[t].addr]
  /\ Goto(t, [call[t] EXCEPT !.pc = "count"])
  /\ UNCHANGED <<count, used, bytes, returned, overlap, calls>>

Count(t) ==
  /\ In(t, "count")
  /\ count' = count + 1
  /\ Return(t, call[t].addr)
  /\ UNCHANGED <<slots, used, bytes, overlap, calls>>

Step(t) ==
  \/ FirstProbe(t) \/ Roomy(t) \/ Rehashing(t) \/ Publish(t) \/ Reprobe(t) \/ NoMemory(t)
  \/ Load(t) \/ Bump(t) \/ Write(t) \/ Enter(t) \/ Count(t)

Next == \E t \in Threads : Step(t) \/ \E name \in Names : Begin(t, name)

Spec == Init /\ [][Next]_vars /\ \A t \in Threads : WF_vars(Step(t))

----------------------------------------------------------------------------
(* Properties.                                                             *)

\* sta_symbol_intern is idempotent and returns the canonical symbol of the
\* bytes it is given (symbol_table.h:57): one address per name, with that name
\* in it, and the one a lookup finds.
Canonical ==
  \A r \in returned : r[2] # 0 => bytes[r[2]] = r[1] /\ Lookup(r[1]) = r[2]

\* It does as long as calls do not overlap, whatever the collisions, through
\* growth of the table and failed calls (probe, table_grow, sta_symbol_intern).
CanonicalAlone == ~overlap => Canonical

\* A call that has the table for itself returns: the loop of probe has no
\* bound, and ends because the load factor leaves a slot empty.
InternReturns ==
  \A t \in Threads : ~In(t, "idle") ~> (In(t, "idle") \/ overlap)
=============================================================================
