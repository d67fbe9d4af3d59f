------------------------------ MODULE MCTables ------------------------------
\* The hash tables of the VM, one per behaviour: TablesInit picks which, and
\* the others stay as they start.
EXTENDS MethodDict

CONSTANT Which   \* the tables to explore

VARIABLES which,
  entries, actor, regCount, regUsed, known, retired,                   \* Registry
  buckets, futCount, nextId, made,                                     \* FutureTable
  kind, keys, vals, adrCount, lost, given,                             \* AddressTables
  slots, symCount, symUsed, bytes, call, returned, overlap, calls      \* SymbolTable

\* Actor ids of a VM that has created some thirty actors; in a table of eight
\* slots they collide at its end and wrap around.
ActorIds == {6, 7, 8, 14, 15, 16, 22}

Registry == INSTANCE Registry WITH
  Ids <- ActorIds, ActorsOf <- [i \in ActorIds |-> IF i = 14 THEN {14, 114} ELSE {i}],
  Requested <- 5, MaxCap <- 16, Lag <- 1, NULL <- 0, count <- regCount, used <- regUsed

\* Futures from the first, and from an id that the table wraps at.
FutureTable == INSTANCE FutureTable WITH
  FirstIds <- {1, 6}, MaxNew <- 11, IdSpace <- 24, Requested <- 5, MaxCap <- 16, count <- futCount

\* Seven addresses; a table of four slots grows to eight and then cannot.
AddressHash == [k \in {"forward", "visited", "ids"} |->
                  IF k = "ids" THEN <<1, 2, 3, 5, 6, 7, 9>> ELSE <<3, 7, 15, 3, 4, 8, 7>>]
AddressTables == INSTANCE AddressTables WITH
  Objects <- 1 .. 7, Hash <- AddressHash, InitCap <- 4, MaxCap <- 8, count <- adrCount

\* Four names; the table grows from two slots to four and to eight.
SymbolHash == [n \in {"a", "b", "c", "d"} |-> CASE n = "a" -> 3 [] n = "b" -> 7 [] n = "c" -> 15 [] n = "d" -> 4]
Threads == {"t1", "t2"}
SymbolTable == INSTANCE SymbolTable WITH
  Names <- {"a", "b", "c", "d"}, Hash <- SymbolHash, Requested <- 2, ImmCap <- 3, MaxCalls <- 5,
  count <- symCount, used <- symUsed

\* The selectors 1 to 4, three of which collide; the dictionary grows at the third.
SelectorHash == <<3, 7, 15, 4>>
FourSelectors == 1 .. 4

\* What the proofs about the dictionary assume of its constants.
ASSUME MethodConstants == Constants

regVars == <<entries, actor, regCount, regUsed, known, retired>>
futVars == <<buckets, futCount, nextId, made>>
adrVars == <<kind, keys, vals, adrCount, lost, given>>
symVars == <<slots, symCount, symUsed, bytes, call, returned, overlap, calls>>
tablesVars == <<which, regVars, futVars, adrVars, symVars, vars>>

TablesInit ==
  /\ which \in Which
  /\ Registry!Init /\ FutureTable!Init /\ AddressTables!Init /\ SymbolTable!Init /\ Init
  /\ which # "futures" => nextId = 1
  /\ which # "addresses" => kind = "ids"

RegistryNext ==
  /\ which = "registry" /\ Registry!Next
  /\ UNCHANGED <<which, futVars, adrVars, symVars, vars>>
FutureNext ==
  /\ which = "futures" /\ FutureTable!Next
  /\ UNCHANGED <<which, regVars, adrVars, symVars, vars>>
AddressNext ==
  /\ which = "addresses" /\ AddressTables!Next
  /\ UNCHANGED <<which, regVars, futVars, symVars, vars>>
SymbolFrame == UNCHANGED <<which, regVars, futVars, adrVars, vars>>
SymbolNext == which = "symbols" /\ SymbolTable!Next /\ SymbolFrame
MethodNext ==
  /\ which = "methods" /\ Next
  /\ UNCHANGED <<which, regVars, futVars, adrVars, symVars>>

TablesNext == RegistryNext \/ FutureNext \/ AddressNext \/ SymbolNext \/ MethodNext

TablesSpec ==
  /\ TablesInit /\ [][TablesNext]_tablesVars
  /\ \A t \in Threads : WF_tablesVars(which = "symbols" /\ SymbolTable!Step(t) /\ SymbolFrame)

\* Overlapping calls of sta_symbol_intern are explored up to the third.
Bound == overlap => calls <= 3

----------------------------------------------------------------------------
\* src/actor/registry.c: growing, tombstones and their reuse never lose,
\* duplicate or resurrect an entry; every search ends, and a lookup answers with
\* the actor registered under the id or NULL, and never with one that was
\* unregistered.
RegistryIsMap ==
  /\ Registry!ImplementsMap
  /\ [](which = "registry" =>
       Registry!TypeOK /\ Registry!ProbeEnds /\ Registry!LookupFinds /\ Registry!RetiredIsGone)

\* src/actor/future_table.c: closing the hole that a removal leaves, and
\* growing, never lose, duplicate or resurrect a future; a lookup finds a future
\* exactly when it is in the table, and the count that decides about growth is
\* exact.
FutureTableIsMap ==
  /\ FutureTable!ImplementsMap
  /\ [](which = "futures" => FutureTable!TypeOK /\ FutureTable!CountExact /\ FutureTable!LookupFinds)

\* src/gc/gc.c, src/actor/deep_copy.c, src/image/image.c: an address that is met
\* again has the value it was entered with, through collisions and growth.
AddressesFound == which = "addresses" => AddressTables!GetsWhatWasPut

\* src/gc/gc.c: the same, also when the side table cannot grow.
AddressesFoundAlways == which = "addresses" => AddressTables!FoundAgain

\* src/vm/symbol_table.c: interning is canonical as long as calls do not overlap.
SymbolsCanonicalAlone == which = "symbols" => SymbolTable!CanonicalAlone

\* src/vm/symbol_table.h: sta_symbol_intern is idempotent and returns the
\* canonical symbol, whichever threads call it.
SymbolsCanonical == which = "symbols" => SymbolTable!Canonical

\* src/vm/symbol_table.c: a call that has the table for itself returns.
InternReturns == SymbolTable!InternReturns
=============================================================================
