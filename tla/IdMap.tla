------------------------------- MODULE IdMap -------------------------------
(***************************************************************************)
(* What a table of ids promises: a partial map.  A step enters a value     *)
(* under one key or removes what is there, and touches no other key.       *)
(***************************************************************************)
CONSTANTS Keys, Values, None

VARIABLE map   \* what is entered under each key

Init == map = [k \in Keys |-> None]

\* The maps that one operation makes of m: put, or (v = None) remove.
Updates(m) == {[m EXCEPT ![k] = v] : k \in Keys, v \in Values \cup {None}}

Next == LET before == map
        IN map' \in Updates(before)

MapSpec == Init /\ [][Next]_map
=============================================================================
