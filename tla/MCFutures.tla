----------------------------- MODULE MCFutures -----------------------------
(***************************************************************************)
(* Small instances of Futures.  The instances differ in who waits, on      *)
(* what, and in what may become of an ask.                                 *)
(***************************************************************************)
EXTENDS Futures, TLC

CONSTANTS a, b, c, v, w

MCWaitsForBoth == (v :> a) @@ (w :> b)
MCNobody == [x \in {} |-> a]
=============================================================================
