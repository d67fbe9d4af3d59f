---------------------------- MODULE MCSupervisor ----------------------------
(***************************************************************************)
(* A small supervision tree: root with mid and p, mid with x and y; all    *)
(* three restart strategies occur.                                         *)
(***************************************************************************)
EXTENDS Supervisor, TLC

CONSTANTS m, p, x, y

MCUnder == (m :> "root") @@ (p :> "root") @@ (x :> "mid") @@ (y :> "mid")
MCStrategy == (m :> "RESTART") @@ (p :> "STOP") @@ (x :> "RESTART") @@ (y :> "ESCALATE")
=============================================================================
