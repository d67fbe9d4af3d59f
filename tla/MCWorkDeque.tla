---------------------------- MODULE MCWorkDeque ----------------------------
(* Small instances of WorkDeque for TLC. *)
EXTENDS WorkDeque, TLC

\* A fresh deque, and one whose indices are about to come round.
WrapStarts == {0, IndexMod - 2}
=============================================================================
