--------------------------- MODULE MCRecoverable ---------------------------
(* Instances of Recoverable for TLC. *)
EXTENDS Recoverable

CONSTANTS t1, t2

TwoThreads == {t1, t2}
=============================================================================
