---------------------------- MODULE MCExecution ----------------------------
(* Instances of Execution for TLC. *)
EXTENDS Execution

CONSTANTS e1, e2

TwoExecutions == {e1, e2}
OneExecution == {e1}

\* An output that was too small is reported of the first execution; what is not
\* reported stays as it was initialized.
TooSmall == [e \in {e1, e2} |->
                IF e = e1 THEN {[dimensions |-> "computed", isSufficient |-> FALSE]} ELSE {}]
=============================================================================
