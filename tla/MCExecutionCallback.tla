------------------------ MODULE MCExecutionCallback ------------------------
(* Instances of ExecutionCallback for TLC. *)
EXTENDS ExecutionCallback

CONSTANTS d1, d2, c1, c2, c3, b

TwoDrivers == {d1, d2}
MCClients == {c1, c2, c3}

\* Well-formed results, and two that notify_1_2 must not store.
MCNotifications == {[status |-> "NONE", shapes |-> TRUE],
                    [status |-> "INSUFFICIENT", shapes |-> TRUE],
                    [status |-> "INSUFFICIENT", shapes |-> FALSE],
                    [status |-> "FAILURE", shapes |-> TRUE]}
=============================================================================
