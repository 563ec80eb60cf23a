------------------------------ MODULE OneShot ------------------------------
(***************************************************************************)
(* What a callback object promises: a value that is settled at most once,  *)
(* by the first to offer one, and observers that see nothing else.         *)
(***************************************************************************)
CONSTANTS
    Values,     \* what may be offered
    Observers,
    Unsettled   \* not one of Values

VARIABLES
    value,      \* the settled value, or Unsettled
    seen        \* seen[o]: what observer o has returned with, or Unsettled

vars == <<value, seen>>

Init == value = Unsettled /\ seen = [o \in Observers |-> Unsettled]

Settle(v) == value = Unsettled /\ value' = v /\ UNCHANGED seen

Observe(o) ==
    /\ value # Unsettled /\ seen[o] = Unsettled
    /\ seen' = [seen EXCEPT ![o] = value]
    /\ UNCHANGED value

Next == (\E v \in Values : Settle(v)) \/ \E o \in Observers : Observe(o)

Spec == Init /\ [][Next]_vars
=============================================================================
