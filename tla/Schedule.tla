------------------------------ MODULE Schedule ------------------------------
(***************************************************************************)
(* What a partitioning promises: the operations of a graph are put in an      *)
(* order, each once, on the device that was chosen for it, none before an     *)
(* operation whose output it needs, and it is done when none is missing.      *)
(***************************************************************************)
EXTENDS Naturals, Sequences

VARIABLES graph, best, schedule, done

vars == << graph, best, schedule, done >>

(* A graph: how many operations there are, the computed operands each needs,  *)
(* the operands each writes.                                                *)
Operations(g) == 1 .. g.count
Writes(g, o, x) == \E k \in DOMAIN g.outs[o] : g.outs[o][k] = x
Follows(g, o, p) == \E x \in g.needs[o] : Writes(g, p, x)

(* Every operand that is needed is written, by one operation, and no set of   *)
(* operations wait for each other.                                          *)
IsGraph(g) ==
  /\ g.count \in Nat
  /\ g.needs \in [Operations(g) -> SUBSET Nat]
  /\ g.outs \in [Operations(g) -> Seq(Nat)]
  /\ \A o \in Operations(g) : \A x \in g.needs[o] : \E p \in Operations(g) : Writes(g, p, x)
  /\ \A p, q \in Operations(g) : \A k \in DOMAIN g.outs[p] :
        Writes(g, q, g.outs[p][k]) => p = q
  /\ \A S \in SUBSET Operations(g) :
        S # {} => \E o \in S : \A p \in S : ~ Follows(g, o, p)

Scheduled(o) == \E k \in DOMAIN schedule : schedule[k].operation = o

Init == IsGraph(graph) /\ best \in [Operations(graph) -> Nat] /\ schedule = <<>> /\ done = FALSE

Start ==
  /\ IsGraph(graph') /\ best' \in [Operations(graph') -> Nat]
  /\ schedule' = <<>> /\ done' = FALSE

Add(o) ==
  /\ ~ Scheduled(o)
  /\ \A p \in Operations(graph) : Follows(graph, o, p) => Scheduled(p)
  /\ schedule' = Append(schedule, [operation |-> o, device |-> best[o]])
  /\ UNCHANGED << graph, best, done >>

Complete ==
  /\ \A o \in Operations(graph) : Scheduled(o)
  /\ done' = TRUE
  /\ UNCHANGED << graph, best, schedule >>

Next == Start \/ (\E o \in Operations(graph) : Add(o)) \/ Complete

Spec == Init /\ [][Next]_vars
=============================================================================
