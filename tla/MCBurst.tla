------------------------------ MODULE MCBurst ------------------------------
(* Instances of Burst for TLC. *)
EXTENDS Burst, TLC

CONSTANTS t1, t2, k1, k2

MCThreads == {t1, t2}
OneKey == {k1}
MCKeys == {k1, k2}

\* One pool, two pools in both orders of first use, and a pool named twice.
MCArguments == {<<k1>>, <<k2, k1>>, <<k2, k2>>}
OnePool == {<<k1>>}

Symmetry == Permutations(MCThreads)
=============================================================================
