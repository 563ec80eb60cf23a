---------------------------- MODULE MCMemoryUse ----------------------------
(* Instances of MemoryUse for TLC. *)
EXTENDS MemoryUse, TLC

CONSTANTS t1, t2, k1, k2, b1, b2

MCThreads == {t1, t2}
OneThread == {t1}
MCKeys == {k1, k2}
OneKey == {k1}
MCAddresses == {b1, b2}
OneAddress == {b1}

Symmetry == Permutations(MCThreads) \cup Permutations(MCKeys) \cup Permutations(MCAddresses)
=============================================================================
