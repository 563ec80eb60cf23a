----------------------------- MODULE MCNNCache -----------------------------
(* Keys and values of two sizes; the second limits refuse the larger value,     *)
(* and what fits them takes too large a file.                                *)
EXTENDS NNCache

MCKeySize == << 1, 2 >>
Wide == [key |-> 2, value |-> 4, total |-> 7]
Narrow == [key |-> 2, value |-> 3, total |-> 5]
MCSettings ==
  { [limits |-> Wide, policy |-> defaultPolicy],
    [limits |-> Wide, policy |-> [select |-> "LRU", capacity |-> "FIT"]],
    [limits |-> Narrow, policy |-> [select |-> "LRU", capacity |-> "FIT_HALVE"]] }
=============================================================================
