--------------------------- MODULE MCPublication ---------------------------
(* Two calls, of any kind, for two versions that two releases encode         *)
(* differently: a writer and its retry, two rivals, or a writer and a reader. *)
EXTENDS Publication, TLC

Symmetric == Permutations(Calls) \cup Permutations(Versions) \cup Permutations(Digests) \cup Permutations(Messages)
=============================================================================
