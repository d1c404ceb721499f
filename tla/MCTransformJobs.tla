--------------------------- MODULE MCTransformJobs ---------------------------
(* TransformJobs for TLC: symmetry of the values the catalog never compares   *)
(* for order.                                                                *)
EXTENDS TransformJobs, TLC

Symmetry == Permutations(Jobs) \cup Permutations(Versions) \cup Permutations(Clients)
               \cup Permutations(Names)
==============================================================================
