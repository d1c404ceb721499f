--------------------------- MODULE MCWorkerDispatch ---------------------------
(* WorkerDispatch for TLC.                                                    *)
EXTENDS WorkerDispatch, TLC

Symmetry == Permutations(Jobs)
==============================================================================
