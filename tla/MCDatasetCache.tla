--------------------------- MODULE MCDatasetCache ---------------------------
(* Three calls on two datasets.  No symmetry: the run checks a liveness        *)
(* property, and the calls differ in settleOnAbort.                            *)
EXTENDS DatasetCache
=============================================================================
