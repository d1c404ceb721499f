--------------------------- MODULE MCEvaluationRun --------------------------
(* Two threads of the service, which may both call back, and one late call.   *)
EXTENDS EvaluationRun
=============================================================================
