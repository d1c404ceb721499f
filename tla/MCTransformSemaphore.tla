----------------------- MODULE MCTransformSemaphore -----------------------
(* Three calls share one slot and one place in the queue: one runs, one      *)
(* waits, one is refused.                                                    *)
EXTENDS TransformSemaphore
=============================================================================
