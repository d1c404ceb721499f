-------------------------- MODULE MCStudioSession --------------------------
(* Two API requests at a time over two create digests.                     *)
EXTENDS StudioSession
=============================================================================
