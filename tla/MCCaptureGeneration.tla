------------------------ MODULE MCCaptureGeneration ------------------------
(* Small instances of CaptureGeneration for TLC. *)
EXTENDS CaptureGeneration, TLC
=============================================================================
