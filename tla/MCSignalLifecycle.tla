-------------------------- MODULE MCSignalLifecycle --------------------------
(* Small instances of SignalLifecycle for TLC; the runs have one symbol, so   *)
(* there is no symmetry to use.                                               *)
EXTENDS SignalLifecycle
=============================================================================
