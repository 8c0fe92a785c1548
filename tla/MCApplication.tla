--------------------------- MODULE MCApplication ---------------------------
(* Small instances of Application for TLC. *)
EXTENDS Application, TLC

(* The second frame falls into another UTC day: the clock was set back. *)
MCDayOf(n) == IF n = 2 THEN 2 ELSE 1
=============================================================================
