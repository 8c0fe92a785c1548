-------------------------- MODULE MCDiscordOutbox --------------------------
(* Small instances of DiscordOutbox for TLC. *)
EXTENDS DiscordOutbox, TLC

(* Event 2 belongs to a risk family and appears one instant later. *)
MCEventTime == [e \in Events |-> IF e = 1 THEN 0 ELSE 1]
MCSymmetry == Permutations(Procs) \cup Permutations(Operators)
=============================================================================
