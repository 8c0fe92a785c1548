------------------------- MODULE MCUniverseRotation -------------------------
(* Small instances of UniverseRotation for TLC. *)
EXTENDS UniverseRotation, TLC
MCSymmetry == Permutations(Symbols)
=============================================================================
