-------------------------- MODULE MCPaperTracking --------------------------
(* Small instances of PaperTracking for TLC. *)
EXTENDS PaperTracking, TLC
MCSymmetry == Permutations(Symbols)
=============================================================================
