---------------------------- MODULE MCLocalBook ----------------------------
(***************************************************************************)
(* Instance of LocalBook for TLC: the history of the venue is four updates *)
(* over two levels, one of them (3) leaving the book alone, as ids of the  *)
(* futures feed do.                                                        *)
(***************************************************************************)
EXTENDS LocalBook

MCTouches == <<1, 2, 0, 1>>
=============================================================================
