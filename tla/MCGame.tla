------------------------------- MODULE MCGame -------------------------------
(***************************************************************************)
(* Game for TLC.  Workers are interchangeable: a handler is told from      *)
(* another only by what it does, so the runs that check safety only may    *)
(* take their permutations as a symmetry set.                              *)
(***************************************************************************)
EXTENDS Game, TLC

Symmetry == Permutations(Workers)
=============================================================================
