------------------------------ MODULE MCScoring ------------------------------
(***************************************************************************)
(* Scoring for TLC.  Score rows, teams and players are interchangeable.    *)
(***************************************************************************)
EXTENDS Scoring, TLC

MCPoints == {-1, 1}
\* Two rounds of the team games, one of the others.
MCMaxRounds == [g \in Games |-> IF g \in TeamGames THEN 2 ELSE 1]

Symmetry == Permutations(Ids) \cup Permutations(Teams) \cup Permutations(Players)
=============================================================================
