------------------------------- MODULE MCTeams -------------------------------
(***************************************************************************)
(* Teams for TLC.  Players, teams and games are interchangeable.           *)
(***************************************************************************)
EXTENDS Teams, TLC

\* A game for two to three players.
MCDemand == [min |-> 2, max |-> 3, teams |-> 0]

Symmetry == Permutations(Players) \cup Permutations(Teams) \cup Permutations(Games)
=============================================================================
