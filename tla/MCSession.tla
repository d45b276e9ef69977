------------------------------ MODULE MCSession ------------------------------
(***************************************************************************)
(* Session for TLC.  Handlers, players, games, teams, names and library    *)
(* entries are interchangeable.                                            *)
(***************************************************************************)
EXTENDS Session, TLC

Symmetry ==
    Permutations(Handlers) \cup Permutations(Players) \cup Permutations(Games)
    \cup Permutations(Teams) \cup Permutations(Names) \cup Permutations(Libs)
=============================================================================
