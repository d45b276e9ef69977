----------------------------- MODULE MCPresence ------------------------------
(***************************************************************************)
(* Presence for TLC.  Handlers are interchangeable, and so are the sockets *)
(* before they open: safety runs take both as symmetry sets.               *)
(***************************************************************************)
EXTENDS Presence, TLC

Symmetry == Permutations(Handlers) \cup Permutations(Sockets)
=============================================================================
