------------------------------ MODULE MCInvites ------------------------------
(***************************************************************************)
(* Invites for TLC.                                                        *)
(***************************************************************************)
EXTENDS Invites, TLC
=============================================================================
