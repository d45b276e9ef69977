----------------------------- MODULE SessionLife -----------------------------
(***************************************************************************)
(* What the life of a games night promises, whatever its handlers do: a    *)
(* closed night stays closed, a night is completed only when none of its   *)
(* games is unfinished, and cancelling a night leaves none unfinished.     *)
(* Session is shown to implement it.                                       *)
(***************************************************************************)
CONSTANT Games

VARIABLES
    status,      \* of the night, "REMOVED" once it has been deleted
    unfinished   \* its games that are neither completed nor cancelled

vars == <<status, unfinished>>

Init == status = "SCHEDULED" /\ unfinished = {}

Start == status = "SCHEDULED" /\ status' = "IN_PROGRESS" /\ UNCHANGED unfinished

Complete ==
    /\ status = "IN_PROGRESS" /\ status' = "COMPLETED"
    /\ unfinished = {} /\ UNCHANGED unfinished

Cancel ==
    /\ status \in {"SCHEDULED", "IN_PROGRESS"} /\ status' = "CANCELLED"
    /\ unfinished' = {}

Remove == status # "REMOVED" /\ status' = "REMOVED" /\ unfinished' = {}

\* Games are added, played, finished, reset and removed.
Play ==
    /\ status # "REMOVED" /\ UNCHANGED status
    /\ unfinished' \in SUBSET Games

Next == Start \/ Complete \/ Cancel \/ Remove \/ Play

Spec == Init /\ [][Next]_vars
=============================================================================
