--------------------------- MODULE GameLifecycle ----------------------------
(***************************************************************************)
(* What the game API promises a host, with no database, timer or overlap:  *)
(* the phases a game goes through, the round it is in, what a pause goes   *)
(* back to, and the outcome that is settled when the game is completed.    *)
(* Game.tla implements it when one request is handled at a time.           *)
(***************************************************************************)
EXTENDS Integers

CONSTANTS MaxRounds, Outcomes, None

VARIABLES phase, round, resumeTo, outcome

lifeVars == <<phase, round, resumeTo, outcome>>

Closed == {"completed", "cancelled", "deleted"}

LifeInit ==
    phase = "pending" /\ round = 0 /\ resumeTo = None /\ outcome = None

\* A step from one of the phases in from to the phase to.
Move(from, to, newRound) ==
    /\ phase \in from /\ phase' = to /\ round' = newRound
    /\ resumeTo' = None /\ UNCHANGED outcome

Start      == Move({"pending"}, "started", 1)
FirstRound == round = 1 /\ Move({"started"}, "playing", 1)
NextRound  == round < MaxRounds /\ Move({"between"}, "playing", round + 1)
EndRound   == Move({"playing"}, "between", round)
Resume     == Move({"paused"}, resumeTo, round)
Cancel     == phase \notin Closed /\ Move({phase}, "cancelled", round)

Pause ==
    /\ phase \in {"started", "playing"} /\ phase' = "paused"
    /\ resumeTo' = phase /\ UNCHANGED <<round, outcome>>

\* Every round counts as played, and the outcome is settled for good.
Complete ==
    /\ phase \notin Closed /\ phase' = "completed" /\ round' = MaxRounds
    /\ resumeTo' = None /\ outcome' \in Outcomes

Reset == phase \notin {"completed", "deleted"} /\ Move({phase}, "pending", 0)

Delete ==
    /\ phase # "deleted" /\ phase' = "deleted" /\ round' = 0
    /\ resumeTo' = None /\ outcome' = None

LifeNext ==
    \/ Start \/ FirstRound \/ NextRound \/ EndRound \/ Pause \/ Resume
    \/ Complete \/ Cancel \/ Reset \/ Delete

LifeSpec == LifeInit /\ [][LifeNext]_lifeVars
=============================================================================
