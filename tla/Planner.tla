-------------------------------- MODULE Planner --------------------------------
(***************************************************************************)
(* The arithmetic of a night: how many teams to make of how many players,  *)
(* how large they are, which numbers suit which games and how long it all  *)
(* takes.  The Night Builder suggests before there is a night,             *)
(* SessionReadinessService warns before it starts, TeamFormationService    *)
(* suggests and decides when the teams of a game are made: three places    *)
(* that should agree.                                                      *)
(***************************************************************************)
EXTENDS Integers, FiniteSets

CONSTANTS
    MinTeams,    \* LIMITS.MIN_TEAMS_PER_GAME
    MaxTeams,    \* LIMITS.MAX_TEAMS_PER_GAME
    Preferred    \* PLANNING.DEFAULT_TEAM_COUNT

ASSUME LimitsAssumption ==
    /\ MinTeams \in Nat \ {0} /\ MaxTeams \in Nat /\ Preferred \in Nat
    /\ MinTeams <= MaxTeams

Larger(a, b) == IF a >= b THEN a ELSE b
Smaller(a, b) == IF a <= b THEN a ELSE b

\* What a library entry asks for: a number of players between min and max, both
\* columns being NOT NULL, and for a team game a number of teams (0 for NULL).
Entry == [min : Nat, max : Nat, teams : Nat]

-----------------------------------------------------------------------------
(* night-planner.util.ts.                                                    *)

\* splitEvenly.
SplitEvenly(total, groups) ==
    [i \in 1..groups |-> total \div groups + (IF i <= total % groups THEN 1 ELSE 0)]

\* suggestTeamCount: the preferred number, between a floor and a ceiling.
Floor(need) == Larger(MinTeams, need)
Ceiling(players, need) == Larger(Floor(need), Smaller(MaxTeams, Larger(players, 1)))
SuggestTeamCount(players, need) ==
    Smaller(Larger(Preferred, Floor(need)), Ceiling(players, need))

\* segmentMinutes, with Math.round of base * rounds / recommended.
SegmentMinutes(base, rounds, recommended) ==
    IF recommended < 1 THEN base
    ELSE Larger(1, (2 * base * rounds + recommended) \div (2 * recommended))

\* buildTimeline: when each of the games starts, and when the last one is over.
Offsets(minutes, n) ==
    LET offset[i \in 0..n] == IF i = 0 THEN 0 ELSE offset[i - 1] + minutes[i] IN offset

-----------------------------------------------------------------------------
(* suggestPlan: the numbers of a night of the given games, and its warnings. *)

\* The most teams that one of the games needs; 0 if none says.
IsNeed(need, games) ==
    /\ \A g \in games : g.teams <= need
    /\ need = 0 \/ \E g \in games : g.teams = need

SomeTeamEmpty(players, count) == players # 0 /\ players < count
TooFewTeams(need, count) == need > count
PlanFits(players, g) == (players = 0 \/ players >= g.min) /\ players <= g.max

\* buildWarnings has nothing to say of the numbers.
NoWarnings(players, need, games) ==
    LET count == SuggestTeamCount(players, need) IN
    /\ players # 0 /\ ~SomeTeamEmpty(players, count) /\ ~TooFewTeams(need, count)
    /\ \A g \in games : PlanFits(players, g)

\* validatePlayerCountForGames, of the players who are active.
HeadcountValid(players, games) == \A g \in games : players >= g.min /\ players <= g.max

-----------------------------------------------------------------------------
(* The teams of one game.                                                    *)

\* validateTeamFormation: the errors, not the warnings.  0 stands for a column the
\* library entry does not have, or there is no entry.
Formable(players, count, g) ==
    /\ count >= 2 /\ count <= MaxTeams
    /\ players \div count # 0
    /\ g.min = 0 \/ players >= g.min
    /\ g.max = 0 \/ players <= g.max

\* suggestTeamFormation: two to six teams, with no empty one.
SuggestedCounts(players) ==
    {count \in 2..Smaller(players, 6) : players \div count # 0}

\* The strategy that goes with a suggested count.
SuggestedWay(count) == IF count <= 3 THEN "snake" ELSE "deal"
=============================================================================
