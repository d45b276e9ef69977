------------------------------- MODULE Scoring -------------------------------
(***************************************************************************)
(* Points and what is computed from them: ScoreService with the standings  *)
(* of a game and the leaderboard of a session, GameResult records and the  *)
(* statistics of a player that HistoryService makes of them.               *)
(*                                                                         *)
(* Every request is one action here; the awaits within submitting a score  *)
(* and completing a game are those of module Game.                         *)
(***************************************************************************)
EXTENDS Integers, FiniteSets, FiniteSetsExt, SequencesExt

CONSTANTS
    Games,       \* games of the session
    TeamGames,   \* those with scoreMode TEAM; the others are INDIVIDUAL
    Teams,
    Players,
    Ids,         \* ids of score rows (bound: rows that exist at a time)
    Points,      \* what a score can be worth; it may be negative
    MaxRounds,   \* bound: rounds of each game
    MaxAway,     \* bound: teams that are deleted or no longer in a team game
    MaxResults,  \* bound: games that are completed
    None

ASSUME ConstantsAssumption ==
    /\ TeamGames \subseteq Games /\ Points \subseteq Int
    /\ MaxRounds \in [Games -> Nat] /\ MaxAway \in Nat /\ MaxResults \in Nat
    /\ IsFiniteSet(Ids) /\ IsFiniteSet(Teams) /\ IsFiniteSet(Players)
    /\ None \notin Games \cup Teams \cup Players /\ Teams \cap Players = {}

VARIABLES
    rows,        \* table score
    gameOf,      \* the game of each team, None when the team was deleted
    round,       \* currentRound, 0 before the game starts
    result,      \* the GameResult of each game, None until it is completed
    lineup       \* history variable: the teams a game had when it was completed

vars == <<rows, gameOf, round, result, lineup>>

Entrants == Teams \cup Players

Exists(i) == rows[i] # None
TeamsOf(g) == {t \in Teams : gameOf[t] = g}

Row == [game : Games, round : Nat, points : Int,
        team : Teams \cup {None}, player : Players \cup {None}]

\* Rows refer to teams that exist; a result has as many entries as
\* the game had entrants, and its winning team is one of them.
TypeOK ==
    /\ rows \in [Ids -> Row \cup {None}]
    /\ gameOf \in [Teams -> Games \cup {None}]
    /\ lineup \in [Games -> SUBSET Teams]
    /\ \A g \in Games : round[g] \in 0..MaxRounds[g]
    /\ \A i \in Ids : Exists(i) /\ rows[i].team # None => gameOf[rows[i].team] # None
    /\ \A g \in Games : result[g] # None =>
        LET final == result[g].final IN
        /\ \A i \in DOMAIN final : /\ final[i].id \in Entrants /\ final[i].total \in Int
                                   /\ final[i].rank \in DOMAIN final
        /\ result[g].winner # None => /\ gameOf[result[g].winner] # None
                                      /\ \E i \in DOMAIN final : final[i].id = result[g].winner
        /\ result[g].tied \in BOOLEAN

Init ==
    /\ rows = [i \in Ids |-> None]
    /\ gameOf \in [Teams -> TeamGames]
    /\ round = [g \in Games |-> 0]
    /\ result = [g \in Games |-> None]
    /\ lineup = [g \in Games |-> {}]

-----------------------------------------------------------------------------
(* The standings of a game.                                                  *)

Sum(is) == MapThenSumSet(LAMBDA i : rows[i].points, is)

\* The entrant of a row for a game of this mode; None rows are skipped.
EntrantOf(g, i) == IF g \in TeamGames THEN rows[i].team ELSE rows[i].player

RowsOf(g, e) == {i \in Ids : Exists(i) /\ rows[i].game = g /\ EntrantOf(g, i) = e}

\* aggregateByEntrant: the teams of a team game start at 0; whoever else has
\* scored comes in with the first of his rows.
EntrantsOf(g) ==
    {t \in TeamsOf(g) : g \in TeamGames} \cup {e \in Entrants : RowsOf(g, e) # {}}

\* One group per entrant and round.
RoundPoints(g, e, r) == Sum({i \in RowsOf(g, e) : rows[i].round = r})

RoundsOf(g, e) == {rows[i].round : i \in RowsOf(g, e)}

\* Mutant of Total: the total is read from the last group.
TotalOfLast(g, e) ==
    IF RoundsOf(g, e) = {} THEN 0 ELSE RoundPoints(g, e, Max(RoundsOf(g, e)))

\* The groups of an entrant are added up.
Total(g, e) == MapThenSumSet(LAMBDA r : RoundPoints(g, e, r), RoundsOf(g, e))

Totals(g) == [e \in EntrantsOf(g) |-> Total(g, e)]

\* Sorting by descending total; equal totals come in any order.
Sorted(total) ==
    {s \in SetToSeqs(DOMAIN total) :
        \A i, j \in DOMAIN s : i < j => total[s[i]] >= total[s[j]]}

\* The loop over the sorted entrants: an equal total keeps the rank.
Ranks(total, s) ==
    LET rank[i \in DOMAIN s] ==
            IF i > 1 /\ total[s[i]] = total[s[i - 1]] THEN rank[i - 1] ELSE i
    IN [i \in DOMAIN s |-> rank[i]]

\* Mutant of Standings: tied with the one before, as the flag was set once.
StandingsTiedWithPrev(total, s) ==
    LET rank == Ranks(total, s) IN
    [i \in DOMAIN s |-> [id |-> s[i], total |-> total[s[i]], rank |-> rank[i],
                         tied |-> i > 1 /\ rank[i] = rank[i - 1]]]

\* getRankedGameScores: tied is who shares his rank.
Standings(total, s) ==
    LET rank == Ranks(total, s) IN
    [i \in DOMAIN s |-> [id |-> s[i], total |-> total[s[i]], rank |-> rank[i],
                         tied |-> \E j \in DOMAIN s \ {i} : rank[j] = rank[i]]]

\* determineWinner: the first, unless another one is level with him.
Winner(st) ==
    IF st = <<>> \/ \E i \in DOMAIN st \ {1} : st[i].total = st[1].total /\ st[i].rank = 1
    THEN None ELSE st[1].id

\* getResults, and the results of a completed game: a tie for the first place.
TiedForFirst(st) == Cardinality({i \in DOMAIN st : st[i].rank = 1}) > 1

-----------------------------------------------------------------------------
(* The leaderboard of the session: teams only, whatever the mode of a game.  *)

TeamRows(t, g) == {i \in Ids : Exists(i) /\ rows[i].team = t /\ rows[i].game = g}

\* gamePoints of a team: the games it has a score in.
GamesOf(t) == {g \in Games : TeamRows(t, g) # {}}
GamePoints(t, g) == Sum(TeamRows(t, g))

BoardTeams == {t \in Teams : GamesOf(t) # {}}
BoardTotal == [t \in BoardTeams |-> MapThenSumSet(LAMBDA g : GamePoints(t, g), GamesOf(t))]

\* Mutant of BoardWinner: the search for the best starts from 0.
BoardWinnerFromZero(g) ==
    LET entries == {t \in BoardTeams : g \in GamesOf(t)}
        best    == Max({0} \cup {GamePoints(t, g) : t \in entries})
        leaders == {t \in entries : GamePoints(t, g) = best}
    IN IF Cardinality(leaders) = 1 THEN CHOOSE t \in leaders : TRUE ELSE None

\* The second pass: the best of the teams with a score in the game.
BoardWinner(g) ==
    LET entries == {t \in BoardTeams : g \in GamesOf(t)}
        best    == Max({GamePoints(t, g) : t \in entries})
        leaders == {t \in entries : GamePoints(t, g) = best}
    IN IF entries # {} /\ Cardinality(leaders) = 1 THEN CHOOSE t \in leaders : TRUE ELSE None

GamesWon(t) == Cardinality({g \in GamesOf(t) : BoardWinner(g) = t})

\* SessionService.getLeaderboard: the first of the sorted board is the champion,
\* also when others are level with it.
Champions == {IF s = <<>> THEN None ELSE s[1] : s \in Sorted(BoardTotal)}

-----------------------------------------------------------------------------
(* Requests.                                                                 *)

\* A row is inserted.  Scores are taken during a round only.
Insert(g, team, player, pts) ==
    /\ result[g] = None /\ round[g] > 0
    /\ \E i \in Ids : /\ ~Exists(i)
                      /\ rows' = [rows EXCEPT ![i] =
                            [game |-> g, round |-> round[g], points |-> pts,
                             team |-> team, player |-> player]]
    /\ UNCHANGED <<gameOf, round, result, lineup>>

\* submitGameScore: a player of the session or a team of the game, by the mode.
SubmitGameScore(g) ==
    \E pts \in Points :
        \/ g \notin TeamGames /\ \E p \in Players : Insert(g, None, p, pts)
        \/ g \in TeamGames /\ \E t \in TeamsOf(g) : Insert(g, t, None, pts)

\* create asks for no mode: any player, a team of the game, both or neither.
Create(g) ==
    \E pts \in Points, p \in Players \cup {None}, t \in TeamsOf(g) \cup {None} :
        Insert(g, t, p, pts)

\* update and delete, whatever the status of the game.
Update(i) ==
    /\ Exists(i)
    /\ \E pts \in Points : rows' = [rows EXCEPT ![i].points = pts]
    /\ UNCHANGED <<gameOf, round, result, lineup>>

Delete(i) ==
    /\ Exists(i) /\ rows' = [rows EXCEPT ![i] = None]
    /\ UNCHANGED <<gameOf, round, result, lineup>>

\* The next round of a game is started.
NextRound(g) ==
    /\ result[g] = None /\ round[g] < MaxRounds[g]
    /\ round' = [round EXCEPT ![g] = @ + 1]
    /\ UNCHANGED <<rows, gameOf, result, lineup>>

\* resetGame with deleteGameScores.
Reset(g) ==
    /\ result[g] = None
    /\ rows' = [i \in Ids |-> IF Exists(i) /\ rows[i].game = g THEN None ELSE rows[i]]
    /\ round' = [round EXCEPT ![g] = 0]
    /\ UNCHANGED <<gameOf, result, lineup>>

FinalScores(st) ==
    [i \in DOMAIN st |-> [id |-> st[i].id, total |-> st[i].total, rank |-> st[i].rank]]

\* Mutant of ResultOf: the game is loaded without its teams, where no winner is found.
ResultOfNoTeams(g, st) ==
    [final |-> FinalScores(st), winner |-> None, tied |-> TiedForFirst(st)]

\* createGameResult: the winning team is looked for among the teams of the game,
\* where no player is found.
ResultOf(g, st) ==
    [final |-> FinalScores(st),
     winner |-> IF ~TiedForFirst(st) /\ Winner(st) \in TeamsOf(g)
                THEN Winner(st) ELSE None,
     tied |-> TiedForFirst(st)]

\* completeGame and createGameResult.
Complete(g) ==
    /\ result[g] = None /\ Cardinality({h \in Games : result[h] # None}) < MaxResults
    /\ \E s \in Sorted(Totals(g)) :
        result' = [result EXCEPT ![g] = ResultOf(g, Standings(Totals(g), s))]
    /\ lineup' = [lineup EXCEPT ![g] = TeamsOf(g)]
    /\ UNCHANGED <<rows, gameOf, round>>

\* t may leave its game: not more than MaxAway teams are away.
MayLeave(t) ==
    /\ gameOf[t] # None
    /\ Cardinality({u \in Teams \ {t} : gameOf[u] \notin TeamGames}) < MaxAway

\* TeamService.update moves a team; its scores stay with the game.
MoveTeam(t) ==
    /\ MayLeave(t)
    /\ \E g \in Games : gameOf' = [gameOf EXCEPT ![t] = g]
    /\ UNCHANGED <<rows, round, result, lineup>>

\* Mutant of DeleteTeam: the scores of the team are kept.
DeleteTeamKeepsScores(t) ==
    /\ MayLeave(t) /\ gameOf' = [gameOf EXCEPT ![t] = None]
    /\ result' = [g \in Games |->
                    IF result[g] # None /\ result[g].winner = t
                    THEN [result[g] EXCEPT !.winner = None] ELSE result[g]]
    /\ UNCHANGED <<rows, round, lineup>>

\* A team is deleted with its scores (CASCADE) and is no game's winner any more
\* (SET NULL).
DeleteTeam(t) ==
    /\ MayLeave(t) /\ gameOf' = [gameOf EXCEPT ![t] = None]
    /\ rows' = [i \in Ids |-> IF Exists(i) /\ rows[i].team = t THEN None ELSE rows[i]]
    /\ result' = [g \in Games |->
                    IF result[g] # None /\ result[g].winner = t
                    THEN [result[g] EXCEPT !.winner = None] ELSE result[g]]
    /\ UNCHANGED <<round, lineup>>

Next ==
    \/ \E g \in Games : SubmitGameScore(g) \/ Create(g) \/ NextRound(g) \/ Reset(g) \/ Complete(g)
    \/ \E i \in Ids : Update(i) \/ Delete(i)
    \/ \E t \in Teams : MoveTeam(t) \/ DeleteTeam(t)

Spec == Init /\ [][Next]_vars

-----------------------------------------------------------------------------
(* The statistics of a player.                                               *)

\* buildPlayerStats: the first entry of a result that is his or of one of his teams.
Entry(p, of, final) ==
    LET his == {i \in DOMAIN final : final[i].id \in of \cup {p}} IN
    IF his = {} THEN 0 ELSE Min(his)

Played(p, of) == {g \in Games : result[g] # None /\ Entry(p, of, result[g].final) # 0}

\* His team is the winning team, or he was first by himself.
Won(p, of) ==
    {g \in Played(p, of) :
        LET mine == result[g].final[Entry(p, of, result[g].final)] IN
        mine.id = result[g].winner \/ (mine.id = p /\ mine.rank = 1 /\ ~result[g].tied)}

-----------------------------------------------------------------------------
(* Properties.                                                               *)

\* What an entrant has scored in a game: all his rows at once.
Scored(g, e) == Sum(RowsOf(g, e))

\* However the sort leaves entrants with equal points: who has n entrants before
\* him is ranked n + 1, tied is who has the points of another, and the winner is who
\* has more points than every other entrant, if there is one.
RankedFairly ==
    \A g \in Games :
        LET total     == Totals(g)
            scored    == [e \in EntrantsOf(g) |-> Scored(g, e)]
            better(e) == {f \in DOMAIN scored : scored[f] > scored[e]}
            level(e)  == {f \in DOMAIN scored \ {e} : scored[f] = scored[e]}
        IN \A s \in Sorted(total) :
            LET st == Standings(total, s) IN
            /\ \A i \in DOMAIN st :
                /\ st[i].rank = Cardinality(better(st[i].id)) + 1
                /\ st[i].tied <=> level(st[i].id) # {}
            /\ \A e \in DOMAIN scored :
                Winner(st) = e <=> better(e) = {} /\ level(e) = {}
            /\ Winner(st) = None => scored = <<>> \/ TiedForFirst(st)

\* The leaderboard agrees with the scores and the standings: no team that has scored
\* is missing, its total is that of all its scores, nobody has more points than the
\* champion; a game is won by the team with more points than every other one that has
\* scored in it, which is the winner of the standings unless that one, or a team level
\* with it, has no score in the game at all.
BoardAddsUp ==
    /\ \A t \in Teams :
        LET all == {i \in Ids : Exists(i) /\ rows[i].team = t} IN
        /\ t \in BoardTeams <=> all # {}
        /\ all # {} => BoardTotal[t] = Sum(all)
    /\ \A c \in Champions : c # None => \A t \in BoardTeams : BoardTotal[c] >= BoardTotal[t]
    /\ \A g \in Games, t \in Teams :
        BoardWinner(g) = t <=>
            /\ g \in GamesOf(t)
            /\ \A u \in Teams \ {t} :
                g \in GamesOf(u) => Sum(TeamRows(t, g)) > Sum(TeamRows(u, g))
    /\ \A g \in TeamGames :
        LET total == Totals(g) IN
        \A s \in Sorted(total) :
            \/ BoardWinner(g) = Winner(Standings(total, s))
            \/ \E t \in DOMAIN total :
                g \notin GamesOf(t) /\ \A u \in DOMAIN total : total[u] <= total[t]

\* Who has won a recorded game, by his statistics, has alone the most points of its
\* final scores; and who has is counted as the winner, unless by a team that was not
\* in the game any more when it was completed.  of are the teams he is in, which
\* exist, with at most one entry in the game.
WinsAreEarned ==
    \A p \in Players, of \in SUBSET {t \in Teams : gameOf[t] # None}, g \in Games :
        result[g] # None =>
        LET final    == result[g].final
            his      == {i \in DOMAIN final : final[i].id \in of \cup {p}}
            alone(i) == \A j \in DOMAIN final \ {i} : final[i].total > final[j].total
        IN \A i \in his : Cardinality(his) = 1 =>
            /\ g \in Won(p, of) => alone(i)
            /\ alone(i) => g \in Won(p, of) \/ final[i].id \in Teams \ lineup[g]
=============================================================================
