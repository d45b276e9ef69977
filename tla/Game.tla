-------------------------------- MODULE Game --------------------------------
(***************************************************************************)
(* One game of a night: its row in the database, the request handlers of   *)
(* GameService that read it and write it back, the in-memory turn timer of *)
(* GameTimerService, and the history record HistoryService writes when the *)
(* game is completed.                                                      *)
(*                                                                         *)
(* The server is one Node.js process.  A handler runs without interruption *)
(* between two awaits and is interleaved with every other handler at each  *)
(* of them, so a handler is a sequence of actions of a worker w: it loads  *)
(* the game as an entity, may await further reads, saves the entity, and   *)
(* then, in the continuation of the save, starts or stops the turn timer.  *)
(* Cardinality(Workers) bounds how many handlers overlap; with one worker  *)
(* a handler starts only when the previous one is over.                    *)
(***************************************************************************)
EXTENDS Integers, FiniteSets

CONSTANTS
    Workers,     \* handlers (requests, timer callbacks) that may overlap
    Teams,       \* teams of the session; their numbers give their position
    Players,     \* active guests of the session, numbered in id order
    Modes,       \* score modes a client may ask for: "TEAM", "INDIVIDUAL"
    MaxRounds,   \* maxRounds of the game
    MaxScores,   \* how many score rows one entrant may be given (bound)
    Timed,       \* does the game have a turnTimeLimit
    Ops,         \* the operations the environment uses
    None,        \* SQL NULL, or "no entrant"
    Undef        \* undefined: a column that TypeORM's save leaves alone

Entrants == Teams \cup Players
Scores   == Entrants \X (1 .. MaxScores)   \* row <<e, k>>: a point for e

Status == {"PENDING", "IN_PROGRESS", "ROUND_IN_PROGRESS", "ROUND_ENDED",
           "PAUSED", "COMPLETED", "CANCELLED"}
Active == {"IN_PROGRESS", "ROUND_IN_PROGRESS"}
Over   == {"COMPLETED", "CANCELLED"}

ASSUME ConstantsAssumption ==
    /\ Workers # {}
    /\ Teams \subseteq Nat /\ Players \subseteq Nat
    /\ IsFiniteSet(Teams) /\ IsFiniteSet(Players)
    /\ Teams \cap Players = {}
    /\ Modes \subseteq {"TEAM", "INDIVIDUAL"} /\ Modes # {}
    /\ MaxRounds \in Nat \ {0}
    /\ MaxScores \in Nat
    /\ Timed \in BOOLEAN

ASSUME NullAssumption ==
    /\ None # Undef
    /\ None \notin Entrants /\ Undef \notin Entrants
    /\ None \notin Status /\ Undef \notin Status
    /\ None \notin BOOLEAN /\ Undef \notin BOOLEAN
    /\ \A e \in Entrants \cup {None}, b \in BOOLEAN :
          [top |-> e, tied |-> b] \notin {None, Undef}

\* The results JSON: who alone is first in the standings, and whether first
\* place is shared.  completedAt is set and unset with it.
Results == [top : Entrants \cup {None}, tied : BOOLEAN]

(***************************************************************************)
(* A row of table game, and a loaded entity, some of whose columns a       *)
(* handler may have set to undefined.  teams and scores stand for the      *)
(* OneToMany relations: the team and score rows whose gameId is this game. *)
(***************************************************************************)
Row == [status : Status, round : 0 .. MaxRounds, mode : {"TEAM", "INDIVIDUAL"},
        turnTeam : Teams \cup {None}, turnPlayer : Players \cup {None},
        started : BOOLEAN, before : Active \cup {None},
        winner : Entrants \cup {None}, results : Results \cup {None},
        teams : SUBSET Teams, scores : SUBSET Scores]

Entity == [status : Status, round : 0 .. MaxRounds,
           mode : {"TEAM", "INDIVIDUAL"},
           turnTeam : Teams \cup {None, Undef},
           turnPlayer : Players \cup {None, Undef},
           started : BOOLEAN \cup {Undef}, before : Active \cup {None, Undef},
           winner : Entrants \cup {None, Undef},
           results : Results \cup {None, Undef},
           teams : SUBSET Teams, scores : SUBSET Scores]

NewRow(mode) ==
    [status |-> "PENDING", round |-> 0, mode |-> mode, turnTeam |-> None,
     turnPlayer |-> None, started |-> FALSE, before |-> None,
     winner |-> None, results |-> None, teams |-> {}, scores |-> {}]

Blank == NewRow("TEAM")

VARIABLES
    row,       \* the game's row (Blank when there is none)
    exists,    \* is there a row
    history,   \* its row in game_result, None if there is none
    teams,     \* the session's team rows
    points,    \* the score rows, including those no game owns any more
    active,    \* players whose status is not DISCONNECTED
    timer,     \* the entrant whose turn is timed, None if no timer runs
    op, pc,    \* what each worker's handler is, and what it does next
    ent        \* the entity each worker's handler holds

store == <<row, exists, history, teams, points>>
vars  == <<row, exists, history, teams, points, active, timer, op, pc, ent>>

OpNames == {"startGame", "forceStartGame", "startFirstRound", "startNextRound",
            "endCurrentRound", "pauseGame", "resumeGame", "nextTurn",
            "autoTurn", "completeGame", "cancelGame", "resetGame", "update",
            "submitScore", "createScore", "cancelSession"}
Steps == {"idle", "load", "teams", "roster", "standings", "winner", "wipe",
          "unarm", "save", "insertScore", "post", "record", "insertResult"}

TypeOK ==
    /\ row \in Row /\ exists \in BOOLEAN
    /\ history \in [winner : Entrants \cup {None}, results : Results] \cup {None}
    /\ teams \in SUBSET Teams /\ points \in SUBSET Scores
    /\ active \in SUBSET Players
    /\ timer \in Entrants \cup {None}
    /\ op \in [Workers -> OpNames \cup {"none"}]
    /\ pc \in [Workers -> Steps]
    /\ ent \in [Workers -> Entity]

\* GameService.create
Init ==
    /\ row \in {NewRow(m) : m \in Modes} /\ exists = TRUE /\ history = None
    /\ teams = Teams /\ points = {} /\ active = Players
    /\ timer = None
    /\ op = [w \in Workers |-> "none"] /\ pc = [w \in Workers |-> "idle"]
    /\ ent = [w \in Workers |-> Blank]

-----------------------------------------------------------------------------
(* The steps every handler is made of *)

Idle(w) == pc[w] = "idle"

\* A handler that is a single statement needs a worker too.
FreeWorker == \E w \in Workers : Idle(w)

\* A request arrives and its handler loads the game (findOne).  The guards of
\* the handler follow in the same continuation; a request they refuse leaves
\* no trace.  The handler goes on with entity e at step next.
Load(w, name, e, next) ==
    /\ exists
    /\ op' = [op EXCEPT ![w] = name]
    /\ ent' = [ent EXCEPT ![w] = e]
    /\ pc' = [pc EXCEPT ![w] = next]
    /\ UNCHANGED <<store, active, timer>>

Request(w, name, e, next) == Idle(w) /\ name \in Ops /\ Load(w, name, e, next)

\* Hold entity e and go on with step next (a read came back).
Proceed(w, e, next) ==
    /\ ent' = [ent EXCEPT ![w] = e]
    /\ pc' = [pc EXCEPT ![w] = next]
    /\ UNCHANGED op

Finish(w) ==
    /\ op' = [op EXCEPT ![w] = "none"]
    /\ ent' = [ent EXCEPT ![w] = Blank]
    /\ pc' = [pc EXCEPT ![w] = "idle"]

\* What repo.save(e) leaves in the row: every column of the entity, changed by
\* this handler or not, except those that are undefined; the relations it
\* carries are reconciled, so a child row the entity does not list loses its
\* gameId, and one that it lists and that still exists gets it (back).
Kept(new, old) == IF new = Undef THEN old ELSE new

Saved(e) ==
    [e EXCEPT !.turnTeam = Kept(e.turnTeam, row.turnTeam),
              !.turnPlayer = Kept(e.turnPlayer, row.turnPlayer),
              !.started = Kept(e.started, row.started),
              !.before = Kept(e.before, row.before),
              !.winner = Kept(e.winner, row.winner),
              !.results = Kept(e.results, row.results),
              !.teams = e.teams \cap teams,
              !.scores = e.scores \cap points]

Persist(e) == row' = Saved(e) /\ exists' = TRUE

\* The save commits; the handler's continuation is step next.
SaveAnd(w, next) ==
    /\ pc[w] = "save"
    /\ Persist(ent[w])
    /\ IF next = "done" THEN Finish(w) ELSE Proceed(w, ent[w], next)
    /\ UNCHANGED <<history, teams, points, active, timer>>

-----------------------------------------------------------------------------
(* Starting a game and its rounds *)

StartGame(w) ==
    /\ row.status = "PENDING"
    /\ Request(w, "startGame", row, "teams")

\* The teams named in the request were found in the session (or the players
\* counted, the host's own row with them if there is one); an individual game
\* plays without teams.  The two team ids it takes may be the same one twice.
ChooseTeams(w) ==
    /\ pc[w] = "teams"
    /\ \/ /\ ent[w].mode = "INDIVIDUAL"
          /\ \E host \in {0, 1} : Cardinality(Players) + host >= 2
          /\ Proceed(w, [ent[w] EXCEPT !.teams = {}, !.status = "IN_PROGRESS",
                                       !.round = 1], "save")
       \/ /\ ent[w].mode = "TEAM"
          /\ \E chosen \in SUBSET teams \ {{}} :
                Proceed(w, [ent[w] EXCEPT !.teams = chosen,
                                          !.status = "IN_PROGRESS",
                                          !.round = 1], "save")
       \/ Finish(w)     \* too few, or a team of the request is not there
    /\ UNCHANGED <<store, active, timer>>

ForceStartGame(w) ==
    /\ row.status = "PENDING"
    /\ Request(w, "forceStartGame",
               [row EXCEPT !.status = "IN_PROGRESS", !.round = 1,
                           !.started = TRUE], "save")

StartFirstRound(w) ==
    /\ row.status = "IN_PROGRESS" /\ row.round = 1
    /\ Request(w, "startFirstRound",
               [row EXCEPT !.status = "ROUND_IN_PROGRESS"], "save")

\* Mutant of StartNextRound: the maximum is not checked.
StartNextRoundUnbounded(w) ==
    /\ row.status = "ROUND_ENDED"
    /\ Request(w, "startNextRound",
               [row EXCEPT !.status = "ROUND_IN_PROGRESS", !.round = @ + 1],
               "save")

\* It does not touch the turn timer that endCurrentRound stopped.
StartNextRound(w) ==
    /\ row.status = "ROUND_ENDED" /\ row.round < MaxRounds
    /\ Request(w, "startNextRound",
               [row EXCEPT !.status = "ROUND_IN_PROGRESS", !.round = @ + 1],
               "save")

\* Mutant of EndCurrentRound: the last round just flips the status.
EndCurrentRoundFlips(w) ==
    /\ row.status = "ROUND_IN_PROGRESS"
    /\ Request(w, "endCurrentRound",
               [row EXCEPT !.status = IF row.round >= MaxRounds
                                      THEN "COMPLETED" ELSE "ROUND_ENDED"],
               "save")

EndCurrentRound(w) ==
    /\ row.status = "ROUND_IN_PROGRESS"
    /\ Request(w, "endCurrentRound",
               [row EXCEPT !.status = "ROUND_ENDED"], "save")

\* Only the name or, while the game is pending, the score mode can change; the
\* save writes the whole entity all the same.
Update(w) ==
    \E m \in Modes :
        /\ m # row.mode => row.status = "PENDING"
        /\ Request(w, "update", [row EXCEPT !.mode = m], "save")

-----------------------------------------------------------------------------
(* Turns *)

NextTurn(w) ==
    /\ row.status \in Active
    /\ Request(w, "nextTurn", row, "roster")

\* The countdown of the armed timer is over: handleTimerExpired stops the timer
\* and calls nextTurn, which first loads the game.
TimerExpires(w) ==
    /\ Idle(w) /\ timer # None
    /\ timer' = None
    /\ op' = [op EXCEPT ![w] = "autoTurn"]
    /\ pc' = [pc EXCEPT ![w] = "load"]
    /\ UNCHANGED <<store, active, ent>>

AutoTurn(w) ==
    /\ pc[w] = "load" /\ op[w] = "autoTurn"
    /\ IF exists /\ row.status \in Active
       THEN Proceed(w, row, "roster") ELSE Finish(w)
    /\ UNCHANGED <<store, active, timer>>

\* Who may have a turn in the game entity e: findByGame, or the session's
\* active guests; both are read after the game was.
Roster(e) == IF e.mode = "INDIVIDUAL" THEN active ELSE row.teams

Current(e) == IF e.mode = "INDIVIDUAL" THEN e.turnPlayer ELSE e.turnTeam

\* Mutant of IsSuccessor: the last of the roster keeps the turn.
IsSuccessorUnwrapped(n, cur, roster) ==
    /\ n \in roster
    /\ LET later == {x \in roster : cur \in roster /\ x > cur}
       IN  IF later = {} THEN cur \in roster => n = cur
           ELSE n \in later /\ \A x \in later : n <= x

\* n is the one after cur in roster order, the first one if cur is the last
\* of the roster or not in it.
IsSuccessor(n, cur, roster) ==
    /\ n \in roster
    /\ LET later == {x \in roster : cur \in roster /\ x > cur}
       IN  IF later = {} THEN \A x \in roster : n <= x
           ELSE n \in later /\ \A x \in later : n <= x

WithTurn(e, n) ==
    IF e.mode = "INDIVIDUAL"
    THEN [e EXCEPT !.turnPlayer = n, !.started = TRUE]
    ELSE [e EXCEPT !.turnTeam = n, !.started = TRUE]

\* The host may name the next entrant; an expired timer never does.
ChooseNext(w) ==
    /\ pc[w] = "roster"
    /\ LET e == ent[w]
           roster == Roster(e)
       IN  IF Cardinality(roster) >= 2
           THEN \E n \in roster :
                   /\ op[w] = "autoTurn" => IsSuccessor(n, Current(e), roster)
                   /\ Proceed(w, WithTurn(e, n), "save")
           ELSE Finish(w)
    /\ UNCHANGED <<store, active, timer>>

-----------------------------------------------------------------------------
(* Pausing, cancelling, resetting, deleting *)

\* Mutant of PauseGame: the status is not remembered.
PauseGameForgets(w) ==
    /\ row.status \in Active
    /\ Request(w, "pauseGame", [row EXCEPT !.status = "PAUSED"], "save")

PauseGame(w) ==
    /\ row.status \in Active
    /\ Request(w, "pauseGame",
               [row EXCEPT !.before = row.status, !.status = "PAUSED"], "save")

\* Mutant of ResumeGame: the status before the pause is guessed.
ResumeGameGuesses(w) ==
    /\ row.status = "PAUSED"
    /\ Request(w, "resumeGame",
               [row EXCEPT !.status = "IN_PROGRESS",
                           !.before = Undef, !.started = TRUE], "save")

\* statusBeforePause = undefined: the column keeps its value.
ResumeGame(w) ==
    /\ row.status = "PAUSED"
    /\ Request(w, "resumeGame",
               [row EXCEPT !.status = IF row.before = None THEN "IN_PROGRESS"
                                      ELSE row.before,
                           !.before = Undef, !.started = TRUE], "save")

\* Mutant of CancelGame: a completed game can be cancelled.
CancelGameAnyTime(w) ==
    /\ row.status # "CANCELLED"
    /\ Request(w, "cancelGame", [row EXCEPT !.status = "CANCELLED"], "save")

CancelGame(w) ==
    /\ row.status \notin Over
    /\ Request(w, "cancelGame", [row EXCEPT !.status = "CANCELLED"], "save")

ResetGame(w) ==
    /\ row.status # "COMPLETED"
    /\ Request(w, "resetGame", row, "wipe")

\* deleteGameScores commits, ...
WipeScores(w) ==
    /\ pc[w] = "wipe"
    /\ points' = points \ row.scores
    /\ row' = [row EXCEPT !.scores = {}]
    /\ Proceed(w, ent[w], "unarm")
    /\ UNCHANGED <<exists, history, teams, active, timer>>

\* ... then the timer is stopped and the entity reset; what is set to
\* undefined here is not written by the save.
ClearGame(w) ==
    /\ pc[w] = "unarm"
    /\ timer' = None
    /\ Proceed(w, [ent[w] EXCEPT !.status = "PENDING", !.round = 0,
                                 !.turnTeam = Undef, !.turnPlayer = Undef,
                                 !.started = Undef, !.before = Undef,
                                 !.winner = Undef, !.results = Undef], "save")
    /\ UNCHANGED <<store, active>>

\* findOne and remove: the row goes with its result, teams and scores
\* (ON DELETE CASCADE); the timer is not stopped.
DeleteGame ==
    /\ FreeWorker /\ "delete" \in Ops /\ exists
    /\ exists' = FALSE /\ row' = Blank /\ history' = None
    /\ teams' = teams \ row.teams
    /\ points' = {s \in points \ row.scores : s[1] \notin row.teams}
    /\ UNCHANGED <<active, timer, op, pc, ent>>

-----------------------------------------------------------------------------
(* Completing the game *)

CompleteGame(w) ==
    /\ row.status \notin Over
    /\ Request(w, "completeGame", row, "standings")

\* endCurrentRound went on to completeGame, which loads the game again.
CompleteAfterLastRound(w) ==
    /\ pc[w] = "load" /\ op[w] = "completeGame"
    /\ IF exists /\ row.status \notin Over
       THEN Proceed(w, row, "standings") ELSE Finish(w)
    /\ UNCHANGED <<store, active, timer>>

\* getRankedGameScores: the teams of a team game are all ranked, from 0 points;
\* an individual game ranks whoever has a score row.
Total(e) == Cardinality({s \in row.scores : s[1] = e})

Ranked ==
    {e \in IF row.mode = "INDIVIDUAL" THEN Players ELSE Teams :
        e \in row.teams \/ \E s \in row.scores : s[1] = e}

Leads(e) == e \in Ranked /\ \A f \in Ranked \ {e} : Total(e) > Total(f)

Outcome ==
    IF \E e \in Entrants : Leads(e)
    THEN [top |-> CHOOSE e \in Entrants : Leads(e), tied |-> FALSE]
    ELSE [top |-> None, tied |-> Ranked # {}]

ReadStandings(w) ==
    /\ pc[w] = "standings"
    /\ Proceed(w, [ent[w] EXCEPT !.results = Outcome], "winner")
    /\ UNCHANGED <<store, active, timer>>

\* Mutant of ReadWinner: a shared first place is given to one of its holders.
ReadWinnerBreaksTies(w) ==
    /\ pc[w] = "winner"
    /\ \E first \in Ranked \cup {None} :
          /\ \A f \in Ranked : first # None /\ Total(first) >= Total(f)
          /\ Proceed(w, [ent[w] EXCEPT !.winner = first,
                                       !.status = "COMPLETED",
                                       !.round = MaxRounds], "save")
    /\ UNCHANGED <<store, active, timer>>

\* determineWinner ranks the scores anew; without a winner, winnerId is left
\* as it was loaded.
ReadWinner(w) ==
    /\ pc[w] = "winner"
    /\ Proceed(w, [ent[w] EXCEPT !.winner = IF Outcome.top # None
                                            THEN Outcome.top ELSE @,
                                 !.status = "COMPLETED",
                                 !.round = MaxRounds], "save")
    /\ UNCHANGED <<store, active, timer>>

\* createGameResult: load the game, find no result yet; ...
LoadResult(w) ==
    /\ pc[w] = "record"
    /\ IF exists /\ history = None /\ row.results # None
       THEN Proceed(w, row, "insertResult") ELSE Finish(w)
    /\ UNCHANGED <<store, active, timer>>

\* The winner's name is looked up in the standings, where a winnerId of another
\* read or of an earlier completion need not be found.
RecordedWinner(e) ==
    IF e.results.tied \/ e.results.top = None THEN {None}
    ELSE {e.winner} \cup IF e.winner = e.results.top THEN {} ELSE {None}

\* Mutant of InsertResult: an upsert instead of a guarded insert.
InsertResultUpserts(w) ==
    /\ pc[w] = "insertResult"
    /\ exists
    /\ history' \in [winner : RecordedWinner(ent[w]), results : {ent[w].results}]
    /\ Finish(w)
    /\ UNCHANGED <<row, exists, teams, points, active, timer>>

\* ... insert it, which the unique index on gameId or the foreign key may
\* refuse.  completeGame swallows the error, and that of a lost connection.
InsertResult(w) ==
    /\ pc[w] = "insertResult"
    /\ \/ /\ history = None /\ exists
          /\ history' \in [winner : RecordedWinner(ent[w]),
                           results : {ent[w].results}]
       \/ /\ history # None \/ ~exists \/ "dbError" \in Ops
          /\ UNCHANGED history
    /\ Finish(w)
    /\ UNCHANGED <<row, exists, teams, points, active, timer>>

-----------------------------------------------------------------------------
(* The saves, and what the handlers do in their continuations *)

\* startGame, forceStartGame, the rounds, update and resetGame end here.
SaveAndReturn(w) ==
    /\ op[w] \in {"startGame", "forceStartGame", "startFirstRound",
                  "startNextRound", "update", "resetGame"}
    /\ SaveAnd(w, "done")

SaveAndGoOn(w) ==
    /\ op[w] \in {"endCurrentRound", "pauseGame", "resumeGame", "nextTurn",
                  "autoTurn", "completeGame", "cancelGame"}
    /\ SaveAnd(w, "post")

\* cancelGame and pauseGame stop the timer and return.
StopTimer(w) ==
    /\ pc[w] = "post" /\ op[w] \in {"cancelGame", "pauseGame"}
    /\ timer' = None
    /\ Finish(w)
    /\ UNCHANGED <<store, active>>

\* Mutant of AfterEndRound: the timer is left to run.
AfterEndRoundRunsOn(w) ==
    /\ pc[w] = "post" /\ op[w] = "endCurrentRound"
    /\ IF ent[w].round >= MaxRounds
       THEN /\ op' = [op EXCEPT ![w] = "completeGame"]
            /\ ent' = [ent EXCEPT ![w] = Blank]
            /\ pc' = [pc EXCEPT ![w] = "load"]
       ELSE Finish(w)
    /\ UNCHANGED <<store, active, timer>>

\* endCurrentRound stops the timer and, after the last round, completes the
\* game.
AfterEndRound(w) ==
    /\ pc[w] = "post" /\ op[w] = "endCurrentRound"
    /\ timer' = None
    /\ IF ent[w].round >= MaxRounds
       THEN /\ op' = [op EXCEPT ![w] = "completeGame"]
            /\ ent' = [ent EXCEPT ![w] = Blank]
            /\ pc' = [pc EXCEPT ![w] = "load"]
       ELSE Finish(w)
    /\ UNCHANGED <<store, active>>

\* Mutant of AfterComplete: a game without a winner is not recorded.
AfterCompleteWins(w) ==
    /\ pc[w] = "post" /\ op[w] = "completeGame"
    /\ timer' = None
    /\ IF ent[w].results.top # None THEN Proceed(w, Blank, "record") ELSE Finish(w)
    /\ UNCHANGED <<store, active>>

AfterComplete(w) ==
    /\ pc[w] = "post" /\ op[w] = "completeGame"
    /\ timer' = None
    /\ Proceed(w, Blank, "record")
    /\ UNCHANGED <<store, active>>

\* Mutant of AfterTurn: a timer that runs is not replaced.
AfterTurnKeepsTimer(w) ==
    /\ pc[w] = "post" /\ op[w] \in {"nextTurn", "autoTurn"}
    /\ timer' = IF Timed /\ timer = None THEN Current(ent[w]) ELSE timer
    /\ Finish(w)
    /\ UNCHANGED <<store, active>>

\* nextTurn starts the timer of the turn it saved.
AfterTurn(w) ==
    /\ pc[w] = "post" /\ op[w] \in {"nextTurn", "autoTurn"}
    /\ timer' = IF Timed THEN Current(ent[w]) ELSE timer
    /\ Finish(w)
    /\ UNCHANGED <<store, active>>

\* startTurnTimerIfNeeded looks at the team whose turn it is, and at no player.
AfterResume(w) ==
    /\ pc[w] = "post" /\ op[w] = "resumeGame"
    /\ timer' = IF Timed /\ ent[w].turnTeam \in ent[w].teams
                THEN ent[w].turnTeam ELSE timer
    /\ Finish(w)
    /\ UNCHANGED <<store, active>>

-----------------------------------------------------------------------------
(* Scores, teams and players: what other services do to the same rows *)

\* ScoreService.submitGameScore and create: the round must be running when the
\* game is loaded ...
SubmitScore(w) ==
    /\ row.status = "ROUND_IN_PROGRESS"
    /\ \E name \in {"submitScore", "createScore"} :
          Request(w, name, row, "insertScore")

\* ... and the entrant must belong to the game as it was loaded, of the kind the
\* game is scored by or, with create, of either kind.
MayScore(w) ==
    IF op[w] = "createScore" THEN Players \cup ent[w].teams
    ELSE IF ent[w].mode = "INDIVIDUAL" THEN Players ELSE ent[w].teams

\* The insert fails if the game or the team is gone.  A new row takes an unused
\* number.
InsertScore(w) ==
    /\ pc[w] = "insertScore"
    /\ \/ \E s \in Scores \ points :
             /\ exists
             /\ s[1] \in MayScore(w) \cap (teams \cup Players)
             /\ points' = points \cup {s}
             /\ row' = [row EXCEPT !.scores = @ \cup {s}]
       \/ UNCHANGED <<points, row>>
    /\ Finish(w)
    /\ UNCHANGED <<exists, history, teams, active, timer>>

\* ScoreService.delete, whatever the status of the game.
DeleteScore ==
    /\ FreeWorker /\ "deleteScore" \in Ops
    /\ \E s \in points :
          /\ points' = points \ {s}
          /\ row' = [row EXCEPT !.scores = @ \ {s}]
    /\ UNCHANGED <<exists, history, teams, active, timer, op, pc, ent>>

\* cancelSession loads the games of the session without their teams and scores
\* and cancels those that are not over, ...
CancelSession(w) ==
    /\ row.status \notin Over
    /\ Request(w, "cancelSession", [row EXCEPT !.status = "CANCELLED"], "save")

\* ... in one transaction; it leaves the turn timers of the games alone.
SaveFromSession(w) ==
    /\ pc[w] = "save" /\ op[w] = "cancelSession"
    /\ row' = [Saved(ent[w]) EXCEPT !.teams = row.teams, !.scores = row.scores]
    /\ exists' = TRUE
    /\ Finish(w)
    /\ UNCHANGED <<history, teams, points, active, timer>>

\* TeamService.update moves a team to this game, or to another one, as the
\* startGame of another game of the session does with all its teams.
MoveTeam ==
    /\ FreeWorker /\ "moveTeam" \in Ops
    /\ \E t \in teams :
          \/ exists /\ row' = [row EXCEPT !.teams = @ \cup {t}]
          \/ row' = [row EXCEPT !.teams = @ \ {t}]
    /\ UNCHANGED <<exists, history, teams, points, active, timer, op, pc, ent>>

\* TeamService.delete; the team's scores go with it.
DeleteTeam ==
    /\ FreeWorker /\ "deleteTeam" \in Ops
    /\ \E t \in teams :
          /\ teams' = teams \ {t}
          /\ points' = {s \in points : s[1] # t}
          /\ row' = [row EXCEPT !.teams = @ \ {t},
                                !.scores = {s \in @ : s[1] # t}]
    /\ UNCHANGED <<exists, history, active, timer, op, pc, ent>>

\* A guest is marked DISCONNECTED, or comes back.
Presence ==
    /\ "presence" \in Ops
    /\ \E p \in Players :
          active' = IF p \in active THEN active \ {p} ELSE active \cup {p}
    /\ UNCHANGED <<store, timer, op, pc, ent>>

-----------------------------------------------------------------------------
(* Restart *)

\* getGamesNeedingTimer
NeedsTimer ==
    /\ exists /\ Timed /\ row.status \in Active /\ row.started
    /\ row.turnTeam # None \/ row.turnPlayer # None

\* onApplicationBootstrap: a player in turn comes before a team in turn.
Rehydrated ==
    IF row.turnPlayer # None THEN row.turnPlayer
    ELSE IF row.turnTeam \in row.teams THEN row.turnTeam ELSE None

\* The process dies between any two steps and boots again: handlers and timer
\* are lost, the timer is rebuilt from the row before requests are served.
Restart ==
    /\ "restart" \in Ops
    /\ timer' = IF NeedsTimer THEN Rehydrated ELSE None
    /\ op' = [w \in Workers |-> "none"] /\ pc' = [w \in Workers |-> "idle"]
    /\ ent' = [w \in Workers |-> Blank]
    /\ UNCHANGED <<store, active>>

-----------------------------------------------------------------------------
\* A client's request reaches a free worker.
Client(w) ==
    \/ StartGame(w) \/ ForceStartGame(w)
    \/ StartFirstRound(w) \/ StartNextRound(w) \/ EndCurrentRound(w)
    \/ Update(w) \/ NextTurn(w) \/ PauseGame(w) \/ ResumeGame(w)
    \/ CancelGame(w) \/ ResetGame(w) \/ CompleteGame(w) \/ SubmitScore(w)
    \/ CancelSession(w)

\* A handler under way takes its next step.
Handler(w) ==
    \/ ChooseTeams(w) \/ AutoTurn(w) \/ ChooseNext(w)
    \/ WipeScores(w) \/ ClearGame(w)
    \/ CompleteAfterLastRound(w) \/ ReadStandings(w) \/ ReadWinner(w)
    \/ LoadResult(w) \/ InsertResult(w) \/ InsertScore(w)
    \/ SaveAndReturn(w) \/ SaveAndGoOn(w) \/ SaveFromSession(w)
    \/ StopTimer(w) \/ AfterEndRound(w) \/ AfterComplete(w)
    \/ AfterTurn(w) \/ AfterResume(w)

Environment ==
    DeleteGame \/ DeleteScore \/ MoveTeam \/ DeleteTeam \/ Presence \/ Restart

Next ==
    \/ \E w \in Workers : Client(w) \/ TimerExpires(w) \/ Handler(w)
    \/ Environment

\* Awaited statements come back and an elapsed countdown is noticed at the
\* next tick; clients are free to do nothing.
Fairness ==
    /\ \A w \in Workers : WF_vars(Handler(w))
    /\ WF_vars(\E w \in Workers : TimerExpires(w))

Spec == Init /\ [][Next]_vars

FairSpec == Spec /\ Fairness

-----------------------------------------------------------------------------
(***************************************************************************)
(* Properties that hold however handlers overlap, and across restarts      *)
(***************************************************************************)

\* The row is internally consistent: before the start no round is counted,
\* between the start and the first round (also across a pause) it is round 1,
\* and in every later status at least one round has been started.
RoundMatchesStatus ==
    /\ row.status = "PENDING" => row.round = 0
    /\ row.status = "IN_PROGRESS" => row.round = 1
    /\ row.status = "PAUSED" /\ row.before = "IN_PROGRESS" => row.round = 1
    /\ row.status \notin {"PENDING", "CANCELLED"} => row.round >= 1

\* A paused game knows an active status to go back to, so that resumeGame never
\* needs its fallback for games "paused before this field existed".
PauseRemembers == row.status = "PAUSED" => row.before \in Active

\* A completed game has its results, counts all its rounds, and no row names a
\* winner without results, even when saves of stale entities overwrite it.
CompletedHasResults ==
    /\ row.status = "COMPLETED" => row.results # None /\ row.round = MaxRounds
    /\ row.winner # None => row.results # None

\* The result in the history is written once: completions that race, or that
\* complete the game anew, keep the first result; it goes only with the game.
HistoryNeverRewritten ==
    [][history # None => history' = history \/ ~exists']_vars

(***************************************************************************)
(* Properties that hold when one handler runs at a time (Workers = {w})    *)
(***************************************************************************)

Quiet == \A w \in Workers : pc[w] = "idle"

Phase(status) ==
    CASE status = "PENDING" -> "pending"
      [] status = "IN_PROGRESS" -> "started"
      [] status = "ROUND_IN_PROGRESS" -> "playing"
      [] status = "ROUND_ENDED" -> "between"
      [] status = "PAUSED" -> "paused"
      [] status = "COMPLETED" -> "completed"
      [] status = "CANCELLED" -> "cancelled"

\* The handlers implement the life of a game that the API promises: a closed
\* game stays closed (a cancelled one until it is reset), rounds go up one by
\* one to the maximum, a resumed game is where it was paused, an outcome is
\* final.
Life == INSTANCE GameLifecycle WITH
    phase <- IF exists THEN Phase(row.status) ELSE "deleted",
    round <- row.round,
    resumeTo <- IF row.status = "PAUSED" THEN Phase(row.before) ELSE None,
    outcome <- IF row.status = "COMPLETED"
               THEN [winner |-> row.winner, results |-> row.results] ELSE None,
    Outcomes <- [winner : Entrants \cup {None}, results : Results]

ImplementsLifecycle == Life!LifeSpec

\* A turn timer runs only in a game that is being played: not in a pending,
\* paused, ended or closed one (a deleted game, or one that is cancelled with
\* its session, may leave its timer behind).
TimerOnlyWhileActive ==
    Quiet /\ exists /\ timer # None => row.status \in Active

\* In a game whose score mode is never changed, the timer that runs is that of
\* the entrant whose turn the row says it is, also after a restart.
TimerIsOfCurrentTurn == Quiet /\ exists /\ timer # None => timer = Current(row)

\* The winner of a completed game is the one its results put alone in front,
\* though standings and winner are computed by two reads, and what the history
\* holds once the handler is over is the same result.
CompletionIsRecorded ==
    exists /\ row.status = "COMPLETED" =>
        /\ row.winner = row.results.top
        /\ Quiet /\ history # None =>
              history = [winner |-> row.winner, results |-> row.results]

\* Without crashes and failing statements every completed game, also a tied or
\* an empty one, gets into the history.
CompletionReachesHistory == row.status = "COMPLETED" ~> history # None

\* Automatic turns go round: when the clients leave a team game alone while a
\* turn timer runs, in whichever round, every team of the game gets the turn again
\* and again.  Without a timer nothing rotates: startNextRound does not start the
\* one that endCurrentRound stopped, that takes the next turn of the host.
LeftAlone == \A w \in Workers : op[w] \in {"none", "autoTurn"}

TurnsGoRound ==
    <>(timer # None /\ []LeftAlone) =>
        \A t \in Teams : []<>(t \in row.teams => row.turnTeam = t)

(***************************************************************************)
(* What the code or its comments say, and the code does not do             *)
(***************************************************************************)

\* cancelGame: "No more turns will run -- kill any live timer so it can't fire
\* a callback against a cancelled game."
NoTurnAfterCancel ==
    [][row.status = "CANCELLED" /\ exists /\ exists' =>
          row'.turnTeam = row.turnTeam /\ row'.turnPlayer = row.turnPlayer]_vars
=============================================================================
