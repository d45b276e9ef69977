----------------------------- MODULE GameProofs -----------------------------
(***************************************************************************)
(* Theorems about Game for every number of overlapping handlers, every     *)
(* roster and every maximum of rounds, with restarts and lost statements.  *)
(*                                                                         *)
(* TypeOK is not inductive: what a handler does after an await depends on  *)
(* what it put into its entity before, so TypeInv adds, per worker, which  *)
(* columns of the entity are known not to be undefined at which step.      *)
(*                                                                         *)
(* The second half is about handlers that run one at a time: the timer,    *)
(* the scores, the history, and that the handlers implement GameLifecycle. *)
(***************************************************************************)
EXTENDS Game, TLAPS

TurnOps == {"nextTurn", "autoTurn"}

HandlerOK(w) ==
    /\ pc[w] = "idle" => ent[w] = Blank
    /\ pc[w] \in {"wipe", "unarm"} => op[w] \notin TurnOps
    /\ pc[w] = "winner" => ent[w].results \in Results
    /\ pc[w] = "insertResult" =>
          ent[w].results \in Results /\ ent[w].winner \in Entrants \cup {None}
    /\ op[w] \in TurnOps =>
          /\ ent[w].turnTeam \in Teams \cup {None}
          /\ ent[w].turnPlayer \in Players \cup {None}

StoreOK ==
    /\ row \in Row /\ exists \in BOOLEAN
    /\ history \in [winner : Entrants \cup {None}, results : Results] \cup {None}
    /\ teams \in SUBSET Teams /\ points \in SUBSET Scores
    /\ active \in SUBSET Players
    /\ timer \in Entrants \cup {None}

WorkersOK ==
    /\ op \in [Workers -> OpNames \cup {"none"}]
    /\ pc \in [Workers -> Steps]
    /\ ent \in [Workers -> Entity]
    /\ \A w \in Workers : HandlerOK(w)

TypeInv == StoreOK /\ WorkersOK

-----------------------------------------------------------------------------
(* Rows and entities *)

\* The row that stands for no game is a row.
LEMMA BlankTyped == Blank \in Row
  BY ConstantsAssumption, NullAssumption DEF Blank, NewRow, Row, Status, Active

\* What findOne loads is an entity, all of whose columns are defined.
LEMMA RowIsEntity == Row \subseteq Entity
  BY DEF Row, Entity

\* A game that was just created has a row of its type.
LEMMA NewRowTyped == ASSUME NEW m \in Modes PROVE NewRow(m) \in Row
  BY ConstantsAssumption DEF NewRow, Row, Status, Active

\* What a save leaves in the row is a row, whatever the entity left undefined.
LEMMA SavedTyped ==
  ASSUME StoreOK, NEW e \in Entity PROVE Saved(e) \in Row
<1> DEFINE kTeam == Kept(e.turnTeam, row.turnTeam)
          kPlayer == Kept(e.turnPlayer, row.turnPlayer)
          kStarted == Kept(e.started, row.started)
          kBefore == Kept(e.before, row.before)
          kWinner == Kept(e.winner, row.winner)
          kResults == Kept(e.results, row.results)
<1>1. kTeam \in Teams \cup {None}
  BY DEF Kept, StoreOK, Row, Entity
<1>2. kPlayer \in Players \cup {None}
  BY DEF Kept, StoreOK, Row, Entity
<1>3. kStarted \in BOOLEAN
  BY DEF Kept, StoreOK, Row, Entity
<1>4. kBefore \in Active \cup {None}
  BY DEF Kept, StoreOK, Row, Entity
<1>5. kWinner \in Entrants \cup {None}
  BY DEF Kept, StoreOK, Row, Entity
<1>6. kResults \in Results \cup {None}
  BY DEF Kept, StoreOK, Row, Entity
<1>7. e.teams \cap teams \in SUBSET Teams /\ e.scores \cap points \in SUBSET Scores
  BY DEF StoreOK
<1>8. Saved(e) = [e EXCEPT !.turnTeam = kTeam, !.turnPlayer = kPlayer,
                           !.started = kStarted, !.before = kBefore,
                           !.winner = kWinner, !.results = kResults,
                           !.teams = e.teams \cap teams,
                           !.scores = e.scores \cap points]
  BY DEF Saved
<1> HIDE DEF kTeam, kPlayer, kStarted, kBefore, kWinner, kResults
<1>9. QED
  BY <1>1, <1>2, <1>3, <1>4, <1>5, <1>6, <1>7, <1>8 DEF Row, Entity

\* What resetGame makes of an entity is an entity.
LEMMA ClearedTyped ==
  ASSUME NEW e \in Entity
  PROVE  [e EXCEPT !.status = "PENDING", !.round = 0,
                   !.turnTeam = Undef, !.turnPlayer = Undef,
                   !.started = Undef, !.before = Undef,
                   !.winner = Undef, !.results = Undef] \in Entity
<1>1. 0 \in 0 .. MaxRounds BY ConstantsAssumption
<1>2. QED BY <1>1 DEF Entity, Status

\* What completeGame makes of an entity is an entity.
LEMMA CompletedTyped ==
  ASSUME NEW e \in Entity, NEW first \in Entrants \cup {None, Undef}
  PROVE  [e EXCEPT !.winner = first, !.status = "COMPLETED",
                   !.round = MaxRounds] \in Entity
<1>1. MaxRounds \in 0 .. MaxRounds BY ConstantsAssumption
<1>2. QED BY <1>1 DEF Entity, Status

\* The standings, tied or not, always give a result.
LEMMA OutcomeTyped == Outcome \in Results
<1>1. CASE \E e \in Entrants : Leads(e)
  BY <1>1 DEF Outcome, Results
<1>2. CASE ~ \E e \in Entrants : Leads(e)
  BY <1>2 DEF Outcome, Results
<1>3. QED BY <1>1, <1>2

-----------------------------------------------------------------------------
(* What a worker's step does to WorkersOK, by the kind of the step *)

\* A handler that is over holds the blank entity.
LEMMA FinishOK ==
  ASSUME WorkersOK, NEW w \in Workers, Finish(w) PROVE WorkersOK'
<1>1. /\ op' \in [Workers -> OpNames \cup {"none"}]
      /\ pc' \in [Workers -> Steps]
      /\ ent' \in [Workers -> Entity]
  BY BlankTyped, RowIsEntity DEF Finish, WorkersOK, Steps
<1>2. ASSUME NEW v \in Workers PROVE HandlerOK(v)'
  <2>1. CASE v = w
    BY <2>1 DEF Finish, WorkersOK, HandlerOK, OpNames, TurnOps
  <2>2. CASE v # w
    BY <2>2 DEF Finish, WorkersOK, HandlerOK
  <2>3. QED BY <2>1, <2>2
<1>3. QED BY <1>1, <1>2 DEF WorkersOK

\* A request loads entity e; only resumeGame makes a column undefined here.
LEMMA LoadOK ==
  ASSUME WorkersOK, NEW w \in Workers, NEW name \in OpNames, NEW e \in Entity,
         NEW next \in Steps \ {"idle", "winner", "insertResult"},
         name \in TurnOps => e \in Row /\ next \notin {"wipe", "unarm"},
         Load(w, name, e, next)
  PROVE  WorkersOK'
<1>1. /\ op' \in [Workers -> OpNames \cup {"none"}]
      /\ pc' \in [Workers -> Steps]
      /\ ent' \in [Workers -> Entity]
  BY DEF Load, WorkersOK
<1>2. ASSUME NEW v \in Workers PROVE HandlerOK(v)'
  <2>1. CASE v = w
    BY <2>1 DEF Load, WorkersOK, HandlerOK, Row
  <2>2. CASE v # w
    BY <2>2 DEF Load, WorkersOK, HandlerOK
  <2>3. QED BY <2>1, <2>2
<1>3. QED BY <1>1, <1>2 DEF WorkersOK

\* A handler goes on with entity e, of which the next step may need to know
\* that some columns are defined.
LEMMA ProceedOK ==
  ASSUME WorkersOK, NEW w \in Workers, NEW e \in Entity,
         NEW next \in Steps \ {"idle"},
         op[w] \in TurnOps => /\ e.turnTeam \in Teams \cup {None}
                              /\ e.turnPlayer \in Players \cup {None}
                              /\ next \notin {"wipe", "unarm"},
         next = "winner" => e.results \in Results,
         next = "insertResult" => /\ e.results \in Results
                                  /\ e.winner \in Entrants \cup {None},
         Proceed(w, e, next)
  PROVE  WorkersOK'
<1>1. /\ op' \in [Workers -> OpNames \cup {"none"}]
      /\ pc' \in [Workers -> Steps]
      /\ ent' \in [Workers -> Entity]
  BY DEF Proceed, WorkersOK
<1>2. ASSUME NEW v \in Workers PROVE HandlerOK(v)'
  <2>1. CASE v = w
    BY <2>1 DEF Proceed, WorkersOK, HandlerOK
  <2>2. CASE v # w
    BY <2>2 DEF Proceed, WorkersOK, HandlerOK
  <2>3. QED BY <2>1, <2>2
<1>3. QED BY <1>1, <1>2 DEF WorkersOK

\* The common shape of the saves: the row and the workers keep their types.
LEMMA SaveOK ==
  ASSUME TypeInv, NEW w \in Workers,
         NEW next \in {"post", "done"}, SaveAnd(w, next)
  PROVE  TypeInv'
<1>1. ent[w] \in Entity
  BY DEF TypeInv, WorkersOK
<1>2. StoreOK'
  BY <1>1, SavedTyped DEF SaveAnd, Persist, StoreOK, TypeInv
<1>3. CASE next = "done"
  BY <1>2, <1>3, FinishOK DEF SaveAnd, TypeInv
<1>4. CASE next # "done"
  <2>1. Proceed(w, ent[w], next)
    BY <1>4 DEF SaveAnd
  <2>2. op[w] \in TurnOps => /\ ent[w].turnTeam \in Teams \cup {None}
                             /\ ent[w].turnPlayer \in Players \cup {None}
    BY DEF TypeInv, WorkersOK, HandlerOK
  <2>3. next = "post" /\ next \in Steps \ {"idle"}
    BY <1>4 DEF Steps
  <2>4. WorkersOK'
    BY <1>1, <2>1, <2>2, <2>3, ProceedOK DEF TypeInv
  <2>5. QED BY <1>2, <2>4 DEF TypeInv
<1>5. QED BY <1>3, <1>4

-----------------------------------------------------------------------------
(* Every action preserves TypeInv *)

\* A client's request only loads an entity, with columns in their types.
LEMMA ClientOK ==
  ASSUME TypeInv, NEW w \in Workers, Client(w) PROVE TypeInv'
<1>1. row \in Row /\ row \in Entity /\ WorkersOK
  BY RowIsEntity DEF TypeInv, StoreOK
<1>2. ASSUME NEW name \in OpNames, NEW e \in Entity,
             NEW next \in Steps \ {"idle", "winner", "insertResult"},
             name \in TurnOps => e \in Row /\ next \notin {"wipe", "unarm"},
             Request(w, name, e, next)
      PROVE  TypeInv'
  <2>1. Load(w, name, e, next)
    BY <1>2 DEF Request
  <2>2. WorkersOK'
    BY <1>1, <1>2, <2>1, LoadOK
  <2>3. StoreOK'
    BY <2>1 DEF Load, store, StoreOK, TypeInv
  <2>4. QED BY <2>2, <2>3 DEF TypeInv
<1>3. CASE StartGame(w)
  BY <1>1, <1>2, <1>3 DEF StartGame, OpNames, Steps, TurnOps
<1>4. CASE ForceStartGame(w)
  <2>1. 1 \in 0 .. MaxRounds
    BY ConstantsAssumption
  <2>2. [row EXCEPT !.status = "IN_PROGRESS", !.round = 1, !.started = TRUE]
          \in Entity
    BY <1>1, <2>1 DEF Entity, Status
  <2>3. QED BY <1>2, <1>4, <2>2 DEF ForceStartGame, OpNames, Steps, TurnOps
<1>5. CASE StartFirstRound(w)
  <2>1. [row EXCEPT !.status = "ROUND_IN_PROGRESS"] \in Entity
    BY <1>1 DEF Entity, Status
  <2>2. QED BY <1>2, <1>5, <2>1 DEF StartFirstRound, OpNames, Steps, TurnOps
<1>6. CASE StartNextRound(w)
  <2>1. row.round + 1 \in 0 .. MaxRounds
    BY <1>1, <1>6, ConstantsAssumption DEF StartNextRound, Row
  <2>2. [row EXCEPT !.status = "ROUND_IN_PROGRESS", !.round = @ + 1] \in Entity
    BY <1>1, <2>1 DEF Entity, Status
  <2>3. QED BY <1>2, <1>6, <2>2 DEF StartNextRound, OpNames, Steps, TurnOps
<1>7. CASE EndCurrentRound(w)
  <2>1. [row EXCEPT !.status = "ROUND_ENDED"] \in Entity
    BY <1>1 DEF Entity, Status
  <2>2. QED BY <1>2, <1>7, <2>1 DEF EndCurrentRound, OpNames, Steps, TurnOps
<1>8. CASE Update(w)
  <2>1. PICK m \in Modes : Request(w, "update", [row EXCEPT !.mode = m], "save")
    BY <1>8 DEF Update
  <2>2. [row EXCEPT !.mode = m] \in Entity
    BY <1>1, ConstantsAssumption DEF Entity
  <2>3. QED BY <1>2, <2>1, <2>2 DEF OpNames, Steps, TurnOps
<1>9. CASE NextTurn(w)
  BY <1>1, <1>2, <1>9 DEF NextTurn, OpNames, Steps, TurnOps
<1>10. CASE PauseGame(w)
  <2>1. [row EXCEPT !.before = row.status, !.status = "PAUSED"] \in Entity
    BY <1>1, <1>10 DEF PauseGame, Entity, Status
  <2>2. QED BY <1>2, <1>10, <2>1 DEF PauseGame, OpNames, Steps, TurnOps
<1>11. CASE ResumeGame(w)
  <2>1. (IF row.before = None THEN "IN_PROGRESS" ELSE row.before) \in Status
    BY <1>1 DEF Row, Active, Status
  <2>2. [row EXCEPT !.status = IF row.before = None THEN "IN_PROGRESS"
                               ELSE row.before,
                    !.before = Undef, !.started = TRUE] \in Entity
    BY <1>1, <2>1 DEF Entity
  <2>3. QED BY <1>2, <1>11, <2>2 DEF ResumeGame, OpNames, Steps, TurnOps
<1>12. CASE CancelGame(w)
  <2>1. [row EXCEPT !.status = "CANCELLED"] \in Entity
    BY <1>1 DEF Entity, Status
  <2>2. QED BY <1>2, <1>12, <2>1 DEF CancelGame, OpNames, Steps, TurnOps
<1>13. CASE ResetGame(w)
  BY <1>1, <1>2, <1>13 DEF ResetGame, OpNames, Steps, TurnOps
<1>14. CASE CompleteGame(w)
  BY <1>1, <1>2, <1>14 DEF CompleteGame, OpNames, Steps, TurnOps
<1>15. CASE SubmitScore(w)
  BY <1>1, <1>2, <1>15 DEF SubmitScore, OpNames, Steps, TurnOps
<1>16. CASE CancelSession(w)
  <2>1. [row EXCEPT !.status = "CANCELLED"] \in Entity
    BY <1>1 DEF Entity, Status
  <2>2. QED BY <1>2, <1>16, <2>1 DEF CancelSession, OpNames, Steps, TurnOps
<1>17. QED
  BY <1>3, <1>4, <1>5, <1>6, <1>7, <1>8, <1>9, <1>10, <1>11, <1>12, <1>13,
     <1>14, <1>15, <1>16 DEF Client

\* The saves of the game's own handlers, and that of cancelSession.
LEMMA SavesOK ==
  ASSUME TypeInv, NEW w \in Workers,
         SaveAndReturn(w) \/ SaveAndGoOn(w) \/ SaveFromSession(w)
  PROVE  TypeInv'
<1>1. CASE SaveAndReturn(w) \/ SaveAndGoOn(w)
  BY <1>1, SaveOK DEF SaveAndReturn, SaveAndGoOn
<1>2. CASE SaveFromSession(w)
  <2>1. Saved(ent[w]) \in Row /\ row \in Row
    BY SavedTyped DEF TypeInv, StoreOK, WorkersOK
  <2>2. row' \in Row
    BY <1>2, <2>1 DEF SaveFromSession, Row
  <2>3. StoreOK' BY <1>2, <2>2 DEF SaveFromSession, TypeInv, StoreOK
  <2>4. WorkersOK' BY <1>2, FinishOK DEF SaveFromSession, TypeInv
  <2>5. QED BY <2>3, <2>4 DEF TypeInv
<1>3. QED BY <1>1, <1>2

\* The continuations of the saves arm the timer with an entrant, or stop it.
LEMMA ContinuationOK ==
  ASSUME TypeInv, NEW w \in Workers,
         \/ StopTimer(w) \/ AfterEndRound(w) \/ AfterComplete(w)
         \/ AfterTurn(w) \/ AfterResume(w)
  PROVE  TypeInv'
<1>1. WorkersOK /\ HandlerOK(w) /\ ent[w] \in Entity
  BY DEF TypeInv, WorkersOK
<1>2. ASSUME timer' \in Entrants \cup {None}, UNCHANGED <<store, active>>
      PROVE  StoreOK'
  BY <1>2 DEF TypeInv, StoreOK, store
<1>3. CASE StopTimer(w)
  <2>1. WorkersOK' BY <1>1, <1>3, FinishOK DEF StopTimer
  <2>2. StoreOK' BY <1>2, <1>3 DEF StopTimer
  <2>3. QED BY <2>1, <2>2 DEF TypeInv
<1>4. CASE AfterEndRound(w)
  <2>1. StoreOK' BY <1>2, <1>4 DEF AfterEndRound
  <2>2. CASE Finish(w)
    BY <1>1, <2>1, <2>2, FinishOK DEF TypeInv
  <2>3. CASE /\ op' = [op EXCEPT ![w] = "completeGame"]
             /\ ent' = [ent EXCEPT ![w] = Blank]
             /\ pc' = [pc EXCEPT ![w] = "load"]
    <3>1. /\ op' \in [Workers -> OpNames \cup {"none"}]
          /\ pc' \in [Workers -> Steps]
          /\ ent' \in [Workers -> Entity]
      BY <2>3, BlankTyped, RowIsEntity DEF TypeInv, WorkersOK, Steps, OpNames
    <3>2. ASSUME NEW v \in Workers PROVE HandlerOK(v)'
      <4>1. CASE v = w
        BY <2>3, <4>1 DEF TypeInv, WorkersOK, HandlerOK, TurnOps
      <4>2. CASE v # w
        BY <2>3, <4>2 DEF TypeInv, WorkersOK, HandlerOK
      <4>3. QED BY <4>1, <4>2
    <3>3. QED BY <2>1, <3>1, <3>2 DEF TypeInv, WorkersOK
  <2>4. QED BY <1>4, <2>2, <2>3 DEF AfterEndRound
<1>5. CASE AfterComplete(w)
  <2>1. StoreOK' BY <1>2, <1>5 DEF AfterComplete
  <2>2. /\ Blank \in Entity /\ Blank.turnTeam = None /\ Blank.turnPlayer = None
        /\ "record" \in Steps \ {"idle"}
    BY BlankTyped, RowIsEntity DEF Blank, NewRow, Steps
  <2>3. Proceed(w, Blank, "record") BY <1>5 DEF AfterComplete
  <2>4. WorkersOK' BY <1>1, <2>2, <2>3, ProceedOK
  <2>5. QED BY <2>1, <2>4 DEF TypeInv
<1>6. CASE AfterTurn(w)
  <2>1. Current(ent[w]) \in Entrants \cup {None}
    BY <1>1, <1>6 DEF AfterTurn, HandlerOK, TurnOps, Current, Entrants
  <2>2. timer' \in Entrants \cup {None}
    BY <1>6, <2>1 DEF AfterTurn, TypeInv, StoreOK
  <2>3. StoreOK' BY <1>2, <1>6, <2>2 DEF AfterTurn
  <2>4. WorkersOK' BY <1>1, <1>6, FinishOK DEF AfterTurn
  <2>5. QED BY <2>3, <2>4 DEF TypeInv
<1>7. CASE AfterResume(w)
  <2>1. ent[w].teams \in SUBSET Teams
    BY <1>1 DEF Entity
  <2>2. timer' \in Entrants \cup {None}
    BY <1>7, <2>1 DEF AfterResume, TypeInv, StoreOK, Entrants
  <2>3. StoreOK' BY <1>2, <1>7, <2>2 DEF AfterResume
  <2>4. WorkersOK' BY <1>1, <1>7, FinishOK DEF AfterResume
  <2>5. QED BY <2>3, <2>4 DEF TypeInv
<1>8. QED BY <1>3, <1>4, <1>5, <1>6, <1>7

\* A read came back: the handler goes on with an entity that has its type, or
\* gives up.
LEMMA ReadOK ==
  ASSUME TypeInv, NEW w \in Workers,
         \/ ChooseTeams(w) \/ AutoTurn(w) \/ ChooseNext(w)
         \/ CompleteAfterLastRound(w) \/ ReadStandings(w) \/ ReadWinner(w)
         \/ LoadResult(w)
  PROVE  TypeInv'
<1> DEFINE e == ent[w]
<1>1. WorkersOK /\ HandlerOK(w) /\ e \in Entity /\ row \in Row /\ row \in Entity
  BY RowIsEntity DEF TypeInv, WorkersOK, StoreOK
<1>2. StoreOK'
  BY DEF ChooseTeams, AutoTurn, ChooseNext, CompleteAfterLastRound,
         ReadStandings, ReadWinner, LoadResult, store, TypeInv, StoreOK
<1>3. ASSUME Finish(w) PROVE TypeInv'
  BY <1>1, <1>2, <1>3, FinishOK DEF TypeInv
<1>4. ASSUME NEW f \in Entity, f.turnTeam = e.turnTeam,
             f.turnPlayer = e.turnPlayer,
             NEW next \in {"save", "winner"},
             next = "winner" => f.results \in Results,
             Proceed(w, f, next)
      PROVE  TypeInv'
  <2>1. op[w] \in TurnOps => /\ f.turnTeam \in Teams \cup {None}
                             /\ f.turnPlayer \in Players \cup {None}
                             /\ next \notin {"wipe", "unarm"}
    BY <1>1, <1>4 DEF HandlerOK
  <2>2. next \in Steps \ {"idle"} /\ next # "insertResult"
    BY DEF Steps
  <2>3. WorkersOK' BY <1>1, <1>4, <2>1, <2>2, ProceedOK
  <2>4. QED BY <1>2, <2>3 DEF TypeInv
<1>5. ASSUME NEW next \in {"roster", "standings", "insertResult"},
             next = "insertResult" => row.results # None,
             Proceed(w, row, next)
      PROVE  TypeInv'
  <2>1. /\ row.turnTeam \in Teams \cup {None}
        /\ row.turnPlayer \in Players \cup {None}
        /\ next \notin {"wipe", "unarm"}
    BY <1>1 DEF Row
  <2>2. next = "insertResult" => /\ row.results \in Results
                                 /\ row.winner \in Entrants \cup {None}
    BY <1>1, <1>5 DEF Row
  <2>3. next \in Steps \ {"idle"} /\ next # "winner"
    BY DEF Steps
  <2>4. WorkersOK' BY <1>1, <1>5, <2>1, <2>2, <2>3, ProceedOK
  <2>5. QED BY <1>2, <2>4 DEF TypeInv
<1> HIDE DEF e
<1>6. CASE ChooseTeams(w)
  <2>1. ASSUME NEW chosen \in SUBSET Teams,
               Proceed(w, [e EXCEPT !.teams = chosen, !.status = "IN_PROGRESS",
                                    !.round = 1], "save")
        PROVE  TypeInv'
    <3>1. 1 \in 0 .. MaxRounds
      BY ConstantsAssumption
    <3>2. [e EXCEPT !.teams = chosen, !.status = "IN_PROGRESS", !.round = 1]
            \in Entity
      BY <1>1, <3>1 DEF Entity, Status
    <3>3. QED BY <1>1, <1>4, <2>1, <3>2 DEF Entity
  <2>2. {} \in SUBSET Teams /\ teams \in SUBSET Teams
    BY DEF TypeInv, StoreOK
  <2>3. QED BY <1>3, <1>6, <2>1, <2>2 DEF ChooseTeams, e
<1>7. CASE AutoTurn(w)
  BY <1>3, <1>5, <1>7 DEF AutoTurn
<1>8. CASE ChooseNext(w)
  <2>1. CASE Finish(w)
    BY <1>3, <2>1
  <2>2. ASSUME NEW n \in Roster(e), Proceed(w, WithTurn(e, n), "save")
        PROVE  TypeInv'
    <3>1. IF e.mode = "INDIVIDUAL" THEN n \in Players ELSE n \in Teams
      BY <1>1 DEF Roster, TypeInv, StoreOK, Row
    <3>2. TRUE \in BOOLEAN \cup {Undef}
      OBVIOUS
    <3>3. WithTurn(e, n) \in Entity
      BY <1>1, <3>1, <3>2 DEF WithTurn, Entity
    <3>4. op[w] \in TurnOps => /\ WithTurn(e, n).turnTeam \in Teams \cup {None}
                               /\ WithTurn(e, n).turnPlayer \in Players \cup {None}
      BY <1>1, <3>1 DEF WithTurn, HandlerOK, Entity, e
    <3>5. "save" \in Steps \ {"idle"} /\ "save" \notin {"wipe", "unarm"}
      BY DEF Steps
    <3>6. WorkersOK' BY <1>1, <2>2, <3>3, <3>4, <3>5, ProceedOK
    <3>7. QED BY <1>2, <3>6 DEF TypeInv
  <2>3. QED BY <1>8, <2>1, <2>2 DEF ChooseNext, e
<1>9. CASE CompleteAfterLastRound(w)
  BY <1>3, <1>5, <1>9 DEF CompleteAfterLastRound
<1>10. CASE ReadStandings(w)
  <2>1. [e EXCEPT !.results = Outcome] \in Entity
    BY <1>1, OutcomeTyped DEF Entity
  <2>2. QED BY <1>1, <1>4, <1>10, <2>1, OutcomeTyped DEF ReadStandings, Entity, e
<1>11. CASE ReadWinner(w)
  <2> DEFINE first == IF Outcome.top # None THEN Outcome.top ELSE e.winner
  <2>1. first \in Entrants \cup {None, Undef}
    BY <1>1, OutcomeTyped DEF Entity, Results
  <2>2. Proceed(w, [e EXCEPT !.winner = first, !.status = "COMPLETED",
                             !.round = MaxRounds], "save")
    BY <1>11 DEF ReadWinner, e
  <2> HIDE DEF first
  <2>3. [e EXCEPT !.winner = first, !.status = "COMPLETED", !.round = MaxRounds]
          \in Entity
    BY <1>1, <2>1, CompletedTyped
  <2>4. QED BY <1>1, <1>4, <2>2, <2>3 DEF Entity
<1>12. CASE LoadResult(w)
  BY <1>3, <1>5, <1>12 DEF LoadResult
<1>13. QED BY <1>6, <1>7, <1>8, <1>9, <1>10, <1>11, <1>12

\* The steps of a handler that write something other than the game.
LEMMA WriteOK ==
  ASSUME TypeInv, NEW w \in Workers,
         \/ WipeScores(w) \/ ClearGame(w) \/ InsertScore(w) \/ InsertResult(w)
  PROVE  TypeInv'
<1>1. WorkersOK /\ HandlerOK(w) /\ ent[w] \in Entity /\ row \in Row /\ StoreOK
  BY DEF TypeInv, WorkersOK, StoreOK
<1>2. CASE WipeScores(w)
  <2>1. StoreOK' BY <1>1, <1>2 DEF WipeScores, StoreOK, Row
  <2>2. Proceed(w, ent[w], "unarm") /\ op[w] \notin TurnOps
    BY <1>1, <1>2 DEF WipeScores, HandlerOK
  <2>3. "unarm" \in Steps \ {"idle"} BY DEF Steps
  <2>4. WorkersOK' BY <1>1, <2>2, <2>3, ProceedOK
  <2>5. QED BY <2>1, <2>4 DEF TypeInv
<1>3. CASE ClearGame(w)
  <2>1. StoreOK' BY <1>1, <1>3 DEF ClearGame, StoreOK, store
  <2> DEFINE f == [ent[w] EXCEPT !.status = "PENDING", !.round = 0,
                      !.turnTeam = Undef, !.turnPlayer = Undef,
                      !.started = Undef, !.before = Undef,
                      !.winner = Undef, !.results = Undef]
  <2>2. f \in Entity BY <1>1, ClearedTyped
  <2>3. Proceed(w, f, "save") /\ op[w] \notin TurnOps
    BY <1>1, <1>3 DEF ClearGame, HandlerOK
  <2>4. "save" \in Steps \ {"idle"} BY DEF Steps
  <2> HIDE DEF f
  <2>5. WorkersOK' BY <1>1, <2>2, <2>3, <2>4, ProceedOK
  <2>6. QED BY <2>1, <2>5 DEF TypeInv
<1>4. CASE InsertScore(w)
  <2>1. WorkersOK' BY <1>1, <1>4, FinishOK DEF InsertScore
  <2>2. StoreOK' BY <1>1, <1>4 DEF InsertScore, StoreOK, Row
  <2>3. QED BY <2>1, <2>2 DEF TypeInv
<1>5. CASE InsertResult(w)
  <2>1. WorkersOK' BY <1>1, <1>5, FinishOK DEF InsertResult
  <2>2. /\ RecordedWinner(ent[w]) \subseteq Entrants \cup {None}
        /\ ent[w].results \in Results
    BY <1>1, <1>5 DEF InsertResult, HandlerOK, RecordedWinner
  <2>3. StoreOK' BY <1>1, <1>5, <2>2 DEF InsertResult, StoreOK
  <2>4. QED BY <2>1, <2>3 DEF TypeInv
<1>6. QED BY <1>2, <1>3, <1>4, <1>5

\* The expired timer starts a handler that holds no game yet.
LEMMA TimerExpiresOK ==
  ASSUME TypeInv, NEW w \in Workers, TimerExpires(w) PROVE TypeInv'
<1>1. StoreOK'
  BY DEF TimerExpires, store, TypeInv, StoreOK
<1>2. /\ op' \in [Workers -> OpNames \cup {"none"}]
      /\ pc' \in [Workers -> Steps]
      /\ ent' \in [Workers -> Entity]
  BY DEF TimerExpires, TypeInv, WorkersOK, OpNames, Steps
<1>3. ASSUME NEW v \in Workers PROVE HandlerOK(v)'
  <2>1. CASE v = w
    <3>1. ent[w] = Blank
      BY DEF TimerExpires, Idle, TypeInv, WorkersOK, HandlerOK
    <3>2. Blank.turnTeam = None /\ Blank.turnPlayer = None
      BY DEF Blank, NewRow
    <3>3. QED
      BY <2>1, <3>1, <3>2 DEF TimerExpires, TypeInv, WorkersOK, HandlerOK
  <2>2. CASE v # w
    BY <2>2 DEF TimerExpires, TypeInv, WorkersOK, HandlerOK
  <2>3. QED BY <2>1, <2>2
<1>4. QED BY <1>1, <1>2, <1>3 DEF TypeInv, WorkersOK

\* What other services and a restart do.
LEMMA EnvironmentOK ==
  ASSUME TypeInv, Environment PROVE TypeInv'
<1>1. StoreOK /\ WorkersOK /\ row \in Row
  BY DEF TypeInv, StoreOK
<1>2. ASSUME UNCHANGED <<op, pc, ent>> PROVE WorkersOK'
  BY <1>1, <1>2 DEF WorkersOK, HandlerOK
<1>3. CASE DeleteGame
  <2>1. StoreOK' BY <1>1, <1>3, BlankTyped DEF DeleteGame, StoreOK
  <2>2. QED BY <1>2, <1>3, <2>1 DEF DeleteGame, TypeInv
<1>4. CASE DeleteScore
  <2>1. StoreOK' BY <1>1, <1>4 DEF DeleteScore, StoreOK, Row
  <2>2. QED BY <1>2, <1>4, <2>1 DEF DeleteScore, TypeInv
<1>5. CASE MoveTeam
  <2>1. PICK t \in teams : \/ row' = [row EXCEPT !.teams = @ \cup {t}]
                            \/ row' = [row EXCEPT !.teams = @ \ {t}]
    BY <1>5 DEF MoveTeam
  <2>2. row.teams \cup {t} \in SUBSET Teams /\ row.teams \ {t} \in SUBSET Teams
    BY <1>1 DEF StoreOK, Row
  <2>3. row' \in Row
    BY <1>1, <2>1, <2>2 DEF Row
  <2>4. StoreOK' BY <1>1, <1>5, <2>3 DEF MoveTeam, StoreOK
  <2>5. QED BY <1>2, <1>5, <2>4 DEF MoveTeam, TypeInv
<1>6. CASE DeleteTeam
  <2>1. PICK t \in teams :
           /\ teams' = teams \ {t} /\ points' = {s \in points : s[1] # t}
           /\ row' = [row EXCEPT !.teams = @ \ {t},
                                 !.scores = {s \in @ : s[1] # t}]
    BY <1>6 DEF DeleteTeam
  <2>2. /\ row.teams \ {t} \in SUBSET Teams
        /\ {s \in row.scores : s[1] # t} \in SUBSET Scores
    BY <1>1 DEF Row
  <2>3. row' \in Row
    BY <1>1, <2>1, <2>2 DEF Row
  <2>4. StoreOK' BY <1>1, <1>6, <2>1, <2>3 DEF DeleteTeam, StoreOK
  <2>5. QED BY <1>2, <1>6, <2>4 DEF DeleteTeam, TypeInv
<1>7. CASE Presence
  <2>1. StoreOK' BY <1>1, <1>7 DEF Presence, StoreOK, store
  <2>2. QED BY <1>2, <1>7, <2>1 DEF Presence, TypeInv
<1>8. CASE Restart
  <2>1. Rehydrated \in Entrants \cup {None}
    BY <1>1 DEF Rehydrated, Row, Entrants
  <2>2. StoreOK' BY <1>1, <1>8, <2>1 DEF Restart, StoreOK, store
  <2>3. Blank \in Entity /\ Blank.turnTeam = None /\ Blank.turnPlayer = None
    BY BlankTyped, RowIsEntity DEF Blank, NewRow
  <2>4. WorkersOK'
    BY <1>8, <2>3 DEF Restart, WorkersOK, HandlerOK, OpNames, Steps, TurnOps
  <2>5. QED BY <2>2, <2>4 DEF TypeInv
<1>9. QED BY <1>3, <1>4, <1>5, <1>6, <1>7, <1>8 DEF Environment

\* The initial state, the game just created, has the types.
LEMMA InitTyped == Init => TypeInv
<1> SUFFICES ASSUME Init PROVE TypeInv
  OBVIOUS
<1>1. StoreOK
  BY NewRowTyped DEF Init, StoreOK
<1>2. Blank \in Entity /\ Blank.turnTeam = None /\ Blank.turnPlayer = None
  BY BlankTyped, RowIsEntity DEF Blank, NewRow
<1>3. WorkersOK
  BY <1>2 DEF Init, WorkersOK, HandlerOK, OpNames, Steps, TurnOps
<1>4. QED BY <1>1, <1>3 DEF TypeInv

\* No step, of any handler or of the environment, breaks the types.
LEMMA StepTyped == TypeInv /\ [Next]_vars => TypeInv'
<1> SUFFICES ASSUME TypeInv, [Next]_vars PROVE TypeInv'
  OBVIOUS
<1>1. ASSUME NEW w \in Workers, Client(w) PROVE TypeInv'
  BY <1>1, ClientOK
<1>2. ASSUME NEW w \in Workers, TimerExpires(w) PROVE TypeInv'
  BY <1>2, TimerExpiresOK
<1>3. ASSUME NEW w \in Workers, Handler(w) PROVE TypeInv'
  BY <1>3, ReadOK, WriteOK, SavesOK, ContinuationOK DEF Handler
<1>4. CASE Environment
  BY <1>4, EnvironmentOK
<1>5. CASE UNCHANGED vars
  BY <1>5 DEF vars, TypeInv, StoreOK, WorkersOK, HandlerOK
<1>6. QED BY <1>1, <1>2, <1>3, <1>4, <1>5 DEF Next

\* TypeInv holds in every reachable state.
THEOREM TypesHold == Spec => []TypeInv
  BY InitTyped, StepTyped, PTL DEF Spec

\* Every variable keeps its type: in particular a row never gets a round
\* beyond the maximum nor an undefined column, however saves overlap.
THEOREM TypeCorrect == Spec => []TypeOK
<1>1. TypeInv => TypeOK
  BY DEF TypeInv, StoreOK, WorkersOK, TypeOK
<1>2. QED BY <1>1, TypesHold, PTL

-----------------------------------------------------------------------------
(***************************************************************************)
(* The row is consistent however saves of stale entities overlap.  Saves   *)
(* are last-writer-wins over a whole entity, so the argument is that every *)
(* entity a handler holds is sane by itself, even in the middle of its     *)
(* changes, and that what a sane entity leaves undefined can be filled in  *)
(* from any sane row.                                                      *)
(***************************************************************************)
Sane(e) ==
    /\ e.status = "PENDING" => e.round = 0
    /\ e.status = "IN_PROGRESS" => e.round = 1
    /\ e.status = "PAUSED" => /\ e.before \in Active
                              /\ e.before = "IN_PROGRESS" => e.round = 1
    /\ e.status \notin {"PENDING", "CANCELLED"} => e.round >= 1
    /\ e.status = "COMPLETED" => e.results \in Results /\ e.round = MaxRounds
    /\ e.winner \notin {None, Undef} => e.results \in Results
    /\ e.winner = Undef => e.results # None

SaneInv == Sane(row) /\ \A w \in Workers : Sane(ent[w])

IInv == TypeInv /\ SaneInv

\* null and undefined are none of the values they stand for the absence of.
LEMMA NullsApart ==
  /\ None # Undef
  /\ None \notin Active /\ Undef \notin Active
  /\ None \notin Entrants /\ Undef \notin Entrants
  /\ None \notin Results /\ Undef \notin Results
<1>1. None \notin Results /\ Undef \notin Results
  BY NullAssumption DEF Results
<1>2. QED BY <1>1, NullAssumption DEF Active, Status

\* The row of a game that was just created, or that stands for no game.
LEMMA NewRowSane == \A m : Sane(NewRow(m))
  BY NullsApart DEF Sane, NewRow

\* A sane entity that is saved over a sane row leaves a sane row.
LEMMA SavedSane ==
  ASSUME StoreOK, NEW e \in Entity, Sane(e), Sane(row)
  PROVE  Sane(Saved(e))
<1>1. row \in Row
  BY DEF StoreOK
<1>2. /\ Saved(e).status = e.status /\ Saved(e).round = e.round
      /\ Saved(e).before = Kept(e.before, row.before)
      /\ Saved(e).winner = Kept(e.winner, row.winner)
      /\ Saved(e).results = Kept(e.results, row.results)
  BY DEF Saved, Entity
<1>3. Saved(e) \in Row
  BY SavedTyped
<1>4. e.status = "PAUSED" => Saved(e).before = e.before
  BY <1>2, NullsApart DEF Sane, Kept
<1>5. e.results \in Results => Saved(e).results = e.results
  BY <1>2, NullsApart DEF Kept
<1>6. Saved(e).winner # None => Saved(e).results \in Results
  <2>1. CASE e.winner = Undef
    <3>1. CASE e.results = Undef
      BY <1>1, <1>2, <2>1, <3>1, NullsApart DEF Sane, Kept, Row
    <3>2. CASE e.results # Undef
      BY <1>5, <2>1, <3>2 DEF Sane, Entity
    <3>3. QED BY <3>1, <3>2
  <2>2. CASE e.winner # Undef
    BY <1>2, <1>5, <2>2 DEF Sane, Kept
  <2>3. QED BY <2>1, <2>2
<1>7. Saved(e).winner # Undef
  BY <1>3, NullsApart DEF Row
<1>8. QED BY <1>2, <1>4, <1>5, <1>6, <1>7 DEF Sane

\* A worker that takes up a sane entity leaves the others theirs.
LEMMA TakeSane ==
  ASSUME WorkersOK, SaneInv, NEW w \in Workers, NEW e \in Entity, Sane(e),
         ent' = [ent EXCEPT ![w] = e]
  PROVE  \A v \in Workers : Sane(ent[v])'
<1> SUFFICES ASSUME NEW v \in Workers PROVE Sane(ent[v])'
  OBVIOUS
<1>1. CASE v = w
  <2>1. ent'[v] = e BY <1>1 DEF WorkersOK
  <2>2. QED BY <2>1 DEF Sane
<1>2. CASE v # w
  <2>1. ent'[v] = ent[v] BY <1>2 DEF WorkersOK
  <2>2. Sane(ent[v]) BY DEF SaneInv
  <2>3. QED BY <2>1, <2>2 DEF Sane
<1>3. QED BY <1>1, <1>2

\* A finished handler holds nothing.
LEMMA FinishSane ==
  ASSUME WorkersOK, SaneInv, NEW w \in Workers, Finish(w)
  PROVE  \A v \in Workers : Sane(ent[v])'
<1>1. Blank \in Entity /\ Sane(Blank)
  BY BlankTyped, RowIsEntity, NewRowSane DEF Blank
<1>2. QED BY <1>1, TakeSane DEF Finish

\* Sane looks at six columns; a step that keeps them keeps it.
LEMMA ChildrenKeepSane ==
  ASSUME SaneInv, NEW r, row' = r,
         r.status = row.status, r.round = row.round, r.before = row.before,
         r.winner = row.winner, r.results = row.results
  PROVE  Sane(row)'
  BY DEF SaneInv, Sane

\* Every request loads the row and changes it into a sane entity: the guards
\* of the handlers are what this rests on.
LEMMA ClientSane ==
  ASSUME IInv, NEW w \in Workers, Client(w) PROVE SaneInv'
<1>1. row \in Row /\ row \in Entity /\ Sane(row) /\ WorkersOK /\ SaneInv
  BY RowIsEntity DEF IInv, TypeInv, StoreOK, SaneInv
<1>2. ASSUME NEW name, NEW e \in Entity, NEW next, Sane(e),
             Request(w, name, e, next)
      PROVE  SaneInv'
  <2>1. \A v \in Workers : Sane(ent[v])'
    BY <1>1, <1>2, TakeSane DEF Request, Load
  <2>2. Sane(row)'
    BY <1>1, <1>2 DEF Request, Load, store, Sane
  <2>3. QED BY <2>1, <2>2 DEF SaneInv
<1>3. CASE StartGame(w) \/ NextTurn(w) \/ ResetGame(w) \/ CompleteGame(w)
           \/ SubmitScore(w)
  BY <1>1, <1>2, <1>3
     DEF StartGame, NextTurn, ResetGame, CompleteGame, SubmitScore
<1>4. CASE ForceStartGame(w)
  <2> DEFINE e == [row EXCEPT !.status = "IN_PROGRESS", !.round = 1,
                              !.started = TRUE]
  <2>1. 1 \in 0 .. MaxRounds BY ConstantsAssumption
  <2>2. e \in Entity BY <1>1, <2>1 DEF Entity, Status
  <2>3. Sane(e) BY <1>1 DEF Sane, Entity
  <2>4. QED BY <1>2, <1>4, <2>2, <2>3 DEF ForceStartGame
<1>5. CASE StartFirstRound(w)
  <2> DEFINE e == [row EXCEPT !.status = "ROUND_IN_PROGRESS"]
  <2>1. e \in Entity BY <1>1 DEF Entity, Status
  <2>2. Sane(e) BY <1>1, <1>5 DEF Sane, Entity, StartFirstRound
  <2>3. QED BY <1>2, <1>5, <2>1, <2>2 DEF StartFirstRound
<1>6. CASE StartNextRound(w)
  <2> DEFINE e == [row EXCEPT !.status = "ROUND_IN_PROGRESS", !.round = @ + 1]
  <2>1. row.round + 1 \in 0 .. MaxRounds
    BY <1>1, <1>6, ConstantsAssumption DEF StartNextRound, Row
  <2>2. e \in Entity BY <1>1, <2>1 DEF Entity, Status
  <2>3. Sane(e) BY <1>1, <1>6, <2>1 DEF Sane, Entity, StartNextRound
  <2>4. QED BY <1>2, <1>6, <2>2, <2>3 DEF StartNextRound
<1>7. CASE EndCurrentRound(w)
  <2> DEFINE e == [row EXCEPT !.status = "ROUND_ENDED"]
  <2>1. e \in Entity BY <1>1 DEF Entity, Status
  <2>2. Sane(e) BY <1>1, <1>7 DEF Sane, Entity, EndCurrentRound
  <2>3. QED BY <1>2, <1>7, <2>1, <2>2 DEF EndCurrentRound
<1>8. CASE Update(w)
  <2>1. PICK m \in Modes : Request(w, "update", [row EXCEPT !.mode = m], "save")
    BY <1>8 DEF Update
  <2>2. [row EXCEPT !.mode = m] \in Entity
    BY <1>1, ConstantsAssumption DEF Entity
  <2>3. Sane([row EXCEPT !.mode = m]) BY <1>1 DEF Sane, Entity
  <2>4. QED BY <1>2, <2>1, <2>2, <2>3
<1>9. CASE PauseGame(w)
  <2> DEFINE e == [row EXCEPT !.before = row.status, !.status = "PAUSED"]
  <2>1. e \in Entity BY <1>1, <1>9 DEF PauseGame, Entity, Status
  <2>2. Sane(e) BY <1>1, <1>9 DEF Sane, Entity, PauseGame, Active
  <2>3. QED BY <1>2, <1>9, <2>1, <2>2 DEF PauseGame
<1>10. CASE ResumeGame(w)
  <2> DEFINE s == IF row.before = None THEN "IN_PROGRESS" ELSE row.before
             e == [row EXCEPT !.status = s, !.before = Undef, !.started = TRUE]
  <2>1. /\ s = row.before /\ s \in Active
        /\ row.round >= 1
        /\ s = "IN_PROGRESS" => row.round = 1
    BY <1>1, <1>10, NullsApart DEF ResumeGame, Sane
  <2>2. s \in Status BY <2>1 DEF Active, Status
  <2> HIDE DEF s
  <2>3. e \in Entity BY <1>1, <2>2 DEF Entity
  <2>4. /\ e.status = s /\ e.round = row.round /\ e.winner = row.winner
        /\ e.results = row.results
    BY <1>1 DEF Entity
  <2>5. s \in {"IN_PROGRESS", "ROUND_IN_PROGRESS"} BY <2>1 DEF Active
  <2> HIDE DEF e
  <2>6. Sane(e) BY <1>1, <2>1, <2>4, <2>5 DEF Sane
  <2>7. QED BY <1>2, <1>10, <2>3, <2>6 DEF ResumeGame, s, e
<1>11. CASE CancelGame(w) \/ CancelSession(w)
  <2> DEFINE e == [row EXCEPT !.status = "CANCELLED"]
  <2>1. e \in Entity BY <1>1 DEF Entity, Status
  <2>2. Sane(e) BY <1>1 DEF Sane, Entity
  <2>3. QED BY <1>2, <1>11, <2>1, <2>2 DEF CancelGame, CancelSession
<1>12. QED
  BY <1>3, <1>4, <1>5, <1>6, <1>7, <1>8, <1>9, <1>10, <1>11 DEF Client

\* A handler under way keeps its entity sane at every await, and saves it.
LEMMA HandlerSane ==
  ASSUME IInv, NEW w \in Workers, Handler(w) PROVE SaneInv'
<1> DEFINE e == ent[w]
<1>1. /\ row \in Row /\ row \in Entity /\ Sane(row)
      /\ e \in Entity /\ Sane(e) /\ HandlerOK(w)
      /\ StoreOK /\ WorkersOK /\ SaneInv
  BY RowIsEntity DEF IInv, TypeInv, StoreOK, WorkersOK, SaneInv
<1>2. ASSUME NEW f \in Entity, Sane(f), ent' = [ent EXCEPT ![w] = f],
             Sane(row)'
      PROVE  SaneInv'
  BY <1>1, <1>2, TakeSane DEF SaneInv
<1>3. ASSUME Finish(w), Sane(row)' PROVE SaneInv'
  BY <1>1, <1>3, FinishSane DEF SaneInv
<1>4. ASSUME UNCHANGED row PROVE Sane(row)'
  BY <1>1, <1>4 DEF Sane
<1>5. Blank \in Entity /\ Sane(Blank)
  BY BlankTyped, RowIsEntity, NewRowSane DEF Blank
<1> HIDE DEF e
<1>6. CASE ChooseTeams(w)
  <2>1. ASSUME NEW chosen \in SUBSET Teams,
               Proceed(w, [e EXCEPT !.teams = chosen, !.status = "IN_PROGRESS",
                                    !.round = 1], "save")
        PROVE  SaneInv'
    <3> DEFINE f == [e EXCEPT !.teams = chosen, !.status = "IN_PROGRESS",
                              !.round = 1]
    <3>1. 1 \in 0 .. MaxRounds BY ConstantsAssumption
    <3>2. f \in Entity BY <1>1, <3>1 DEF Entity, Status
    <3>3. Sane(f) BY <1>1 DEF Sane, Entity
    <3>4. Sane(row)' BY <1>4, <1>6 DEF ChooseTeams, store
    <3>5. QED BY <1>2, <2>1, <3>2, <3>3, <3>4 DEF Proceed
  <2>2. {} \in SUBSET Teams /\ teams \in SUBSET Teams
    BY <1>1 DEF StoreOK
  <2>3. CASE Finish(w) BY <1>3, <1>4, <1>6, <2>3 DEF ChooseTeams, store
  <2>4. QED BY <1>6, <2>1, <2>2, <2>3 DEF ChooseTeams, e
<1>7. CASE AutoTurn(w) \/ CompleteAfterLastRound(w) \/ LoadResult(w)
  <2>1. Sane(row)'
    BY <1>4, <1>7 DEF AutoTurn, CompleteAfterLastRound, LoadResult, store
  <2>2. Finish(w) \/ ent' = [ent EXCEPT ![w] = row]
    BY <1>7 DEF AutoTurn, CompleteAfterLastRound, LoadResult, Proceed
  <2>3. QED BY <1>1, <1>2, <1>3, <2>1, <2>2
<1>8. CASE ChooseNext(w)
  <2>1. Sane(row)' BY <1>4, <1>8 DEF ChooseNext, store
  <2>2. CASE Finish(w) BY <1>3, <2>1, <2>2
  <2>3. ASSUME NEW n \in Roster(e), Proceed(w, WithTurn(e, n), "save")
        PROVE  SaneInv'
    <3>1. IF e.mode = "INDIVIDUAL" THEN n \in Players ELSE n \in Teams
      BY <1>1 DEF Roster, StoreOK, Row
    <3>2. TRUE \in BOOLEAN \cup {Undef} OBVIOUS
    <3>3. WithTurn(e, n) \in Entity BY <1>1, <3>1, <3>2 DEF WithTurn, Entity
    <3>4. Sane(WithTurn(e, n)) BY <1>1 DEF Sane, WithTurn, Entity
    <3>5. QED BY <1>2, <2>1, <2>3, <3>3, <3>4 DEF Proceed
  <2>4. QED BY <1>8, <2>2, <2>3 DEF ChooseNext, e
<1>9. CASE ReadStandings(w)
  <2> DEFINE f == [e EXCEPT !.results = Outcome]
  <2>1. f \in Entity BY <1>1, OutcomeTyped DEF Entity
  <2>2. Sane(f) BY <1>1, OutcomeTyped, NullsApart DEF Sane, Entity
  <2>3. Sane(row)' BY <1>4, <1>9 DEF ReadStandings, store
  <2>4. QED BY <1>2, <1>9, <2>1, <2>2, <2>3 DEF ReadStandings, Proceed, e
<1>10. CASE ReadWinner(w)
  <2> DEFINE first == IF Outcome.top # None THEN Outcome.top ELSE e.winner
             f == [e EXCEPT !.winner = first, !.status = "COMPLETED",
                            !.round = MaxRounds]
  <2>1. first \in Entrants \cup {None, Undef}
    BY <1>1, OutcomeTyped DEF Entity, Results
  <2>2. ent' = [ent EXCEPT ![w] = f]
    BY <1>10 DEF ReadWinner, Proceed, e
  <2>3. MaxRounds \in 0 .. MaxRounds /\ MaxRounds >= 1
    BY ConstantsAssumption
  <2>4. e.results \in Results BY <1>1, <1>10 DEF ReadWinner, HandlerOK, e
  <2> HIDE DEF first
  <2>5. f \in Entity BY <1>1, <2>1, CompletedTyped
  <2>6. Sane(f) BY <1>1, <2>3, <2>4, NullsApart DEF Sane, Entity
  <2>7. Sane(row)' BY <1>4, <1>10 DEF ReadWinner, store
  <2>8. QED BY <1>2, <2>2, <2>5, <2>6, <2>7
<1>11. CASE WipeScores(w)
  <2>1. Sane(row)' BY <1>1, <1>11, ChildrenKeepSane DEF WipeScores, Row
  <2>2. QED BY <1>1, <1>2, <1>11, <2>1 DEF WipeScores, Proceed, e
<1>12. CASE ClearGame(w)
  <2> DEFINE f == [e EXCEPT !.status = "PENDING", !.round = 0,
                      !.turnTeam = Undef, !.turnPlayer = Undef,
                      !.started = Undef, !.before = Undef,
                      !.winner = Undef, !.results = Undef]
  <2>1. f \in Entity BY <1>1, ClearedTyped
  <2>2. Sane(f) BY <1>1, NullsApart DEF Sane, Entity
  <2>3. Sane(row)' BY <1>4, <1>12 DEF ClearGame, store
  <2>4. QED BY <1>2, <1>12, <2>1, <2>2, <2>3 DEF ClearGame, Proceed, e
<1>13. CASE InsertResult(w)
  BY <1>3, <1>4, <1>13 DEF InsertResult
<1>14. CASE InsertScore(w)
  <2>1. Sane(row)'
    BY <1>1, <1>4, <1>14, ChildrenKeepSane DEF InsertScore, Row
  <2>2. QED BY <1>3, <1>14, <2>1 DEF InsertScore
<1>15. CASE SaveAndReturn(w) \/ SaveAndGoOn(w)
  <2>1. row' = Saved(e) /\ (Finish(w) \/ ent' = [ent EXCEPT ![w] = e])
    BY <1>15 DEF SaveAndReturn, SaveAndGoOn, SaveAnd, Persist, Proceed, e
  <2>2. Sane(Saved(e)) BY <1>1, SavedSane
  <2>3. Sane(row)' BY <2>1, <2>2 DEF Sane
  <2>4. QED BY <1>1, <1>2, <1>3, <2>1, <2>3
<1>16. CASE \/ StopTimer(w) \/ AfterEndRound(w) \/ AfterComplete(w)
            \/ AfterTurn(w) \/ AfterResume(w)
  <2>1. Sane(row)'
    BY <1>4, <1>16
       DEF StopTimer, AfterEndRound, AfterComplete, AfterTurn, AfterResume, store
  <2>2. Finish(w) \/ ent' = [ent EXCEPT ![w] = Blank]
    BY <1>16 DEF StopTimer, AfterEndRound, AfterComplete, AfterTurn,
                 AfterResume, Proceed
  <2>3. QED BY <1>2, <1>3, <1>5, <2>1, <2>2
<1>17. CASE SaveFromSession(w)
  <2>1. Saved(e) \in Row /\ Sane(Saved(e)) BY <1>1, SavedTyped, SavedSane
  <2>2. row' = [Saved(e) EXCEPT !.teams = row.teams, !.scores = row.scores]
    BY <1>17 DEF SaveFromSession, e
  <2>3. Sane(row)' BY <2>1, <2>2 DEF Row, Sane
  <2>4. QED BY <1>3, <1>17, <2>3 DEF SaveFromSession
<1>18. QED
  BY <1>6, <1>7, <1>8, <1>9, <1>10, <1>11, <1>12, <1>13, <1>14, <1>15, <1>16,
     <1>17 DEF Handler

\* What other services write to the game's children, a deletion and a restart.
LEMMA EnvironmentSane ==
  ASSUME IInv, Environment PROVE SaneInv'
<1>1. row \in Row /\ Sane(row) /\ SaneInv
  BY DEF IInv, TypeInv, StoreOK, SaneInv
<1>2. Sane(Blank)
  BY NewRowSane DEF Blank
<1>3. ASSUME UNCHANGED ent PROVE \A v \in Workers : Sane(ent[v])'
  BY <1>1, <1>3 DEF SaneInv, Sane
<1>4. CASE DeleteGame
  <2>1. Sane(row)' BY <1>2, <1>4 DEF DeleteGame, Sane
  <2>2. QED BY <1>3, <1>4, <2>1 DEF DeleteGame, SaneInv
<1>5. CASE DeleteScore \/ MoveTeam \/ DeleteTeam
  <2>1. Sane(row)'
    BY <1>1, <1>5, ChildrenKeepSane DEF DeleteScore, MoveTeam, DeleteTeam, Row
  <2>2. QED BY <1>3, <1>5, <2>1 DEF DeleteScore, MoveTeam, DeleteTeam, SaneInv
<1>6. CASE Presence
  BY <1>1, <1>3, <1>6 DEF Presence, store, SaneInv, Sane
<1>7. CASE Restart
  <2>1. Sane(row)' BY <1>1, <1>7 DEF Restart, store, Sane
  <2>2. ASSUME NEW v \in Workers PROVE Sane(ent[v])'
    <3>1. ent'[v] = Blank BY <1>7 DEF Restart
    <3>2. QED BY <1>2, <3>1 DEF Sane
  <2>3. QED BY <2>1, <2>2 DEF SaneInv
<1>8. QED BY <1>4, <1>5, <1>6, <1>7 DEF Environment

\* IInv is inductive.
LEMMA StepSane == IInv /\ [Next]_vars => IInv'
<1> SUFFICES ASSUME IInv, [Next]_vars PROVE IInv'
  OBVIOUS
<1>1. TypeInv' BY StepTyped DEF IInv
<1>2. ASSUME NEW w \in Workers, Client(w) PROVE SaneInv'
  BY <1>2, ClientSane
<1>3. ASSUME NEW w \in Workers, TimerExpires(w) PROVE SaneInv'
  BY <1>3 DEF TimerExpires, store, IInv, SaneInv, Sane
<1>4. ASSUME NEW w \in Workers, Handler(w) PROVE SaneInv'
  BY <1>4, HandlerSane
<1>5. ASSUME Environment PROVE SaneInv' BY <1>5, EnvironmentSane
<1>6. ASSUME UNCHANGED vars PROVE SaneInv' BY <1>6 DEF vars, IInv, SaneInv, Sane
<1>7. QED BY <1>1, <1>2, <1>3, <1>4, <1>5, <1>6 DEF Next, IInv

\* IInv holds in every reachable state.
THEOREM RowsStaySane == Spec => []IInv
<1>1. Init => IInv
  <2> SUFFICES ASSUME Init PROVE IInv
    OBVIOUS
  <2>1. TypeInv BY InitTyped
  <2>2. Sane(row) BY NewRowSane DEF Init
  <2>3. \A w \in Workers : Sane(ent[w]) BY NewRowSane DEF Init, Blank
  <2>4. QED BY <2>1, <2>2, <2>3 DEF IInv, SaneInv
<1>2. QED BY <1>1, StepSane, PTL DEF Spec

\* The round of a row always fits its status, for any overlap of handlers.
THEOREM RoundsMatch == Spec => []RoundMatchesStatus
<1>1. IInv => RoundMatchesStatus
  BY DEF IInv, SaneInv, Sane, RoundMatchesStatus
<1>2. QED BY <1>1, RowsStaySane, PTL

\* A paused game always has an active status to go back to: the fallback of
\* resumeGame is dead code for games paused by this version.
THEOREM PausesRemember == Spec => []PauseRemembers
<1>1. IInv => PauseRemembers
  BY DEF IInv, SaneInv, Sane, PauseRemembers
<1>2. QED BY <1>1, RowsStaySane, PTL

\* A completed game always has its results, and a winner never stands alone.
THEOREM CompletedHave == Spec => []CompletedHasResults
<1>1. IInv => CompletedHasResults
  <2> SUFFICES ASSUME IInv PROVE CompletedHasResults
    OBVIOUS
  <2>1. row.winner # Undef /\ Sane(row)
    BY NullsApart DEF IInv, TypeInv, StoreOK, SaneInv, Row
  <2>2. QED BY <2>1, NullsApart DEF Sane, CompletedHasResults
<1>2. QED BY <1>1, RowsStaySane, PTL

-----------------------------------------------------------------------------
\* The history keeps the first result: of all steps only the guarded insert and
\* the deletion of the game touch it.
THEOREM HistoryKept == Spec => HistoryNeverRewritten
<1> DEFINE Keeps == history # None => history' = history \/ ~exists'
<1>1. ASSUME [Next]_vars PROVE Keeps
  <2>1. ASSUME NEW w \in Workers, Client(w) PROVE UNCHANGED history
    BY <2>1 DEF Client, StartGame, ForceStartGame, StartFirstRound,
       StartNextRound, EndCurrentRound, Update, NextTurn, PauseGame, ResumeGame,
       CancelGame, ResetGame, CompleteGame, SubmitScore, CancelSession, Request,
       Load, store
  <2>2. ASSUME NEW w \in Workers, Handler(w), ~InsertResult(w)
        PROVE  UNCHANGED history
    BY <2>2 DEF Handler, ChooseTeams, AutoTurn, ChooseNext, WipeScores,
       ClearGame, CompleteAfterLastRound, ReadStandings, ReadWinner, LoadResult,
       InsertScore, SaveAndReturn, SaveAndGoOn, SaveFromSession, SaveAnd, StopTimer,
       AfterEndRound, AfterComplete, AfterTurn, AfterResume, store
  <2>3. ASSUME NEW w \in Workers, InsertResult(w) PROVE Keeps
    BY <2>3 DEF InsertResult
  <2>4. ASSUME NEW w \in Workers, TimerExpires(w) PROVE UNCHANGED history
    BY <2>4 DEF TimerExpires, store
  <2>5. CASE Environment
    BY <2>5 DEF Environment, DeleteGame, DeleteScore, MoveTeam, DeleteTeam,
       Presence, Restart, store
  <2>6. CASE UNCHANGED vars
    BY <2>6 DEF vars
  <2>7. QED BY <1>1, <2>1, <2>2, <2>3, <2>4, <2>5, <2>6 DEF Next
<1>2. [Next]_vars => [Keeps]_vars
  BY <1>1
<1>3. QED BY <1>2, PTL DEF Spec, HistoryNeverRewritten

-----------------------------------------------------------------------------
(***************************************************************************)
(* When one handler runs at a time, what it holds is the row as it stands, *)
(* with the changes it is going to save.                                   *)
(***************************************************************************)
OneWorker == \A v, w \in Workers : v = w

\* Operation o holds e at step c, before its save.
Loaded(o, c, e) ==
    /\ c = "teams" => o = "startGame" /\ row.status = "PENDING" /\ e = row
    /\ c = "roster" => o \in TurnOps /\ row.status \in Active /\ e = row
    /\ c = "standings" => o = "completeGame" /\ row.status \notin Over /\ e = row
    /\ c = "winner" =>
        /\ o = "completeGame" /\ row.status \notin Over
        /\ e = [row EXCEPT !.results = Outcome]
    /\ c = "wipe" => o = "resetGame" /\ row.status # "COMPLETED" /\ e = row
    /\ c = "unarm" =>
        /\ o = "resetGame" /\ row.status # "COMPLETED" /\ points = {}
        /\ e = [row EXCEPT !.scores = e.scores]

\* Operation o is about to save e.
Changed(o, e) ==
    \/ /\ o = "startGame" /\ row.status = "PENDING"
       /\ \E chosen \in SUBSET Teams :
             e = [row EXCEPT !.teams = chosen, !.status = "IN_PROGRESS", !.round = 1]
    \/ /\ o = "forceStartGame" /\ row.status = "PENDING"
       /\ e = [row EXCEPT !.status = "IN_PROGRESS", !.round = 1, !.started = TRUE]
    \/ /\ o = "startFirstRound" /\ row.status = "IN_PROGRESS" /\ row.round = 1
       /\ e = [row EXCEPT !.status = "ROUND_IN_PROGRESS"]
    \/ /\ o = "startNextRound" /\ row.status = "ROUND_ENDED" /\ row.round < MaxRounds
       /\ e = [row EXCEPT !.status = "ROUND_IN_PROGRESS", !.round = @ + 1]
    \/ /\ o = "endCurrentRound" /\ row.status = "ROUND_IN_PROGRESS"
       /\ e = [row EXCEPT !.status = "ROUND_ENDED"]
    \/ /\ o = "update"
       /\ \E m \in Modes : e = [row EXCEPT !.mode = m]
    \/ /\ o \in TurnOps /\ row.status \in Active
       /\ \E n \in Entrants : e = WithTurn(row, n)
    \/ /\ o = "pauseGame" /\ row.status \in Active
       /\ e = [row EXCEPT !.before = row.status, !.status = "PAUSED"]
    \/ /\ o = "resumeGame" /\ row.status = "PAUSED"
       /\ e = [row EXCEPT !.status = row.before, !.before = Undef, !.started = TRUE]
    \/ /\ o \in {"cancelGame", "cancelSession"} /\ row.status \notin Over
       /\ e = [row EXCEPT !.status = "CANCELLED"]
    \/ /\ o = "completeGame" /\ row.status \notin Over
       /\ e = [row EXCEPT !.results = Outcome, !.winner = Outcome.top,
                          !.status = "COMPLETED", !.round = MaxRounds]
    \/ /\ o = "resetGame" /\ row.status # "COMPLETED" /\ points = {} /\ timer = None
       /\ e = [row EXCEPT !.status = "PENDING", !.round = 0,
                          !.turnTeam = Undef, !.turnPlayer = Undef,
                          !.started = Undef, !.before = Undef,
                          !.winner = Undef, !.results = Undef, !.scores = e.scores]

\* Operation o has saved e.
Stored(o, e) ==
    /\ o \in TurnOps => Current(e) = Current(row)
    /\ o = "resumeGame" => e.turnTeam = row.turnTeam
    /\ o \in TurnOps \cup {"resumeGame"} => row.status \in Active
    /\ o = "completeGame" => row.status = "COMPLETED"

\* What is so at step c of operation o that holds e.
HoldsOK(o, c, e) ==
    /\ o \in Ops \cup {"none", "autoTurn", "completeGame"}
    /\ c \notin {"idle", "load"} => exists
    /\ Loaded(o, c, e)
    /\ c = "save" => Changed(o, e)
    /\ c = "post" => Stored(o, e)
    /\ c = "record" => row.status = "COMPLETED"
    /\ c = "insertResult" =>
        row.status = "COMPLETED" /\ history = None /\ e = row

\* No winner is left from an earlier completion, a completed game has the one
\* of its results, and the history agrees with it.
OutcomeOK ==
    /\ exists /\ row.status # "COMPLETED" => row.winner = None
    /\ row.status = "COMPLETED" =>
        row.winner = row.results.top /\ (row.results.tied => row.results.top = None)
    /\ history # None =>
        /\ exists /\ row.status = "COMPLETED"
        /\ history = [winner |-> row.winner, results |-> row.results]

Holds(w) == \A o \in {op[w]}, c \in {pc[w]}, e \in {ent[w]} : HoldsOK(o, c, e)

\* The scores of the game are all the score rows there are: no handler that runs
\* alone detaches one.
ScoresHeld == exists => points = row.scores

SerialInv == ScoresHeld /\ OutcomeOK /\ \A w \in Workers : Holds(w)

\* With the sessions' cancellations left out: a timer runs in a game that is played,
\* or a handler is about to stop it.
Stops == {"endCurrentRound", "pauseGame", "cancelGame", "completeGame"}

AtPost(w, ops) == pc[w] = "post" /\ op[w] \in ops

TimerInv ==
    exists /\ timer # None =>
        \/ row.status \in Active
        \/ \E w \in Workers : AtPost(w, Stops)

\* The score mode of a game never changes.
ModeIsFixed == "update" \notin Ops \/ \A m, n \in Modes : m = n

\* A timer is that of the turn in the row, or a handler is about to replace it; and
\* only entrants of the kind the game is scored by have ever had a turn.
TurnInv ==
    /\ ~Timed => timer = None
    /\ exists => row.mode \in Modes
    /\ IF row.mode = "INDIVIDUAL" THEN row.turnTeam = None ELSE row.turnPlayer = None
    /\ exists /\ timer # None =>
        \/ timer = Current(row)
        \/ \E w \in Workers : AtPost(w, TurnOps)

LEMMA OutcomeKept == ASSUME row' = row PROVE Outcome' = Outcome
  BY DEF Outcome, Leads, Ranked, Total

\* A shared first place puts nobody in front.
LEMMA OutcomeDecides == Outcome.tied => Outcome.top = None
  <1>1. CASE \E e \in Entrants : Leads(e)
    BY <1>1 DEF Outcome
  <1>2. CASE ~ \E e \in Entrants : Leads(e)
    BY <1>2 DEF Outcome
  <1> QED BY <1>1, <1>2

\* What holds of a handler goes on to hold while nothing is written.
LEMMA HoldsKept ==
  ASSUME UNCHANGED <<store, timer>>, NEW o, NEW c, NEW e, HoldsOK(o, c, e)
  PROVE  HoldsOK(o, c, e)'
  <1>1. Outcome' = Outcome
    BY OutcomeKept DEF store
  <1>2. row' = row /\ exists' = exists /\ history' = history /\ points' = points
    BY DEF store
  <1>3. Loaded(o, c, e)'
    BY <1>1, <1>2 DEF HoldsOK, Loaded
  <1>4. Changed(o, e)' <=> Changed(o, e)
    BY <1>1, <1>2 DEF Changed
  <1>5. Stored(o, e)' <=> Stored(o, e)
    BY <1>2 DEF Stored, Current
  <1> QED BY <1>2, <1>3, <1>4, <1>5 DEF HoldsOK

\* A handler that is over holds nothing that could be stale.
LEMMA OverHolds == ASSUME NEW o \in Ops \cup {"none", "autoTurn", "completeGame"}, NEW e,
                          NEW c \in {"idle", "load"}
                   PROVE  HoldsOK(o, c, e)'
  BY DEF HoldsOK, Loaded

\* The worker that takes a step is the only one.
LEMMA HoldsNext ==
  ASSUME OneWorker, WorkersOK, NEW w \in Workers, NEW o, NEW c, NEW e,
         op'[w] = o, pc'[w] = c, ent'[w] = e, HoldsOK(o, c, e)'
  PROVE  (\A v \in Workers : Holds(v))'
  <1> SUFFICES ASSUME NEW v \in Workers PROVE Holds(v)'
    OBVIOUS
  <1>1. v = w
    BY DEF OneWorker
  <1> QED BY <1>1 DEF Holds

\* The only handler is over.
LEMMA FinishHolds ==
  ASSUME OneWorker, WorkersOK, NEW w \in Workers, Finish(w)
  PROVE  (\A v \in Workers : Holds(v))'
  <1>1. op'[w] = "none" /\ pc'[w] = "idle" /\ ent'[w] = Blank
    BY DEF Finish, WorkersOK
  <1>2. HoldsOK("none", "idle", Blank)'
    BY OverHolds
  <1> QED BY <1>1, <1>2, HoldsNext

\* Nothing is said of the rows but what the store says.
LEMMA StoreKept ==
  ASSUME SerialInv, UNCHANGED store PROVE (ScoresHeld /\ OutcomeOK)'
  BY DEF SerialInv, ScoresHeld, OutcomeOK, store

\* A request loads the row and holds it with the changes of its operation.
LEMMA ClientSerial ==
  ASSUME OneWorker, IInv, SerialInv, NEW w \in Workers, Client(w)
  PROVE  SerialInv'
  <1>1. row \in Row /\ Sane(row) /\ WorkersOK
    BY DEF IInv, TypeInv, StoreOK, SaneInv
  <1>2. ASSUME NEW name, NEW e, NEW next, Request(w, name, e, next),
               exists => Loaded(name, next, e) /\ (next = "save" => Changed(name, e)),
               next \notin {"idle", "load", "post", "record", "insertResult"}
        PROVE  SerialInv'
    <2>1. /\ op'[w] = name /\ pc'[w] = next /\ ent'[w] = e
          /\ name \in Ops /\ exists /\ UNCHANGED <<store, timer>>
      BY <1>1, <1>2 DEF Request, Load, WorkersOK
    <2>2. HoldsOK(name, next, e)
      BY <1>2, <2>1 DEF HoldsOK
    <2>3. HoldsOK(name, next, e)'
      BY <2>1, <2>2, HoldsKept
    <2>4. (\A v \in Workers : Holds(v))'
      BY <1>1, <2>1, <2>3, HoldsNext
    <2> QED BY <2>1, <2>4, StoreKept DEF SerialInv
  <1>3. CASE StartGame(w)
    BY <1>2, <1>3 DEF StartGame, Loaded
  <1>4. CASE ForceStartGame(w)
    <2> DEFINE e == [row EXCEPT !.status = "IN_PROGRESS", !.round = 1, !.started = TRUE]
    <2>1. Request(w, "forceStartGame", e, "save")
      BY <1>4 DEF ForceStartGame
    <2>2. Changed("forceStartGame", e)
      BY <1>4 DEF ForceStartGame, Changed
    <2> HIDE DEF e
    <2> QED BY <1>2, <2>1, <2>2 DEF Loaded
  <1>5. CASE StartFirstRound(w)
    BY <1>2, <1>5 DEF StartFirstRound, Loaded, Changed
  <1>6. CASE StartNextRound(w)
    <2> DEFINE e == [row EXCEPT !.status = "ROUND_IN_PROGRESS", !.round = @ + 1]
    <2>1. Request(w, "startNextRound", e, "save")
      BY <1>6 DEF StartNextRound
    <2>2. Changed("startNextRound", e)
      BY <1>6 DEF StartNextRound, Changed
    <2> HIDE DEF e
    <2> QED BY <1>2, <2>1, <2>2 DEF Loaded
  <1>7. CASE EndCurrentRound(w)
    BY <1>2, <1>7 DEF EndCurrentRound, Loaded, Changed
  <1>8. CASE Update(w)
    <2>1. PICK m \in Modes : Request(w, "update", [row EXCEPT !.mode = m], "save")
      BY <1>8 DEF Update
    <2>2. Changed("update", [row EXCEPT !.mode = m])
      BY DEF Changed
    <2> QED BY <1>2, <2>1, <2>2 DEF Loaded
  <1>9. CASE NextTurn(w)
    BY <1>2, <1>9 DEF NextTurn, Loaded, TurnOps
  <1>10. CASE PauseGame(w)
    <2> DEFINE e == [row EXCEPT !.before = row.status, !.status = "PAUSED"]
    <2>1. Request(w, "pauseGame", e, "save")
      BY <1>10 DEF PauseGame
    <2>2. Changed("pauseGame", e)
      BY <1>10 DEF PauseGame, Changed
    <2> HIDE DEF e
    <2> QED BY <1>2, <2>1, <2>2 DEF Loaded
  <1>11. CASE ResumeGame(w)
    <2>1. row.before # None /\ row.status = "PAUSED"
      BY <1>1, <1>11, NullsApart DEF ResumeGame, Sane
    <2> DEFINE e == [row EXCEPT !.status = row.before, !.before = Undef, !.started = TRUE]
    <2>2. Request(w, "resumeGame", e, "save")
      BY <1>11, <2>1 DEF ResumeGame
    <2>3. Changed("resumeGame", e)
      BY <2>1 DEF Changed
    <2> QED BY <1>2, <2>2, <2>3 DEF Loaded
  <1>12. CASE CancelGame(w)
    BY <1>2, <1>12 DEF CancelGame, Loaded, Changed
  <1>13. CASE CancelSession(w)
    BY <1>2, <1>13 DEF CancelSession, Loaded, Changed
  <1>14. CASE ResetGame(w)
    BY <1>2, <1>14 DEF ResetGame, Loaded
  <1>15. CASE CompleteGame(w)
    BY <1>2, <1>15 DEF CompleteGame, Loaded
  <1>16. CASE SubmitScore(w)
    BY <1>2, <1>16 DEF SubmitScore, Loaded
  <1> QED
    BY <1>3, <1>4, <1>5, <1>6, <1>7, <1>8, <1>9, <1>10, <1>11, <1>12, <1>13,
       <1>14, <1>15, <1>16 DEF Client

\* A read came back: the entity is what the handler is to save.
LEMMA ReadSerial ==
  ASSUME OneWorker, IInv, SerialInv, NEW w \in Workers,
         \/ ChooseTeams(w) \/ AutoTurn(w) \/ ChooseNext(w)
         \/ CompleteAfterLastRound(w) \/ ReadStandings(w) \/ ReadWinner(w)
         \/ LoadResult(w)
  PROVE  SerialInv'
  <1>0. UNCHANGED <<store, timer>>
    BY DEF ChooseTeams, AutoTurn, ChooseNext, CompleteAfterLastRound,
           ReadStandings, ReadWinner, LoadResult
  <1>1. PICK o : o = op[w]
    OBVIOUS
  <1>2. PICK e : e = ent[w]
    OBVIOUS
  <1>3. PICK c : c = pc[w]
    OBVIOUS
  <1>4. /\ row \in Row /\ WorkersOK /\ OutcomeOK /\ teams \in SUBSET Teams
        /\ HoldsOK(o, c, e)
    BY <1>1, <1>2, <1>3 DEF IInv, TypeInv, StoreOK, SerialInv, Holds
  <1>5. CASE Finish(w)
    BY <1>0, <1>4, <1>5, FinishHolds, StoreKept DEF SerialInv
  <1>6. ASSUME NEW f, NEW next, Proceed(w, f, next), exists,
               Loaded(o, next, f), next = "save" => Changed(o, f),
               next = "insertResult" =>
                    row.status = "COMPLETED" /\ history = None /\ f = row,
               next \notin {"idle", "load", "post", "record"}
        PROVE  SerialInv'
    <2>1. op'[w] = o /\ pc'[w] = next /\ ent'[w] = f
      BY <1>1, <1>4, <1>6 DEF Proceed, WorkersOK
    <2>2. HoldsOK(o, next, f)
      BY <1>4, <1>6 DEF HoldsOK
    <2>3. HoldsOK(o, next, f)'
      BY <1>0, <2>2, HoldsKept
    <2>4. (\A v \in Workers : Holds(v))'
      BY <1>4, <2>1, <2>3, HoldsNext
    <2> QED BY <1>0, <2>4, StoreKept DEF SerialInv
  <1>7. CASE ChooseTeams(w) /\ ~Finish(w)
    <2>1. PICK chosen \in SUBSET Teams :
             Proceed(w, [e EXCEPT !.teams = chosen, !.status = "IN_PROGRESS",
                                  !.round = 1], "save")
      BY <1>2, <1>4, <1>7 DEF ChooseTeams
    <2>2. o = "startGame" /\ row.status = "PENDING" /\ e = row /\ exists
      BY <1>3, <1>4, <1>7 DEF ChooseTeams, HoldsOK, Loaded
    <2>3. Changed(o, [e EXCEPT !.teams = chosen, !.status = "IN_PROGRESS", !.round = 1])
      BY <2>2 DEF Changed
    <2> QED BY <1>6, <2>1, <2>2, <2>3 DEF Loaded
  <1>8. CASE AutoTurn(w) /\ ~Finish(w)
    BY <1>1, <1>6, <1>8 DEF AutoTurn, Loaded, TurnOps
  <1>9. CASE ChooseNext(w) /\ ~Finish(w)
    <2>1. PICK n \in Roster(e) : Proceed(w, WithTurn(e, n), "save")
      BY <1>2, <1>9 DEF ChooseNext
    <2>2. o \in TurnOps /\ row.status \in Active /\ e = row /\ exists
      BY <1>3, <1>4, <1>9 DEF ChooseNext, HoldsOK, Loaded
    <2>3. n \in Entrants
      BY <1>4 DEF IInv, TypeInv, StoreOK, Roster, Row, Entrants
    <2>4. Changed(o, WithTurn(e, n))
      BY <2>2, <2>3 DEF Changed
    <2> QED BY <1>6, <2>1, <2>2, <2>4 DEF Loaded
  <1>10. CASE CompleteAfterLastRound(w) /\ ~Finish(w)
    BY <1>1, <1>6, <1>10 DEF CompleteAfterLastRound, Loaded
  <1>11. CASE ReadStandings(w)
    <2>1. /\ o = "completeGame" /\ row.status \notin Over /\ e = row /\ exists
          /\ Proceed(w, [e EXCEPT !.results = Outcome], "winner")
      BY <1>2, <1>3, <1>4, <1>11 DEF ReadStandings, HoldsOK, Loaded
    <2> QED BY <1>6, <2>1 DEF Loaded
  <1>12. CASE ReadWinner(w)
    <2> DEFINE first == IF Outcome.top # None THEN Outcome.top ELSE e.winner
               f == [e EXCEPT !.winner = first, !.status = "COMPLETED",
                              !.round = MaxRounds]
               g == [row EXCEPT !.results = Outcome, !.winner = Outcome.top,
                                !.status = "COMPLETED", !.round = MaxRounds]
    <2>1. /\ o = "completeGame" /\ row.status \notin Over /\ exists
          /\ e = [row EXCEPT !.results = Outcome]
          /\ Proceed(w, f, "save")
      BY <1>2, <1>3, <1>4, <1>12 DEF ReadWinner, HoldsOK, Loaded
    <2>2. row.winner = None
      BY <1>4, <2>1 DEF OutcomeOK, Over
    <2>3. first = Outcome.top
      BY <1>4, <2>1, <2>2 DEF Row
    <2>4. f = g
      BY <1>4, <2>1, <2>3 DEF Row
    <2>5. Changed(o, f)
      BY <2>1, <2>4 DEF Changed
    <2> QED BY <1>6, <2>1, <2>5 DEF Loaded
  <1>13. CASE LoadResult(w) /\ ~Finish(w)
    <2>1. row.status = "COMPLETED"
      BY <1>3, <1>4, <1>13 DEF LoadResult, HoldsOK
    <2> QED BY <1>6, <1>13, <2>1 DEF LoadResult, Loaded
  <1> QED BY <1>5, <1>7, <1>8, <1>9, <1>10, <1>11, <1>12, <1>13

\* What a save by operation o makes of the row.
Becomes(r, s, n) == r.status = s /\ r.round = n

Effect(o, r) ==
    /\ r \in Row /\ r.scores = points
    /\ o # "completeGame" => r.winner = row.winner /\ r.results = row.results
    /\ o \notin TurnOps => r.turnTeam = row.turnTeam /\ r.turnPlayer = row.turnPlayer
    /\ o # "update" => r.mode = row.mode
    /\ o \in {"update"} \cup TurnOps => Becomes(r, row.status, row.round) /\ r.before = row.before
    /\ o = "update" => r.mode \in Modes
    /\ o \in TurnOps => row.status \in Active
    /\ o \in TurnOps => IF row.mode = "INDIVIDUAL" THEN r.turnTeam = row.turnTeam
                         ELSE r.turnPlayer = row.turnPlayer
    /\ o \in {"startGame", "forceStartGame"} =>
        row.status = "PENDING" /\ Becomes(r, "IN_PROGRESS", 1)
    /\ o = "startFirstRound" =>
        /\ row.status = "IN_PROGRESS" /\ row.round = 1
        /\ Becomes(r, "ROUND_IN_PROGRESS", 1)
    /\ o = "startNextRound" =>
        /\ row.status = "ROUND_ENDED" /\ row.round < MaxRounds
        /\ Becomes(r, "ROUND_IN_PROGRESS", row.round + 1)
    /\ o = "endCurrentRound" =>
        row.status = "ROUND_IN_PROGRESS" /\ Becomes(r, "ROUND_ENDED", row.round)
    /\ o = "pauseGame" =>
        /\ row.status \in Active
        /\ Becomes(r, "PAUSED", row.round) /\ r.before = row.status
    /\ o = "resumeGame" =>
        row.status = "PAUSED" /\ Becomes(r, row.before, row.round)
    /\ o \in {"cancelGame", "cancelSession"} =>
        row.status \notin Over /\ Becomes(r, "CANCELLED", row.round)
    /\ o = "completeGame" =>
        /\ row.status \notin Over /\ Becomes(r, "COMPLETED", MaxRounds)
        /\ r.results \in Results /\ r.winner = r.results.top
        /\ r.results.tied => r.results.top = None
    /\ o = "resetGame" =>
        /\ row.status # "COMPLETED" /\ timer = None
        /\ Becomes(r, "PENDING", 0)
    /\ o \in {"startGame", "forceStartGame", "startFirstRound", "startNextRound",
              "endCurrentRound", "update", "pauseGame", "resumeGame", "cancelGame",
              "cancelSession", "completeGame", "resetGame"} \cup TurnOps

\* A save of what a handler holds, when the row is as it was loaded.
LEMMA SaveEffect ==
  ASSUME IInv, ScoresHeld, exists, NEW o, NEW e \in Entity, Changed(o, e)
  PROVE  Effect(o, Saved(e))
  <1>1. /\ row \in Row /\ Sane(row) /\ points = row.scores /\ StoreOK
        /\ points \in SUBSET Scores
    BY DEF IInv, TypeInv, StoreOK, SaneInv, ScoresHeld
  <1>2. PICK r : r = Saved(e)
    OBVIOUS
  <1>3. /\ r.status = e.status /\ r.round = e.round /\ r.mode = e.mode
        /\ r.turnTeam = Kept(e.turnTeam, row.turnTeam)
        /\ r.turnPlayer = Kept(e.turnPlayer, row.turnPlayer)
        /\ r.before = Kept(e.before, row.before)
        /\ r.winner = Kept(e.winner, row.winner)
        /\ r.results = Kept(e.results, row.results)
        /\ r.scores = e.scores \cap points
    BY <1>2 DEF Saved, Entity
  <1>4. r \in Row
    BY <1>1, <1>2, SavedTyped
  <1>5. /\ row.turnTeam # Undef /\ row.turnPlayer # Undef /\ row.before # Undef
        /\ row.winner # Undef /\ row.results # Undef
    BY <1>1, NullsApart, NullAssumption DEF Row, Entrants
  <1>6. ASSUME e.winner = row.winner, e.results = row.results
        PROVE  r.winner = row.winner /\ r.results = row.results
    BY <1>3, <1>5, <1>6 DEF Kept
  <1>7. ASSUME e.turnTeam = row.turnTeam, e.turnPlayer = row.turnPlayer
        PROVE  r.turnTeam = row.turnTeam /\ r.turnPlayer = row.turnPlayer
    BY <1>3, <1>5, <1>7 DEF Kept
  <1>8. ASSUME e.scores = row.scores PROVE r.scores = points
    BY <1>1, <1>3, <1>8
  <1>9. e.before \notin {Undef} => r.before = e.before
    BY <1>3 DEF Kept
  <1>10. CASE o \in {"startGame", "forceStartGame"}
    <2>1. /\ row.status = "PENDING" /\ e.status = "IN_PROGRESS" /\ e.round = 1
          /\ e.winner = row.winner /\ e.results = row.results /\ e.mode = row.mode
          /\ e.turnTeam = row.turnTeam /\ e.turnPlayer = row.turnPlayer
          /\ e.scores = row.scores
      BY <1>1, <1>10 DEF Changed, Row, TurnOps
    <2> QED BY <1>2, <1>3, <1>4, <1>6, <1>7, <1>8, <1>10, <2>1 DEF Effect, Becomes, TurnOps
  <1>11. CASE o \in {"startFirstRound", "startNextRound", "endCurrentRound"}
    <2>1. /\ e.winner = row.winner /\ e.results = row.results /\ e.mode = row.mode
          /\ e.turnTeam = row.turnTeam /\ e.turnPlayer = row.turnPlayer
          /\ e.scores = row.scores
      BY <1>1, <1>11 DEF Changed, Row, TurnOps
    <2>2. /\ o = "startFirstRound" => /\ row.status = "IN_PROGRESS" /\ row.round = 1
                                      /\ e.status = "ROUND_IN_PROGRESS" /\ e.round = 1
          /\ o = "startNextRound" =>
                /\ row.status = "ROUND_ENDED" /\ row.round < MaxRounds
                /\ e.status = "ROUND_IN_PROGRESS" /\ e.round = row.round + 1
          /\ o = "endCurrentRound" =>
                /\ row.status = "ROUND_IN_PROGRESS"
                /\ e.status = "ROUND_ENDED" /\ e.round = row.round
      BY <1>1, <1>11 DEF Changed, Row, TurnOps
    <2> QED BY <1>2, <1>3, <1>4, <1>6, <1>7, <1>8, <1>11, <2>1, <2>2
            DEF Effect, Becomes, TurnOps
  <1>12. CASE o = "update"
    <2>1. /\ e.winner = row.winner /\ e.results = row.results
          /\ e.turnTeam = row.turnTeam /\ e.turnPlayer = row.turnPlayer
          /\ e.scores = row.scores /\ e.before = row.before
          /\ e.status = row.status /\ e.round = row.round /\ e.mode \in Modes
      BY <1>1, <1>12 DEF Changed, Row, TurnOps
    <2> QED BY <1>2, <1>3, <1>4, <1>5, <1>6, <1>7, <1>8, <1>9, <1>12, <2>1
            DEF Effect, Becomes, TurnOps
  <1>13. CASE o \in TurnOps
    <2>1. PICK n \in Entrants : row.status \in Active /\ e = WithTurn(row, n)
      BY <1>13 DEF Changed, TurnOps
    <2>2. /\ e.winner = row.winner /\ e.results = row.results /\ e.mode = row.mode
          /\ e.scores = row.scores /\ e.before = row.before
          /\ e.status = row.status /\ e.round = row.round
      BY <1>1, <2>1 DEF WithTurn, Row
    <2>3. IF row.mode = "INDIVIDUAL" THEN e.turnTeam = row.turnTeam
          ELSE e.turnPlayer = row.turnPlayer
      BY <1>1, <2>1 DEF WithTurn, Row
    <2>4. IF row.mode = "INDIVIDUAL" THEN r.turnTeam = row.turnTeam
          ELSE r.turnPlayer = row.turnPlayer
      BY <1>3, <1>5, <2>3 DEF Kept
    <2> QED BY <1>2, <1>3, <1>4, <1>5, <1>6, <1>8, <1>9, <1>13, <2>1, <2>2, <2>4
            DEF Effect, Becomes, TurnOps
  <1>14. CASE o = "pauseGame"
    <2>1. /\ e.winner = row.winner /\ e.results = row.results /\ e.mode = row.mode
          /\ e.turnTeam = row.turnTeam /\ e.turnPlayer = row.turnPlayer
          /\ e.scores = row.scores /\ e.before = row.status
          /\ e.status = "PAUSED" /\ e.round = row.round /\ row.status \in Active
      BY <1>1, <1>14 DEF Changed, Row, TurnOps
    <2>2. e.before # Undef
      BY <2>1, NullsApart
    <2> QED BY <1>2, <1>3, <1>4, <1>6, <1>7, <1>8, <1>9, <1>14, <2>1, <2>2
            DEF Effect, Becomes, TurnOps
  <1>15. CASE o \in {"resumeGame", "cancelGame", "cancelSession"}
    <2>1. /\ e.winner = row.winner /\ e.results = row.results /\ e.mode = row.mode
          /\ e.turnTeam = row.turnTeam /\ e.turnPlayer = row.turnPlayer
          /\ e.scores = row.scores /\ e.round = row.round
      BY <1>1, <1>15 DEF Changed, Row, TurnOps
    <2>2. /\ o = "resumeGame" => row.status = "PAUSED" /\ e.status = row.before
          /\ o # "resumeGame" => row.status \notin Over /\ e.status = "CANCELLED"
      BY <1>1, <1>15 DEF Changed, Row, TurnOps
    <2> QED BY <1>2, <1>3, <1>4, <1>6, <1>7, <1>8, <1>15, <2>1, <2>2
            DEF Effect, Becomes, TurnOps
  <1>16. CASE o = "completeGame"
    <2>1. /\ e.winner = Outcome.top /\ e.results = Outcome /\ e.mode = row.mode
          /\ e.turnTeam = row.turnTeam /\ e.turnPlayer = row.turnPlayer
          /\ e.scores = row.scores /\ row.status \notin Over
          /\ e.status = "COMPLETED" /\ e.round = MaxRounds
      BY <1>1, <1>16 DEF Changed, Row, TurnOps
    <2>2. Outcome.top # Undef /\ Outcome # Undef /\ Outcome \in Results
      BY OutcomeTyped, NullsApart DEF Results
    <2>3. r.winner = Outcome.top /\ r.results = Outcome
      BY <1>3, <2>1, <2>2 DEF Kept
    <2> QED BY <1>2, <1>3, <1>4, <1>7, <1>8, <1>16, <2>1, <2>2, <2>3, OutcomeDecides
            DEF Effect, Becomes, TurnOps
  <1>17. CASE o = "resetGame"
    <2>1. /\ row.status # "COMPLETED" /\ points = {} /\ timer = None
          /\ e.status = "PENDING" /\ e.round = 0 /\ e.mode = row.mode
          /\ e.turnTeam = Undef /\ e.turnPlayer = Undef
          /\ e.winner = Undef /\ e.results = Undef
      BY <1>1, <1>17 DEF Changed, Row, TurnOps
    <2>2. /\ r.turnTeam = row.turnTeam /\ r.turnPlayer = row.turnPlayer
          /\ r.winner = row.winner /\ r.results = row.results /\ r.scores = points
      BY <1>3, <2>1 DEF Kept
    <2> QED BY <1>2, <1>3, <1>4, <1>17, <2>1, <2>2 DEF Effect, Becomes, TurnOps
  <1> QED BY <1>10, <1>11, <1>12, <1>13, <1>14, <1>15, <1>16, <1>17 DEF Changed, TurnOps

\* The entity that was saved and the row agree on the turn.
LEMMA SaveKeepsTurn ==
  ASSUME IInv, NEW o, NEW e \in Entity, Changed(o, e), NEW r, r = Saved(e)
  PROVE  /\ o \in TurnOps => Current(e) = Current(r)
         /\ o = "resumeGame" => e.turnTeam = r.turnTeam
  <1>1. row \in Row
    BY DEF IInv, TypeInv, StoreOK
  <1>2. /\ r.mode = e.mode
        /\ r.turnTeam = Kept(e.turnTeam, row.turnTeam)
        /\ r.turnPlayer = Kept(e.turnPlayer, row.turnPlayer)
    BY DEF Saved, Entity
  <1>3. /\ row.turnTeam # Undef /\ row.turnPlayer # Undef
        /\ Undef \notin Entrants
    BY <1>1, NullAssumption DEF Row, Entrants
  <1>4. CASE o = "resumeGame"
    <2>1. e.turnTeam = row.turnTeam
      BY <1>1, <1>4 DEF Changed, Row, TurnOps
    <2> QED BY <1>2, <1>3, <1>4, <2>1 DEF Kept, TurnOps
  <1>5. CASE o \in TurnOps
    <2>1. PICK n \in Entrants : e = WithTurn(row, n)
      BY <1>5 DEF Changed, TurnOps
    <2>2. /\ e.mode = row.mode
          /\ e.mode = "INDIVIDUAL" => e.turnPlayer = n
          /\ e.mode # "INDIVIDUAL" => e.turnTeam = n
      BY <1>1, <2>1 DEF WithTurn, Row
    <2> QED BY <1>2, <1>3, <1>5, <2>2 DEF Kept, Current, TurnOps
  <1> QED BY <1>4, <1>5

\* A save leaves the rows consistent, with all scores and one outcome.
LEMMA EffectRows ==
  ASSUME IInv, SerialInv, exists, NEW o, NEW r, Effect(o, r),
         row' = r, exists' = TRUE, UNCHANGED <<history, points>>
  PROVE  (ScoresHeld /\ OutcomeOK)'
  <1>1. ScoresHeld'
    BY DEF Effect, ScoresHeld
  <1>2. row \in Row /\ OutcomeOK /\ Sane(row)
    BY DEF IInv, TypeInv, StoreOK, SerialInv, SaneInv
  <1>3. CASE o = "completeGame"
    <2>1. history = None /\ row.winner = None
      BY <1>2, <1>3 DEF Effect, OutcomeOK, Over
    <2> QED BY <1>1, <1>2, <1>3, <2>1 DEF Effect, OutcomeOK, Becomes
  <1>4. CASE o # "completeGame"
    <2>1. r.winner = row.winner /\ r.results = row.results
      BY <1>4 DEF Effect
    <2>2. r.status = "COMPLETED" <=> row.status = "COMPLETED"
      BY <1>2, <1>4 DEF Effect, Becomes, Over, Active, TurnOps, Sane
    <2> QED BY <1>1, <1>2, <2>1, <2>2 DEF OutcomeOK
  <1> QED BY <1>3, <1>4

\* A save leaves the next step with what it has to know of the row.
LEMMA SaveSerial ==
  ASSUME OneWorker, IInv, SerialInv, NEW w \in Workers,
         SaveAndReturn(w) \/ SaveAndGoOn(w) \/ SaveFromSession(w)
  PROVE  SerialInv'
  <1>1. PICK o : o = op[w]
    OBVIOUS
  <1>2. PICK e : e = ent[w]
    OBVIOUS
  <1>3. PICK c : c = pc[w]
    OBVIOUS
  <1>4. c = "save"
    BY <1>3 DEF SaveAndReturn, SaveAndGoOn, SaveFromSession, SaveAnd
  <1>5. /\ row \in Row /\ WorkersOK /\ OutcomeOK /\ StoreOK /\ ScoresHeld
        /\ HoldsOK(o, c, e) /\ e \in Entity
    BY <1>1, <1>2, <1>3 DEF IInv, TypeInv, StoreOK, WorkersOK, SerialInv, Holds
  <1>6. exists /\ Changed(o, e)
    BY <1>4, <1>5 DEF HoldsOK
  <1>7. PICK r : r = Saved(e)
    OBVIOUS
  <1>8. Effect(o, r)
    BY <1>5, <1>6, <1>7, SaveEffect
  <1>9. CASE SaveAndReturn(w)
    <2>1. Finish(w) /\ row' = r /\ exists' = TRUE /\ UNCHANGED <<history, points>>
      BY <1>2, <1>7, <1>9 DEF SaveAndReturn, SaveAnd, Persist
    <2>2. (ScoresHeld /\ OutcomeOK)'
      BY <1>6, <1>8, <2>1, EffectRows
    <2>3. (\A v \in Workers : Holds(v))'
      BY <1>5, <2>1, FinishHolds
    <2> QED BY <2>2, <2>3 DEF SerialInv
  <1>10. CASE SaveAndGoOn(w)
    <2>1. /\ Proceed(w, e, "post") /\ row' = r /\ exists' = TRUE
          /\ UNCHANGED <<history, points>>
      BY <1>2, <1>7, <1>10 DEF SaveAndGoOn, SaveAnd, Persist
    <2>2. (ScoresHeld /\ OutcomeOK)'
      BY <1>6, <1>8, <2>1, EffectRows
    <2>3. op'[w] = o /\ pc'[w] = "post" /\ ent'[w] = e
      BY <1>1, <1>5, <2>1 DEF Proceed, WorkersOK
    <2>4. /\ o \in TurnOps => Current(e) = Current(r)
          /\ o = "resumeGame" => e.turnTeam = r.turnTeam
      BY <1>5, <1>6, <1>7, SaveKeepsTurn
    <2>5. /\ o \in TurnOps \cup {"resumeGame"} => r.status \in Active
          /\ o = "completeGame" => r.status = "COMPLETED"
      BY <1>5, <1>8 DEF Effect, Becomes, IInv, SaneInv, Sane, TurnOps
    <2>6. Stored(o, e)'
      BY <2>1, <2>4, <2>5 DEF Stored, Current
    <2>7. HoldsOK(o, "post", e)'
      BY <1>5, <2>1, <2>6 DEF HoldsOK, Loaded
    <2>8. (\A v \in Workers : Holds(v))'
      BY <1>5, <2>3, <2>7, HoldsNext
    <2> QED BY <2>2, <2>8 DEF SerialInv
  <1>11. CASE SaveFromSession(w)
    <2>1. PICK q : q = [r EXCEPT !.teams = row.teams, !.scores = row.scores]
      OBVIOUS
    <2>2. Finish(w) /\ row' = q /\ exists' = TRUE /\ UNCHANGED <<history, points>>
      BY <1>2, <1>7, <1>11, <2>1 DEF SaveFromSession
    <2>3. o = "cancelSession"
      BY <1>1, <1>11 DEF SaveFromSession
    <2>4. r \in Row /\ row.scores = points
      BY <1>5, <1>6, <1>8 DEF Effect, ScoresHeld
    <2>5. /\ q \in Row /\ q.scores = points /\ q.status = r.status /\ q.round = r.round
          /\ q.winner = r.winner /\ q.results = r.results /\ q.mode = r.mode
          /\ q.turnTeam = r.turnTeam /\ q.turnPlayer = r.turnPlayer
      BY <1>5, <2>1, <2>4 DEF Row
    <2>6. Effect(o, q)
      BY <1>8, <2>3, <2>5 DEF Effect, Becomes, TurnOps
    <2>7. (ScoresHeld /\ OutcomeOK)'
      BY <1>6, <2>2, <2>6, EffectRows
    <2>8. (\A v \in Workers : Holds(v))'
      BY <1>5, <2>2, FinishHolds
    <2> QED BY <2>7, <2>8 DEF SerialInv
  <1> QED BY <1>9, <1>10, <1>11

\* The continuations write nothing.
LEMMA ContinuationSerial ==
  ASSUME OneWorker, IInv, SerialInv, NEW w \in Workers,
         \/ StopTimer(w) \/ AfterEndRound(w) \/ AfterComplete(w)
         \/ AfterTurn(w) \/ AfterResume(w)
  PROVE  SerialInv'
  <1>1. UNCHANGED store
    BY DEF StopTimer, AfterEndRound, AfterComplete, AfterTurn, AfterResume
  <1>2. WorkersOK /\ HoldsOK(op[w], pc[w], ent[w])
    BY DEF IInv, TypeInv, SerialInv, Holds
  <1>3. CASE Finish(w)
    BY <1>1, <1>2, <1>3, FinishHolds, StoreKept DEF SerialInv
  <1>4. CASE AfterEndRound(w) /\ ~Finish(w)
    <2>1. op'[w] = "completeGame" /\ pc'[w] = "load" /\ ent'[w] = Blank
      BY <1>2, <1>4 DEF AfterEndRound, WorkersOK
    <2>2. HoldsOK("completeGame", "load", Blank)'
      BY OverHolds
    <2> QED BY <1>1, <1>2, <2>1, <2>2, HoldsNext, StoreKept DEF SerialInv
  <1>5. CASE AfterComplete(w)
    <2>1. op'[w] = "completeGame" /\ pc'[w] = "record" /\ ent'[w] = Blank
      BY <1>2, <1>5 DEF AfterComplete, Proceed, WorkersOK
    <2>2. row.status = "COMPLETED" /\ exists
      BY <1>2, <1>5 DEF AfterComplete, HoldsOK, Stored
    <2>3. HoldsOK("completeGame", "record", Blank)'
      BY <1>1, <2>2 DEF HoldsOK, Loaded, store
    <2> QED BY <1>1, <1>2, <2>1, <2>3, HoldsNext, StoreKept DEF SerialInv
  <1> QED BY <1>3, <1>4, <1>5 DEF StopTimer, AfterTurn, AfterResume

\* Wiping the scores keeps the entity good but for its scores; what is inserted in
\* the history is the row that was just completed.
LEMMA WriteSerial ==
  ASSUME OneWorker, IInv, SerialInv, NEW w \in Workers,
         \/ WipeScores(w) \/ ClearGame(w) \/ InsertScore(w) \/ InsertResult(w)
  PROVE  SerialInv'
  <1>1. PICK o : o = op[w]
    OBVIOUS
  <1>2. PICK e : e = ent[w]
    OBVIOUS
  <1>3. PICK c : c = pc[w]
    OBVIOUS
  <1>4. /\ row \in Row /\ WorkersOK /\ OutcomeOK /\ StoreOK /\ ScoresHeld
        /\ HoldsOK(o, c, e) /\ e \in Entity
    BY <1>1, <1>2, <1>3 DEF IInv, TypeInv, StoreOK, WorkersOK, SerialInv, Holds
  <1>5. CASE WipeScores(w)
    <2>1. /\ o = "resetGame" /\ row.status # "COMPLETED" /\ e = row /\ exists
          /\ points = row.scores /\ o \in Ops \cup {"none", "autoTurn", "completeGame"}
      BY <1>3, <1>4, <1>5 DEF WipeScores, HoldsOK, Loaded, ScoresHeld
    <2>2. PICK r : r = [row EXCEPT !.scores = {}]
      OBVIOUS
    <2>3. row' = r /\ points' = {} /\ UNCHANGED <<exists, history>>
      BY <1>5, <2>1, <2>2 DEF WipeScores
    <2>4. /\ r.scores = {} /\ r.status = row.status
          /\ r.winner = row.winner /\ r.results = row.results
          /\ e = [r EXCEPT !.scores = e.scores]
      BY <1>4, <2>1, <2>2 DEF Row
    <2>5. (ScoresHeld /\ OutcomeOK)'
      BY <1>4, <2>3, <2>4 DEF ScoresHeld, OutcomeOK
    <2>6. op'[w] = o /\ pc'[w] = "unarm" /\ ent'[w] = e
      BY <1>1, <1>2, <1>4, <1>5 DEF WipeScores, Proceed, WorkersOK
    <2>7. HoldsOK(o, "unarm", e)'
      BY <2>1, <2>3, <2>4 DEF HoldsOK, Loaded
    <2>8. (\A v \in Workers : Holds(v))'
      BY <1>4, <2>6, <2>7, HoldsNext
    <2> QED BY <2>5, <2>8 DEF SerialInv
  <1>6. CASE ClearGame(w)
    <2> DEFINE f == [e EXCEPT !.status = "PENDING", !.round = 0,
                      !.turnTeam = Undef, !.turnPlayer = Undef,
                      !.started = Undef, !.before = Undef,
                      !.winner = Undef, !.results = Undef]
               g == [row EXCEPT !.status = "PENDING", !.round = 0,
                      !.turnTeam = Undef, !.turnPlayer = Undef,
                      !.started = Undef, !.before = Undef,
                      !.winner = Undef, !.results = Undef, !.scores = f.scores]
    <2>1. /\ o = "resetGame" /\ row.status # "COMPLETED" /\ points = {}
          /\ e = [row EXCEPT !.scores = e.scores] /\ exists
          /\ o \in Ops \cup {"none", "autoTurn", "completeGame"}
      BY <1>3, <1>4, <1>6 DEF ClearGame, HoldsOK, Loaded
    <2>2. f = g
      BY <1>4, <2>1 DEF Row
    <2>3. UNCHANGED store /\ timer' = None /\ Proceed(w, f, "save")
      BY <1>2, <1>6 DEF ClearGame
    <2>4. op'[w] = o /\ pc'[w] = "save" /\ ent'[w] = f
      BY <1>1, <1>4, <2>3 DEF Proceed, WorkersOK
    <2>5. Changed(o, f)'
      BY <2>1, <2>2, <2>3 DEF Changed, store
    <2> HIDE DEF f, g
    <2>6. HoldsOK(o, "save", f)'
      BY <2>1, <2>3, <2>5 DEF HoldsOK, Loaded, store
    <2>7. (\A v \in Workers : Holds(v))'
      BY <1>4, <2>4, <2>6, HoldsNext
    <2> QED BY <2>3, <2>7, StoreKept DEF SerialInv
  <1>7. CASE InsertScore(w)
    <2>1. (\A v \in Workers : Holds(v))'
      BY <1>4, <1>7, FinishHolds DEF InsertScore
    <2>2. exists' = exists /\ history' = history
      BY <1>7 DEF InsertScore
    <2>3. CASE UNCHANGED <<points, row>>
      BY <1>4, <2>1, <2>2, <2>3 DEF SerialInv, ScoresHeld, OutcomeOK
    <2>4. CASE ~UNCHANGED <<points, row>>
      <3>1. PICK s \in Scores : /\ exists /\ points' = points \cup {s}
                                /\ row' = [row EXCEPT !.scores = @ \cup {s}]
        BY <1>7, <2>4 DEF InsertScore
      <3>2. /\ row'.scores = row.scores \cup {s} /\ row'.status = row.status
            /\ row'.winner = row.winner /\ row'.results = row.results
        BY <1>4, <3>1 DEF Row
      <3> QED BY <1>4, <2>1, <2>2, <3>1, <3>2 DEF SerialInv, ScoresHeld, OutcomeOK
    <2> QED BY <2>3, <2>4
  <1>8. CASE InsertResult(w)
    <2>1. (\A v \in Workers : Holds(v))'
      BY <1>4, <1>8, FinishHolds DEF InsertResult
    <2>2. /\ row.status = "COMPLETED" /\ history = None /\ e = row /\ exists
      BY <1>3, <1>4, <1>8 DEF InsertResult, HoldsOK
    <2>3. UNCHANGED <<row, exists, points>>
      BY <1>8 DEF InsertResult
    <2>4. CASE UNCHANGED history
      BY <1>4, <2>1, <2>3, <2>4 DEF SerialInv, ScoresHeld, OutcomeOK
    <2>5. CASE ~UNCHANGED history
      <3>1. history' \in [winner : RecordedWinner(row), results : {row.results}]
        BY <1>2, <1>8, <2>2, <2>5 DEF InsertResult
      <3>2. RecordedWinner(row) = {row.winner}
        BY <1>4, <2>2 DEF RecordedWinner, OutcomeOK
      <3>3. history' = [winner |-> row.winner, results |-> row.results]
        BY <3>1, <3>2
      <3> QED BY <1>4, <2>1, <2>2, <2>3, <3>3 DEF SerialInv, ScoresHeld, OutcomeOK
    <2> QED BY <2>4, <2>5
  <1> QED BY <1>5, <1>6, <1>7, <1>8

\* While a worker is free and there is only one, no handler is under way.
LEMMA FreeIsQuiet ==
  ASSUME OneWorker, FreeWorker, SerialInv, UNCHANGED <<op, pc, ent>>
  PROVE  (\A w \in Workers : Holds(w))'
  <1> SUFFICES ASSUME NEW w \in Workers PROVE Holds(w)'
    OBVIOUS
  <1>1. PICK o : o = op[w]
    OBVIOUS
  <1>2. PICK e : e = ent[w]
    OBVIOUS
  <1>3. pc[w] = "idle"
    BY DEF OneWorker, FreeWorker, Idle
  <1>4. HoldsOK(o, "idle", e)
    BY <1>1, <1>2, <1>3 DEF SerialInv, Holds
  <1>5. HoldsOK(o, "idle", e)'
    BY <1>4, OverHolds DEF HoldsOK
  <1> QED BY <1>1, <1>2, <1>3, <1>5 DEF Holds

\* Other services write only while no handler is under way, and a restart ends it.
LEMMA EnvironmentSerial ==
  ASSUME OneWorker, IInv, SerialInv, Environment PROVE SerialInv'
  <1>1. /\ row \in Row /\ OutcomeOK /\ StoreOK /\ ScoresHeld
        /\ \A w \in Workers : Holds(w)
    BY DEF IInv, TypeInv, StoreOK, SerialInv
  <1>2. CASE DeleteGame
    <2>1. exists' = FALSE /\ row' = Blank /\ history' = None
      BY <1>2 DEF DeleteGame
    <2>2. Blank.status = "PENDING"
      BY DEF Blank, NewRow
    <2>3. (ScoresHeld /\ OutcomeOK)'
      BY <2>1, <2>2 DEF ScoresHeld, OutcomeOK
    <2>4. (\A w \in Workers : Holds(w))'
      BY <1>2, FreeIsQuiet DEF DeleteGame
    <2> QED BY <2>3, <2>4 DEF SerialInv
  <1>3. CASE DeleteScore \/ MoveTeam \/ DeleteTeam
    <2>1. (\A w \in Workers : Holds(w))'
      BY <1>3, FreeIsQuiet DEF DeleteScore, MoveTeam, DeleteTeam
    <2>2. /\ row'.status = row.status /\ row'.winner = row.winner
          /\ row'.results = row.results
          /\ UNCHANGED <<exists, history>>
      BY <1>1, <1>3 DEF DeleteScore, MoveTeam, DeleteTeam, Row
    <2>3. OutcomeOK'
      BY <1>1, <2>2 DEF OutcomeOK
    <2>4. ScoresHeld'
      BY <1>1, <1>3, <2>2 DEF DeleteScore, MoveTeam, DeleteTeam, Row, ScoresHeld
    <2> QED BY <2>1, <2>3, <2>4 DEF SerialInv
  <1>4. CASE Presence
    <2>1. UNCHANGED <<store, timer, op, pc, ent>>
      BY <1>4 DEF Presence
    <2>2. ASSUME NEW w \in Workers PROVE Holds(w)'
      <3>1. PICK o : o = op[w]
        OBVIOUS
      <3>2. PICK e : e = ent[w]
        OBVIOUS
      <3>3. PICK c : c = pc[w]
        OBVIOUS
      <3>4. HoldsOK(o, c, e)'
        BY <1>1, <2>1, <3>1, <3>2, <3>3, HoldsKept DEF Holds
      <3> QED BY <2>1, <3>1, <3>2, <3>3, <3>4 DEF Holds
    <2> QED BY <2>1, <2>2, StoreKept DEF SerialInv
  <1>5. CASE Restart
    <2>1. ASSUME NEW w \in Workers PROVE Holds(w)'
      <3>1. op'[w] = "none" /\ pc'[w] = "idle" /\ ent'[w] = Blank
        BY <1>5 DEF Restart
      <3>2. HoldsOK("none", "idle", Blank)'
        BY OverHolds
      <3> QED BY <3>1, <3>2 DEF Holds
    <2> QED BY <1>5, <2>1, StoreKept DEF Restart, SerialInv
  <1> QED BY <1>2, <1>3, <1>4, <1>5 DEF Environment

\* SerialInv is inductive, together with IInv.
LEMMA StepSerial ==
  ASSUME OneWorker, IInv, SerialInv, [Next]_vars PROVE SerialInv'
  <1>1. ASSUME NEW w \in Workers, Handler(w) PROVE SerialInv'
    BY <1>1, ReadSerial, WriteSerial, SaveSerial, ContinuationSerial DEF Handler
  <1>2. ASSUME NEW w \in Workers, TimerExpires(w) PROVE SerialInv'
    <2>1. /\ op'[w] = "autoTurn" /\ pc'[w] = "load" /\ ent' = ent /\ UNCHANGED store
          /\ WorkersOK
      BY <1>2 DEF TimerExpires, IInv, TypeInv, WorkersOK
    <2>2. PICK e : e = ent[w]
      OBVIOUS
    <2>3. HoldsOK("autoTurn", "load", e)'
      BY OverHolds
    <2>4. (\A v \in Workers : Holds(v))'
      BY <2>1, <2>2, <2>3, HoldsNext
    <2> QED BY <2>1, <2>4, StoreKept DEF SerialInv
  <1>3. CASE UNCHANGED vars
    <2>1. ASSUME NEW w \in Workers PROVE Holds(w)'
      <3>1. PICK o : o = op[w]
        OBVIOUS
      <3>2. PICK e : e = ent[w]
        OBVIOUS
      <3>3. PICK c : c = pc[w]
        OBVIOUS
      <3>4. HoldsOK(o, c, e)'
        BY <1>3, <3>1, <3>2, <3>3, HoldsKept DEF SerialInv, Holds, vars, store
      <3> QED BY <1>3, <3>1, <3>2, <3>3, <3>4 DEF Holds, vars
    <2> QED BY <1>3, <2>1, StoreKept DEF SerialInv, vars, store
  <1> QED BY <1>1, <1>2, <1>3, ClientSerial, EnvironmentSerial DEF Next

\* A game that was just created has no winner, no scores and no history.
LEMMA InitSerial == Init => SerialInv
  <1> SUFFICES ASSUME Init PROVE SerialInv
    OBVIOUS
  <1>1. PICK m \in Modes : row = NewRow(m)
    BY DEF Init
  <1>2. ScoresHeld /\ OutcomeOK
    BY <1>1 DEF Init, NewRow, ScoresHeld, OutcomeOK
  <1>3. \A w \in Workers : Holds(w)
    BY DEF Init, Holds, HoldsOK, Loaded
  <1> QED BY <1>2, <1>3 DEF SerialInv

\* SerialInv: a handler that runs alone saves the row as it stands with its own
\* changes, through every await, and across restarts.
THEOREM SerialHolds == ASSUME OneWorker PROVE Spec => []SerialInv
  <1>1. Init => SerialInv
    BY InitSerial
  <1>2. IInv /\ SerialInv /\ [Next]_vars => SerialInv'
    BY StepSerial
  <1> QED BY <1>1, <1>2, RowsStaySane, PTL DEF Spec

\* CompletionIsRecorded: the winner, the results and the history of a completed game
\* agree, whatever is reset, edited, restarted or fails before, when handlers run one
\* at a time.
THEOREM CompletionAgrees == ASSUME OneWorker PROVE Spec => []CompletionIsRecorded
  <1>1. SerialInv => CompletionIsRecorded
    BY DEF SerialInv, OutcomeOK, CompletionIsRecorded
  <1> QED BY <1>1, SerialHolds, PTL

-----------------------------------------------------------------------------
(* The turn timer, when one handler runs at a time *)

\* The only handler is not in the continuation of a save.
LEMMA NoneAtPost ==
  ASSUME OneWorker, NEW w \in Workers, pc[w] # "post", NEW ops
  PROVE  ~ \E v \in Workers : AtPost(v, ops)
  BY DEF OneWorker, AtPost

\* Requests write nothing and leave the timer alone ...
LEMMA ClientWritesNothing ==
  ASSUME NEW w \in Workers, Client(w)
  PROVE  UNCHANGED <<store, active, timer>> /\ pc[w] = "idle"
  BY DEF Client, StartGame, ForceStartGame, StartFirstRound, StartNextRound,
         EndCurrentRound, Update, NextTurn, PauseGame, ResumeGame, CancelGame,
         ResetGame, CompleteGame, SubmitScore, CancelSession, Request, Load, Idle

\* ... and so do reads.
LEMMA ReadWritesNothing ==
  ASSUME NEW w \in Workers,
         \/ ChooseTeams(w) \/ AutoTurn(w) \/ ChooseNext(w)
         \/ CompleteAfterLastRound(w) \/ ReadStandings(w) \/ ReadWinner(w)
         \/ LoadResult(w)
  PROVE  UNCHANGED <<store, active, timer>> /\ pc[w] # "post"
  BY DEF ChooseTeams, AutoTurn, ChooseNext, CompleteAfterLastRound,
         ReadStandings, ReadWinner, LoadResult

\* A save by operation o, which goes on to a continuation or is over.
LEMMA SaveIs ==
  ASSUME OneWorker, IInv, SerialInv, NEW w \in Workers,
         SaveAndReturn(w) \/ SaveAndGoOn(w) \/ SaveFromSession(w)
  PROVE  /\ Effect(op[w], row') /\ exists /\ timer' = timer /\ pc[w] = "save"
         /\ op[w] \in Ops \cup {"none", "autoTurn", "completeGame"}
         /\ op[w] \in Stops \cup TurnOps => pc'[w] = "post" /\ op' = op
  <1>1. PICK o : o = op[w]
    OBVIOUS
  <1>2. PICK e : e = ent[w]
    OBVIOUS
  <1>3. PICK c : c = pc[w]
    OBVIOUS
  <1>4. c = "save" /\ timer' = timer
    BY <1>3 DEF SaveAndReturn, SaveAndGoOn, SaveFromSession, SaveAnd
  <1>5. /\ row \in Row /\ WorkersOK /\ StoreOK /\ ScoresHeld
        /\ HoldsOK(o, c, e) /\ e \in Entity
    BY <1>1, <1>2, <1>3 DEF IInv, TypeInv, StoreOK, WorkersOK, SerialInv, Holds
  <1>6. exists /\ Changed(o, e) /\ o \in Ops \cup {"none", "autoTurn", "completeGame"}
    BY <1>4, <1>5 DEF HoldsOK
  <1>7. PICK r : r = Saved(e)
    OBVIOUS
  <1>8. Effect(o, r)
    BY <1>5, <1>6, <1>7, SaveEffect
  <1>9. CASE SaveAndReturn(w)
    <2>1. row' = r /\ o \notin Stops \cup TurnOps
      BY <1>1, <1>2, <1>7, <1>9 DEF SaveAndReturn, SaveAnd, Persist, Stops, TurnOps
    <2> QED BY <1>1, <1>3, <1>4, <1>6, <1>8, <2>1
  <1>10. CASE SaveAndGoOn(w)
    <2>1. row' = r /\ pc'[w] = "post" /\ op' = op
      BY <1>2, <1>5, <1>7, <1>10
         DEF SaveAndGoOn, SaveAnd, Persist, Proceed, WorkersOK
    <2> QED BY <1>1, <1>3, <1>4, <1>6, <1>8, <2>1
  <1>11. CASE SaveFromSession(w)
    <2>1. /\ o = "cancelSession" /\ o \notin Stops \cup TurnOps
          /\ row' = [r EXCEPT !.teams = row.teams, !.scores = row.scores]
      BY <1>1, <1>2, <1>7, <1>11 DEF SaveFromSession, Stops, TurnOps
    <2>2. r \in Row /\ row.scores = points
      BY <1>5, <1>6, <1>8 DEF Effect, ScoresHeld
    <2>3. PICK q : q = row'
      OBVIOUS
    <2>4. /\ q \in Row /\ q.scores = points /\ q.status = r.status /\ q.round = r.round
          /\ q.winner = r.winner /\ q.results = r.results /\ q.mode = r.mode
          /\ q.turnTeam = r.turnTeam /\ q.turnPlayer = r.turnPlayer
      BY <1>5, <2>1, <2>2, <2>3 DEF Row
    <2>5. Effect(o, q)
      BY <1>8, <2>1, <2>4 DEF Effect, Becomes, TurnOps
    <2> QED BY <1>1, <1>3, <1>4, <1>6, <2>1, <2>3, <2>5
  <1> QED BY <1>9, <1>10, <1>11

\* Every save that ends the playing of the game goes on to stop the timer, and a game
\* is reset only after the timer is stopped.
LEMMA StepTimer ==
  ASSUME OneWorker, "cancelSession" \notin Ops, IInv, SerialInv, TimerInv, [Next]_vars
  PROVE  TimerInv'
  <1>0. /\ row \in Row /\ WorkersOK /\ Sane(row)
        /\ \A w \in Workers : HoldsOK(op[w], pc[w], ent[w])
    BY DEF IInv, TypeInv, StoreOK, SaneInv, SerialInv, Holds
  <1>1. ASSUME NEW w \in Workers, pc[w] # "post", row'.status = row.status,
               exists' = exists, timer' \in {timer, None}
        PROVE  TimerInv'
    BY <1>1, NoneAtPost DEF TimerInv
  <1>2. ASSUME timer' = None PROVE TimerInv'
    BY <1>2 DEF TimerInv
  <1>3. ASSUME NEW w \in Workers, Client(w) PROVE TimerInv'
    BY <1>1, <1>3, ClientWritesNothing DEF store
  <1>4. ASSUME NEW w \in Workers, TimerExpires(w) PROVE TimerInv'
    BY <1>2, <1>4 DEF TimerExpires
  <1>5. ASSUME NEW w \in Workers, Handler(w) PROVE TimerInv'
    <2>1. CASE \/ ChooseTeams(w) \/ AutoTurn(w) \/ ChooseNext(w)
               \/ CompleteAfterLastRound(w) \/ ReadStandings(w) \/ ReadWinner(w)
               \/ LoadResult(w)
      BY <1>1, <2>1, ReadWritesNothing DEF store
    <2>2. CASE WipeScores(w) \/ InsertScore(w) \/ InsertResult(w)
      <3>1. /\ pc[w] # "post" /\ row'.status = row.status /\ exists' = exists
            /\ timer' = timer
        BY <1>0, <2>2 DEF WipeScores, InsertScore, InsertResult, Row
      <3> QED BY <1>1, <3>1
    <2>3. CASE ClearGame(w) \/ StopTimer(w) \/ AfterEndRound(w) \/ AfterComplete(w)
      BY <1>2, <2>3 DEF ClearGame, StopTimer, AfterEndRound, AfterComplete
    <2>4. CASE AfterTurn(w) \/ AfterResume(w)
      <3>1. row.status \in Active /\ UNCHANGED store
        BY <1>0, <2>4 DEF AfterTurn, AfterResume, HoldsOK, Stored, TurnOps
      <3> QED BY <3>1 DEF TimerInv, store
    <2>5. CASE SaveAndReturn(w) \/ SaveAndGoOn(w) \/ SaveFromSession(w)
      <3>1. PICK o : o = op[w]
        OBVIOUS
      <3>2. PICK r : r = row'
        OBVIOUS
      <3>3. /\ Effect(o, r) /\ timer' = timer /\ pc[w] # "post" /\ exists
            /\ o \in Ops \cup {"none", "autoTurn", "completeGame"}
            /\ o \in Stops => AtPost(w, Stops)'
        BY <2>5, <3>1, <3>2, SaveIs DEF AtPost
      <3>4. o # "cancelSession"
        BY <3>3
      <3>5. CASE o \in Stops
        BY <3>3, <3>5 DEF TimerInv
      <3>6. CASE o \notin Stops
        <4>1. timer # None => row.status \in Active
          BY <3>3, NoneAtPost DEF TimerInv
        <4>2. timer = None \/ r.status \in Active
          BY <1>0, <3>3, <3>4, <3>6, <4>1
             DEF Effect, Becomes, Stops, TurnOps, Active, Sane
        <4> QED BY <3>2, <3>3, <4>2 DEF TimerInv
      <3> QED BY <3>5, <3>6
    <2> QED BY <1>5, <2>1, <2>2, <2>3, <2>4, <2>5 DEF Handler
  <1>6. CASE Environment
    <2>1. CASE DeleteGame
      BY <2>1 DEF DeleteGame, TimerInv
    <2>2. CASE DeleteScore \/ MoveTeam \/ DeleteTeam
      <3>1. /\ row'.status = row.status /\ exists' = exists /\ timer' = timer
            /\ \E w \in Workers : pc[w] # "post"
        BY <1>0, <2>2 DEF DeleteScore, MoveTeam, DeleteTeam, Row, FreeWorker, Idle
      <3> QED BY <1>1, <3>1
    <2>3. CASE Presence
      BY <2>3 DEF Presence, store, TimerInv, AtPost
    <2>4. CASE Restart
      BY <2>4 DEF Restart, NeedsTimer, store, TimerInv
    <2> QED BY <1>6, <2>1, <2>2, <2>3, <2>4 DEF Environment
  <1>7. CASE UNCHANGED vars
    BY <1>7 DEF vars, TimerInv, AtPost
  <1> QED BY <1>3, <1>4, <1>5, <1>6, <1>7 DEF Next

\* TimerOnlyWhileActive: when handlers run one at a time, and the game is not cancelled
\* with its session, no timer outlives the playing of the game.
THEOREM TimersStop ==
    ASSUME OneWorker, "cancelSession" \notin Ops
    PROVE  Spec => []TimerOnlyWhileActive
  <1>1. Init => TimerInv
    BY DEF Init, TimerInv
  <1>2. IInv /\ SerialInv /\ TimerInv /\ [Next]_vars => TimerInv'
    BY StepTimer
  <1>3. TimerInv => TimerOnlyWhileActive
    BY DEF TimerInv, AtPost, TimerOnlyWhileActive, Quiet
  <1> QED BY <1>1, <1>2, <1>3, RowsStaySane, SerialHolds, PTL DEF Spec

\* A step that neither changes turns nor arms a timer.
LEMMA TurnKept ==
  ASSUME OneWorker, TurnInv, NEW w \in Workers, pc[w] # "post",
         row'.mode = row.mode, row'.turnTeam = row.turnTeam,
         row'.turnPlayer = row.turnPlayer, exists' = exists,
         timer' \in {timer, None}
  PROVE  TurnInv'
  <1>1. exists /\ timer # None => timer = Current(row)
    BY NoneAtPost DEF TurnInv
  <1> QED BY <1>1 DEF TurnInv, Current

\* Only turns, resumptions and restarts arm the timer, with the turn of the row; only
\* turns change it.
LEMMA StepTurn ==
  ASSUME OneWorker, ModeIsFixed, IInv, SerialInv, TurnInv, [Next]_vars
  PROVE  TurnInv'
  <1>0. /\ row \in Row /\ WorkersOK
        /\ \A w \in Workers : HoldsOK(op[w], pc[w], ent[w])
    BY DEF IInv, TypeInv, StoreOK, SerialInv, Holds
  <1>1. ASSUME NEW w \in Workers, Client(w) PROVE TurnInv'
    BY <1>1, TurnKept, ClientWritesNothing DEF store
  <1>2. ASSUME NEW w \in Workers, TimerExpires(w) PROVE TurnInv'
    BY <1>2, TurnKept DEF TimerExpires, Idle, store
  <1>3. ASSUME NEW w \in Workers, Handler(w) PROVE TurnInv'
    <2>1. CASE \/ ChooseTeams(w) \/ AutoTurn(w) \/ ChooseNext(w)
               \/ CompleteAfterLastRound(w) \/ ReadStandings(w) \/ ReadWinner(w)
               \/ LoadResult(w)
      BY <2>1, TurnKept, ReadWritesNothing DEF store
    <2>2. CASE WipeScores(w) \/ InsertScore(w) \/ InsertResult(w) \/ ClearGame(w)
      <3>1. /\ pc[w] # "post" /\ row'.mode = row.mode /\ row'.turnTeam = row.turnTeam
            /\ row'.turnPlayer = row.turnPlayer /\ exists' = exists
            /\ timer' \in {timer, None}
        BY <1>0, <2>2 DEF WipeScores, InsertScore, InsertResult, ClearGame, Row, store
      <3> QED BY <3>1, TurnKept
    <2>3. CASE StopTimer(w) \/ AfterEndRound(w) \/ AfterComplete(w)
      <3>1. timer' = None /\ UNCHANGED store
        BY <2>3 DEF StopTimer, AfterEndRound, AfterComplete
      <3> QED BY <3>1 DEF TurnInv, store
    <2>4. CASE AfterTurn(w)
      <3>1. /\ Current(ent[w]) = Current(row) /\ UNCHANGED store
            /\ timer' = IF Timed THEN Current(ent[w]) ELSE timer
        BY <1>0, <2>4 DEF AfterTurn, HoldsOK, Stored, TurnOps
      <3>2. timer' = IF Timed THEN Current(row) ELSE None
        BY <3>1 DEF TurnInv
      <3> QED BY <3>1, <3>2 DEF TurnInv, Current, store
    <2>5. CASE AfterResume(w)
      <3>1. /\ ent[w].turnTeam = row.turnTeam /\ UNCHANGED store
            /\ ent[w].teams \subseteq Teams
            /\ op[w] = "resumeGame"
        BY <1>0, <2>5 DEF AfterResume, HoldsOK, Stored, WorkersOK, Entity
      <3>2. ~ \E v \in Workers : AtPost(v, TurnOps)
        BY <3>1 DEF OneWorker, AtPost, TurnOps
      <3>3. CASE Timed /\ ent[w].turnTeam \in ent[w].teams
        <4>1. timer' = row.turnTeam /\ row.turnTeam # None
          BY <2>5, <3>1, <3>3, NullsApart DEF AfterResume, Entrants
        <4>2. row.turnTeam = Current(row)
          BY <4>1 DEF TurnInv, Current
        <4> QED BY <3>1, <3>3, <4>1, <4>2 DEF TurnInv, Current, store
      <3>4. CASE ~(Timed /\ ent[w].turnTeam \in ent[w].teams)
        <4>1. timer' = timer
          BY <2>5, <3>4 DEF AfterResume
        <4> QED BY <3>1, <3>2, <4>1 DEF TurnInv, Current, store
      <3> QED BY <3>3, <3>4
    <2>6. CASE SaveAndReturn(w) \/ SaveAndGoOn(w) \/ SaveFromSession(w)
      <3>1. PICK o : o = op[w]
        OBVIOUS
      <3>2. PICK r : r = row'
        OBVIOUS
      <3>3. /\ Effect(o, r) /\ timer' = timer /\ pc[w] # "post" /\ exists
            /\ o \in Ops \cup {"none", "autoTurn", "completeGame"}
            /\ o \in TurnOps => AtPost(w, TurnOps)'
        BY <2>6, <3>1, <3>2, SaveIs DEF AtPost
      <3>4. row.mode \in Modes /\ (timer # None => timer = Current(row))
        BY <3>3, NoneAtPost DEF TurnInv
      <3>5. r.mode = row.mode
        BY <3>3, <3>4 DEF Effect, ModeIsFixed
      <3>6. CASE o \in TurnOps
        BY <3>2, <3>3, <3>4, <3>5, <3>6 DEF TurnInv, Effect
      <3>7. CASE o \notin TurnOps
        <4>1. r.turnTeam = row.turnTeam /\ r.turnPlayer = row.turnPlayer
          BY <3>3, <3>7 DEF Effect
        <4> QED BY <3>2, <3>3, <3>4, <3>5, <4>1 DEF TurnInv, Current
      <3> QED BY <3>6, <3>7
    <2> QED BY <1>3, <2>1, <2>2, <2>3, <2>4, <2>5, <2>6 DEF Handler
  <1>4. CASE Environment
    <2>1. CASE DeleteGame
      <3>1. exists' = FALSE /\ row' = Blank /\ timer' = timer
        BY <2>1 DEF DeleteGame
      <3>2. Blank.turnTeam = None /\ Blank.turnPlayer = None
        BY DEF Blank, NewRow
      <3> QED BY <3>1, <3>2 DEF TurnInv
    <2>2. CASE DeleteScore \/ MoveTeam \/ DeleteTeam
      <3>1. /\ row'.mode = row.mode /\ row'.turnTeam = row.turnTeam
            /\ row'.turnPlayer = row.turnPlayer /\ exists' = exists
            /\ timer' = timer /\ \E w \in Workers : pc[w] # "post"
        BY <1>0, <2>2 DEF DeleteScore, MoveTeam, DeleteTeam, Row, FreeWorker, Idle
      <3> QED BY <3>1, TurnKept
    <2>3. CASE Presence
      BY <2>3 DEF Presence, store, TurnInv, AtPost, Current
    <2>4. CASE Restart
      <3>1. UNCHANGED store /\ timer' = IF NeedsTimer THEN Rehydrated ELSE None
        BY <2>4 DEF Restart
      <3>2. Rehydrated \in {None, Current(row)}
        BY <1>0 DEF Rehydrated, TurnInv, Current, Row
      <3>3. ~Timed => ~NeedsTimer
        BY DEF NeedsTimer
      <3> QED BY <3>1, <3>2, <3>3 DEF TurnInv, Current, store
    <2> QED BY <1>4, <2>1, <2>2, <2>3, <2>4 DEF Environment
  <1>5. CASE UNCHANGED vars
    BY <1>5 DEF vars, TurnInv, AtPost, Current
  <1> QED BY <1>1, <1>2, <1>3, <1>4, <1>5 DEF Next

\* TimerIsOfCurrentTurn: when handlers run one at a time and the score mode of the game
\* is never changed, the timer is that of the entrant whose turn it is, teams moved or
\* deleted, pauses, resets and restarts included.
THEOREM TimersFollowTurns ==
    ASSUME OneWorker, ModeIsFixed
    PROVE  Spec => []TimerIsOfCurrentTurn
  <1>1. Init => TurnInv
    <2> SUFFICES ASSUME Init PROVE TurnInv
      OBVIOUS
    <2>1. PICK m \in Modes : row = NewRow(m)
      BY DEF Init
    <2> QED BY <2>1 DEF Init, NewRow, TurnInv
  <1>2. IInv /\ SerialInv /\ TurnInv /\ [Next]_vars => TurnInv'
    BY StepTurn
  <1>3. TurnInv => TimerIsOfCurrentTurn
    BY DEF TurnInv, AtPost, TimerIsOfCurrentTurn, Quiet
  <1> QED BY <1>1, <1>2, <1>3, RowsStaySane, SerialHolds, PTL DEF Spec

-----------------------------------------------------------------------------
(* The handlers implement GameLifecycle, when one runs at a time *)

\* The phases that stand for the statuses.
LEMMA Phases ==
  /\ Phase("PENDING") = "pending" /\ Phase("IN_PROGRESS") = "started"
  /\ Phase("ROUND_IN_PROGRESS") = "playing" /\ Phase("ROUND_ENDED") = "between"
  /\ Phase("PAUSED") = "paused" /\ Phase("COMPLETED") = "completed"
  /\ Phase("CANCELLED") = "cancelled"
  BY DEF Phase

\* A step that is none of the life of a game.
LEMMA LifeKept ==
  ASSUME exists' = exists, row'.status = row.status, row'.round = row.round,
         row.status = "PAUSED" => row'.before = row.before,
         row.status = "COMPLETED" =>
            row'.winner = row.winner /\ row'.results = row.results
  PROVE  UNCHANGED Life!lifeVars
  <1>1. PICK s : s = row.status
    OBVIOUS
  <1>2. PICK b : b = row.before
    OBVIOUS
  <1>3. (IF exists THEN Phase(row.status) ELSE "deleted")'
            = IF exists THEN Phase(row.status) ELSE "deleted"
    BY <1>1
  <1>4. (IF row.status = "PAUSED" THEN Phase(row.before) ELSE None)'
            = IF row.status = "PAUSED" THEN Phase(row.before) ELSE None
    BY <1>2
  <1>5. (IF row.status = "COMPLETED"
         THEN [winner |-> row.winner, results |-> row.results] ELSE None)'
            = IF row.status = "COMPLETED"
              THEN [winner |-> row.winner, results |-> row.results] ELSE None
    OBVIOUS
  <1> QED BY <1>3, <1>4, <1>5 DEF Life!lifeVars

\* A save by operation o is the step of the life that the operation stands for.
LEMMA SaveLives ==
  ASSUME IInv, exists, NEW o, NEW r, Effect(o, r), row' = r, exists' = TRUE
  PROVE  [Life!LifeNext]_Life!lifeVars
  <1>1. row \in Row /\ Sane(row) /\ r \in Row
    BY DEF IInv, TypeInv, StoreOK, SaneInv, Effect
  <1>2. ASSUME NEW from, NEW to, NEW n,
               row.status # "COMPLETED", r.status \notin {"COMPLETED", "PAUSED"},
               Phase(row.status) \in from, Phase(r.status) = to, r.round = n
        PROVE  Life!Move(from, to, n)
    BY <1>2 DEF Life!Move
  <1>3. CASE o \in {"startGame", "forceStartGame"}
    <2>1. Life!Move({"pending"}, "started", 1)
      BY <1>2, <1>3, Phases DEF Effect, Becomes
    <2> QED BY <2>1 DEF Life!LifeNext, Life!Start
  <1>4. CASE o = "startFirstRound"
    <2>1. Life!Move({"started"}, "playing", 1) /\ row.round = 1
      BY <1>2, <1>4, Phases DEF Effect, Becomes
    <2> QED BY <2>1 DEF Life!LifeNext, Life!FirstRound
  <1>5. CASE o = "startNextRound"
    <2>1. Life!Move({"between"}, "playing", row.round + 1) /\ row.round < MaxRounds
      BY <1>2, <1>5, Phases DEF Effect, Becomes
    <2> QED BY <2>1 DEF Life!LifeNext, Life!NextRound
  <1>6. CASE o = "endCurrentRound"
    <2>1. Life!Move({"playing"}, "between", row.round)
      BY <1>2, <1>6, Phases DEF Effect, Becomes
    <2> QED BY <2>1 DEF Life!LifeNext, Life!EndRound
  <1>7. CASE o = "pauseGame"
    <2>1. /\ row.status \in {"IN_PROGRESS", "ROUND_IN_PROGRESS"}
          /\ r.status = "PAUSED" /\ r.before = row.status /\ r.round = row.round
      BY <1>7 DEF Effect, Becomes, Active
    <2>2. Life!Pause
      BY <2>1, Phases DEF Life!Pause
    <2> QED BY <2>2 DEF Life!LifeNext
  <1>8. CASE o = "resumeGame"
    <2>1. /\ row.status = "PAUSED" /\ r.status = row.before /\ r.round = row.round
          /\ row.before \in {"IN_PROGRESS", "ROUND_IN_PROGRESS"}
      BY <1>1, <1>8 DEF Effect, Becomes, Sane, Active
    <2>2. Life!Move({"paused"}, Phase(row.before), row.round)
      BY <1>2, <2>1, Phases
    <2> QED BY <2>1, <2>2 DEF Life!LifeNext, Life!Resume
  <1>9. CASE o \in {"cancelGame", "cancelSession"}
    <2>1. row.status \notin Over /\ r.status = "CANCELLED" /\ r.round = row.round
      BY <1>9 DEF Effect, Becomes
    <2>2. Life!Move({Phase(row.status)}, "cancelled", row.round)
      BY <1>2, <2>1, Phases DEF Over
    <2>3. Phase(row.status) \notin {"completed", "cancelled", "deleted"}
      BY <1>1, <2>1, Phases DEF Row, Status, Over
    <2> QED BY <2>2, <2>3 DEF Life!LifeNext, Life!Cancel, Life!Closed
  <1>10. CASE o = "completeGame"
    <2>1. /\ row.status \notin Over /\ r.status = "COMPLETED" /\ r.round = MaxRounds
          /\ r.results \in Results /\ r.winner \in Entrants \cup {None}
      BY <1>1, <1>10 DEF Effect, Becomes, Row
    <2>2. Phase(row.status) \notin {"completed", "cancelled", "deleted"}
      BY <1>1, <2>1, Phases DEF Row, Status, Over
    <2>3. Life!Complete
      BY <2>1, <2>2, Phases DEF Life!Complete, Life!Closed
    <2> QED BY <2>3 DEF Life!LifeNext
  <1>11. CASE o = "resetGame"
    <2>1. row.status # "COMPLETED" /\ r.status = "PENDING" /\ r.round = 0
      BY <1>11 DEF Effect, Becomes
    <2>2. Life!Move({Phase(row.status)}, "pending", 0)
      BY <1>2, <2>1, Phases
    <2>3. Phase(row.status) \notin {"completed", "deleted"}
      BY <1>1, <2>1, Phases DEF Row, Status
    <2> QED BY <2>2, <2>3 DEF Life!LifeNext, Life!Reset
  <1>12. CASE o \in {"update"} \cup TurnOps
    <2>1. /\ r.status = row.status /\ r.round = row.round /\ r.before = row.before
          /\ r.winner = row.winner /\ r.results = row.results
      BY <1>12 DEF Effect, Becomes, TurnOps
    <2> QED BY <2>1, LifeKept
  <1> QED BY <1>3, <1>4, <1>5, <1>6, <1>7, <1>8, <1>9, <1>10, <1>11, <1>12 DEF Effect

\* The life of a game goes on only by saves and by its deletion.
LEMMA StepLives ==
  ASSUME OneWorker, IInv, SerialInv, [Next]_vars
  PROVE  [Life!LifeNext]_Life!lifeVars
  <1>0. row \in Row
    BY DEF IInv, TypeInv, StoreOK
  <1>1. ASSUME UNCHANGED store PROVE UNCHANGED Life!lifeVars
    BY <1>1, LifeKept DEF store
  <1>2. ASSUME NEW w \in Workers, Client(w) \/ TimerExpires(w)
        PROVE  UNCHANGED Life!lifeVars
    BY <1>1, <1>2, ClientWritesNothing DEF TimerExpires
  <1>3. ASSUME NEW w \in Workers, Handler(w)
        PROVE  [Life!LifeNext]_Life!lifeVars
    <2>1. CASE \/ ChooseTeams(w) \/ AutoTurn(w) \/ ChooseNext(w)
               \/ CompleteAfterLastRound(w) \/ ReadStandings(w) \/ ReadWinner(w)
               \/ LoadResult(w)
      BY <1>1, <2>1, ReadWritesNothing
    <2>2. CASE WipeScores(w) \/ InsertScore(w) \/ InsertResult(w)
      <3>1. /\ exists' = exists /\ row'.status = row.status /\ row'.round = row.round
            /\ row'.before = row.before /\ row'.winner = row.winner
            /\ row'.results = row.results
        BY <1>0, <2>2 DEF WipeScores, InsertScore, InsertResult, Row
      <3> QED BY <3>1, LifeKept
    <2>3. CASE \/ ClearGame(w) \/ StopTimer(w) \/ AfterEndRound(w) \/ AfterComplete(w)
               \/ AfterTurn(w) \/ AfterResume(w)
      BY <1>1, <2>3 DEF ClearGame, StopTimer, AfterEndRound, AfterComplete,
                        AfterTurn, AfterResume
    <2>4. CASE SaveAndReturn(w) \/ SaveAndGoOn(w) \/ SaveFromSession(w)
      <3>1. PICK o : o = op[w]
        OBVIOUS
      <3>2. PICK r : r = row'
        OBVIOUS
      <3>3. exists' = TRUE
        BY <2>4 DEF SaveAndReturn, SaveAndGoOn, SaveFromSession, SaveAnd, Persist
      <3>4. Effect(o, r) /\ exists
        BY <2>4, <3>1, <3>2, SaveIs
      <3> QED BY <3>2, <3>3, <3>4, SaveLives
    <2> QED BY <1>3, <2>1, <2>2, <2>3, <2>4 DEF Handler
  <1>4. CASE Environment
    <2>1. CASE DeleteGame
      <3>1. exists /\ exists' = FALSE /\ row' = Blank
        BY <2>1 DEF DeleteGame
      <3>2. Blank.status = "PENDING" /\ Blank.round = 0
        BY DEF Blank, NewRow
      <3>3. Phase(row.status) # "deleted"
        BY <1>0, Phases DEF Row, Status
      <3>4. Life!Delete
        BY <3>1, <3>2, <3>3 DEF Life!Delete
      <3> QED BY <3>4 DEF Life!LifeNext
    <2>2. CASE DeleteScore \/ MoveTeam \/ DeleteTeam
      <3>1. /\ exists' = exists /\ row'.status = row.status /\ row'.round = row.round
            /\ row'.before = row.before /\ row'.winner = row.winner
            /\ row'.results = row.results
        BY <1>0, <2>2 DEF DeleteScore, MoveTeam, DeleteTeam, Row
      <3> QED BY <3>1, LifeKept
    <2>3. CASE Presence \/ Restart
      BY <1>1, <2>3 DEF Presence, Restart
    <2> QED BY <1>4, <2>1, <2>2, <2>3 DEF Environment
  <1>5. CASE UNCHANGED vars
    BY <1>1, <1>5 DEF vars, store
  <1> QED BY <1>2, <1>3, <1>4, <1>5 DEF Next

\* ImplementsLifecycle: when handlers run one at a time, every save is a step of the life
\* of a game, and no other step is.
THEOREM LifecycleImplemented == ASSUME OneWorker PROVE Spec => ImplementsLifecycle
  <1>1. Init => Life!LifeInit
    <2> SUFFICES ASSUME Init PROVE Life!LifeInit
      OBVIOUS
    <2>1. PICK m \in Modes : row = NewRow(m)
      BY DEF Init
    <2>2. exists /\ row.status = "PENDING" /\ row.round = 0
      BY <2>1 DEF Init, NewRow
    <2> QED BY <2>2, Phases DEF Life!LifeInit
  <1>2. IInv /\ SerialInv /\ [Next]_vars => [Life!LifeNext]_Life!lifeVars
    BY StepLives
  <1> QED BY <1>1, <1>2, RowsStaySane, SerialHolds, PTL
          DEF Spec, ImplementsLifecycle, Life!LifeSpec
=============================================================================
