------------------------------- MODULE Session -------------------------------
(***************************************************************************)
(* One games night: its row, its players, its games and its teams, and the *)
(* handlers of SessionService, SessionLifecycleService,                    *)
(* SessionReadinessService, SessionPlayerService, PlayerService and        *)
(* NightPlannerService that change them.                                   *)
(*                                                                         *)
(* As in Game, a handler is a sequence of actions, one per await that      *)
(* matters, of one of the Handlers; what it has loaded is kept in its task *)
(* and what it saves is the whole entity it has loaded.  Saving a session  *)
(* that was loaded with one of its relations makes the rows of that        *)
(* relation the ones of the list: a row that is not in it loses its        *)
(* session.  A transaction is one action.                                  *)
(***************************************************************************)
EXTENDS FiniteSets, Integers

CONSTANTS
    Handlers,    \* requests that are being served
    Players, Games, Teams,  \* ids of rows (bound: rows that exist at a time)
    Names,       \* what players call themselves
    Libs,        \* entries of the game library
    Codes,       \* join codes that no other session has
    Ops,         \* the requests that are made
    Overlapping, \* those that may be served beside one another
    None         \* SQL NULL, no row, nothing loaded

\* The requests, the playing of games by module Game, and failures.
AllOps == {"start", "complete", "cancel", "update", "code", "removeSession",
           "addGames", "removeGame", "applyPlan", "team",
           "join", "enrol", "player", "rename", "removePlayer", "kick", "play", "fail"}

ASSUME ConstantsAssumption ==
    /\ Handlers # {} /\ Players # {} /\ Names # {} /\ Codes # {} /\ Ops \subseteq AllOps
    /\ None \notin Players \cup Games \cup Teams \cup Names \cup Libs \cup Codes

VARIABLES
    session,     \* the row of table session
    players,     \* the rows of table player
    games,       \* the rows of table game, as far as a night is concerned
    teams,       \* the rows of table team with their members
    task         \* what each handler is doing

db == <<session, players, games, teams>>
vars == <<session, players, games, teams, task>>

SessionStatus == {"SCHEDULED", "IN_PROGRESS", "COMPLETED", "CANCELLED"}
PlayerStatus == {"joined", "ready", "playing", "disconnected"}

\* A game in any live round or turn, or paused, is "MIDPLAY".
GameStatus == {"PENDING", "MIDPLAY", "COMPLETED", "CANCELLED"}
Finished == {"COMPLETED", "CANCELLED"}

SessionRow == [status : SessionStatus, code : Codes]
\* The session of a player is this night, another one, or NULL.
PlayerRow == [name : Names, status : PlayerStatus, night : {"this", "other", "none"}]
GameRow == [lib : Libs, status : GameStatus, here : BOOLEAN]
TeamRow == [members : SUBSET Players, game : Games \cup {None}]

ASSUME NoneAssumption == None \notin SessionRow \cup PlayerRow \cup GameRow \cup TeamRow

\* Partial functions on S.
Partial(S, T) == UNION {[D -> T] : D \in SUBSET S}
PlayerRows == Partial(Players, PlayerRow)
GameRows == Partial(Games, GameRow)
TeamRows == Partial(Teams, TeamRow)

\* A handler: its request and next step, the session entity it holds, the
\* players, games or teams it will save, the ids of the relations it has loaded
\* (or of the rows it will delete), and what it has still to save or create.
Steps == {"idle", "load", "players", "save", "session", "insert", "remove", "add",
          "find", "rejoin", "winner", "answer", "detach"}
Task == [op : AllOps \cup {"none"}, pc : Steps, ses : SessionRow \cup {None},
         rows : PlayerRows \cup GameRows \cup TeamRows,
         list : SUBSET (Players \cup Games \cup Teams),
         todo : SUBSET (Players \cup Libs \cup Names)]

NoTask == [op |-> "none", pc |-> "idle", ses |-> None, rows |-> [i \in {} |-> None],
           list |-> {}, todo |-> {}]

TypeOK ==
    /\ session \in SessionRow \cup {None}
    /\ players \in [Players -> PlayerRow \cup {None}]
    /\ games \in [Games -> GameRow \cup {None}]
    /\ teams \in [Teams -> TeamRow \cup {None}]
    /\ \A h \in Handlers :
        /\ task[h].op \in AllOps \cup {"none"} /\ task[h].ses \in SessionRow \cup {None}
        /\ DOMAIN task[h].rows \subseteq Players \cup Games \cup Teams
        /\ task[h].list \subseteq Players \cup Games \cup Teams
        /\ task[h].todo \subseteq Players \cup Libs \cup Names

-----------------------------------------------------------------------------
Attached == {p \in Players : players[p] # None /\ players[p].night = "this"}
Listed == {g \in Games : games[g] # None /\ games[g].here}
Unfinished == {g \in Listed : games[g].status \notin Finished}
IsActive(p) == players[p].status # "disconnected"

\* The database: the unique index on (session, name), under which rows without
\* a session do not collide, and the foreign keys.
NamesUnique(ps) ==
    \A p, q \in Players :
        /\ ps[p] # None /\ ps[q] # None /\ ps[p].night = "this" /\ ps[q].night = "this"
        /\ ps[p].name = ps[q].name
        => p = q

CanSave(p, row) ==
    /\ row.night = "this" => session # None
    /\ NamesUnique([players EXCEPT ![p] = row])

\* An id for a new row: no row has it and no handler remembers it.
Unused(ids, rows) ==
    {i \in ids : /\ rows[i] = None
                 /\ \A h \in Handlers : i \notin DOMAIN task[h].rows \cup task[h].list}

\* The join table's foreign key to a player is NO ACTION: his memberships are
\* cleared by the code before his row goes, by detachFromTeams or by removing
\* him through the repository.  Deleting a game cascades to its teams.
WithoutPlayers(ts, ps) ==
    [t \in Teams |-> IF ts[t] = None THEN None
                     ELSE [ts[t] EXCEPT !.members = @ \ ps]]
WithoutGames(ts, gs) ==
    [t \in Teams |-> IF ts[t] # None /\ ts[t].game \in gs THEN None ELSE ts[t]]

\* Save of a loaded relation: exactly the rows of the list are in the session.
ReattachGames(rows, list) ==
    [g \in Games |-> IF rows[g] = None THEN None ELSE [rows[g] EXCEPT !.here = g \in list]]

ReattachPlayers(rows, list) ==
    [p \in Players |->
        IF rows[p] = None THEN None
        ELSE [rows[p] EXCEPT !.night = IF p \in list THEN "this"
                                       ELSE IF @ = "this" THEN "none" ELSE @]]

-----------------------------------------------------------------------------
\* SessionService.create: the row and its host's player in one transaction.
Init ==
    /\ \E c \in Codes, p \in Players, n \in Names :
        /\ session = [status |-> "SCHEDULED", code |-> c]
        /\ players = [q \in Players |->
                        IF q = p THEN [name |-> n, status |-> "joined", night |-> "this"]
                        ELSE None]
    /\ games = [g \in Games |-> None]
    /\ teams = [t \in Teams |-> None]
    /\ task = [h \in Handlers |-> NoTask]

\* The request op comes in, at handler h.
Allowed(op) ==
    /\ op \in Ops
    /\ \A k \in Handlers : task[k] # NoTask => {op, task[k].op} \subseteq Overlapping
Request(h, op) == task[h] = NoTask /\ Allowed(op)

At(h, op, pc) == task[h].op = op /\ task[h].pc = pc
Begin(h, t) == task' = [task EXCEPT ![h] = t]
Goto(h, pc) == task' = [task EXCEPT ![h].pc = pc]
Done(h) == task' = [task EXCEPT ![h] = NoTask]

\* What was to be saved violates a constraint: the handler throws.
Refused(h) == Done(h) /\ UNCHANGED db

-----------------------------------------------------------------------------
(* The night: starting, completing, cancelling, changing and deleting it.    *)

\* canStartSession; its second read, of the player counts, only warns.
StartSession(h) ==
    /\ Request(h, "start") /\ session # None
    /\ session.status = "SCHEDULED" /\ Listed # {}
    /\ LET active == {p \in Attached : IsActive(p)} IN
        active # {} /\ \A p \in active : players[p].status = "ready"
    /\ Begin(h, [NoTask EXCEPT !.op = "start", !.pc = "load"])
    /\ UNCHANGED db

\* Mutant of LoadStart: the players are filtered in place, so that the list
\* which is saved has only those who take part.
LoadStartActive(h) ==
    /\ At(h, "start", "load") /\ UNCHANGED db
    /\ IF session = None THEN Done(h)
       ELSE LET ready == {p \in Attached : players[p].status = "ready"} IN
            Begin(h, [NoTask EXCEPT !.op = "start", !.pc = "players",
                        !.ses = [session EXCEPT !.status = "IN_PROGRESS"],
                        !.rows = [p \in ready |-> [players[p] EXCEPT !.status = "playing"]],
                        !.list = ready, !.todo = ready])

\* startSession loads the session again, with its players.
LoadStart(h) ==
    /\ At(h, "start", "load") /\ UNCHANGED db
    /\ IF session = None THEN Done(h)
       ELSE LET ready == {p \in Attached : players[p].status = "ready"} IN
            Begin(h, [NoTask EXCEPT !.op = "start", !.pc = "players",
                        !.ses = [session EXCEPT !.status = "IN_PROGRESS"],
                        !.rows = [p \in ready |-> [players[p] EXCEPT !.status = "playing"]],
                        !.list = Attached, !.todo = ready])

\* Every ready player is saved as a playing one, one save after the other.
StartPlayer(h, p) ==
    /\ At(h, "start", "players") /\ p \in task[h].todo
    /\ IF CanSave(p, task[h].rows[p])
       THEN /\ players' = [players EXCEPT ![p] = task[h].rows[p]]
            /\ task' = [task EXCEPT ![h].todo = @ \ {p}]
            /\ UNCHANGED <<session, games, teams>>
       ELSE Refused(h)

\* Mutant of SaveStart: the session is saved before the players are.
SaveStartEarly(h) ==
    /\ At(h, "start", "players")
    /\ IF NamesUnique(ReattachPlayers(players, task[h].list))
       THEN /\ session' = task[h].ses
            /\ players' = ReattachPlayers(players, task[h].list)
            /\ Done(h) /\ UNCHANGED <<games, teams>>
       ELSE Refused(h)

SaveStart(h) ==
    /\ At(h, "start", "players") /\ task[h].todo = {}
    /\ IF NamesUnique(ReattachPlayers(players, task[h].list))
       THEN /\ session' = task[h].ses
            /\ players' = ReattachPlayers(players, task[h].list)
            /\ Done(h) /\ UNCHANGED <<games, teams>>
       ELSE Refused(h)

\* Mutant of CompleteSession: games that were never played are overlooked.
CompleteSessionPending(h) ==
    /\ Request(h, "complete") /\ session # None
    /\ session.status = "IN_PROGRESS"
    /\ \A g \in Listed : games[g].status # "MIDPLAY"
    /\ Begin(h, [NoTask EXCEPT !.op = "complete", !.pc = "save",
                    !.ses = [session EXCEPT !.status = "COMPLETED"], !.list = Listed])
    /\ UNCHANGED db

CompleteSession(h) ==
    /\ Request(h, "complete") /\ session # None
    /\ session.status = "IN_PROGRESS" /\ Unfinished = {}
    /\ Begin(h, [NoTask EXCEPT !.op = "complete", !.pc = "save",
                    !.ses = [session EXCEPT !.status = "COMPLETED"], !.list = Listed])
    /\ UNCHANGED db

SaveComplete(h) ==
    /\ At(h, "complete", "save")
    /\ session' = task[h].ses
    /\ games' = ReattachGames(games, task[h].list)
    /\ Done(h) /\ UNCHANGED <<players, teams>>

CancelSession(h) ==
    /\ Request(h, "cancel") /\ session # None
    /\ session.status \notin {"COMPLETED", "CANCELLED"}
    /\ Begin(h, [NoTask EXCEPT !.op = "cancel", !.pc = "save",
                    !.ses = [session EXCEPT !.status = "CANCELLED"], !.list = Listed,
                    !.rows = [g \in Unfinished |-> [games[g] EXCEPT !.status = "CANCELLED"]]])
    /\ UNCHANGED db

\* The games that were unfinished and the session, in one transaction.
SaveCancel(h) ==
    /\ At(h, "cancel", "save")
    /\ LET rows == task[h].rows
           saved == [g \in Games |-> IF g \in DOMAIN rows THEN rows[g] ELSE games[g]] IN
       IF rows # NoTask.rows /\ session = None THEN Refused(h)
       ELSE /\ session' = task[h].ses
            /\ games' = ReattachGames(saved, task[h].list)
            /\ Done(h) /\ UNCHANGED <<players, teams>>

\* update and regeneratePublicRsvpToken change columns that are not modelled,
\* and save the whole row.
UpdateSession(h) ==
    /\ Request(h, "update") /\ session # None
    /\ Begin(h, [NoTask EXCEPT !.op = "update", !.pc = "save", !.ses = session])
    /\ UNCHANGED db

\* Mutant of RegenerateJoinCode: running out of attempts is not noticed.
RegenerateJoinCodeNull(h) ==
    /\ Request(h, "code") /\ session # None
    /\ session.status \notin {"COMPLETED", "CANCELLED"}
    /\ \E c \in Codes \cup {None} :
        Begin(h, [NoTask EXCEPT !.op = "update", !.pc = "save",
                    !.ses = [session EXCEPT !.code = c]])
    /\ UNCHANGED db

RegenerateJoinCode(h) ==
    /\ Request(h, "code") /\ session # None
    /\ session.status \notin {"COMPLETED", "CANCELLED"}
    /\ \E c \in Codes :
        Begin(h, [NoTask EXCEPT !.op = "update", !.pc = "save",
                    !.ses = [session EXCEPT !.code = c]])
    /\ UNCHANGED db

SaveSession(h) ==
    /\ At(h, "update", "save")
    /\ session' = task[h].ses
    /\ Done(h) /\ UNCHANGED <<players, games, teams>>

RemoveSession(h) ==
    /\ Request(h, "removeSession") /\ session # None
    /\ Begin(h, [NoTask EXCEPT !.op = "removeSession", !.pc = "players", !.list = Attached])
    /\ UNCHANGED db

\* The players first, through the repository, which clears their memberships.
RemovePlayers(h) ==
    /\ At(h, "removeSession", "players")
    /\ players' = [p \in Players |-> IF p \in task[h].list THEN None ELSE players[p]]
    /\ teams' = WithoutPlayers(teams, task[h].list)
    /\ Goto(h, "session") /\ UNCHANGED <<session, games>>

\* Then the session, which cascades, except to a player who is in a team.
RemoveRow(h) ==
    /\ At(h, "removeSession", "session")
    /\ IF \E t \in Teams : teams[t] # None /\ teams[t].members \cap Attached # {}
       THEN Refused(h)
       ELSE /\ session' = None
            /\ players' = [p \in Players |-> IF p \in Attached THEN None ELSE players[p]]
            /\ games' = [g \in Games |-> IF g \in Listed THEN None ELSE games[g]]
            /\ teams' = [t \in Teams |-> None]
            /\ Done(h)

-----------------------------------------------------------------------------
(* Its games.                                                                *)

\* Mutant of NewLibs: what is listed already is not skipped.
NewLibsAll(requested) == requested

NewLibs(requested) == requested \ {games[g].lib : g \in Listed}
Insert(h, op, libs) ==
    Begin(h, [NoTask EXCEPT !.op = op, !.pc = "insert", !.todo = libs])

\* Entries that are listed already are skipped; if all are, the request fails.
AddGames(h, requested) ==
    /\ Request(h, "addGames") /\ session # None
    /\ NewLibs(requested) # {}
    /\ Cardinality(NewLibs(requested)) <= Cardinality(Unused(Games, games))
    /\ Insert(h, "addGames", NewLibs(requested))
    /\ UNCHANGED db

\* New rows, one for each entry, with ids of the set free.
Created(libs, free) ==
    {f \in [libs -> free] : \A l, m \in libs : f[l] = f[m] => l = m}
WithGames(gs, f) ==
    [g \in Games |-> IF \E l \in DOMAIN f : f[l] = g
                     THEN [lib |-> CHOOSE l \in DOMAIN f : f[l] = g,
                           status |-> "PENDING", here |-> TRUE]
                     ELSE gs[g]]

InsertGames(h) ==
    /\ task[h].pc = "insert" /\ task[h].op = "addGames"
    /\ IF session = None THEN Refused(h)
       ELSE /\ \E f \in Created(task[h].todo, Unused(Games, games)) :
                games' = WithGames(games, f)
            /\ Done(h) /\ UNCHANGED <<session, players, teams>>

RemoveGame(h, g) ==
    /\ Request(h, "removeGame") /\ g \in Listed /\ games[g].status # "MIDPLAY"
    /\ Begin(h, [NoTask EXCEPT !.op = "removeGame", !.pc = "remove", !.list = {g}])
    /\ UNCHANGED db

\* updateSessionGames: the games that are not being played go, then
\* addGamesToSession adds the requested ones.
UpdateGames(h, requested) ==
    /\ Request(h, "removeGame") /\ session # None
    /\ Cardinality(requested) <= Cardinality(Unused(Games, games))
    /\ Begin(h, [NoTask EXCEPT !.op = "removeGame", !.pc = "remove", !.todo = requested,
                    !.list = {g \in Listed : games[g].status # "MIDPLAY"}])
    /\ UNCHANGED db

DropGames(h) ==
    /\ At(h, "removeGame", "remove")
    /\ games' = [g \in Games |-> IF g \in task[h].list THEN None ELSE games[g]]
    /\ teams' = WithoutGames(teams, task[h].list)
    /\ IF task[h].todo = {} THEN Done(h) ELSE Goto(h, "add")
    /\ UNCHANGED <<session, players>>

AddAfterDrop(h) ==
    /\ At(h, "removeGame", "add") /\ UNCHANGED db
    /\ IF session = None \/ NewLibs(task[h].todo) = {} THEN Done(h)
       ELSE Insert(h, "addGames", NewLibs(task[h].todo))

\* What the handlers of module Game do to a game of the night.
PlayGame(g) ==
    /\ Allowed("play") /\ games[g] # None
    /\ \E s \in GameStatus \ {games[g].status} :
        /\ s = "MIDPLAY" => games[g].status = "PENDING"
        /\ s = "PENDING" => games[g].status # "COMPLETED"
        /\ s \in Finished => games[g].status \notin Finished
        /\ games' = [games EXCEPT ![g].status = s]
    /\ UNCHANGED <<session, players, teams, task>>

\* applyPlan reads the line-up and the teams that it will replace.
ApplyPlan(h, libs) ==
    /\ Request(h, "applyPlan") /\ session # None /\ session.status = "SCHEDULED"
    /\ Begin(h, [NoTask EXCEPT !.op = "applyPlan", !.pc = "save", !.todo = libs,
                    !.list = Listed \cup {t \in Teams : teams[t] # None}])
    /\ UNCHANGED db

\* One transaction, with the status read again.
SavePlan(h) ==
    /\ At(h, "applyPlan", "save")
    /\ LET list == task[h].list
           keptGames == [g \in Games |-> IF g \in list THEN None ELSE games[g]]
           keptTeams == [t \in Teams |-> IF t \in list THEN None
                                         ELSE WithoutGames(teams, list)[t]]
           free(rows) == {i \in DOMAIN rows : rows[i] = None} IN
       IF session = None \/ session.status # "SCHEDULED" THEN Refused(h)
       ELSE /\ \E f \in Created(task[h].todo, free(keptGames)) :
                games' = WithGames(keptGames, f)
            /\ \E new \in SUBSET free(keptTeams) \ {{}} :
                teams' = [t \in Teams |-> IF t \in new
                                          THEN [members |-> {}, game |-> None]
                                          ELSE keptTeams[t]]
            /\ Done(h) /\ UNCHANGED <<session, players>>

-----------------------------------------------------------------------------
(* Its teams.                                                                *)

CreateTeam(h, t, members, game) ==
    /\ Request(h, "team") /\ session # None /\ t \in Unused(Teams, teams)
    /\ members \subseteq Attached /\ game \in Listed \cup {None}
    /\ Begin(h, [NoTask EXCEPT !.op = "team", !.pc = "save",
                    !.rows = [i \in {t} |-> [members |-> members, game |-> game]]])
    /\ UNCHANGED db

AssignPlayers(h, t, members) ==
    /\ Request(h, "team") /\ teams[t] # None
    /\ members # {} /\ members \subseteq Attached
    /\ Begin(h, [NoTask EXCEPT !.op = "team", !.pc = "save",
                    !.rows = [i \in {t} |-> [teams[t] EXCEPT !.members = members]]])
    /\ UNCHANGED db

\* The foreign keys want the session, the game and the members.
CanSaveTeam(row) ==
    /\ session # None
    /\ row.game # None => games[row.game] # None
    /\ \A p \in row.members : players[p] # None

SaveTeam(h, t) ==
    /\ At(h, "team", "save") /\ t \in DOMAIN task[h].rows
    /\ IF CanSaveTeam(task[h].rows[t])
       THEN /\ teams' = [teams EXCEPT ![t] = task[h].rows[t]]
            /\ Done(h) /\ UNCHANGED <<session, players, games>>
       ELSE Refused(h)

-----------------------------------------------------------------------------
(* Its players.                                                              *)

Named(n) == {p \in Attached : players[p].name = n}
Joined(p) == [i \in {p} |-> [players[p] EXCEPT !.status = "joined"]]

\* joinSession: the night is found by its code and must not be closed.
JoinSession(h, n) ==
    /\ Request(h, "join") /\ session # None
    /\ session.status \notin {"COMPLETED", "CANCELLED"}
    /\ Begin(h, [NoTask EXCEPT !.op = "join", !.pc = "find", !.ses = session,
                    !.todo = {n}])
    /\ UNCHANGED db

\* A player of that name is rejoined, otherwise a new one is inserted.
FindByName(h) ==
    /\ At(h, "join", "find") /\ UNCHANGED db
    /\ \E n \in task[h].todo :
        IF Named(n) = {} THEN Goto(h, "insert")
        ELSE \E p \in Named(n) :
                task' = [task EXCEPT ![h].pc = "rejoin", ![h].rows = Joined(p)]

Inserting(h) == task[h].op \in {"join", "enrol"} /\ task[h].pc = "insert"

InsertPlayer(h, p) ==
    /\ Inserting(h) /\ session # None /\ p \in Unused(Players, players)
    /\ \E n \in task[h].todo :
        LET row == [name |-> n, status |-> "joined", night |-> "this"] IN
        /\ Named(n) = {}
        /\ players' = [players EXCEPT ![p] = row]
        /\ IF task[h].op = "join"
           THEN task' = [task EXCEPT ![h].pc = "answer", ![h].rows = [i \in {p} |-> row]]
           ELSE Done(h)
    /\ UNCHANGED <<session, games, teams>>

\* Mutant of InsertRefused: the loser does not look for the winning row.
InsertIgnored(h) ==
    /\ Inserting(h) /\ UNCHANGED db
    /\ session = None \/ \E n \in task[h].todo : Named(n) # {}
    /\ IF task[h].op = "join" /\ session # None THEN Goto(h, "answer") ELSE Done(h)

\* The unique index lets one insert win; a join that loses looks for the winner.
InsertRefused(h) ==
    /\ Inserting(h) /\ UNCHANGED db
    /\ session = None \/ \E n \in task[h].todo : Named(n) # {}
    /\ IF task[h].op = "join" /\ session # None THEN Goto(h, "winner") ELSE Done(h)

FindWinner(h) ==
    /\ At(h, "join", "winner") /\ UNCHANGED db
    /\ \E n \in task[h].todo :
        IF Named(n) = {} THEN Done(h)
        ELSE \E p \in Named(n) :
                task' = [task EXCEPT ![h].pc = "rejoin", ![h].rows = Joined(p)]

\* markRejoined
MarkRejoined(h) ==
    /\ At(h, "join", "rejoin")
    /\ \E p \in DOMAIN task[h].rows :
        IF CanSave(p, task[h].rows[p])
        THEN /\ players' = [players EXCEPT ![p] = task[h].rows[p]]
             /\ Goto(h, "answer") /\ UNCHANGED <<session, games, teams>>
        ELSE Refused(h)

\* The answer needs the session once more: not found if the code has changed.
AnswerJoin(h) == At(h, "join", "answer") /\ Refused(h)

\* PlayerService.joinSession and create: no rejoining, and create joins a night
\* in any status.
EnrolPlayer(h, n) ==
    /\ Request(h, "enrol") /\ session # None /\ Named(n) = {}
    /\ Unused(Players, players) # {}
    /\ Begin(h, [NoTask EXCEPT !.op = "enrol", !.pc = "insert", !.todo = {n}])
    /\ UNCHANGED db

\* The row of p as loaded, with a status or a name that a request gives it.
Change(h, op, p, row) ==
    /\ Begin(h, [NoTask EXCEPT !.op = op, !.pc = "save",
                    !.rows = [i \in {p} |-> row]])
    /\ UNCHANGED db

RejoinSession(h, p) ==
    /\ Request(h, "player") /\ p \in Attached
    /\ Change(h, "player", p, [players[p] EXCEPT !.status = "joined"])

SetPlayerReady(h, p, ready) ==
    /\ Request(h, "player") /\ p \in Attached /\ session.status = "SCHEDULED"
    /\ Change(h, "player", p, [players[p] EXCEPT !.status = IF ready THEN "ready" ELSE "joined"])

\* updatePlayerStatus, and Presence marking a player online or offline.
SetPlayerStatus(h, p, s) ==
    /\ Request(h, "player") /\ p \in Attached
    /\ Change(h, "player", p, [players[p] EXCEPT !.status = s])

\* PlayerService.update of a player of the night: another name, and another night,
\* whatever his teams are.  What he does there is left open (the model says joined).
RenamePlayer(h, p, n, night) ==
    /\ Request(h, "rename") /\ p \in Attached /\ Named(n) \subseteq {p}
    /\ Change(h, "rename", p, [name |-> n, night |-> night,
                               status |-> IF night = "this" THEN players[p].status ELSE "joined"])

\* The same request moves a player of another night into this one, whatever its
\* status.  His name is checked in the night he leaves, where he may have got any
\* name and status; without a night to check it in, it cannot be changed.
AdmitPlayer(h, p, n, s) ==
    /\ Request(h, "rename") /\ session # None /\ players[p] # None /\ p \notin Attached
    /\ players[p].night = "none" => n = players[p].name /\ s = players[p].status
    /\ Change(h, "rename", p, [name |-> n, night |-> "this", status |-> s])

SavePlayer(h, p) ==
    /\ task[h].op \in {"player", "rename"} /\ p \in DOMAIN task[h].rows
    /\ IF CanSave(p, task[h].rows[p])
       THEN /\ players' = [players EXCEPT ![p] = task[h].rows[p]]
            /\ Done(h) /\ UNCHANGED <<session, games, teams>>
       ELSE Refused(h)

\* removeFromSession refuses while the night is on, delete does not.
RemovePlayer(h, p) ==
    /\ Request(h, "removePlayer") /\ players[p] # None
    /\ Begin(h, [NoTask EXCEPT !.op = "removePlayer", !.pc = "detach", !.list = {p}])
    /\ UNCHANGED db

Detach(h) ==
    /\ At(h, "removePlayer", "detach")
    /\ teams' = WithoutPlayers(teams, task[h].list)
    /\ Goto(h, "remove") /\ UNCHANGED <<session, players, games>>

DropPlayer(h) ==
    /\ At(h, "removePlayer", "remove")
    /\ players' = [p \in Players |-> IF p \in task[h].list THEN None ELSE players[p]]
    /\ teams' = WithoutPlayers(teams, task[h].list)
    /\ Done(h) /\ UNCHANGED <<session, games>>

\* Mutant of KickPlayer: the list is left with the kicked player alone.
KickPlayerOnly(h, p) ==
    /\ Request(h, "kick") /\ p \in Attached /\ session.status # "COMPLETED"
    /\ Begin(h, [NoTask EXCEPT !.op = "kick", !.pc = "save", !.ses = session,
                    !.list = {p}, !.todo = {p},
                    !.rows = [t \in {u \in Teams : teams[u] # None /\ p \in teams[u].members}
                                |-> [teams[t] EXCEPT !.members = @ \ {p}]]])
    /\ UNCHANGED db

\* kickPlayer loads the session with its players, the player and the teams.
KickPlayer(h, p) ==
    /\ Request(h, "kick") /\ p \in Attached /\ session.status # "COMPLETED"
    /\ Begin(h, [NoTask EXCEPT !.op = "kick", !.pc = "save", !.ses = session,
                    !.list = Attached \ {p}, !.todo = {p},
                    !.rows = [t \in {u \in Teams : teams[u] # None /\ p \in teams[u].members}
                                |-> [teams[t] EXCEPT !.members = @ \ {p}]]])
    /\ UNCHANGED db

\* One transaction: the teams, the session with the shorter list, the player.
SaveKick(h) ==
    /\ At(h, "kick", "save")
    /\ LET t == task[h]
           saved == [u \in Teams |-> IF u \in DOMAIN t.rows THEN t.rows[u] ELSE teams[u]]
           left == [p \in Players |-> IF p \in t.todo THEN None ELSE players[p]] IN
       IF (\A u \in DOMAIN t.rows : CanSaveTeam(t.rows[u]))
          /\ NamesUnique(ReattachPlayers(left, t.list))
       THEN /\ teams' = WithoutPlayers(saved, t.todo)
            /\ session' = t.ses
            /\ players' = ReattachPlayers(left, t.list)
            /\ Done(h) /\ UNCHANGED games
       ELSE Refused(h)

-----------------------------------------------------------------------------
\* A statement fails, or the process stops, between two steps.
Fail(h) ==
    /\ "fail" \in Ops /\ task[h] # NoTask
    /\ Refused(h)

NightStep(h) ==
    \/ StartSession(h) \/ LoadStart(h) \/ SaveStart(h)
    \/ \E p \in Players : StartPlayer(h, p)
    \/ CompleteSession(h) \/ SaveComplete(h) \/ CancelSession(h) \/ SaveCancel(h)
    \/ UpdateSession(h) \/ RegenerateJoinCode(h) \/ SaveSession(h)
    \/ RemoveSession(h) \/ RemovePlayers(h) \/ RemoveRow(h)

GameStep(h) ==
    \/ \E L \in SUBSET Libs : AddGames(h, L) \/ UpdateGames(h, L)
    \/ \E L \in SUBSET Libs \ {{}} : ApplyPlan(h, L)
    \/ InsertGames(h) \/ DropGames(h) \/ AddAfterDrop(h) \/ SavePlan(h)
    \/ \E g \in Games : RemoveGame(h, g)

TeamStep(h) ==
    \E t \in Teams :
        \/ \E members \in SUBSET Players :
            \/ AssignPlayers(h, t, members)
            \/ \E g \in Games \cup {None} : CreateTeam(h, t, members, g)
        \/ SaveTeam(h, t)

PlayerStep(h) ==
    \/ \E n \in Names : JoinSession(h, n) \/ EnrolPlayer(h, n)
    \/ FindByName(h) \/ InsertRefused(h) \/ FindWinner(h) \/ MarkRejoined(h) \/ AnswerJoin(h)
    \/ Detach(h) \/ DropPlayer(h) \/ SaveKick(h)
    \/ \E p \in Players :
        \/ InsertPlayer(h, p) \/ SavePlayer(h, p)
        \/ RejoinSession(h, p) \/ RemovePlayer(h, p) \/ KickPlayer(h, p)
        \/ \E ready \in BOOLEAN : SetPlayerReady(h, p, ready)
        \/ \E s \in PlayerStatus :
            SetPlayerStatus(h, p, s) \/ \E n \in Names : AdmitPlayer(h, p, n, s)
        \/ \E n \in Names, night \in {"this", "other"} : RenamePlayer(h, p, n, night)

Next ==
    \/ \E h \in Handlers :
        NightStep(h) \/ GameStep(h) \/ TeamStep(h) \/ PlayerStep(h) \/ Fail(h)
    \/ \E g \in Games : PlayGame(g)

Spec == Init /\ [][Next]_vars

-----------------------------------------------------------------------------
(* Properties.                                                               *)

\* The night's life is the one SessionLife promises: the guards of start,
\* complete and cancel hold when the row is saved, not only when it was read.
Life == INSTANCE SessionLife WITH
            status <- IF session = None THEN "REMOVED" ELSE session.status,
            unfinished <- Unfinished
ImplementsLife == Life!Spec

\* "Skip libraries already added to this session so a game can't be added
\* twice": whatever adds, replaces or removes games.
NoLibraryTwice ==
    \A g, k \in Listed : games[g].lib = games[k].lib => g = k

\* Teams consist of players of the night, but for those moved to another night:
\* whoever is kicked, removed or deleted is in no team, whatever step of it fails.
MembersBelong ==
    \A t \in Teams : teams[t] # None =>
        \A p \in teams[t].members : players[p] # None /\ players[p].night # "none"

\* When the night starts, everyone who takes part is playing.
StartedTogether ==
    [][session # None /\ session' # None
        /\ session.status = "SCHEDULED" /\ session'.status = "IN_PROGRESS"
       => \A p \in Attached' : players'[p].status \in {"playing", "disconnected"}]_vars

\* Nobody drops out of the night but by a request that is about him, or with it.
PlayersStay ==
    [][\A p \in Attached \ Attached' : \E h \in Handlers :
        \/ task[h].op = "kick" /\ task[h].todo = {p}
        \/ task[h].op = "removePlayer" /\ task[h].list = {p}
        \/ task[h].op = "rename" /\ p \in DOMAIN task[h].rows /\ task[h].rows[p].night = "other"
        \/ task[h].op = "removeSession"]_vars

\* A join that is answered has put its player into the night under the name
\* asked for, also when two joins with one name race and one insert loses.
JoinAnswered ==
    \A h \in Handlers : At(h, "join", "answer") =>
        \E p \in DOMAIN task[h].rows : p \in Attached /\ players[p].name \in task[h].todo
=============================================================================
