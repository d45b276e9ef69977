# Games Night: a TLA+ verification of the backend

The repository is a NestJS backend (TypeORM, PostgreSQL, socket.io) with which a
host runs a games night: a session, its guests and teams, the games they play in
turn, their scores and the history. This directory models the part of it whose
correctness depends on the order in which things happen, checks the models with
TLC, and proves the main invariants with TLAPS.

Paths below are relative to the repository's `src/` directory.

## 1. The system

One Node.js process serves HTTP and WebSocket requests. Nothing runs in
parallel, but every `await` (a query, a save, a mail) is a point where other
handlers run. State is kept in

* PostgreSQL, written through TypeORM entities that are loaded, changed and saved
  as a whole, mostly without transactions, locks or version columns;
* maps in the memory of the process: turn timers, grace timers of disconnected
  players, connected sockets, chat rate windows. They are lost in a restart, and
  only the turn timers are rebuilt.

### Components

| component (source) | state | operations | correct when | modelled by |
|---|---|---|---|---|
| game lifecycle (`game/game.service.ts`) | the row of `game`: status, round, turn, winner, results | start, force start, rounds, turns, pause, resume, cancel, reset, complete, update, delete | status and round fit; a closed game stays closed; a pause is undone exactly; winner and results agree; a cancelled game has no more turns | `Game` |
| turn timer (`game/game-timer.service.ts`) | map game -> timer, in memory | start, stop, expiry (calls `nextTurn`), rebuild at boot | it runs for the entrant in turn, only while the game is played; automatic turns reach everybody | `Game` |
| scores and standings (`score/score.service.ts`) | rows of `score` | submit, create, update, delete, rank, winner, session leaderboard | an accepted score stays with its game; ranks are competition ranks; no winner in a tie; leaderboard and standings agree | `Game`, `Scoring` |
| history (`history/history.service.ts`), statistics (`game/services/game-stats.service.ts`) | rows of `game_result` | write once per game, wins of a player | written once, equal to what the game stored; wins are earned | `Game`, `Scoring` (partly) |
| teams (`team/`) | `team`, the members of its join table | form, rebalance, shuffle, assign, swap, reassign, dissolve, move | every player in at most one team of a game; sizes balanced; nobody lost; a new set replaces the old one | `Teams`, `Planner` |
| session lifecycle (`session/session.service.ts`, `session/services/session-lifecycle.service.ts`, `session-readiness.service.ts`) | `session` row, its games | create, start, complete, cancel, update, delete, line-up, codes | a closed night stays closed and has no unfinished game; no library entry twice | `Session` |
| session players (`session/services/session-player.service.ts`, `player/`) | `player` rows | join, enrol, rejoin, ready, rename, move, remove, kick | whoever joined belongs to the night until a request about him; an answered join is a player | `Session`, `Presence` |
| presence (`session/session.gateway.ts`, `player/player.service.ts`) | sockets and grace timers in memory, the online columns | connect, disconnect, grace expiry | a connected player is not marked offline; one who left is, after the grace period | `Presence` |
| invites and reminders (`invite/`) | `invite` rows | create, RSVP, open form, check in, link, remind | one invite per guest; no reminder twice; a link is not lost; only who comes brings somebody | `Invites` |
| chat (`chat/`) | `chat_message` rows, rate windows in memory | send, history | at most ten messages in ten seconds; paging shows every message | `Chat` |
| night planner (`night-planner/`) | none of its own | suggest, apply | its numbers suit what starting and forming teams demand; a plan replaces the line-up in one step | `Planner`, `Session` |
| game library, games masters, users, auth, mail | their rows | CRUD, codes, token checks | single reads and writes | no |
| broadcasts, health, wiring, DTOs, migrations | none that a handler reads | output | not a subject of this project | no |

### Interactions

* A request handler calls services, which save entities and emit events; gateways
  turn events into broadcasts; `invite.service.ts` also listens to joins, and
  writes the invite that the check-in which made the player join writes too.
* `SessionGateway` writes the player's row when sockets open and close; session and
  player services write the same row on requests, and `GameService` counts the
  players that are not DISCONNECTED.
* `handleTimerExpired` calls `GameService.nextTurn`, which starts the next timer:
  the timer and the game drive each other.
* `endCurrentRound` calls `completeGame` after the last round; that reads the
  standings twice, saves the game and asks the history to record it.
* `SessionLifecycleService` cancels and completes games by itself; in `Session` the
  games of the night are played (`PlayGame`) between requests and beside joins and
  enrolments, and in `Game` `cancelSession` is one of the writers of the row.
* Teams and scores hang on the game by foreign keys that saves of the *game* also
  write, because `findOne` loads both relations. Teams hang on the night, and lose
  players who are kicked or removed, in `Session`; what is in the teams of one game,
  and in which order that is saved, is in `Teams`.
* The numbers of players and teams are judged in three places: when a night is
  planned, before it starts, and when teams are formed. `Planner` has all three.

### What is hard

Last-writer-wins saves of whole entities loaded before other awaits; columns set
to `undefined`, which a save skips; two stores (row and timer) kept in step by
hand; two reads of what should be one snapshot; a crash between two statements;
unique indexes that decide a race which the code then has to answer; sets of rows
that are replaced one save after the other; long legal sequences of pauses,
resets, mode changes and restarts. The full list, each item at its line, is
`hazards` in `PROJECT.json`.

## 2. Modules

| module | what it is |
|---|---|
| `GameLifecycle` | abstract: the phases of a game, its round, what a pause goes back to, its outcome; no database, timer or overlap |
| `Game`, `MCGame`, `GameProofs` | row, entities, handlers with their awaits, timer, restart, history; its instance for TLC with the symmetry of the workers; its theorems |
| `Presence`, `MCPresence`, `PresenceProofs` | one player: connections, connect and disconnect handlers, the grace timer, the online columns of the row |
| `SessionLife` | abstract: the life of a night and which of its games are unfinished |
| `Session`, `MCSession`, `SessionProofs` | one night with its players, games and teams, and every request that changes them; its theorems |
| `Planner`, `PlannerProofs` | the arithmetic of headcounts, team counts and times, as operators, and theorems that its users agree |
| `Teams`, `MCTeams`, `TeamsProofs` | the teams of the games of a night; extends `Planner` |
| `Invites`, `MCInvites`, `InvitesProofs` | the guest list, the listener for joins, the cron job |
| `Chat`, `MCChat`, `ChatProofs` | room, limiter, slow inserts, paging |
| `Scoring`, `MCScoring`, `ScoringProofs` | score rows, standings, leaderboard, results, a player's wins; its instance for TLC; its theorems |

All modules read a handler the same way: it begins with an action whose guards are
the checks of the code up to the first await that matters, goes on with one action
per later await, and keeps in its task what it has loaded. A save writes the whole
entity that was loaded, whatever has happened to the row since. Where a run serves
requests one by one, `Request` (or the set of handlers) says so, and the operators
which pairs may overlap.

### How Game corresponds to the code

*State.* `row` is the row of `game`; its fields `turnTeam`, `turnPlayer`, `started`,
`before` are `currentTurnTeamId`, `currentTurnPlayerId`, `turnStartedAt`,
`statusBeforePause`; `row.teams` and `row.scores` are the child rows whose
`gameId` is this game. `teams` and `points` are all team and score rows,
`history` the row of `game_result`, `timer` the entry of the timer map, `active`
the guests that are not DISCONNECTED. `op[w]`, `pc[w]`, `ent[w]` are a handler
under way: which one it is, the await it stands at, the entity it holds.

*Steps.* A handler starts with a `Load` whose guards are those the code checks in
the same continuation, goes through one action per later await, and ends with
`Finish`. What follows a save (stopping or starting the timer) is an action of
its own, because the process resumes there only after the save has come back.
`Next` lets every worker interleave at each of these points and a `Restart` occur
between any two of them.

*TypeORM and PostgreSQL* are external, modelled from how the code uses them:
`save(e)` makes the row equal to the entity in every column that is not
`undefined` (`Kept`), reconciles the loaded one-to-many relations (`Saved`), and
re-inserts a row that was deleted (`Persist`). A save is one step. TypeORM in fact
selects the row and then writes the columns in which the entity differs from it, so
another save that commits between the two would leave a row that mixes the columns of
both. No model has that interval. What is shown of overlapping saves rests on it: the
properties of `GameOverlap`, `PlusOnesOnlyGoing`, and the theorems about them
(`RoundsMatch`, `CompletedHave`, `PausesRemember`, `OnlyGoingBringPlusOnes`). Foreign keys
cascade from game to team, score and result and from team to score, and
`game_result.gameId` is unique, as the migrations declare.

*Abstractions.*

* A score row is one point for one entrant, and `MaxScores` bounds the rows of an
  entrant: ties, leads and deletions need no larger numbers. Sums, edits and
  points of either sign are in `Scoring`.
* `results` is reduced to who is alone in front and whether first place is shared:
  what the winner and the history are computed from.
* The two queries inside one reading of the standings (the game's teams, then the
  scores) are one step; the two readings of `completeGame` are two steps.
* Teams and players are numbers in roster order, so that rotation is "the next
  number". Positions of teams are assumed distinct.
* `turnTimeLimit` has no writer in the API, so whether a game has one is the
  constant `Timed`. That the countdown of a running timer has elapsed is a
  nondeterministic choice; ticks and warnings only broadcast.
* The host's own player row only counts in the minimum of two players.
* Not in this module: the columns name, orderIndex and gameLibrary, moving a game to
  another session, deleting players, creating teams, and all broadcasts. The
  statuses READY_TO_START and WAITING_FOR_TEAMS are never assigned by the code.
* Single-statement operations of other services (deleting a score, moving or
  deleting a team) take a free worker, so with one worker they do not fall into a
  running handler, and with two they do.

### How Presence corresponds to the code

`net` are the sockets of one player as socket.io sees them, `row` the columns
`isOnline`, `status` and `currentSocketId` of `player`, `pending` the player's entry
of the map `pendingOffline`, and `armed` the timers that `setTimeout` has started
and nothing has cleared; a timer is named for the socket whose disconnect started
it. `task[h]` is a handler under way, as in `Game`.

`handleConnection` is `Connect` (the handshake found the player), `LoadOnline` and
`Save` (the two awaits of `setPlayerOnline`) and `ClearPending` (its continuation).
`handleDisconnect` is `Disconnect`, `FindPlayer` and `ArmGrace`; the callback of the
timer is `GraceOver`, `LoadOffline` and `Save`. `SetStatus` stands for the requests
that load the player to change the status (`updatePlayerStatus`, `setPlayerReady`,
`rejoinSession`), `Remove` for those that delete it. One player is enough: no step
reads another player's state. Rooms and broadcasts are left out, and so are
`lastConnectedAt` and the membership of teams. The 20 seconds of grace are not
measured: a running timer may fire at any later step.

### How Session corresponds to the code

`session`, `players`, `games` and `teams` are the rows of one night. A player's
`night` is the session his row refers to: `PlayerService.update` moves players out of the
night (`RenamePlayer`) and into it (`AdmitPlayer`). A game's `here` says whether it belongs
to the night; a game in any live round, turn or pause is `MIDPLAY`. `task[h]` has the
request, the step, the session entity, the rows and the ids of the relations that
were loaded, and what is still to be done.

Saving a session with a loaded relation makes exactly those rows belong to it
(`ReattachGames`, `ReattachPlayers`): that is why `startSession`, `completeSession`,
`cancelSession` and `kickPlayer` can detach whom they have not seen. Foreign keys and
the unique index on (session, name) are `CanSave`, `CanSaveTeam`, `NamesUnique`; a
violated one ends the handler, except in a join, which looks for the winner
(`InsertRefused`, `FindWinner`). The join table of teams and players does not cascade with
a player: the code clears his memberships before his row goes (`WithoutPlayers`, in
`Detach`, `RemovePlayers`, `SaveKick`). Transactions (`SaveCancel`, `SavePlan`, `SaveKick`) are
one action. `Fail` ends any handler between two steps: a failing statement or a
stopped process.

Left out: descriptive columns (they only make `UpdateSession` a save of the row), the
team's name, colour and position, lists and leaderboards, `GameService.create`, which
makes a game without a library entry (`canStartSession` then throws), and the host's
dashboard. Whether a join code is taken by another night is decided by the set
`Codes`: the draw-and-check loop gives one that is not.

### How Teams corresponds to the code

`teams` are the rows with their game and members. A bulk request (`createTeamsForGame`,
`clearTeamsForGame`, `rebalanceTeams`, `shufflePlayers`) goes through the steps `clear`,
`remove`, `insert`, `players`, `empty`, `place`, `reply`; the loops that place players
await nothing, but are one action per player (`Place`) so that each strategy is
visible: dealing, the snake draft with its turn at either end, and slices of the
sizes of `splitEvenly`. The players come in any order, which stands for the shuffle
and for `joinedAt`. `manualAssignPlayers`, `swapPlayerToTeam`, `reassignPlayer`,
`dissolveTeam`, and `TeamService`'s create, update and delete are `Hold` (what was
loaded and will be saved) followed by their saves. The active players of the night are
an input of a request, since no step here changes them. `byHand` remembers that a host
assigned teams by hand or moved one: those requests check nothing, so
`OneTeamEach` makes no promise after them.

### How Planner corresponds to the code

`SplitEvenly`, `SuggestTeamCount`, `SegmentMinutes` and `Offsets` are the functions of
`night-planner.util.ts`; `NoWarnings` what `buildWarnings` compares; `HeadcountValid`
the rule of the readiness service; `Formable` the errors of
`validateTeamFormation`; `SuggestedCounts` and `SuggestedWay` the suggestions of the
formation service. It has no state. `Teams` uses it with the limits as constants.

### How Invites corresponds to the code

`invites` are the rows by age; `sent` stands for `reminderSentAt` and `rsvpReminderSentAt`
being set; `night` says how far off the night is, which is what the queries of the cron job
look at. `task` are requests, `link` calls of the listener, `cron` the job, which sends
and then saves guest after guest. A join is one step here (`Joins`; `Session` has its
steps) and wakes the listener. The public form requires an address, so that it
matches by address only, as its controller lets it. `recorded` is a ghost: the mails
whose time was saved.

### How Chat corresponds to the code

Time runs in ticks, which are finer than the milliseconds of the program, as those of
the database are; `Ms` cuts off. `recent` is the map `recentSends`; `accepted` a ghost
of all sends that passed. A message passes the stages checking (the awaits of
`saveMessage`), writing (the insert has its `createdAt`), stored, told; inserts commit
in any order. `client` is a client that pages back with the cursor it was given.

### How Scoring corresponds to the code

`rows` are the score rows, `gameOf` the team's game, `result` the game's result;
`lineup` is a history variable, the teams a game had when it was completed.
`Standings`, `Winner`, `TiedForFirst` and the leaderboard (`BoardTotal`, `BoardWinner`,
`Champions`) follow the loops of `score.service.ts` and `session.service.ts`; a sort
leaves equal totals in any order (`Sorted`). The properties state what these numbers
mean directly from the rows. Requests are single actions: the awaits of submitting and
completing are in `Game`.

### The abstract specifications

`GameLifecycle` says what the API promises: a game is started once, rounds go up
one by one to the maximum, a resumed game is where it was paused, a completed game
never changes its outcome, a closed game can only be deleted (a cancelled one
also reset). `Game` implements it (`ImplementsLifecycle`) under the refinement
mapping `Life`, which reads the phase off the status, the resume target off
`statusBeforePause`, and the outcome off winner and results. The refinement holds
when handlers do not overlap. With overlap it does not: `GameCancelRace` shows the
shortest way.

`SessionLife` says that a closed night stays closed, that it is completed only when
no game of it is unfinished, and that cancelling it leaves none unfinished. `Session`
implements it (`ImplementsLife`) with the unfinished games that are in the night, if
only joins, enrolments and the playing of games overlap: a cancelled game that is
reset between the check and the save of `completeSession` would be closed in
unfinished.

## 3. Properties and runs

A run is `tlc -config <run>.cfg <module>`; each finishes in at most two minutes.

| run (module) | at a time | asks | outcome |
|---|---|---|---|
| `GameSerialTeam` (`MCGame`) | 1 | is the timer that of the team in turn (`TimerIsOfCurrentTurn`); do winner, results and history agree (`CompletionIsRecorded`); do the handlers implement the lifecycle (`ImplementsLifecycle`) - with restarts between any two steps and failing inserts | holds |
| `GameSerialModes` (`MCGame`) | 1 | does a timer run only while the game is played (`TimerOnlyWhileActive`) - both score modes and changes between them | holds |
| `GameRotation` (`MCGame`) | 1 | once a game is left alone with its timer running, do automatic turns reach every team again and again, in either round (`TurnsGoRound`); does every completed game get into the history (`CompletionReachesHistory`) | holds |
| `GameOverlap` (`MCGame`) | 2 | is the row consistent by itself (`TypeOK`, `RoundMatchesStatus`, `CompletedHasResults`), and does the history keep the first result (`HistoryNeverRewritten`), whatever overlaps | holds |
| `GameCancelRace` (`MCGame`) | 2 | `NoTurnAfterCancel` | violated, section 4 |
| `PresenceSerial` (`MCPresence`) | 1 | does a reconnect cancel the grace timer (`ReconnectCancels`); does every loss of the latest connection start it (`DropIsScheduled`); is one who left marked offline (`GoneGoesOffline`) | holds |
| `PresenceOverlap` (`MCPresence`) | 3 | is the timer in the map the only one that can fire (`OneGraceTimer`); `TypeOK` | holds |
| `SessionSerial` (`MCSession`) | 2 joins or enrolments with games played beside them, 1 of the rest | the night's life (`ImplementsLife`), its line-up (`NoLibraryTwice`), its teams (`MembersBelong`), the race for a name (`JoinAnswered`), the common start (`StartedTogether`), nobody lost (`PlayersStay`), `TypeOK` | holds |
| `TeamsSerial` (`MCTeams`) | 1, failing anywhere | are players placed fairly (`PlacedFairly`); does a new set replace the old one (`FormedAsPlaced`); at most one team each (`OneTeamEach`); nobody lost (`NobodyDropped`); `TypeOK` | holds |
| `Invites` (`MCInvites`) | 1 request, with the listener beside it | `PlusOnesOnlyGoing`, `SelfRsvpOnce`, `RemindedOnce`, `LinkKept`, `TypeOK` | holds |
| `Chat` (`MCChat`) | sends and inserts overlap | is the limiter exact (`RateExact`); does paging miss no message (`NothingMissed`); `TypeOK` | holds |
| `Scoring` (`MCScoring`) | 1 | ranks, ties, winner (`RankedFairly`), leaderboard (`BoardAddsUp`), wins of a player (`WinsAreEarned`), `TypeOK` | holds |

*Which properties need one handler at a time.* In `Game`, `CompletionIsRecorded`,
`TimerOnlyWhileActive`, `TimerIsOfCurrentTurn` and `ImplementsLifecycle` are false
with two overlapping handlers: a save of a stale entity un-completes a game or re-arms a
timer. So are, in `Presence`, `ReconnectCancels` and `DropIsScheduled`, in `Session`,
`ImplementsLife`, `NoLibraryTwice`, `StartedTogether`, `PlayersStay` and `MembersBelong`, in
`Teams` `FormedAsPlaced`, `OneTeamEach` and `NobodyDropped`, in `Invites` `SelfRsvpOnce`,
`RemindedOnce` and, if answers overlap with check-ins, `LinkKept`. One at a time is an
assumption about the load, not something the code ensures: it has no lock. A host
who waits for each answer keeps it only as far as he is the only one to act; the
requests of guests, their sockets, the expiry of turn and grace timers and the cron job
come when they come, beside his. So these runs and theorems say what each handler does
on its own, at every await, failure and restart it has, and section 4 says what
overlapping ones do. What holds under any overlap is `GameOverlap`, `PresenceOverlap`,
the race of joins in `SessionSerial`, `PlacedFairly`, `PlusOnesOnlyGoing` and `Chat`,
given that a save is one step; most of that is proved for every bound.

*Bounds: Game and Presence.* One worker explores every sequence of handlers, two every
pair of overlapping ones: a lost update needs one writer between the load and the save
of another, so two show each of them. Two rounds (`MaxRounds = 2`) distinguish a
round that has a successor from the last; one round makes the first the last. Three
teams let a rotation skip one; two teams with at most one score row each give a
lead, a tie and an empty game. Each run leaves out what its properties do not tell
apart. `GameOverlap` has one player and no timer, so the entrants' turns are
missing, and it leaves out resets, updates and the session's cancellation, which
would multiply its states by ten; the theorems of section 5 cover them.
`GameRotation` has neither restarts nor failing inserts: a crash between the save of
COMPLETED and the insert of the result loses the history of that game for good (a
listed hazard). `GameSerialModes` has no `cancelSession`, which leaves the timer of a
cancelled game running (also listed). In `Presence`, three connections allow one to be
replaced twice; each socket opens once, which bounds the run.

*Bounds: the others.* `SessionSerial`: two players and two names give a race for one
name, a rename onto a taken one and a night with and without another player; two
games and two library entries a full, a partly new and an already listed line-up; one
team is enough, as no property relates two. `TeamsSerial`: three players in two or
three teams are one more than teams, or one each; both ends of a draft are reached;
two games let a team be moved between them. A third game or a fourth team would
multiply the states and add no new case; the fairness of placing is proved for all
numbers. `Invites`: two invites with one name and one address are the case where
oldest-first and matching matter; one call of the listener beside one request, one
plus-one. `Chat`: four ticks of two to a millisecond, four messages, a limit of two in a
window of two, pages of one: windows slide over a send, a page ends between
messages of one millisecond, a slow insert commits after later ones, a cursor is
deleted. `Scoring`: two rows of plus or minus one give leads, ties, negative and
cancelled totals; teams with no row count 0 in a team game only; one team may leave.

Deadlock is checked everywhere but in `PresenceSerial`, where a removed player whose
connections are closed has nothing left to do, in `SessionSerial`, where a removed
night has not, and in `Chat`, where time ends.

*Fairness* (`FairSpec`, in `GameRotation` and `PresenceSerial`). Weak fairness of each
worker's `Handler`: an awaited statement returns and its continuation runs, which the
event loop guarantees. Weak fairness of `TimerExpires`: `setInterval` fires, and an
elapsed countdown is noticed at the next tick. Clients are not fair: they may do
nothing for ever. `TurnsGoRound` therefore assumes that from some time on, at which a
turn timer runs, only automatic turns happen. It says nothing of a game that is left
alone without a timer, which is how `startNextRound` leaves it (section 4). The run has two
rounds, so that the timer is also one that a host's turn has started in the second. Restarts and failing statements are not in that run: one
failing `nextTurn` ends the rotation, because only its success starts the next
timer (a listed hazard). In `Presence`, `GraceOver` is strongly fair: a due timer is
called by the event loop however many requests keep coming, but in the model it
needs a free handler, which it finds again and again and not continuously. The other
modules state no liveness: their handlers end when their awaits do, and what a
client or the cron job does next is up to them.

*Each property has a mutant*: a plausible bug in one definition (a dropped guard, a
timer not replaced, an upsert for an insert) written as an operator next to the
definition, with which TLC finds the property violated.

## 4. What the models show

### Finding

**A turn overtakes a cancellation** (`GameCancelRace`). `nextTurn` loads the game,
awaits the roster and saves the whole entity. A cancellation that commits in
between is overwritten with the old status and the timer is started again;
`cancelGame` says "No more turns will run".

### Observations

The models behave in these ways because the code does. Where a property is checked,
it is stated so that it says what does hold.

*Game.*
* `startNextRound` does not start the timer that `endCurrentRound` stopped, though the
  turn is kept: from the second round on, turns are not changed automatically before the
  host has asked for one, or the process has restarted. Resuming an individual game leaves its timer
  stopped, because `startTurnTimerIfNeeded` looks at `currentTurnTeamId` only
  (`AfterResume`).
* `resetGame` assigns `undefined` to the columns of the turn, which a save skips: the row
  keeps the turn. After a reset and a change of the score mode a restart times the
  player left in `currentTurnPlayerId`, in a team game (`Rehydrated`).
* `cancelSession` leaves the timers of its games running.
* A save writes back the list of scores that was loaded with the game: a score that is
  submitted between the load and the save of another handler loses its game (`Saved`).
  With one handler at a time no submission falls there, so no run checks it.
* A start request that names one team twice passes the rule of two teams
  (`ChooseTeams`).

*Presence.*
* A reconnect does not cancel a grace timer that the disconnect handler, still awaiting
  the player, has not started yet: the player is marked offline while connected.
* Closing the later of two tabs marks the player offline; a connection that is lost
  while its connect handler saves is not found by the disconnect handler
  (`FindPlayer`); a restart leaves everybody online (`Restart`). Hence the hypotheses of
  `DropsAreSeen` in section 5.
* A player kicked during a connect is inserted again by the connect handler's save.

*Session.*
* A stale save of `startSession`, `update` or a code change brings a night that was
  closed meanwhile back to its old status; one with a loaded player list detaches who
  joined meanwhile, or puts a kicked player's row back.
* A cancelled night can still get games. A rejoin marks a READY or PLAYING player
  JOINED. A start that fails half-way leaves players PLAYING in a night that is
  SCHEDULED, and `canStartSession` then wants them ready again.
* `updateSessionGames` may remove games and then answer 400, since all the requested
  entries are still listed. A join is answered 404 if the code was changed meanwhile,
  though the player is there. A player moved to another night stays in the teams of
  his old one.
* `addGames` reads the line-up before it inserts: two that overlap put a library entry in
  twice. So do two plans: the comment of `applyPlan` says that the transaction and the status
  read again in it are there "to stay safe under concurrent applies"
  (`night-planner.service.ts:157-162`), but the games and teams it removes were read before
  the transaction. Two applies each remove the same old line-up and both new ones stay. No
  run examines this: `SessionSerial` applies one plan at a time. With
  `Overlapping = {"applyPlan"}` in its configuration TLC finds `NoLibraryTwice` violated.

*Teams.*
* Reassigning a player to the team he is already in takes him out of it: the second save
  has him twice and violates the key of the join table (`LeaveSame`).
* Teams without a game, as `applyPlan` makes them, cannot be used with `reassignPlayer` or
  `swapPlayerToTeam`, which read `team.game.id`.
* Two overlapping formations of one game leave two sets of teams.
* Assigning by hand, and moving a team to another game, may put a player into two
  teams of a game: hence `byHand`.

*Invites.*
* The save of an answer that was loaded before the reminder clears `reminderSentAt`, and
  the guest is mailed again; a reminder's save loses an answer given meanwhile. A
  process that stops between mail and save mails again. A removed invite comes back
  with such a save.
* Two first answers with one address at once make two invites. Two invites of one name
  are linked to one player; a plus-one named like another guest is that guest.
* A rescheduled night does not remind again.

*Chat.* Messages of the millisecond in which a page ends may be on no page. A cursor that
was deleted starts again from the newest. The limiter counts per connection.

*Scoring.* Leaderboard and standings name different winners when the best team has no
score row. The champion of a night is the first of the sorted board even if tied. A
team that won and was moved or deleted is no winner in the statistics. `getResults` puts the
stored winner beside standings recomputed from scores that may be edited after
completion.

*Planner.* The warning that the suggested number of teams is less than a game needs is
never given (`SuggestedCountFits`).

## 5. Proofs

The theorems hold for every value of the constants that satisfies the named
assumptions of the modules (`ConstantsAssumption`, `NullAssumption`, `NoneAssumption`,
`LimitsAssumption`), which say that NULL is no value of a column, that sets of ids are
finite where they are counted, and that bounds are numbers. TLC evaluates them in
every run.

`GameProofs.tla` proves, for any set of workers, any finite roster, any maximum of
rounds and any set of operations, under the assumptions `ConstantsAssumption` and
`NullAssumption` of `Game` (which TLC evaluates in every run):

| theorem | states |
|---|---|
| `TypesHold`, `TypeCorrect` | the type invariant `TypeInv`, and from it `TypeOK` |
| `RowsStaySane` | the inductive invariant `IInv` |
| `RoundsMatch` | `RoundMatchesStatus` |
| `PausesRemember` | `PauseRemembers` |
| `CompletedHave` | `CompletedHasResults` |
| `HistoryKept` | `HistoryNeverRewritten` |
| `SerialHolds` | the inductive invariant `SerialInv`, if handlers run one at a time (`OneWorker`) |
| `CompletionAgrees` | then also `CompletionIsRecorded` |
| `TimersStop` | then also `TimerOnlyWhileActive`, if the game is not cancelled with its session |
| `TimersFollowTurns` | then also `TimerIsOfCurrentTurn`, if the score mode is never changed (`ModeIsFixed`) |
| `LifecycleImplemented` | then the handlers implement `GameLifecycle` (`ImplementsLifecycle`) |

*Why `TypeOK` is not inductive.* What a handler writes after an await was put into its
entity before: `AfterTurn` starts a timer for `Current(ent[w])`, which must not be
undefined; `InsertResult` stores the entity's results, which must not be null.
`TypeInv` adds these facts per worker (`HandlerOK`): at which step and in which
operation which column is known.

*Why the invariants survive stale saves.* None of the three row invariants is
inductive, since a save copies an entity that was loaded arbitrarily long ago over
the row. The strengthening `SaneInv` says that every entity any handler holds is
consistent *by itself* at every step, not only the row, and `SavedSane` that what a
sane entity leaves undefined can be filled in from any sane row. The last is the
delicate part: a reset leaves `winner`, `results` and `before` undefined, so `Sane`
says which combinations of undefined columns are safe. A save of any age over any
row then leaves a consistent row, with any number of handlers.

The proofs have one step per action. Client requests are done together
(`ClientOK`, `ClientSane`): each loads the row and changes some columns.

*Why the others need one handler at a time.* Each says that two things agree which
different handlers write: the row and its scores, the row and the timer, the row and the
history. `SerialInv` says what makes a save harmless: at every await the entity is the
row as it stands, with the changes of its operation (`Loaded`, `Changed`, one line for each
operation), and after the save they agree on the turn (`Stored`). That must survive
the handler's own writes: a reset wipes the scores in the table but not in its entity,
and a completion reads the standings twice. `OutcomeOK` adds that a game that is not
completed has no winner: without it `determineWinner`, which leaves the winner as it was
loaded when there is none, could revive an old one. A restart may come between any two
steps, other services act while no handler is under way. `SaveEffect` reads off
what each save makes of the row; the timer, the outcome and the refinement use only
that. The two hypotheses about the timer are needed: cancelling the session leaves the
timer running, and after a change of mode a restart prefers the player whose turn it once
was. `GameSerialTeam` and `GameSerialModes` run under the same restrictions, on which
TLC checked `SerialInv`, `TimerInv` and `TurnInv` before they were proved.

`PresenceProofs.tla` proves for any sets of handlers and connections:

| theorem | states |
|---|---|
| `TypesHold`, `TypeCorrect` | `TypeOK`, from `TypeInv`, which adds that a handler that arms a timer serves a socket |
| `OneTimer` | `OneGraceTimer`, with any overlap and restarts |
| `SerialHolds` | `SerialInv`, if handlers do not overlap (`OneAtATime`) |
| `ReconnectWorks`, `DropsAreSeen` | `ReconnectCancels` and, without restarts, `DropIsScheduled`, from `SerialInv` |

The two properties speak of quiet states only, so they say nothing while a handler
is under way. `SerialInv` says for each step of each handler what is already so:
that an entity to be saved is not stale, that the socket of a connect is up and not
yet the recorded one, that a player about to be marked offline has no connection.
The hypothesis `OneAtATime` is needed: without it a disconnect handler that still awaits
the player violates the first property, and a connection lost while its connect
handler saves the second.

`SessionProofs.tla`, for any numbers of handlers, players, games, teams, names and library
entries:

| theorem | states |
|---|---|
| `TypesHold`, `TypeCorrect` | `TypeInv`, and from it `TypeOK`, under any overlap |
| `SoundHolds` | the inductive invariant `SInv`, if only joins, enrolments and the playing of games overlap (`JoinsOnly`) |
| `LifeImplemented` | `ImplementsLife`: every step of `Session` is one of `SessionLife` or changes nothing there |
| `LibrariesOnce`, `TeamsBelong`, `JoinsAnswered` | `NoLibraryTwice`, `MembersBelong`, `JoinAnswered` |
| `StartsAsOne`, `NobodyDropsOut` | `StartedTogether`, `PlayersStay` |

`TypeOK` needs to know at which step of which request a task has rows of players, games
or teams, and a session that is not null (`TaskOK`). `SInv` has three parts. `AloneInv`: a
request that is not a join or an enrolment is the only one. `Sound`: after every single
statement nobody is between the nights, every game is in the night and no library
entry is in two of them, members of teams have rows, and a deleted night has left nothing
behind; that is more than the properties say, and `MembersBelong` could not be kept
without it, as a save of a team checks only that its members exist. `Held`: what a
request has loaded is what the tables say at the step where it is saved, down to the
list of players, which is why the reconciliation of the relation detaches nobody;
`StartedTogether` needs that while the ready ones are saved, everybody not yet saved
is still to be saved. A join holds less, because others insert and save players beside
it: only that whom it has found is in the night under the name asked for (`Found`).
TLC checked `SInv` on the instance of `SessionSerial` before it was proved.

`PlannerProofs.tla`, about the operators of `Planner`:

| theorem | states |
|---|---|
| `SplitIsEven` | the sizes of a split add up, differ by at most one, and the larger come first |
| `SuggestedCountFits` | the suggested number of teams is within the limits as far as the demands are |
| `PlanIsFormable` | a plan without warnings has a valid headcount, and its teams can be formed |
| `SuggestionsFormable` | every number of teams that is suggested is accepted by the validation |

`TeamsProofs.tla`, for any number of handlers, players, games and teams:

| theorem | states |
|---|---|
| `TasksHold` | the inductive invariant `IInv` |
| `TeamsTypeCorrect` | `TypeOK` |
| `PlacingIsFair` | `PlacedFairly` |
| `SerialHolds` | the inductive invariant `SInv`, if requests are served one by one (`OneAtATime`) |
| `FormingIsComplete`, `NobodyInTwoTeams`, `SwapsLoseNobody` | then also `FormedAsPlaced`, `OneTeamEach`, `NobodyDropped` |

`PlacedFairly` looks at a task when all are placed; the invariant says how far each way of
placing has got. While dealing, the parts before the one in turn have one player more
than the others (`Dealt`). In a draft that goes up, the parts before the one in turn have an odd number and the
others one less; in one that comes back, the parts behind it have an even number and
the others one less (`Drafted`): the double turn at either end is what keeps this.
Slices are full before the one in turn and empty behind it, and what is left to place
is what is missing (`Sliced`), which needs the sum of the sizes of `SplitEvenly`. That
nobody is placed twice or forgotten is `Tiled`. Counting uses the cardinalities of the
library's theorems. `TaskOK` says at which step which fields of a task are known, without
which an index into the teams could be out of range.

The others hold for requests served one by one, of which any step may fail and leave
its half of the work. `FilledOK` says how far forming has got: the teams of the game
are just those that are listed, the ones before the next are emptied or filled, the rest
are not yet. `HeldOK` says what a request that moves one player still has to save: the rows
as they stand, with that player moved (`Moved`), added (`Joined`) or removed (`Left`). `Apart` says
that teams of one game have nobody in common, at every step and not only between
requests. While teams are filled that rests on those still empty and on the parts
being disjoint (`Tiled`), and in a reassignment on the player being in no team between
leaving and joining. It is given up for good when a host has filled a team by hand or
moved one (`byHand`), which checks nothing of the kind.

`InvitesProofs.tla`, for any number of requests, listeners, guests and invites:

| theorem | states |
|---|---|
| `InvitesTypeCorrect` | `TypeOK`, under any overlap |
| `OnlyGoingBringPlusOnes` | `PlusOnesOnlyGoing`, under any overlap |
| `SelfRsvpMakesOne`, `ReminderOnce`, `LinkIsKept` | `SelfRsvpOnce`, `RemindedOnce`, `LinkKept`, if answers, removals and the cron job run alone (`ServedAlone`) |

The first two survive stale saves because every copy of an invite that a request, a
listener or the job holds is consistent by itself (`FineRow`). The other three are
action properties that follow from what `HeldInv` says of those copies: each has
the mails marked as sent that its row has, an answer has its row's link as well, the
batch of the cron job is the rows as they stand, without a recorded mail, and a new
invite of the open form has an address that no row has.

`ChatProofs.tla`, for every limit, window, length of pages and number of connections:

| theorem | states |
|---|---|
| `LimiterIsExact` | `RateExact` |
| `ChatHolds` | the inductive invariant `LimiterInv /\ HistoryInv /\ SendsOK` |
| `PagingMissesNothing` | `NothingMissed` |
| `ChatTypeCorrect` | `TypeOK` |

`LimiterInv` says that the map remembers times of sends that passed, under their numbers,
and all of those within the window (`Remembered`), that those are in order of time
(`InOrder`), and that no `RateMax + 1` of them lie in a window (`Spread`). That clocks do
not run backwards is part of the model. `NothingMissed` speaks of a client that has
paged to the end; `HistoryInv` says of every client and every told message what is
so before: it was seen, or another message of its millisecond was, or it lies before
the cursor and the next pages bring it (`Ahead`). A told message cannot come in before
a cursor that has passed it, as whoever is in the room is told. A cursor that is purged
starts over. What the client has seen are settled messages only (`Settled`), since those keep
their times.

`ScoringProofs.tla`, for any finite sets of score rows, teams and players, any games and
any points:

| theorem | states |
|---|---|
| `ScoringHolds` | the inductive invariant `ScoringInv` |
| `ScoringTypeCorrect` | `TypeOK` |
| `StandingsAreFair` | `RankedFairly` |
| `BoardAgrees` | `BoardAddsUp` |
| `StatisticsAreEarned` | `WinsAreEarned` |

The model adds with a fold over a set and gives ranks with a recursive function. The
proofs argue by a least counterexample instead of by induction: a nonempty collection of
subsets of a finite set has one that no other is within (`LeastSet`, from the library's
well-founded order of finite sets). A function `h` on the subsets of a set is
`Additive` for `f` if it is 0 for the empty set and grows by `f[x]` with each `x`. There
is one (`AdditiveExists`), and the fold computes it whatever elements it chooses
(`FoldIsAdditive`); so the sums of disjoint sets add up (`SumOfUnion`), and it does not
matter whether rows are added at once, by round or by game (`SumOfGroups`), which is why
standings and leaderboard agree though they group the rows differently. The loop
that gives the ranks is shown to count who has more points (`RanksCountBetter`): no other
function satisfies its recursion. `StandingsOf` collects what the standings say of
totals sorted in any order; ranks, ties and winner follow from it.

`RankedFairly` and `BoardAddsUp` hold of any score rows, so for them the invariant is only
that rows are rows (`RowsOK`). `WinsAreEarned` is about results that outlive the rows:
`ScoringInv` adds that ranks and the tie of each result still agree with its final
totals (`FinalOK`), that its winner exists and is first by itself (`WinnerOK`), and that
an entrant who is first by itself is the winner unless it is a team that is deleted or was
not in the line-up of the completion (`LeaderOK`). That is needed because `WinsAreEarned` says both:
whoever won had alone the most points, and whoever had is counted, but for such a team. TLC
checked `ScoringInv` on the instance of `Scoring.cfg` before it was proved.

## 6. Only model-checked

Liveness (`TurnsGoRound`, `CompletionReachesHistory`, `GoneGoesOffline`), which is out of
reach of the prover under fairness; the finding, which is a trace. Every invariant that a
passing run checks, and every action property and refinement, is also a theorem, some of them
under the restriction to one handler at a time that the run makes as well. What is only
checked holds for the bounds of section 3.

## 7. Not modelled

* **Broadcasts** (`game.gateway.ts` and its helpers): best-effort output that no handler reads
  back. `Chat` has the one emission that a property needs.
* **Mail**: output; that a mail was or was not sent is an input of `Invites`.
* **Authentication and authorisation**: token checks by libraries and single reads before a
  handler begins. The models take requests that have passed them.
* **Game library, games masters, users**: CRUD of single rows and lists; a host code is
  drawn and checked like the join code of `Session`.
* **History pages, averages, favourite games, sorted lists of players, dashboards**: reads
  that put together rows.
* **DTOs, error formatting, health, configuration**: no state. Migrations are modelled where
  a constraint they declare decides a step.
* Deleting a user, and of players in the middle of a scored game (their score rows lose
  the player): not in `Scoring`. A stale edit that inserts a deleted score again: not
  there either, as its requests are single actions.
