-------------------------------- MODULE Teams --------------------------------
(***************************************************************************)
(* The teams of the games of one night and who is in them, as TeamService, *)
(* TeamFormationService and TeamAssignmentService change them: forming,    *)
(* rebalancing and shuffling teams, assigning, swapping and reassigning    *)
(* players, dissolving and moving teams.                                   *)
(*                                                                         *)
(* A handler is a sequence of actions, one per await that matters.  It     *)
(* keeps the rows it has loaded and saves them whole: game and members.    *)
(* The loops that place players, which await nothing, are one action per   *)
(* player, on what only the handler knows.                                 *)
(***************************************************************************)
EXTENDS Planner, Sequences

CONSTANTS
    Handlers,    \* requests that are being served
    Players,     \* players of the session
    Games,       \* games of the session
    Teams,       \* ids of team rows (bound: rows that exist at a time)
    Demand,      \* what the library entry of the games asks for
    Ops,         \* the requests that are made
    None

ASSUME ConstantsAssumption ==
    /\ None \notin Players \cup Games \cup Teams
    /\ Demand \in Entry /\ IsFiniteSet(Players) /\ IsFiniteSet(Teams)

VARIABLES
    teams,       \* the rows of table team, with the members of the join table
    task,        \* what each handler is doing
    byHand       \* ghost: a host has filled a team by hand, or moved one

vars == <<teams, task, byHand>>

\* How players are placed: dealt out in turns (strategies RANDOM and AUTOMATIC),
\* by a snake draft (BALANCED), in slices (shufflePlayers), or not (MANUAL).
Ways == {"deal", "snake", "slices", "manual"}

TeamRow == [game : Games, members : SUBSET Players]

ASSUME NoneAssumption == None \notin TeamRow

\* A handler: its request and next step; of a bulk request the game, the way, the
\* teams in the order of their positions, the players to place, those not placed
\* yet, the part of each team, whose turn it is, the direction of the draft and
\* the team that is saved next; of another one the player and the rows to save.
NoTask == [op |-> "none", pc |-> "idle", game |-> None, way |-> "manual",
           slots |-> <<>>, all |-> {}, pool |-> {}, parts |-> <<>>,
           cur |-> 1, dir |-> 1, next |-> 1,
           who |-> None, rows |-> [t \in {} |-> None]]

TypeOK ==
    /\ byHand \in BOOLEAN
    /\ teams \in [Teams -> TeamRow \cup {None}]
    /\ \A h \in Handlers : LET k == task[h] IN
        /\ k.op \in Ops \cup {"none"} /\ k.game \in Games \cup {None} /\ k.way \in Ways
        /\ k.slots \in Seq(Teams) /\ k.parts \in Seq(SUBSET Players)
        /\ k.all \subseteq Players /\ k.pool \subseteq k.all
        /\ k.cur \in Nat \ {0} /\ k.dir \in {1, -1}
        /\ k.next = 1 \/ k.next \in DOMAIN k.slots
        /\ k.who \in Players \cup {None}
        /\ DOMAIN k.rows \subseteq Teams
        /\ \A t \in DOMAIN k.rows : k.rows[t] \in TeamRow

Exists(t) == teams[t] # None
TeamsOf(g) == {t \in Teams : Exists(t) /\ teams[t].game = g}
In(p, g) == {t \in TeamsOf(g) : p \in teams[t].members}

\* A team that was deleted since is inserted again.
Saved(rows) == [t \in Teams |-> IF t \in DOMAIN rows THEN rows[t] ELSE teams[t]]
Deleted(ts) == [t \in Teams |-> IF t \in ts THEN None ELSE teams[t]]

\* Ids for new rows: no row has them and no handler remembers them.
Unused ==
    {t \in Teams : /\ ~Exists(t)
                   /\ \A h \in Handlers :
                        t \notin DOMAIN task[h].rows
                                 \cup {task[h].slots[i] : i \in DOMAIN task[h].slots}}

\* ts in the order of their positions, which is any order.
Orders(ts) ==
    {s \in [1..Cardinality(ts) -> ts] : \A i, j \in DOMAIN s : s[i] = s[j] => i = j}

Init ==
    /\ teams = [t \in Teams |-> None]
    /\ task = [h \in Handlers |-> NoTask]
    /\ byHand = FALSE

-----------------------------------------------------------------------------
Request(h, op) == op \in Ops /\ task[h] = NoTask
At(h, pc) == task[h].pc = pc
Done(h) == task' = [task EXCEPT ![h] = NoTask]
Refused(h) == Done(h) /\ UNCHANGED teams

\* createTeamsForGame has loaded the game with its players, of whom any may be
\* disconnected, and validated the request.
CreateTeams(h, g, n, way, active) ==
    /\ Request(h, "create") /\ way # "slices"
    /\ active # {} /\ Formable(Cardinality(active), n, Demand)
    /\ n <= Cardinality(Unused \cup TeamsOf(g))
    /\ task' = [task EXCEPT ![h] = [NoTask EXCEPT !.op = "create", !.pc = "clear",
                    !.game = g, !.way = way, !.all = active, !.next = 1,
                    !.parts = [i \in 1..n |-> {}]]]
    /\ UNCHANGED teams

ClearTeams(h, g) ==
    /\ Request(h, "clear")
    /\ task' = [task EXCEPT ![h] = [NoTask EXCEPT !.op = "clear", !.pc = "clear",
                                        !.game = g]]
    /\ UNCHANGED teams

\* clearTeamsForGame reads the teams of the game, then removes those.
FindExisting(h) ==
    /\ At(h, "clear") /\ UNCHANGED teams
    /\ task' = [task EXCEPT ![h].pc = "remove",
                            ![h].rows = [t \in TeamsOf(task[h].game) |-> teams[t]]]

\* Mutant of RemoveExisting: only the first of the old teams is removed.
RemoveExistingOne(h) ==
    /\ At(h, "remove")
    /\ \E t \in DOMAIN task[h].rows : teams' = Deleted({t})
    /\ IF task[h].op = "create"
       THEN task' = [task EXCEPT ![h].pc = "insert", ![h].rows = NoTask.rows]
       ELSE Done(h)

RemoveExisting(h) ==
    /\ At(h, "remove")
    /\ teams' = Deleted(DOMAIN task[h].rows)
    /\ IF task[h].op = "create"
       THEN task' = [task EXCEPT ![h].pc = "insert", ![h].rows = NoTask.rows]
       ELSE Done(h)

\* All new teams, empty, in one transaction.
InsertTeams(h) ==
    /\ At(h, "insert")
    /\ \E ts \in SUBSET Unused :
        /\ Cardinality(ts) = Len(task[h].parts)
        /\ teams' = Saved([t \in ts |-> [game |-> task[h].game, members |-> {}]])
        /\ \E s \in Orders(ts) :
            task' = [task EXCEPT ![h].pc = "place", ![h].slots = s,
                        ![h].pool = IF task[h].way = "manual" THEN {} ELSE task[h].all]

\* rebalanceTeams and shufflePlayers load the teams of the game.
Redistribute(h, g, op, way) ==
    /\ Request(h, op) /\ TeamsOf(g) # {}
    /\ (op = "rebalance" /\ way # "slices") \/ (op = "shuffle" /\ way = "slices")
    /\ \E s \in Orders(TeamsOf(g)) :
        task' = [task EXCEPT ![h] = [NoTask EXCEPT !.op = op, !.pc = "players",
                    !.game = g, !.way = way, !.slots = s,
                    !.parts = [i \in DOMAIN s |-> {}]]]
    /\ UNCHANGED teams

\* Then the game with the players.
FindPlayers(h, active) ==
    /\ At(h, "players") /\ UNCHANGED teams
    /\ task' = [task EXCEPT ![h].pc = "empty", ![h].all = active,
                    ![h].pool = IF task[h].way = "manual" THEN {} ELSE active]

SaveSlot(h, members) ==
    teams' = Saved([t \in {task[h].slots[task[h].next]} |->
                        [game |-> task[h].game, members |-> members]])

\* Mutant of EmptySlot: the second loop goes on where the first one ended.
EmptySlotRunsOn(h) ==
    /\ At(h, "empty")
    /\ SaveSlot(h, {})
    /\ task' = [task EXCEPT ![h].next = @ + 1,
                    ![h].pc = IF task[h].next = Len(task[h].slots) THEN "place" ELSE @]

\* All teams are emptied, one save after the other.
EmptySlot(h) ==
    /\ At(h, "empty")
    /\ SaveSlot(h, {})
    /\ task' = IF task[h].next = Len(task[h].slots)
               THEN [task EXCEPT ![h].pc = "place", ![h].next = 1]
               ELSE [task EXCEPT ![h].next = @ + 1]

-----------------------------------------------------------------------------
(* Placing the players: k is the task, n its number of teams.                *)

\* shufflePlayers: the size of the i-th slice.
SliceSize(k, n, i) == SplitEvenly(Cardinality(k.all), n)[i]

\* The next team to get a player, after part cur has got one.
DealTurn(k, n) == (k.cur % n) + 1
SliceTurn(k, n) ==
    IF Cardinality(k.parts[k.cur]) >= SliceSize(k, n, k.cur) THEN k.cur + 1 ELSE k.cur

\* Mutant of AtEnd: the draft turns round at an end, whichever way it goes.
AtEndAnyWay(k, n) == k.cur = n \/ k.cur = 1

\* balancedAssignment: at either end the draft turns round, and that team picks
\* twice.
AtEnd(k, n) == (k.dir = 1 /\ k.cur = n) \/ (k.dir = -1 /\ k.cur = 1)
SnakeTurn(k, n) == IF AtEnd(k, n) THEN k.cur ELSE k.cur + k.dir
SnakeDir(k, n) == IF AtEnd(k, n) THEN -k.dir ELSE k.dir

Turned(k) ==
    LET n == Len(k.parts) IN
    CASE k.way = "deal" -> [k EXCEPT !.cur = DealTurn(k, n)]
      [] k.way = "snake" -> [k EXCEPT !.cur = SnakeTurn(k, n), !.dir = SnakeDir(k, n)]
      [] k.way = "slices" -> [k EXCEPT !.cur = SliceTurn(k, n)]
      [] OTHER -> k

\* The players come in any order: shuffled, or by the time they joined.
Place(h, p) ==
    LET k == task[h] IN
    /\ At(h, "place") /\ p \in k.pool
    /\ task' = [task EXCEPT ![h] =
                    Turned([k EXCEPT !.parts = [k.parts EXCEPT ![k.cur] = @ \cup {p}],
                                     !.pool = @ \ {p}])]
    /\ UNCHANGED teams

\* The parts are saved, team by team.
SavePart(h) ==
    /\ At(h, "place") /\ task[h].pool = {}
    /\ SaveSlot(h, task[h].parts[task[h].next])
    /\ task' = IF task[h].next = Len(task[h].slots)
               THEN [task EXCEPT ![h].pc = "reply"]
               ELSE [task EXCEPT ![h].next = @ + 1]

Reply(h) == At(h, "reply") /\ Refused(h)

-----------------------------------------------------------------------------
(* Single teams and players.                                                 *)

Hold(h, op, pc, p, rows) ==
    /\ task' = [task EXCEPT ![h] = [NoTask EXCEPT !.op = op, !.pc = pc, !.who = p,
                                        !.rows = rows]]
    /\ UNCHANGED teams

With(t, members) == [game |-> teams[t].game, members |-> members]

\* manualAssignPlayers: the payload f names no player twice.
ManualAssign(h, g, f) ==
    /\ Request(h, "manual") /\ DOMAIN f # {} /\ DOMAIN f \subseteq TeamsOf(g)
    /\ \A t, u \in DOMAIN f : t # u => f[t] \cap f[u] = {}
    /\ Hold(h, "manual", "one", None, [t \in DOMAIN f |-> With(t, f[t])])

\* One team after the other; teams that are not named keep their members.
SaveOne(h, t) ==
    /\ At(h, "one") /\ t \in DOMAIN task[h].rows
    /\ teams' = Saved([u \in {t} |-> task[h].rows[t]])
    /\ LET left == DOMAIN task[h].rows \ {t} IN
       IF left = {} THEN Done(h)
       ELSE task' = [task EXCEPT ![h].rows = [u \in left |-> @[u]]]

\* swapPlayerToTeam: from and to may be the same team, of which two copies are
\* loaded; the one saved last has the player.
SwapPlayer(h, p, from, to) ==
    /\ Request(h, "swap") /\ Exists(from) /\ Exists(to)
    /\ teams[from].game = teams[to].game /\ p \in teams[from].members
    /\ Hold(h, "swap", "both", p,
            [t \in {from, to} |-> IF t = to THEN With(t, teams[t].members \cup {p})
                                  ELSE With(t, teams[t].members \ {p})])

\* Mutant of SaveBoth: the two teams are saved in one transaction each.
SaveBothInTurn(h) ==
    /\ At(h, "both")
    /\ \E t \in DOMAIN task[h].rows :
        LET left == DOMAIN task[h].rows \ {t} IN
        /\ teams' = Saved([u \in {t} |-> task[h].rows[t]])
        /\ IF left = {} THEN Done(h)
           ELSE task' = [task EXCEPT ![h].rows = [u \in left |-> @[u]]]

\* Both teams in one transaction.
SaveBoth(h) ==
    /\ At(h, "both")
    /\ teams' = Saved(task[h].rows)
    /\ Done(h)

\* dissolveTeam and delete.
DissolveTeam(h, t) ==
    /\ Request(h, "dissolve") /\ Exists(t)
    /\ Hold(h, "dissolve", "remove", None, [u \in {t} |-> teams[t]])

\* Mutant of ReassignPlayer: the old team of the player is not looked for.
ReassignPlayerOnly(h, p, to) ==
    /\ Request(h, "reassign") /\ Exists(to)
    /\ Hold(h, "reassign", "add", p, [t \in {to} |-> With(to, teams[to].members \cup {p})])

\* reassignPlayer loads the player with his teams, and the new team; a team of
\* his in the same game, the first that is found, is to be saved without him.
ReassignPlayer(h, p, to) ==
    /\ Request(h, "reassign") /\ Exists(to)
    /\ LET game == teams[to].game
           row == [t \in {to} |-> With(to, teams[to].members \cup {p})] IN
       IF In(p, game) = {} THEN Hold(h, "reassign", "add", p, row)
       ELSE \E old \in In(p, game) :
            IF old = to
            THEN Hold(h, "reassign", "again", p,
                      [t \in {to} |-> With(to, teams[to].members \ {p})])
            ELSE Hold(h, "reassign", "leave", p,
                      [t \in {old, to} |->
                            IF t = to THEN row[t] ELSE With(t, teams[t].members \ {p})])

\* The old team is saved first ...
LeaveTeam(h, t) ==
    /\ At(h, "leave") /\ t \in DOMAIN task[h].rows /\ task[h].who \notin task[h].rows[t].members
    /\ teams' = Saved([u \in {t} |-> task[h].rows[t]])
    /\ task' = [task EXCEPT ![h].pc = "add", ![h].rows = [u \in DOMAIN @ \ {t} |-> @[u]]]

\* ... and if it is the new one as well, the copy of that which is saved next has
\* the player twice: the second membership violates the join table's key.
LeaveSame(h) ==
    /\ At(h, "again")
    /\ teams' = Saved(task[h].rows)
    /\ Done(h)

\* ... then the new one.
JoinTeam(h) ==
    /\ At(h, "add")
    /\ teams' = Saved(task[h].rows)
    /\ Done(h)

\* create of TeamService: an empty team.
AddTeam(h, g) ==
    /\ Request(h, "add")
    /\ \E t \in Unused :
        teams' = [teams EXCEPT ![t] = [game |-> g, members |-> {}]]
    /\ UNCHANGED task

\* update: the team may move to another game.
UpdateTeam(h, t, g) ==
    /\ Request(h, "update") /\ Exists(t)
    /\ Hold(h, "update", "both", None,
            [u \in {t} |-> [game |-> g, members |-> teams[t].members]])

-----------------------------------------------------------------------------
\* A statement fails, or the process stops, between two steps.
Fail(h) ==
    /\ "fail" \in Ops /\ task[h] # NoTask
    /\ Refused(h)

BulkStep(h) ==
    \/ \E g \in Games :
        \/ ClearTeams(h, g)
        \/ \E n \in 2..MaxTeams, way \in Ways, active \in SUBSET Players :
            CreateTeams(h, g, n, way, active)
        \/ \E op \in {"rebalance", "shuffle"}, way \in Ways : Redistribute(h, g, op, way)
    \/ \E active \in SUBSET Players : FindPlayers(h, active)
    \/ FindExisting(h) \/ RemoveExisting(h) \/ InsertTeams(h)
    \/ EmptySlot(h) \/ SavePart(h) \/ Reply(h)
    \/ \E p \in Players : Place(h, p)

SingleStep(h) ==
    \/ \E g \in Games :
        \/ AddTeam(h, g)
        \/ \E ts \in SUBSET Teams : \E f \in [ts -> SUBSET Players] : ManualAssign(h, g, f)
    \/ \E t \in Teams :
        \/ SaveOne(h, t) \/ LeaveTeam(h, t) \/ DissolveTeam(h, t)
        \/ \E g \in Games : UpdateTeam(h, t, g)
        \/ \E p \in Players :
            \/ ReassignPlayer(h, p, t)
            \/ \E u \in Teams : SwapPlayer(h, p, t, u)
    \/ SaveBoth(h) \/ LeaveSame(h) \/ JoinTeam(h)

Next ==
    \E h \in Handlers :
        /\ BulkStep(h) \/ SingleStep(h) \/ Fail(h)
        /\ byHand' = (byHand \/ task[h].op \in {"manual", "update"})

Spec == Init /\ [][Next]_vars

-----------------------------------------------------------------------------
(* Properties.                                                               *)

Sizes(k) == {Cardinality(k.parts[i]) : i \in DOMAIN k.parts}

\* No way of placing players forgets one, places one twice, or makes one team
\* more than a player larger than another.
PlacedFairly ==
    \A h \in Handlers : LET k == task[h] IN
        k.pc \in {"place", "reply"} /\ k.way # "manual" /\ k.pool = {} =>
            /\ UNION {k.parts[i] : i \in DOMAIN k.parts} = k.all
            /\ \A i, j \in DOMAIN k.parts : i # j => k.parts[i] \cap k.parts[j] = {}
            /\ \A a, b \in Sizes(k) : a <= b + 1

\* When forming, rebalancing or shuffling is answered, the game's teams are the
\* ones that were placed, with those members: no team of an earlier set is left.
FormedAsPlaced ==
    \A h \in Handlers : LET k == task[h] IN
        k.pc = "reply" =>
            /\ TeamsOf(k.game) = {k.slots[i] : i \in DOMAIN k.slots}
            /\ \A i \in DOMAIN k.slots : teams[k.slots[i]].members = k.parts[i]

\* A player is in at most one team of a game, whichever step of forming,
\* rebalancing, shuffling, swapping and reassigning fails, unless a host has
\* filled teams by hand or moved one from game to game: these check nothing.
OneTeamEach ==
    ~byHand => \A p \in Players, g \in Games : Cardinality(In(p, g)) <= 1

\* A swap that fails half-way loses nobody, and a player who is reassigned from
\* another team is without one only until his handler goes on to add him.
NobodyDropped ==
    [][\A p \in Players, g \in Games : In(p, g) # {} /\ In(p, g)' = {}
        => \E h \in Handlers :
            /\ task[h] # task'[h]
            /\ task[h].op # "swap"
            /\ task[h].pc = "leave" => task'[h].pc = "add" /\ task'[h].who = p]_vars
=============================================================================
