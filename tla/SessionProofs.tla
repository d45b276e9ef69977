--------------------------- MODULE SessionProofs ---------------------------
(***************************************************************************)
(* Theorems about Session, for any numbers of requests, players, games,    *)
(* teams and library entries.  The types hold whatever is served beside    *)
(* one another; the rest needs that nothing but joins, enrolments and the  *)
(* playing of games is.                                                    *)
(***************************************************************************)
EXTENDS Session, TLAPS

-----------------------------------------------------------------------------
(* Types.                                                                    *)

TableOK ==
    /\ session \in SessionRow \cup {None}
    /\ players \in [Players -> PlayerRow \cup {None}]
    /\ games \in [Games -> GameRow \cup {None}]
    /\ teams \in [Teams -> TeamRow \cup {None}]

\* What a task holds, by its request.
TaskOK(k) ==
    /\ k \in Task
    /\ k.op \in {"start", "player", "rename", "join"} => k.rows \in PlayerRows
    /\ k.op = "cancel" => k.rows \in GameRows
    /\ k.op \in {"team", "kick"} => k.rows \in TeamRows
    /\ k.op \in {"complete", "cancel", "update"} \/ (k.pc = "players" /\ k.op = "start")
        => k.ses \in SessionRow
    /\ k.op = "start" => k.todo \subseteq DOMAIN k.rows /\ k.pc \in {"load", "players"}
    /\ k.op \in {"join", "enrol"} => k.todo \subseteq Names
    /\ k.op \in {"addGames", "removeGame", "applyPlan"} => k.todo \subseteq Libs
    /\ k.pc = "insert" => k.op \in {"join", "enrol", "addGames"}

TypeInv == TableOK /\ task \in [Handlers -> Task] /\ \A h \in Handlers : TaskOK(task[h])

LEMMA InPartial ==
    ASSUME NEW S, NEW T, NEW f
    PROVE  f \in Partial(S, T) <=> DOMAIN f \subseteq S /\ f \in [DOMAIN f -> T]
  BY DEF Partial

LEMMA NoRows ==
    /\ NoTask.rows \in PlayerRows /\ NoTask.rows \in GameRows /\ NoTask.rows \in TeamRows
    /\ DOMAIN NoTask.rows = {}
  <1>1. NoTask.rows = [i \in {} |-> None]
    BY DEF NoTask
  <1>2. \A T : [i \in {} |-> None] \in [{} -> T]
    OBVIOUS
  <1> QED BY <1>1, <1>2, InPartial DEF PlayerRows, GameRows, TeamRows

LEMMA NoTaskIs == NoTask \in Task
  <1>1. ASSUME NEW rows \in PlayerRows \cup GameRows \cup TeamRows
        PROVE  [op |-> "none", pc |-> "idle", ses |-> None, rows |-> rows,
                list |-> {}, todo |-> {}] \in Task
    BY DEF Task, Steps
  <1>2. [i \in {} |-> None] \in PlayerRows \cup GameRows \cup TeamRows
    BY NoRows DEF NoTask
  <1> QED BY <1>1, <1>2 DEF NoTask

LEMMA NoTaskOK == TaskOK(NoTask)
  <1>1. /\ NoTask.op = "none" /\ NoTask.pc = "idle"
    BY DEF NoTask
  <1> QED BY <1>1, NoTaskIs DEF TaskOK

LEMMA TaskKept ==
    ASSUME TypeInv, NEW h \in Handlers, NEW k, TaskOK(k),
           task' = [task EXCEPT ![h] = k], TableOK'
    PROVE  TypeInv'
  BY DEF TypeInv, TaskOK

LEMMA DoneKept ==
    ASSUME TypeInv, NEW h \in Handlers, Done(h), TableOK'
    PROVE  TypeInv'
  BY NoTaskOK, TaskKept DEF Done

LEMMA TableKept ==
    ASSUME TypeInv, UNCHANGED db
    PROVE  TableOK'
  BY DEF TypeInv, TableOK, db

LEMMA RefusedKept ==
    ASSUME TypeInv, NEW h \in Handlers, Refused(h)
    PROVE  TypeInv'
  BY DoneKept, TableKept DEF Refused

\* A request begins, or goes on, with a task of these parts.
Opens(h, op, pc, ses, rows, list, todo) ==
    \E k \in Task :
        /\ task' = [task EXCEPT ![h] = k]
        /\ k.op = op /\ k.pc = pc /\ k.ses = ses
        /\ k.rows = rows /\ k.list = list /\ k.todo = todo

PartsOK(op, pc, ses, rows, list, todo) ==
    /\ op \in AllOps /\ pc \in Steps /\ ses \in SessionRow \cup {None}
    /\ rows \in PlayerRows \cup GameRows \cup TeamRows
    /\ list \in SUBSET (Players \cup Games \cup Teams)
    /\ todo \in SUBSET (Players \cup Libs \cup Names)

LEMMA OpensKept ==
    ASSUME TypeInv, NEW h \in Handlers, NEW op, NEW pc, NEW ses, NEW rows, NEW list, NEW todo,
           Opens(h, op, pc, ses, rows, list, todo),
           op \in {"start", "player", "rename", "join"} => rows \in PlayerRows,
           op = "cancel" => rows \in GameRows,
           op \in {"team", "kick"} => rows \in TeamRows,
           op \in {"complete", "cancel", "update"} \/ (pc = "players" /\ op = "start")
                => ses \in SessionRow,
           op = "start" => todo \subseteq DOMAIN rows /\ pc \in {"load", "players"},
           op \in {"join", "enrol"} => todo \subseteq Names,
           op \in {"addGames", "removeGame", "applyPlan"} => todo \subseteq Libs,
           pc = "insert" => op \in {"join", "enrol", "addGames"},
           UNCHANGED db
    PROVE  TypeInv'
  <1>1. PICK k \in Task :
            /\ task' = [task EXCEPT ![h] = k]
            /\ k.op = op /\ k.pc = pc /\ k.ses = ses
            /\ k.rows = rows /\ k.list = list /\ k.todo = todo
    BY DEF Opens
  <1>2. TaskOK(k)
    BY <1>1 DEF TaskOK
  <1> QED BY <1>1, <1>2, TaskKept, TableKept

\* What the requests begin with, as Begin is used in Session.
LEMMA OpensPlain ==
    ASSUME NEW h \in Handlers, NEW op, NEW pc, NEW list, NEW todo,
           PartsOK(op, pc, None, NoTask.rows, list, todo)
    PROVE  /\ Begin(h, [NoTask EXCEPT !.op = op, !.pc = pc])
                => Opens(h, op, pc, None, NoTask.rows, {}, {})
           /\ Begin(h, [NoTask EXCEPT !.op = op, !.pc = pc, !.list = list])
                => Opens(h, op, pc, None, NoTask.rows, list, {})
           /\ Begin(h, [NoTask EXCEPT !.op = op, !.pc = pc, !.todo = todo])
                => Opens(h, op, pc, None, NoTask.rows, {}, todo)
           /\ Begin(h, [NoTask EXCEPT !.op = op, !.pc = pc, !.todo = todo, !.list = list])
                => Opens(h, op, pc, None, NoTask.rows, list, todo)
  <1>1. /\ NoTask \in Task /\ NoTask.ses = None /\ NoTask.list = {} /\ NoTask.todo = {}
    BY NoTaskIs DEF NoTask
  <1> DEFINE k1 == [NoTask EXCEPT !.op = op, !.pc = pc]
             k2 == [NoTask EXCEPT !.op = op, !.pc = pc, !.list = list]
             k3 == [NoTask EXCEPT !.op = op, !.pc = pc, !.todo = todo]
             k4 == [NoTask EXCEPT !.op = op, !.pc = pc, !.todo = todo, !.list = list]
  <1>2. k1 \in Task /\ k2 \in Task /\ k3 \in Task /\ k4 \in Task
    BY <1>1 DEF Task, PartsOK
  <1>3. /\ k1.op = op /\ k1.pc = pc /\ k1.ses = None /\ k1.rows = NoTask.rows /\ k1.list = {}
        /\ k1.todo = {}
        /\ k2.op = op /\ k2.pc = pc /\ k2.ses = None /\ k2.rows = NoTask.rows /\ k2.list = list
        /\ k2.todo = {}
        /\ k3.op = op /\ k3.pc = pc /\ k3.ses = None /\ k3.rows = NoTask.rows /\ k3.list = {}
        /\ k3.todo = todo
        /\ k4.op = op /\ k4.pc = pc /\ k4.ses = None /\ k4.rows = NoTask.rows /\ k4.list = list
        /\ k4.todo = todo
    BY <1>1 DEF Task
  <1> HIDE DEF k1, k2, k3, k4
  <1>4. /\ Begin(h, k1) => Opens(h, op, pc, None, NoTask.rows, {}, {})
        /\ Begin(h, k2) => Opens(h, op, pc, None, NoTask.rows, list, {})
        /\ Begin(h, k3) => Opens(h, op, pc, None, NoTask.rows, {}, todo)
        /\ Begin(h, k4) => Opens(h, op, pc, None, NoTask.rows, list, todo)
    BY <1>2, <1>3 DEF Begin, Opens
  <1> QED BY <1>4 DEF k1, k2, k3, k4

LEMMA OpensSession ==
    ASSUME NEW h \in Handlers, NEW op, NEW pc, NEW ses, NEW list, NEW todo,
           PartsOK(op, pc, ses, NoTask.rows, list, todo)
    PROVE  /\ Begin(h, [NoTask EXCEPT !.op = op, !.pc = pc, !.ses = ses])
                => Opens(h, op, pc, ses, NoTask.rows, {}, {})
           /\ Begin(h, [NoTask EXCEPT !.op = op, !.pc = pc, !.ses = ses, !.list = list])
                => Opens(h, op, pc, ses, NoTask.rows, list, {})
           /\ Begin(h, [NoTask EXCEPT !.op = op, !.pc = pc, !.ses = ses, !.todo = todo])
                => Opens(h, op, pc, ses, NoTask.rows, {}, todo)
  <1>1. /\ NoTask \in Task /\ NoTask.list = {} /\ NoTask.todo = {}
    BY NoTaskIs DEF NoTask
  <1> DEFINE k1 == [NoTask EXCEPT !.op = op, !.pc = pc, !.ses = ses]
             k2 == [NoTask EXCEPT !.op = op, !.pc = pc, !.ses = ses, !.list = list]
             k3 == [NoTask EXCEPT !.op = op, !.pc = pc, !.ses = ses, !.todo = todo]
  <1>2. k1 \in Task /\ k2 \in Task /\ k3 \in Task
    BY <1>1 DEF Task, PartsOK
  <1>3. /\ k1.op = op /\ k1.pc = pc /\ k1.ses = ses /\ k1.rows = NoTask.rows /\ k1.list = {}
        /\ k1.todo = {}
        /\ k2.op = op /\ k2.pc = pc /\ k2.ses = ses /\ k2.rows = NoTask.rows /\ k2.list = list
        /\ k2.todo = {}
        /\ k3.op = op /\ k3.pc = pc /\ k3.ses = ses /\ k3.rows = NoTask.rows /\ k3.list = {}
        /\ k3.todo = todo
    BY <1>1 DEF Task
  <1> HIDE DEF k1, k2, k3
  <1>4. /\ Begin(h, k1) => Opens(h, op, pc, ses, NoTask.rows, {}, {})
        /\ Begin(h, k2) => Opens(h, op, pc, ses, NoTask.rows, list, {})
        /\ Begin(h, k3) => Opens(h, op, pc, ses, NoTask.rows, {}, todo)
    BY <1>2, <1>3 DEF Begin, Opens
  <1> QED BY <1>4 DEF k1, k2, k3

LEMMA OpensRows ==
    ASSUME NEW h \in Handlers, NEW op, NEW pc, NEW ses, NEW rows, NEW list, NEW todo,
           PartsOK(op, pc, ses, rows, list, todo)
    PROVE  /\ Begin(h, [NoTask EXCEPT !.op = op, !.pc = pc, !.rows = rows])
                => Opens(h, op, pc, None, rows, {}, {})
           /\ Begin(h, [NoTask EXCEPT !.op = op, !.pc = pc, !.ses = ses, !.list = list,
                                      !.rows = rows])
                => Opens(h, op, pc, ses, rows, list, {})
           /\ Begin(h, [NoTask EXCEPT !.op = op, !.pc = pc, !.ses = ses, !.rows = rows,
                                      !.list = list, !.todo = todo])
                => Opens(h, op, pc, ses, rows, list, todo)
           /\ Begin(h, [NoTask EXCEPT !.op = op, !.pc = pc, !.ses = ses, !.list = list,
                                      !.todo = todo, !.rows = rows])
                => Opens(h, op, pc, ses, rows, list, todo)
  <1>1. /\ NoTask \in Task /\ NoTask.ses = None /\ NoTask.list = {} /\ NoTask.todo = {}
    BY NoTaskIs DEF NoTask
  <1> DEFINE k1 == [NoTask EXCEPT !.op = op, !.pc = pc, !.rows = rows]
             k2 == [NoTask EXCEPT !.op = op, !.pc = pc, !.ses = ses, !.list = list, !.rows = rows]
             k3 == [NoTask EXCEPT !.op = op, !.pc = pc, !.ses = ses, !.rows = rows,
                                  !.list = list, !.todo = todo]
             k4 == [NoTask EXCEPT !.op = op, !.pc = pc, !.ses = ses, !.list = list,
                                  !.todo = todo, !.rows = rows]
  <1>2. k1 \in Task /\ k2 \in Task /\ k3 \in Task /\ k4 \in Task
    BY <1>1 DEF Task, PartsOK
  <1>3. /\ k1.op = op /\ k1.pc = pc /\ k1.ses = None /\ k1.rows = rows /\ k1.list = {}
        /\ k1.todo = {}
        /\ k2.op = op /\ k2.pc = pc /\ k2.ses = ses /\ k2.rows = rows /\ k2.list = list
        /\ k2.todo = {}
        /\ k3.op = op /\ k3.pc = pc /\ k3.ses = ses /\ k3.rows = rows /\ k3.list = list
        /\ k3.todo = todo
        /\ k4.op = op /\ k4.pc = pc /\ k4.ses = ses /\ k4.rows = rows /\ k4.list = list
        /\ k4.todo = todo
    BY <1>1 DEF Task
  <1> HIDE DEF k1, k2, k3, k4
  <1>4. /\ Begin(h, k1) => Opens(h, op, pc, None, rows, {}, {})
        /\ Begin(h, k2) => Opens(h, op, pc, ses, rows, list, {})
        /\ Begin(h, k3) => Opens(h, op, pc, ses, rows, list, todo)
        /\ Begin(h, k4) => Opens(h, op, pc, ses, rows, list, todo)
    BY <1>2, <1>3 DEF Begin, Opens
  <1> QED BY <1>4 DEF k1, k2, k3, k4

LEMMA ListedIds ==
    /\ Attached \in SUBSET (Players \cup Games \cup Teams)
    /\ Listed \in SUBSET (Players \cup Games \cup Teams)
    /\ Unfinished \subseteq Listed /\ Listed \subseteq Games /\ Attached \subseteq Players
  BY DEF Attached, Listed, Unfinished

LEMMA StartTypes ==
    ASSUME TypeInv, NEW h \in Handlers, StartSession(h)
    PROVE  Opens(h, "start", "load", None, NoTask.rows, {}, {}) /\ TypeInv'
  <1>1. PartsOK("start", "load", None, NoTask.rows, {}, {})
    BY NoRows DEF PartsOK, AllOps, Steps
  <1>2. Begin(h, [NoTask EXCEPT !.op = "start", !.pc = "load"]) /\ UNCHANGED db
    BY DEF StartSession
  <1>3. Opens(h, "start", "load", None, NoTask.rows, {}, {})
    BY <1>1, <1>2, OpensPlain
  <1> QED BY <1>2, <1>3, NoRows, OpensKept

\* Those who are saved as playing when the night starts.
Ready == {p \in Attached : players[p].status = "ready"}
Starting == [p \in Ready |-> [players[p] EXCEPT !.status = "playing"]]

LEMMA LoadTypes ==
    ASSUME TypeInv, NEW h \in Handlers, LoadStart(h)
    PROVE  /\ TypeInv' /\ UNCHANGED db
           /\ \/ session = None /\ Done(h)
              \/ /\ session # None
                 /\ Opens(h, "start", "players", [session EXCEPT !.status = "IN_PROGRESS"],
                          Starting, Attached, Ready)
  <1>1. CASE session = None
    BY <1>1, DoneKept, TableKept DEF LoadStart
  <1>2. CASE session # None
    <2>1. /\ UNCHANGED db
          /\ Begin(h, [NoTask EXCEPT !.op = "start", !.pc = "players",
                        !.ses = [session EXCEPT !.status = "IN_PROGRESS"],
                        !.rows = Starting, !.list = Attached, !.todo = Ready])
      BY <1>2 DEF LoadStart, Starting, Ready
    <2>2. [session EXCEPT !.status = "IN_PROGRESS"] \in SessionRow
      BY <1>2 DEF TypeInv, TableOK, SessionRow, SessionStatus
    <2>3. Ready \subseteq Players /\ \A p \in Ready : players[p] \in PlayerRow
      BY DEF Ready, Attached, TypeInv, TableOK
    <2>4. Starting \in PlayerRows /\ DOMAIN Starting = Ready
      <3>1. Starting \in [Ready -> PlayerRow]
        BY <2>3 DEF Starting, PlayerRow, PlayerStatus
      <3> QED BY <3>1, <2>3, InPartial DEF PlayerRows
    <2>5. PartsOK("start", "players", [session EXCEPT !.status = "IN_PROGRESS"],
                  Starting, Attached, Ready)
      BY <2>2, <2>3, <2>4, ListedIds DEF PartsOK, AllOps, Steps
    <2>6. Opens(h, "start", "players", [session EXCEPT !.status = "IN_PROGRESS"],
                Starting, Attached, Ready)
      BY <2>1, <2>5, OpensRows
    <2> QED BY <1>2, <2>1, <2>2, <2>4, <2>6, OpensKept
  <1> QED BY <1>1, <1>2

LEMMA CompleteTypes ==
    ASSUME TypeInv, NEW h \in Handlers, CompleteSession(h)
    PROVE  /\ TypeInv' /\ UNCHANGED db
           /\ Opens(h, "complete", "save", [session EXCEPT !.status = "COMPLETED"],
                    NoTask.rows, Listed, {})
  <1> DEFINE ses == [session EXCEPT !.status = "COMPLETED"]
  <1>1. /\ Begin(h, [NoTask EXCEPT !.op = "complete", !.pc = "save", !.ses = ses,
                                   !.list = Listed])
        /\ session # None /\ UNCHANGED db
    BY DEF CompleteSession
  <1>2. ses \in SessionRow
    BY <1>1 DEF TypeInv, TableOK, SessionRow, SessionStatus
  <1> HIDE DEF ses
  <1>3. PartsOK("complete", "save", ses, NoTask.rows, Listed, {})
    BY <1>2, NoRows, ListedIds DEF PartsOK, AllOps, Steps
  <1>4. Opens(h, "complete", "save", ses, NoTask.rows, Listed, {})
    BY <1>1, <1>3, OpensSession
  <1>5. TypeInv'
    BY <1>1, <1>2, <1>4, OpensKept
  <1> QED BY <1>1, <1>4, <1>5 DEF ses

\* The games as cancelSession saves them.
Cancelled == [g \in Unfinished |-> [games[g] EXCEPT !.status = "CANCELLED"]]

LEMMA CancelTypes ==
    ASSUME TypeInv, NEW h \in Handlers, CancelSession(h)
    PROVE  /\ TypeInv' /\ UNCHANGED db
           /\ Opens(h, "cancel", "save", [session EXCEPT !.status = "CANCELLED"],
                    Cancelled, Listed, {})
  <1> DEFINE ses == [session EXCEPT !.status = "CANCELLED"]
  <1>1. /\ Begin(h, [NoTask EXCEPT !.op = "cancel", !.pc = "save", !.ses = ses,
                                   !.list = Listed, !.rows = Cancelled])
        /\ session # None /\ UNCHANGED db
    BY DEF CancelSession, Cancelled
  <1>2. ses \in SessionRow
    BY <1>1 DEF TypeInv, TableOK, SessionRow, SessionStatus
  <1>3. Unfinished \subseteq Games /\ \A g \in Unfinished : games[g] \in GameRow
    BY DEF Unfinished, Listed, TypeInv, TableOK
  <1>4. Cancelled \in [Unfinished -> GameRow]
    BY <1>3 DEF Cancelled, GameRow, GameStatus
  <1>5. Cancelled \in GameRows
    BY <1>3, <1>4, InPartial DEF GameRows
  <1> HIDE DEF ses
  <1>6. PartsOK("cancel", "save", ses, Cancelled, Listed, {})
    BY <1>2, <1>5, ListedIds DEF PartsOK, AllOps, Steps
  <1>7. Opens(h, "cancel", "save", ses, Cancelled, Listed, {})
    BY <1>1, <1>6, OpensRows
  <1>8. TypeInv'
    BY <1>1, <1>2, <1>5, <1>7, OpensKept
  <1> QED BY <1>1, <1>7, <1>8 DEF ses

\* update and regenerateJoinCode.
LEMMA UpdateTypes ==
    ASSUME TypeInv, NEW h \in Handlers, UpdateSession(h) \/ RegenerateJoinCode(h)
    PROVE  /\ TypeInv' /\ UNCHANGED db /\ session # None
           /\ \E ses \in SessionRow : /\ ses.status = session.status
                                      /\ Opens(h, "update", "save", ses, NoTask.rows, {}, {})
  <1>1. session # None /\ session \in SessionRow /\ UNCHANGED db
    BY DEF UpdateSession, RegenerateJoinCode, TypeInv, TableOK
  <1>2. PICK ses \in SessionRow :
            /\ ses.status = session.status
            /\ Begin(h, [NoTask EXCEPT !.op = "update", !.pc = "save", !.ses = ses])
    <2>1. CASE UpdateSession(h)
      BY <1>1, <2>1 DEF UpdateSession
    <2>2. CASE RegenerateJoinCode(h)
      <3>1. PICK c \in Codes :
              Begin(h, [NoTask EXCEPT !.op = "update", !.pc = "save",
                          !.ses = [session EXCEPT !.code = c]])
        BY <2>2 DEF RegenerateJoinCode
      <3>2. /\ [session EXCEPT !.code = c] \in SessionRow
            /\ [session EXCEPT !.code = c].status = session.status
        BY <1>1 DEF SessionRow
      <3> QED BY <3>1, <3>2
    <2> QED BY <2>1, <2>2
  <1>3. PartsOK("update", "save", ses, NoTask.rows, {}, {})
    BY NoRows DEF PartsOK, AllOps, Steps
  <1>4. Opens(h, "update", "save", ses, NoTask.rows, {}, {})
    BY <1>2, <1>3, OpensSession
  <1>5. TypeInv'
    BY <1>1, <1>4, OpensKept
  <1> QED BY <1>1, <1>2, <1>4, <1>5

LEMMA RemoveSessionTypes ==
    ASSUME TypeInv, NEW h \in Handlers, RemoveSession(h)
    PROVE  /\ TypeInv' /\ UNCHANGED db
           /\ Opens(h, "removeSession", "players", None, NoTask.rows, Attached, {})
  <1>1. /\ Begin(h, [NoTask EXCEPT !.op = "removeSession", !.pc = "players", !.list = Attached])
        /\ UNCHANGED db
    BY DEF RemoveSession
  <1>2. PartsOK("removeSession", "players", None, NoTask.rows, Attached, {})
    BY NoRows, ListedIds DEF PartsOK, AllOps, Steps
  <1>3. Opens(h, "removeSession", "players", None, NoTask.rows, Attached, {})
    BY <1>1, <1>2, OpensPlain
  <1> QED BY <1>1, <1>3, OpensKept

\* addGames, and the second half of updateSessionGames.
LEMMA InsertGamesOpens ==
    ASSUME TypeInv, NEW h \in Handlers, NEW libs \in SUBSET Libs,
           Insert(h, "addGames", libs), UNCHANGED db
    PROVE  TypeInv' /\ Opens(h, "addGames", "insert", None, NoTask.rows, {}, libs)
  <1>1. Begin(h, [NoTask EXCEPT !.op = "addGames", !.pc = "insert", !.todo = libs])
    BY DEF Insert
  <1>2. PartsOK("addGames", "insert", None, NoTask.rows, {}, libs)
    BY NoRows DEF PartsOK, AllOps, Steps
  <1>3. Opens(h, "addGames", "insert", None, NoTask.rows, {}, libs)
    BY <1>1, <1>2, OpensPlain
  <1> QED BY <1>3, OpensKept

LEMMA AddGamesTypes ==
    ASSUME TypeInv, NEW h \in Handlers, NEW libs \in SUBSET Libs, AddGames(h, libs)
    PROVE  /\ TypeInv' /\ UNCHANGED db
           /\ Opens(h, "addGames", "insert", None, NoTask.rows, {}, NewLibs(libs))
  <1>1. NewLibs(libs) \in SUBSET Libs
    BY DEF NewLibs
  <1>2. Insert(h, "addGames", NewLibs(libs)) /\ UNCHANGED db
    BY DEF AddGames
  <1> QED BY <1>1, <1>2, InsertGamesOpens

LEMMA AddAfterDropTypes ==
    ASSUME TypeInv, NEW h \in Handlers, AddAfterDrop(h)
    PROVE  /\ TypeInv' /\ UNCHANGED db
           /\ \/ Done(h)
              \/ /\ session # None
                 /\ Opens(h, "addGames", "insert", None, NoTask.rows, {}, NewLibs(task[h].todo))
  <1>1. task[h].op = "removeGame" /\ UNCHANGED db
    BY DEF AddAfterDrop, At
  <1>2. task[h].todo \subseteq Libs
    BY <1>1 DEF TypeInv, TaskOK
  <1>3. NewLibs(task[h].todo) \in SUBSET Libs
    BY <1>2 DEF NewLibs
  <1>4. CASE Done(h)
    BY <1>1, <1>4, DoneKept, TableKept
  <1>5. CASE session # None /\ Insert(h, "addGames", NewLibs(task[h].todo))
    BY <1>1, <1>3, <1>5, InsertGamesOpens
  <1> QED BY <1>4, <1>5 DEF AddAfterDrop

\* removeGame and updateSessionGames.
LEMMA RemoveGamesTypes ==
    ASSUME TypeInv, NEW h \in Handlers,
           \/ \E g \in Games : RemoveGame(h, g)
           \/ \E libs \in SUBSET Libs : UpdateGames(h, libs)
    PROVE  /\ TypeInv' /\ UNCHANGED db
           /\ \E list \in SUBSET Games, todo \in SUBSET Libs :
                Opens(h, "removeGame", "remove", None, NoTask.rows, list, todo)
  <1>1. CASE \E g \in Games : RemoveGame(h, g)
    <2>1. PICK g \in Games : RemoveGame(h, g)
      BY <1>1
    <2>2. /\ Begin(h, [NoTask EXCEPT !.op = "removeGame", !.pc = "remove", !.list = {g}])
          /\ UNCHANGED db
      BY <2>1 DEF RemoveGame
    <2>3. PartsOK("removeGame", "remove", None, NoTask.rows, {g}, {})
      BY NoRows DEF PartsOK, AllOps, Steps
    <2>4. Opens(h, "removeGame", "remove", None, NoTask.rows, {g}, {})
      BY <2>2, <2>3, OpensPlain
    <2>5. TypeInv'
      BY <2>2, <2>4, OpensKept
    <2> QED BY <2>2, <2>4, <2>5
  <1>2. CASE \E libs \in SUBSET Libs : UpdateGames(h, libs)
    <2>1. PICK libs \in SUBSET Libs : UpdateGames(h, libs)
      BY <1>2
    <2> DEFINE list == {g \in Listed : games[g].status # "MIDPLAY"}
    <2>2. /\ Begin(h, [NoTask EXCEPT !.op = "removeGame", !.pc = "remove", !.todo = libs,
                                     !.list = list])
          /\ UNCHANGED db
      BY <2>1 DEF UpdateGames
    <2>3. list \in SUBSET Games
      BY DEF Listed
    <2> HIDE DEF list
    <2>4. PartsOK("removeGame", "remove", None, NoTask.rows, list, libs)
      BY <2>3, NoRows DEF PartsOK, AllOps, Steps
    <2>5. Opens(h, "removeGame", "remove", None, NoTask.rows, list, libs)
      BY <2>2, <2>4, OpensPlain
    <2>6. TypeInv'
      BY <2>2, <2>5, OpensKept
    <2> QED BY <2>2, <2>3, <2>5, <2>6
  <1> QED BY <1>1, <1>2

LEMMA ApplyPlanTypes ==
    ASSUME TypeInv, NEW h \in Handlers, NEW libs \in SUBSET Libs, ApplyPlan(h, libs)
    PROVE  /\ TypeInv' /\ UNCHANGED db
           /\ Opens(h, "applyPlan", "save", None, NoTask.rows,
                    Listed \cup {t \in Teams : teams[t] # None}, libs)
  <1> DEFINE list == Listed \cup {t \in Teams : teams[t] # None}
  <1>1. /\ Begin(h, [NoTask EXCEPT !.op = "applyPlan", !.pc = "save", !.todo = libs,
                                   !.list = list])
        /\ UNCHANGED db
    BY DEF ApplyPlan
  <1>2. list \in SUBSET (Players \cup Games \cup Teams)
    BY ListedIds
  <1> HIDE DEF list
  <1>3. PartsOK("applyPlan", "save", None, NoTask.rows, list, libs)
    BY <1>2, NoRows DEF PartsOK, AllOps, Steps
  <1>4. Opens(h, "applyPlan", "save", None, NoTask.rows, list, libs)
    BY <1>1, <1>3, OpensPlain
  <1>5. TypeInv'
    BY <1>1, <1>4, OpensKept
  <1> QED BY <1>1, <1>4, <1>5 DEF list

LEMMA OneRow ==
    /\ \A p \in Players, r \in PlayerRow : [i \in {p} |-> r] \in PlayerRows
    /\ \A t \in Teams, r \in TeamRow : [i \in {t} |-> r] \in TeamRows
  <1>1. ASSUME NEW S, NEW T, NEW s \in S, NEW r \in T
        PROVE  [i \in {s} |-> r] \in Partial(S, T)
    <2>1. [i \in {s} |-> r] \in [{s} -> T] /\ {s} \subseteq S
      OBVIOUS
    <2> QED BY <2>1 DEF Partial
  <1> QED BY <1>1 DEF PlayerRows, TeamRows

\* createTeam and assignPlayers.
LEMMA TeamTypes ==
    ASSUME TypeInv, NEW h \in Handlers, NEW t \in Teams,
           NEW members \in SUBSET Players,
           \/ AssignPlayers(h, t, members)
           \/ \E g \in Games \cup {None} : CreateTeam(h, t, members, g)
    PROVE  /\ TypeInv' /\ UNCHANGED db
           /\ \E rows \in TeamRows : Opens(h, "team", "save", None, rows, {}, {})
  <1>1. PICK row \in TeamRow :
            /\ UNCHANGED db
            /\ Begin(h, [NoTask EXCEPT !.op = "team", !.pc = "save",
                                       !.rows = [i \in {t} |-> row]])
    <2>1. CASE AssignPlayers(h, t, members)
      <3>1. teams[t] \in TeamRow
        BY <2>1 DEF AssignPlayers, TypeInv, TableOK
      <3>2. [teams[t] EXCEPT !.members = members] \in TeamRow
        BY <3>1 DEF TeamRow
      <3> QED BY <2>1, <3>2 DEF AssignPlayers
    <2>2. CASE \E g \in Games \cup {None} : CreateTeam(h, t, members, g)
      <3>1. PICK g \in Games \cup {None} : CreateTeam(h, t, members, g)
        BY <2>2
      <3>2. [members |-> members, game |-> g] \in TeamRow
        BY DEF TeamRow
      <3> QED BY <3>1, <3>2 DEF CreateTeam
    <2> QED BY <2>1, <2>2
  <1> DEFINE rows == [i \in {t} |-> row]
  <1>2. rows \in TeamRows
    BY OneRow
  <1>3. Begin(h, [NoTask EXCEPT !.op = "team", !.pc = "save", !.rows = rows])
    BY <1>1
  <1> HIDE DEF rows
  <1>4. PartsOK("team", "save", None, rows, {}, {})
    BY <1>2 DEF PartsOK, AllOps, Steps
  <1>5. Opens(h, "team", "save", None, rows, {}, {})
    BY <1>3, <1>4, OpensRows
  <1>6. TypeInv'
    BY <1>1, <1>2, <1>5, OpensKept
  <1> QED BY <1>1, <1>2, <1>5, <1>6

LEMMA JoinTypes ==
    ASSUME TypeInv, NEW h \in Handlers, NEW n \in Names, JoinSession(h, n)
    PROVE  /\ TypeInv' /\ UNCHANGED db
           /\ Opens(h, "join", "find", session, NoTask.rows, {}, {n})
  <1>1. /\ Begin(h, [NoTask EXCEPT !.op = "join", !.pc = "find", !.ses = session,
                                   !.todo = {n}])
        /\ UNCHANGED db
    BY DEF JoinSession
  <1>2. PartsOK("join", "find", session, NoTask.rows, {}, {n})
    BY NoRows DEF PartsOK, AllOps, Steps, TypeInv, TableOK
  <1>3. Opens(h, "join", "find", session, NoTask.rows, {}, {n})
    BY <1>1, <1>2, OpensSession
  <1> QED BY <1>1, <1>3, NoRows, OpensKept

LEMMA EnrolTypes ==
    ASSUME TypeInv, NEW h \in Handlers, NEW n \in Names, EnrolPlayer(h, n)
    PROVE  /\ TypeInv' /\ UNCHANGED db
           /\ Opens(h, "enrol", "insert", None, NoTask.rows, {}, {n})
  <1>1. /\ Begin(h, [NoTask EXCEPT !.op = "enrol", !.pc = "insert", !.todo = {n}])
        /\ UNCHANGED db
    BY DEF EnrolPlayer
  <1>2. PartsOK("enrol", "insert", None, NoTask.rows, {}, {n})
    BY NoRows DEF PartsOK, AllOps, Steps
  <1>3. Opens(h, "enrol", "insert", None, NoTask.rows, {}, {n})
    BY <1>1, <1>2, OpensPlain
  <1> QED BY <1>1, <1>3, OpensKept

\* A row that is kept under p.
LEMMA ChangeTypes ==
    ASSUME TypeInv, NEW h \in Handlers, NEW op \in {"player", "rename"}, NEW p \in Players,
           NEW row \in PlayerRow, Change(h, op, p, row)
    PROVE  /\ TypeInv' /\ UNCHANGED db
           /\ Opens(h, op, "save", None, [i \in {p} |-> row], {}, {})
  <1> DEFINE rows == [i \in {p} |-> row]
  <1>1. Begin(h, [NoTask EXCEPT !.op = op, !.pc = "save", !.rows = rows]) /\ UNCHANGED db
    BY DEF Change
  <1>2. rows \in PlayerRows
    BY OneRow
  <1> HIDE DEF rows
  <1>3. PartsOK(op, "save", None, rows, {}, {})
    BY <1>2 DEF PartsOK, AllOps, Steps
  <1>4. Opens(h, op, "save", None, rows, {}, {})
    BY <1>1, <1>3, OpensRows
  <1>5. TypeInv'
    BY <1>1, <1>2, <1>4, OpensKept
  <1> QED BY <1>1, <1>4, <1>5 DEF rows

\* Readiness, status and rejoining keep the name and the night.
LEMMA StatusTypes ==
    ASSUME TypeInv, NEW h \in Handlers, NEW p \in Players,
           \/ RejoinSession(h, p)
           \/ \E ready \in BOOLEAN : SetPlayerReady(h, p, ready)
           \/ \E s \in PlayerStatus : SetPlayerStatus(h, p, s)
    PROVE  /\ TypeInv' /\ UNCHANGED db
           /\ \E row \in PlayerRow : /\ row.night = "this"
                                     /\ Opens(h, "player", "save", None, [i \in {p} |-> row], {}, {})
  <1>1. players[p] \in PlayerRow /\ players[p].night = "this"
    BY DEF RejoinSession, SetPlayerReady, SetPlayerStatus, Attached, TypeInv, TableOK
  <1>2. ASSUME NEW s \in PlayerStatus
        PROVE  /\ [players[p] EXCEPT !.status = s] \in PlayerRow
               /\ [players[p] EXCEPT !.status = s].night = "this"
    BY <1>1 DEF PlayerRow
  <1>3. PICK s \in PlayerStatus : Change(h, "player", p, [players[p] EXCEPT !.status = s])
    <2>1. "joined" \in PlayerStatus /\ "ready" \in PlayerStatus
      BY DEF PlayerStatus
    <2>2. CASE RejoinSession(h, p)
      BY <2>1, <2>2 DEF RejoinSession
    <2>3. CASE \E ready \in BOOLEAN : SetPlayerReady(h, p, ready)
      <3>1. PICK ready \in BOOLEAN : SetPlayerReady(h, p, ready)
        BY <2>3
      <3>2. CASE ready
        BY <2>1, <3>1, <3>2 DEF SetPlayerReady
      <3>3. CASE ~ready
        BY <2>1, <3>1, <3>3 DEF SetPlayerReady
      <3> QED BY <3>2, <3>3
    <2>4. CASE \E s \in PlayerStatus : SetPlayerStatus(h, p, s)
      BY <2>4 DEF SetPlayerStatus
    <2> QED BY <2>2, <2>3, <2>4
  <1> DEFINE row == [players[p] EXCEPT !.status = s]
  <1>4. row \in PlayerRow /\ row.night = "this" /\ Change(h, "player", p, row)
    BY <1>2, <1>3
  <1> HIDE DEF row
  <1> QED BY <1>4, ChangeTypes

LEMMA RenameTypes ==
    ASSUME TypeInv, NEW h \in Handlers, NEW p \in Players, NEW n \in Names,
           NEW night \in {"this", "other"}, RenamePlayer(h, p, n, night)
    PROVE  /\ TypeInv' /\ UNCHANGED db
           /\ \E row \in PlayerRow : /\ row.night = night
                                     /\ Opens(h, "rename", "save", None, [i \in {p} |-> row], {}, {})
  <1>1. players[p] \in PlayerRow
    BY DEF RenamePlayer, Attached, TypeInv, TableOK
  <1> DEFINE status == IF night = "this" THEN players[p].status ELSE "joined"
             row == [name |-> n, night |-> night, status |-> status]
  <1>2. status \in PlayerStatus
    BY <1>1 DEF PlayerRow, PlayerStatus
  <1>3. Change(h, "rename", p, row)
    BY DEF RenamePlayer
  <1> HIDE DEF status
  <1>4. row \in PlayerRow /\ row.night = night
    BY <1>2 DEF PlayerRow
  <1> HIDE DEF row
  <1> QED BY <1>3, <1>4, ChangeTypes

LEMMA AdmitTypes ==
    ASSUME TypeInv, NEW h \in Handlers, NEW p \in Players, NEW n \in Names,
           NEW s \in PlayerStatus, AdmitPlayer(h, p, n, s)
    PROVE  /\ TypeInv' /\ UNCHANGED db
           /\ \E row \in PlayerRow : /\ row.night = "this"
                                     /\ Opens(h, "rename", "save", None, [i \in {p} |-> row], {}, {})
  <1> DEFINE row == [name |-> n, night |-> "this", status |-> s]
  <1>1. Change(h, "rename", p, row)
    BY DEF AdmitPlayer
  <1>2. row \in PlayerRow /\ row.night = "this"
    BY DEF PlayerRow
  <1> HIDE DEF row
  <1> QED BY <1>1, <1>2, ChangeTypes

LEMMA RemovePlayerTypes ==
    ASSUME TypeInv, NEW h \in Handlers, NEW p \in Players, RemovePlayer(h, p)
    PROVE  /\ TypeInv' /\ UNCHANGED db
           /\ Opens(h, "removePlayer", "detach", None, NoTask.rows, {p}, {})
  <1>1. /\ Begin(h, [NoTask EXCEPT !.op = "removePlayer", !.pc = "detach", !.list = {p}])
        /\ UNCHANGED db
    BY DEF RemovePlayer
  <1>2. PartsOK("removePlayer", "detach", None, NoTask.rows, {p}, {})
    BY NoRows DEF PartsOK, AllOps, Steps
  <1>3. Opens(h, "removePlayer", "detach", None, NoTask.rows, {p}, {})
    BY <1>1, <1>2, OpensPlain
  <1> QED BY <1>1, <1>3, OpensKept

\* The teams of p as kickPlayer saves them.
TeamsOf(p) == {t \in Teams : teams[t] # None /\ p \in teams[t].members}
Without(p) == [t \in TeamsOf(p) |-> [teams[t] EXCEPT !.members = @ \ {p}]]

LEMMA WithoutType ==
    ASSUME TypeInv, NEW p \in Players
    PROVE  /\ Without(p) \in TeamRows /\ DOMAIN Without(p) = TeamsOf(p)
           /\ \A t \in TeamsOf(p) : Without(p)[t].members = teams[t].members \ {p}
  <1>1. TeamsOf(p) \subseteq Teams /\ \A t \in TeamsOf(p) : teams[t] \in TeamRow
    BY DEF TeamsOf, TypeInv, TableOK
  <1>2. ASSUME NEW t \in TeamsOf(p)
        PROVE  /\ [teams[t] EXCEPT !.members = @ \ {p}] \in TeamRow
               /\ [teams[t] EXCEPT !.members = @ \ {p}].members = teams[t].members \ {p}
    BY <1>1 DEF TeamRow
  <1>3. Without(p) \in [TeamsOf(p) -> TeamRow]
    BY <1>2 DEF Without
  <1>4. Without(p) \in TeamRows
    BY <1>1, <1>3, InPartial DEF TeamRows
  <1> QED BY <1>2, <1>3, <1>4 DEF Without

LEMMA KickTypes ==
    ASSUME TypeInv, NEW h \in Handlers, NEW p \in Players, KickPlayer(h, p)
    PROVE  /\ TypeInv' /\ UNCHANGED db
           /\ Opens(h, "kick", "save", session, Without(p), Attached \ {p}, {p})
  <1>1. /\ Begin(h, [NoTask EXCEPT !.op = "kick", !.pc = "save", !.ses = session,
                                   !.list = Attached \ {p}, !.todo = {p}, !.rows = Without(p)])
        /\ UNCHANGED db
    BY DEF KickPlayer, Without, TeamsOf
  <1>2. PartsOK("kick", "save", session, Without(p), Attached \ {p}, {p})
    BY WithoutType, ListedIds DEF PartsOK, AllOps, Steps, TypeInv, TableOK
  <1>3. Opens(h, "kick", "save", session, Without(p), Attached \ {p}, {p})
    BY <1>1, <1>2, OpensRows
  <1> QED BY <1>1, <1>3, WithoutType, OpensKept

-----------------------------------------------------------------------------
(* Types: the steps that follow.                                             *)

\* The handler goes on from where it is, perhaps with other rows.
Moves(h, pc, rows, todo) ==
    \E k \in Task :
        /\ task' = [task EXCEPT ![h] = k]
        /\ k.op = task[h].op /\ k.pc = pc /\ k.ses = task[h].ses
        /\ k.rows = rows /\ k.list = task[h].list /\ k.todo = todo

LEMMA MovesKept ==
    ASSUME TypeInv, NEW h \in Handlers, NEW pc, NEW rows, NEW todo,
           Moves(h, pc, rows, todo), TableOK',
           task[h].op \in {"start", "player", "rename", "join"} => rows \in PlayerRows,
           task[h].op = "cancel" => rows \in GameRows,
           task[h].op \in {"team", "kick"} => rows \in TeamRows,
           task[h].op = "start" => pc = task[h].pc /\ rows = task[h].rows,
           todo \subseteq task[h].todo, pc = "insert" => task[h].op \in {"join", "enrol", "addGames"}
    PROVE  TypeInv'
  <1>1. PICK k \in Task :
            /\ task' = [task EXCEPT ![h] = k]
            /\ k.op = task[h].op /\ k.pc = pc /\ k.ses = task[h].ses
            /\ k.rows = rows /\ k.list = task[h].list /\ k.todo = todo
    BY DEF Moves
  <1>2. TaskOK(task[h])
    BY DEF TypeInv
  <1>3. TaskOK(k)
    BY <1>1, <1>2 DEF TaskOK
  <1> QED BY <1>1, <1>3, TaskKept

LEMMA GotoMoves ==
    ASSUME TypeInv, NEW h \in Handlers, NEW pc \in Steps, Goto(h, pc)
    PROVE  Moves(h, pc, task[h].rows, task[h].todo)
  <1>1. /\ task' = [task EXCEPT ![h] = [task[h] EXCEPT !.pc = pc]]
        /\ task[h] \in Task
    BY DEF Goto, TypeInv
  <1> DEFINE k == [task[h] EXCEPT !.pc = pc]
  <1>2. /\ k \in Task /\ k.op = task[h].op /\ k.pc = pc /\ k.ses = task[h].ses
        /\ k.rows = task[h].rows /\ k.list = task[h].list /\ k.todo = task[h].todo
    BY <1>1 DEF Task
  <1> HIDE DEF k
  <1>3. task' = [task EXCEPT ![h] = k]
    BY <1>1 DEF k
  <1> QED BY <1>2, <1>3 DEF Moves

LEMMA RejoinMoves ==
    ASSUME TypeInv, NEW h \in Handlers, NEW pc \in Steps, NEW rows \in PlayerRows,
           task' = [task EXCEPT ![h].pc = pc, ![h].rows = rows]
    PROVE  Moves(h, pc, rows, task[h].todo)
  <1> DEFINE k == [task[h] EXCEPT !.pc = pc, !.rows = rows]
  <1>1. /\ task \in [Handlers -> Task] /\ task[h] \in Task
    BY DEF TypeInv
  <1>2. task' = [task EXCEPT ![h] = k]
    BY <1>1
  <1>3. /\ k \in Task /\ k.op = task[h].op /\ k.pc = pc /\ k.ses = task[h].ses
        /\ k.rows = rows /\ k.list = task[h].list /\ k.todo = task[h].todo
    BY <1>1 DEF Task
  <1> HIDE DEF k
  <1> QED BY <1>2, <1>3 DEF Moves

LEMMA SavesPlayer ==
    ASSUME TypeInv, NEW p \in Players, NEW row \in PlayerRow,
           players' = [players EXCEPT ![p] = row], UNCHANGED <<session, games, teams>>
    PROVE  TableOK'
  BY DEF TypeInv, TableOK

LEMMA RowsOf ==
    ASSUME TypeInv, NEW h \in Handlers
    PROVE  /\ \A p : /\ p \in DOMAIN task[h].rows
                     /\ task[h].op \in {"start", "player", "rename", "join"}
                     => p \in Players /\ task[h].rows[p] \in PlayerRow
           /\ \A g : g \in DOMAIN task[h].rows /\ task[h].op = "cancel"
                     => g \in Games /\ task[h].rows[g] \in GameRow
           /\ \A t : t \in DOMAIN task[h].rows /\ task[h].op \in {"team", "kick"}
                     => t \in Teams /\ task[h].rows[t] \in TeamRow
  <1>1. TaskOK(task[h])
    BY DEF TypeInv
  <1>2. ASSUME NEW S, NEW T, NEW f \in Partial(S, T), NEW s \in DOMAIN f
        PROVE  s \in S /\ f[s] \in T
    BY DEF Partial
  <1> QED BY <1>1, <1>2 DEF TaskOK, PlayerRows, GameRows, TeamRows

LEMMA StartPlayerTypes ==
    ASSUME TypeInv, NEW h \in Handlers, NEW p \in Players, StartPlayer(h, p)
    PROVE  /\ TypeInv'
           /\ \/ Refused(h)
              \/ /\ players' = [players EXCEPT ![p] = task[h].rows[p]]
                 /\ Moves(h, "players", task[h].rows, task[h].todo \ {p})
                 /\ UNCHANGED <<session, games, teams>>
  <1>1. task[h].op = "start" /\ task[h].pc = "players" /\ p \in task[h].todo
    BY DEF StartPlayer, At
  <1>2. CASE Refused(h)
    BY <1>2, RefusedKept
  <1>3. CASE /\ players' = [players EXCEPT ![p] = task[h].rows[p]]
             /\ task' = [task EXCEPT ![h].todo = @ \ {p}]
             /\ UNCHANGED <<session, games, teams>>
    <2> DEFINE k == [task[h] EXCEPT !.todo = @ \ {p}]
    <2>1. task \in [Handlers -> Task] /\ task[h] \in Task /\ TaskOK(task[h])
      BY DEF TypeInv
    <2>2. task' = [task EXCEPT ![h] = k]
      BY <1>3, <2>1
    <2>3. /\ k \in Task /\ k.op = task[h].op /\ k.pc = task[h].pc /\ k.ses = task[h].ses
          /\ k.rows = task[h].rows /\ k.list = task[h].list /\ k.todo = task[h].todo \ {p}
      BY <2>1 DEF Task
    <2> HIDE DEF k
    <2>4. Moves(h, "players", task[h].rows, task[h].todo \ {p})
      BY <1>1, <2>2, <2>3 DEF Moves
    <2>5. p \in DOMAIN task[h].rows
      BY <1>1, <2>1 DEF TaskOK
    <2>6. TableOK'
      BY <1>1, <1>3, <2>5, RowsOf, SavesPlayer
    <2>7. task[h].rows \in PlayerRows
      BY <1>1, <2>1 DEF TaskOK
    <2>8. TypeInv'
      BY <1>1, <2>4, <2>6, <2>7, MovesKept
    <2> QED BY <1>3, <2>4, <2>8
  <1> QED BY <1>2, <1>3 DEF StartPlayer

LEMMA ReattachTypes ==
    /\ \A rows \in [Players -> PlayerRow \cup {None}] : \A list :
        ReattachPlayers(rows, list) \in [Players -> PlayerRow \cup {None}]
    /\ \A rows \in [Games -> GameRow \cup {None}] : \A list :
        ReattachGames(rows, list) \in [Games -> GameRow \cup {None}]
    /\ \A rows \in [Teams -> TeamRow \cup {None}] : \A ids :
        /\ WithoutPlayers(rows, ids) \in [Teams -> TeamRow \cup {None}]
        /\ WithoutGames(rows, ids) \in [Teams -> TeamRow \cup {None}]
  <1>1. ASSUME NEW rows \in [Players -> PlayerRow \cup {None}], NEW list
        PROVE  ReattachPlayers(rows, list) \in [Players -> PlayerRow \cup {None}]
    <2>1. ASSUME NEW r \in PlayerRow, NEW p
          PROVE  [r EXCEPT !.night = IF p \in list THEN "this"
                                       ELSE IF @ = "this" THEN "none" ELSE @] \in PlayerRow
      BY DEF PlayerRow
    <2>2. ASSUME NEW p \in Players, rows[p] # None
          PROVE  [rows[p] EXCEPT !.night = IF p \in list THEN "this"
                                       ELSE IF @ = "this" THEN "none" ELSE @] \in PlayerRow
      BY <2>1, <2>2
    <2> QED BY <2>2 DEF ReattachPlayers
  <1>2. ASSUME NEW rows \in [Games -> GameRow \cup {None}], NEW list
        PROVE  ReattachGames(rows, list) \in [Games -> GameRow \cup {None}]
    <2>1. ASSUME NEW r \in GameRow, NEW g
          PROVE  [r EXCEPT !.here = g \in list] \in GameRow
      <3>1. ASSUME NEW b \in BOOLEAN
            PROVE  [r EXCEPT !.here = b] \in GameRow
        BY DEF GameRow
      <3>2. (g \in list) \in BOOLEAN
        OBVIOUS
      <3> QED BY <3>1, <3>2
    <2> QED BY <2>1 DEF ReattachGames
  <1>3. ASSUME NEW rows \in [Teams -> TeamRow \cup {None}], NEW ps
        PROVE  /\ WithoutPlayers(rows, ps) \in [Teams -> TeamRow \cup {None}]
               /\ WithoutGames(rows, ps) \in [Teams -> TeamRow \cup {None}]
    <2>1. ASSUME NEW r \in TeamRow
          PROVE  [r EXCEPT !.members = @ \ ps] \in TeamRow
      BY DEF TeamRow
    <2> QED BY <2>1 DEF WithoutPlayers, WithoutGames
  <1> QED BY <1>1, <1>2, <1>3

LEMMA SaveStartTypes ==
    ASSUME TypeInv, NEW h \in Handlers, SaveStart(h)
    PROVE  TypeInv'
  <1>1. task[h].op = "start" /\ task[h].pc = "players"
    BY DEF SaveStart, At
  <1>2. CASE Refused(h)
    BY <1>2, RefusedKept
  <1>3. CASE /\ session' = task[h].ses
             /\ players' = ReattachPlayers(players, task[h].list)
             /\ Done(h) /\ UNCHANGED <<games, teams>>
    <2>1. task[h].ses \in SessionRow
      BY <1>1 DEF TypeInv, TaskOK
    <2>2. TableOK'
      BY <1>3, <2>1, ReattachTypes DEF TypeInv, TableOK
    <2> QED BY <1>3, <2>2, DoneKept
  <1> QED BY <1>2, <1>3 DEF SaveStart

LEMMA SaveCompleteTypes ==
    ASSUME TypeInv, NEW h \in Handlers, SaveComplete(h)
    PROVE  TypeInv'
  <1>1. task[h].ses \in SessionRow
    BY DEF SaveComplete, At, TypeInv, TaskOK
  <1>2. TableOK'
    BY <1>1, ReattachTypes DEF SaveComplete, TypeInv, TableOK
  <1> QED BY <1>2, DoneKept DEF SaveComplete

LEMMA SaveSessionTypes ==
    ASSUME TypeInv, NEW h \in Handlers, SaveSession(h)
    PROVE  TypeInv'
  <1>1. task[h].ses \in SessionRow
    BY DEF SaveSession, At, TypeInv, TaskOK
  <1>2. TableOK'
    BY <1>1 DEF SaveSession, TypeInv, TableOK
  <1> QED BY <1>2, DoneKept DEF SaveSession

LEMMA SaveCancelTypes ==
    ASSUME TypeInv, NEW h \in Handlers, SaveCancel(h)
    PROVE  TypeInv'
  <1>1. task[h].op = "cancel" /\ task[h].ses \in SessionRow
    BY DEF SaveCancel, At, TypeInv, TaskOK
  <1> DEFINE saved == [g \in Games |-> IF g \in DOMAIN task[h].rows THEN task[h].rows[g]
                                       ELSE games[g]]
  <1>2. saved \in [Games -> GameRow \cup {None}]
    BY <1>1, RowsOf DEF TypeInv, TableOK
  <1>3. CASE Refused(h)
    BY <1>3, RefusedKept
  <1>4. CASE /\ session' = task[h].ses
             /\ games' = ReattachGames(saved, task[h].list)
             /\ Done(h) /\ UNCHANGED <<players, teams>>
    <2> HIDE DEF saved
    <2>1. TableOK'
      BY <1>1, <1>2, <1>4, ReattachTypes DEF TypeInv, TableOK
    <2> QED BY <1>4, <2>1, DoneKept
  <1> QED BY <1>3, <1>4 DEF SaveCancel

LEMMA RemoveTypes ==
    ASSUME TypeInv, NEW h \in Handlers, RemovePlayers(h) \/ RemoveRow(h)
    PROVE  TypeInv' /\ (RemovePlayers(h) => Moves(h, "session", task[h].rows, task[h].todo))
  <1>1. ASSUME RemovePlayers(h)
        PROVE  TypeInv' /\ Moves(h, "session", task[h].rows, task[h].todo)
    <2>1. task[h].op = "removeSession"
      BY <1>1 DEF RemovePlayers, At
    <2>2. Moves(h, "session", task[h].rows, task[h].todo)
      BY <1>1, GotoMoves DEF RemovePlayers, Steps
    <2>3. TableOK'
      BY <1>1, ReattachTypes DEF RemovePlayers, TypeInv, TableOK
    <2> QED BY <2>1, <2>2, <2>3, MovesKept
  <1>2. CASE RemoveRow(h)
    <2>1. task[h].op = "removeSession" /\ task[h].pc = "session"
      BY <1>2 DEF RemoveRow, At
    <2>2. CASE Refused(h)
      BY <2>1, <2>2, RefusedKept, <1>1
    <2>3. CASE ~ Refused(h)
      <3>1. TableOK' /\ Done(h)
        BY <1>2, <2>3 DEF RemoveRow, TypeInv, TableOK
      <3> QED BY <2>1, <3>1, DoneKept, <1>1
    <2> QED BY <2>2, <2>3
  <1> QED BY <1>1, <1>2

LEMMA WithGamesType ==
    ASSUME NEW gs \in [Games -> GameRow \cup {None}], NEW libs \in SUBSET Libs,
           NEW free \in SUBSET Games, NEW f \in Created(libs, free)
    PROVE  WithGames(gs, f) \in [Games -> GameRow \cup {None}]
  <1>1. f \in [libs -> free]
    BY DEF Created
  <1>2. ASSUME NEW g \in Games, NEW l \in libs, f[l] = g
        PROVE  (CHOOSE m \in DOMAIN f : f[m] = g) \in Libs
    BY <1>1, <1>2
  <1>3. ASSUME NEW l \in Libs
        PROVE  [lib |-> l, status |-> "PENDING", here |-> TRUE] \in GameRow
    BY DEF GameRow, GameStatus
  <1> QED BY <1>1, <1>2, <1>3 DEF WithGames

LEMMA InsertGamesTypes ==
    ASSUME TypeInv, NEW h \in Handlers, InsertGames(h)
    PROVE  TypeInv'
  <1>1. task[h].op = "addGames" /\ task[h].todo \in SUBSET Libs
    BY DEF InsertGames, TypeInv, TaskOK
  <1>2. CASE Refused(h)
    BY <1>2, RefusedKept
  <1>3. CASE /\ \E f \in Created(task[h].todo, Unused(Games, games)) :
                    games' = WithGames(games, f)
             /\ Done(h) /\ UNCHANGED <<session, players, teams>>
    <2>1. PICK f \in Created(task[h].todo, Unused(Games, games)) : games' = WithGames(games, f)
      BY <1>3
    <2>2. Unused(Games, games) \in SUBSET Games
      BY DEF Unused
    <2>3. games \in [Games -> GameRow \cup {None}]
      BY DEF TypeInv, TableOK
    <2>4. games' \in [Games -> GameRow \cup {None}]
      BY <1>1, <2>1, <2>2, <2>3, WithGamesType
    <2>5. TableOK'
      BY <1>3, <2>4 DEF TypeInv, TableOK
    <2> QED BY <1>3, <2>5, DoneKept
  <1> QED BY <1>2, <1>3 DEF InsertGames

LEMMA DropGamesTypes ==
    ASSUME TypeInv, NEW h \in Handlers, DropGames(h)
    PROVE  /\ TypeInv'
           /\ Done(h) \/ Moves(h, "add", task[h].rows, task[h].todo)
  <1>1. task[h].op = "removeGame"
    BY DEF DropGames, At
  <1>2. TableOK'
    BY ReattachTypes DEF DropGames, TypeInv, TableOK
  <1>3. CASE Done(h)
    BY <1>2, <1>3, DoneKept
  <1>4. CASE Goto(h, "add")
    <2>1. Moves(h, "add", task[h].rows, task[h].todo)
      BY <1>4, GotoMoves DEF Steps
    <2>2. TypeInv'
      BY <1>1, <1>2, <2>1, MovesKept
    <2> QED BY <2>1, <2>2
  <1> QED BY <1>3, <1>4 DEF DropGames

LEMMA PlayGameTypes ==
    ASSUME TypeInv, NEW g \in Games, PlayGame(g)
    PROVE  /\ TypeInv'
           /\ games[g] \in GameRow
           /\ \E s \in GameStatus :
                /\ games' = [games EXCEPT ![g] = [games[g] EXCEPT !.status = s]]
                /\ [games[g] EXCEPT !.status = s] \in GameRow
                /\ [games[g] EXCEPT !.status = s].lib = games[g].lib
                /\ [games[g] EXCEPT !.status = s].here = games[g].here
  <1>1. games[g] \in GameRow /\ games \in [Games -> GameRow \cup {None}]
    BY DEF PlayGame, TypeInv, TableOK
  <1>2. PICK s \in GameStatus \ {games[g].status} :
            /\ s = "MIDPLAY" => games[g].status = "PENDING"
            /\ s = "PENDING" => games[g].status # "COMPLETED"
            /\ s \in Finished => games[g].status \notin Finished
            /\ games' = [games EXCEPT ![g].status = s]
    BY DEF PlayGame
  <1>3. games' = [games EXCEPT ![g] = [games[g] EXCEPT !.status = s]]
    BY <1>1, <1>2
  <1>4. /\ [games[g] EXCEPT !.status = s] \in GameRow
        /\ [games[g] EXCEPT !.status = s].lib = games[g].lib
        /\ [games[g] EXCEPT !.status = s].here = games[g].here
    BY <1>1 DEF GameRow
  <1>5. TableOK'
    BY <1>1, <1>3, <1>4 DEF PlayGame, TypeInv, TableOK
  <1>6. TypeInv'
    BY <1>5 DEF PlayGame, TypeInv
  <1> QED BY <1>1, <1>3, <1>4, <1>6

\* The tables between the deletions and the insertions of a plan.
KeptGames(list) == [g \in Games |-> IF g \in list THEN None ELSE games[g]]
KeptTeams(list) == [t \in Teams |-> IF t \in list THEN None ELSE WithoutGames(teams, list)[t]]
Free(rows) == {i \in DOMAIN rows : rows[i] = None}

LEMMA SavePlanDoes ==
    ASSUME TypeInv, NEW h \in Handlers, SavePlan(h), ~ Refused(h)
    PROVE  /\ TypeInv' /\ Done(h) /\ UNCHANGED <<session, players>>
           /\ session # None /\ task[h].todo \in SUBSET Libs
           /\ KeptGames(task[h].list) \in [Games -> GameRow \cup {None}]
           /\ Free(KeptGames(task[h].list)) \in SUBSET Games
           /\ \E f \in Created(task[h].todo, Free(KeptGames(task[h].list))) :
                games' = WithGames(KeptGames(task[h].list), f)
           /\ \A t \in Teams :
                \/ teams'[t] = None
                \/ teams'[t] \in TeamRow /\ teams'[t].members = {}
                \/ teams'[t] = teams[t]
  <1>1. task[h].todo \in SUBSET Libs
    BY DEF SavePlan, At, TypeInv, TaskOK
  <1> DEFINE list == task[h].list
  <1>2. KeptGames(list) \in [Games -> GameRow \cup {None}]
    BY DEF KeptGames, TypeInv, TableOK
  <1>3. Free(KeptGames(list)) \in SUBSET Games
    BY <1>2 DEF Free
  <1>4. /\ Done(h) /\ UNCHANGED <<session, players>> /\ session # None
        /\ \E f \in Created(task[h].todo, Free(KeptGames(list))) :
                games' = WithGames(KeptGames(list), f)
        /\ \E new \in SUBSET Free(KeptTeams(list)) \ {{}} :
                teams' = [t \in Teams |-> IF t \in new
                                          THEN [members |-> {}, game |-> None]
                                          ELSE KeptTeams(list)[t]]
    BY DEF SavePlan, KeptGames, KeptTeams, Free
  <1>5. games' \in [Games -> GameRow \cup {None}]
    BY <1>1, <1>2, <1>3, <1>4, WithGamesType
  <1>6. WithoutGames(teams, list) \in [Teams -> TeamRow \cup {None}]
    BY ReattachTypes DEF TypeInv, TableOK
  <1>7. KeptTeams(list) \in [Teams -> TeamRow \cup {None}]
    BY <1>6 DEF KeptTeams
  <1>8. PICK new \in SUBSET Free(KeptTeams(list)) \ {{}} :
                teams' = [t \in Teams |-> IF t \in new
                                          THEN [members |-> {}, game |-> None]
                                          ELSE KeptTeams(list)[t]]
    BY <1>4
  <1>9. [members |-> {}, game |-> None] \in TeamRow
    BY DEF TeamRow
  <1>10. teams' \in [Teams -> TeamRow \cup {None}]
    BY <1>7, <1>8, <1>9
  <1>11. TableOK'
    BY <1>4, <1>5, <1>10 DEF TypeInv, TableOK
  <1>12. TypeInv'
    BY <1>4, <1>11, DoneKept
  <1>13. ASSUME NEW t \in Teams
         PROVE  \/ teams'[t] = None
                \/ teams'[t] \in TeamRow /\ teams'[t].members = {}
                \/ teams'[t] = teams[t]
    <2>1. CASE t \in new
      BY <1>8, <1>9, <2>1
    <2>2. CASE t \notin new
      <3>1. teams'[t] = KeptTeams(list)[t]
        BY <1>8, <2>2
      <3> QED BY <3>1 DEF KeptTeams, WithoutGames
    <2> QED BY <2>1, <2>2
  <1> QED BY <1>1, <1>2, <1>3, <1>4, <1>12, <1>13

LEMMA SaveTeamTypes ==
    ASSUME TypeInv, NEW h \in Handlers, NEW t \in Teams, SaveTeam(h, t)
    PROVE  TypeInv'
  <1>1. task[h].op = "team" /\ t \in DOMAIN task[h].rows
    BY DEF SaveTeam, At
  <1>2. task[h].rows[t] \in TeamRow
    BY <1>1, RowsOf
  <1>3. CASE Refused(h)
    BY <1>3, RefusedKept
  <1>4. CASE /\ teams' = [teams EXCEPT ![t] = task[h].rows[t]]
             /\ Done(h) /\ UNCHANGED <<session, players, games>>
    <2>1. TableOK'
      BY <1>2, <1>4 DEF TypeInv, TableOK
    <2> QED BY <1>4, <2>1, DoneKept
  <1> QED BY <1>3, <1>4 DEF SaveTeam

\* findByName and findWinner: a row is kept to be saved again.
LEMMA FindTypes ==
    ASSUME TypeInv, NEW h \in Handlers, FindByName(h) \/ FindWinner(h)
    PROVE  /\ TypeInv' /\ UNCHANGED db
           /\ \/ Done(h)
              \/ Moves(h, "insert", task[h].rows, task[h].todo)
              \/ \E n \in task[h].todo : \E p \in Named(n) :
                    /\ Joined(p) \in [{p} -> PlayerRow]
                    /\ Joined(p)[p].name = players[p].name
                    /\ Joined(p)[p].night = players[p].night
                    /\ Moves(h, "rejoin", Joined(p), task[h].todo)
  <1>1. task[h].op = "join" /\ UNCHANGED db
    BY DEF FindByName, FindWinner, At
  <1>2. task[h].rows \in PlayerRows
    BY <1>1 DEF TypeInv, TaskOK
  <1>3. TableOK'
    BY <1>1, TableKept
  <1>4. CASE Done(h)
    BY <1>1, <1>3, <1>4, DoneKept
  <1>5. CASE Goto(h, "insert")
    <2>1. Moves(h, "insert", task[h].rows, task[h].todo)
      BY <1>5, GotoMoves DEF Steps
    <2>2. TypeInv'
      BY <1>1, <1>2, <1>3, <2>1, MovesKept
    <2> QED BY <1>1, <2>1, <2>2
  <1>6. CASE \E n \in task[h].todo : \E p \in Named(n) :
                task' = [task EXCEPT ![h].pc = "rejoin", ![h].rows = Joined(p)]
    <2>0. PICK n \in task[h].todo : \E p \in Named(n) :
                task' = [task EXCEPT ![h].pc = "rejoin", ![h].rows = Joined(p)]
      BY <1>6
    <2>1. PICK p \in Named(n) :
                task' = [task EXCEPT ![h].pc = "rejoin", ![h].rows = Joined(p)]
      BY <2>0
    <2>2. p \in Players /\ players[p] \in PlayerRow
      BY DEF Named, Attached, TypeInv, TableOK
    <2>3. [players[p] EXCEPT !.status = "joined"] \in PlayerRow
      BY <2>2 DEF PlayerRow, PlayerStatus
    <2>4. Joined(p) \in [{p} -> PlayerRow] /\ Joined(p) \in PlayerRows
      BY <2>2, <2>3, OneRow DEF Joined
    <2>5. Moves(h, "rejoin", Joined(p), task[h].todo)
      BY <2>1, <2>4, RejoinMoves DEF Steps
    <2>6. TypeInv'
      BY <1>1, <1>3, <2>4, <2>5, MovesKept
    <2>7. Joined(p)[p].name = players[p].name /\ Joined(p)[p].night = players[p].night
      BY <2>2 DEF Joined, PlayerRow
    <2> QED BY <1>1, <2>4, <2>5, <2>6, <2>7
  <1> QED BY <1>4, <1>5, <1>6 DEF FindByName, FindWinner

LEMMA InsertRefusedTypes ==
    ASSUME TypeInv, NEW h \in Handlers, InsertRefused(h)
    PROVE  /\ TypeInv' /\ UNCHANGED db
           /\ Done(h) \/ Moves(h, "winner", task[h].rows, task[h].todo)
  <1>1. task[h].op \in {"join", "enrol"} /\ UNCHANGED db
    BY DEF InsertRefused, Inserting
  <1>2. task[h].op = "join" => task[h].rows \in PlayerRows
    BY DEF TypeInv, TaskOK
  <1>3. TableOK'
    BY <1>1, TableKept
  <1>4. CASE Done(h)
    BY <1>1, <1>3, <1>4, DoneKept
  <1>5. CASE Goto(h, "winner")
    <2>1. Moves(h, "winner", task[h].rows, task[h].todo)
      BY <1>5, GotoMoves DEF Steps
    <2>2. TypeInv'
      BY <1>1, <1>2, <1>3, <2>1, MovesKept
    <2> QED BY <1>1, <2>1, <2>2
  <1> QED BY <1>4, <1>5 DEF InsertRefused

NewPlayer(n) == [name |-> n, status |-> "joined", night |-> "this"]

LEMMA InsertPlayerTypes ==
    ASSUME TypeInv, NEW h \in Handlers, NEW p \in Players, InsertPlayer(h, p)
    PROVE  /\ TypeInv'
           /\ \E n \in task[h].todo \cap Names :
                /\ Named(n) = {} /\ NewPlayer(n) \in PlayerRow
                /\ players' = [players EXCEPT ![p] = NewPlayer(n)]
                /\ \/ task[h].op # "join" /\ Done(h)
                   \/ /\ task[h].op = "join"
                      /\ Moves(h, "answer", [i \in {p} |-> NewPlayer(n)], task[h].todo)
  <1>1. task[h].op \in {"join", "enrol"} /\ task[h].todo \subseteq Names
    BY DEF InsertPlayer, Inserting, TypeInv, TaskOK
  <1>2. PICK n \in task[h].todo :
            /\ Named(n) = {} /\ players' = [players EXCEPT ![p] = NewPlayer(n)]
            /\ task[h].op = "join" => task' = [task EXCEPT ![h].pc = "answer",
                                                 ![h].rows = [i \in {p} |-> NewPlayer(n)]]
            /\ task[h].op # "join" => Done(h)
    BY DEF InsertPlayer, NewPlayer
  <1>3. n \in Names /\ NewPlayer(n) \in PlayerRow
    BY <1>1 DEF NewPlayer, PlayerRow, PlayerStatus
  <1>4. TableOK'
    BY <1>2, <1>3, SavesPlayer DEF InsertPlayer
  <1>5. CASE task[h].op # "join"
    BY <1>2, <1>3, <1>4, <1>5, DoneKept
  <1>6. CASE task[h].op = "join"
    <2> DEFINE rows == [i \in {p} |-> NewPlayer(n)]
    <2>1. rows \in PlayerRows
      BY <1>3, OneRow
    <2>2. task' = [task EXCEPT ![h].pc = "answer", ![h].rows = rows]
      BY <1>2, <1>6
    <2> HIDE DEF rows
    <2>3. Moves(h, "answer", rows, task[h].todo)
      BY <2>1, <2>2, RejoinMoves DEF Steps
    <2>4. TypeInv'
      BY <1>4, <1>6, <2>1, <2>3, MovesKept
    <2>5. Moves(h, "answer", [i \in {p} |-> NewPlayer(n)], task[h].todo)
      BY <2>3 DEF rows
    <2> QED BY <1>2, <1>3, <1>6, <2>4, <2>5
  <1> QED BY <1>5, <1>6

LEMMA MarkRejoinedTypes ==
    ASSUME TypeInv, NEW h \in Handlers, MarkRejoined(h)
    PROVE  /\ TypeInv'
           /\ \/ Refused(h)
              \/ \E p \in DOMAIN task[h].rows :
                    /\ CanSave(p, task[h].rows[p])
                    /\ players' = [players EXCEPT ![p] = task[h].rows[p]]
                    /\ Moves(h, "answer", task[h].rows, task[h].todo)
                    /\ UNCHANGED <<session, games, teams>>
  <1>1. task[h].op = "join"
    BY DEF MarkRejoined, At
  <1>2. CASE Refused(h)
    BY <1>2, RefusedKept
  <1>3. CASE \E p \in DOMAIN task[h].rows :
                /\ CanSave(p, task[h].rows[p])
                /\ players' = [players EXCEPT ![p] = task[h].rows[p]]
                /\ Goto(h, "answer") /\ UNCHANGED <<session, games, teams>>
    <2>1. PICK p \in DOMAIN task[h].rows :
                /\ CanSave(p, task[h].rows[p])
                /\ players' = [players EXCEPT ![p] = task[h].rows[p]]
                /\ Goto(h, "answer") /\ UNCHANGED <<session, games, teams>>
      BY <1>3
    <2>2. TableOK'
      BY <1>1, <2>1, RowsOf, SavesPlayer
    <2>3. Moves(h, "answer", task[h].rows, task[h].todo)
      BY <2>1, GotoMoves DEF Steps
    <2>4. task[h].rows \in PlayerRows
      BY <1>1 DEF TypeInv, TaskOK
    <2>5. TypeInv'
      BY <1>1, <2>2, <2>3, <2>4, MovesKept
    <2> QED BY <2>1, <2>3, <2>5
  <1> QED BY <1>2, <1>3 DEF MarkRejoined

LEMMA SavePlayerTypes ==
    ASSUME TypeInv, NEW h \in Handlers, NEW p \in Players, SavePlayer(h, p)
    PROVE  TypeInv'
  <1>1. task[h].op \in {"player", "rename"} /\ p \in DOMAIN task[h].rows
    BY DEF SavePlayer
  <1>2. task[h].rows[p] \in PlayerRow
    BY <1>1, RowsOf
  <1>3. CASE Refused(h)
    BY <1>3, RefusedKept
  <1>4. CASE /\ players' = [players EXCEPT ![p] = task[h].rows[p]]
             /\ Done(h) /\ UNCHANGED <<session, games, teams>>
    BY <1>2, <1>4, SavesPlayer, DoneKept
  <1> QED BY <1>3, <1>4 DEF SavePlayer

LEMMA DetachTypes ==
    ASSUME TypeInv, NEW h \in Handlers, Detach(h)
    PROVE  TypeInv' /\ Moves(h, "remove", task[h].rows, task[h].todo)
  <1>1. task[h].op = "removePlayer"
    BY DEF Detach, At
  <1>2. Moves(h, "remove", task[h].rows, task[h].todo)
    BY GotoMoves DEF Detach, Steps
  <1>3. TableOK'
    BY ReattachTypes DEF Detach, TypeInv, TableOK
  <1> QED BY <1>1, <1>2, <1>3, MovesKept

LEMMA DropPlayerTypes ==
    ASSUME TypeInv, NEW h \in Handlers, DropPlayer(h)
    PROVE  TypeInv'
  <1>1. TableOK'
    BY ReattachTypes DEF DropPlayer, TypeInv, TableOK
  <1> QED BY <1>1, DoneKept DEF DropPlayer

\* The tables that kickPlayer saves.
SavedTeams(rows) == [u \in Teams |-> IF u \in DOMAIN rows THEN rows[u] ELSE teams[u]]
LeftPlayers(ps) == [p \in Players |-> IF p \in ps THEN None ELSE players[p]]

LEMMA SaveKickTypes ==
    ASSUME TypeInv, NEW h \in Handlers, SaveKick(h)
    PROVE  /\ TypeInv'
           /\ \/ Refused(h)
              \/ /\ \A u \in DOMAIN task[h].rows : CanSaveTeam(task[h].rows[u])
                 /\ SavedTeams(task[h].rows) \in [Teams -> TeamRow \cup {None}]
                 /\ LeftPlayers(task[h].todo) \in [Players -> PlayerRow \cup {None}]
                 /\ teams' = WithoutPlayers(SavedTeams(task[h].rows), task[h].todo)
                 /\ session' = task[h].ses
                 /\ players' = ReattachPlayers(LeftPlayers(task[h].todo), task[h].list)
                 /\ Done(h) /\ UNCHANGED games
  <1>1. task[h].op = "kick" /\ task[h].ses \in SessionRow \cup {None}
    BY DEF SaveKick, At, TypeInv, TaskOK, Task
  <1>2. SavedTeams(task[h].rows) \in [Teams -> TeamRow \cup {None}]
    BY <1>1, RowsOf DEF SavedTeams, TypeInv, TableOK
  <1>3. LeftPlayers(task[h].todo) \in [Players -> PlayerRow \cup {None}]
    BY DEF LeftPlayers, TypeInv, TableOK
  <1>4. CASE Refused(h)
    BY <1>4, RefusedKept
  <1>5. CASE /\ \A u \in DOMAIN task[h].rows : CanSaveTeam(task[h].rows[u])
             /\ teams' = WithoutPlayers(SavedTeams(task[h].rows), task[h].todo)
             /\ session' = task[h].ses
             /\ players' = ReattachPlayers(LeftPlayers(task[h].todo), task[h].list)
             /\ Done(h) /\ UNCHANGED games
    <2>1. TableOK'
      BY <1>1, <1>2, <1>3, <1>5, ReattachTypes DEF TypeInv, TableOK
    <2> QED BY <1>2, <1>3, <1>5, <2>1, DoneKept
  <1> QED BY <1>4, <1>5 DEF SaveKick, SavedTeams, LeftPlayers

-----------------------------------------------------------------------------
(* Types: the theorem.                                                       *)

LEMMA TypesInit ==
    ASSUME Init
    PROVE  TypeInv
  <1>1. PICK c \in Codes, p \in Players, n \in Names :
            /\ session = [status |-> "SCHEDULED", code |-> c]
            /\ players = [q \in Players |-> IF q = p THEN NewPlayer(n) ELSE None]
    BY DEF Init, NewPlayer
  <1>2. session \in SessionRow
    BY <1>1 DEF SessionRow, SessionStatus
  <1>3. NewPlayer(n) \in PlayerRow
    BY DEF NewPlayer, PlayerRow, PlayerStatus
  <1>4. players \in [Players -> PlayerRow \cup {None}]
    BY <1>1, <1>3
  <1>5. TableOK
    BY <1>2, <1>4 DEF Init, TableOK
  <1> QED BY <1>5, NoTaskOK, NoTaskIs DEF Init, TypeInv

LEMMA NightTypes ==
    ASSUME TypeInv, NEW h \in Handlers, NightStep(h)
    PROVE  TypeInv'
  <1>1. CASE StartSession(h) \/ LoadStart(h) \/ SaveStart(h)
             \/ \E p \in Players : StartPlayer(h, p)
    BY <1>1, StartTypes, LoadTypes, SaveStartTypes, StartPlayerTypes
  <1>2. CASE CompleteSession(h) \/ SaveComplete(h) \/ CancelSession(h) \/ SaveCancel(h)
    BY <1>2, CompleteTypes, SaveCompleteTypes, CancelTypes, SaveCancelTypes
  <1>3. CASE UpdateSession(h) \/ RegenerateJoinCode(h) \/ SaveSession(h)
    BY <1>3, UpdateTypes, SaveSessionTypes
  <1>4. CASE RemoveSession(h) \/ RemovePlayers(h) \/ RemoveRow(h)
    BY <1>4, RemoveSessionTypes, RemoveTypes
  <1> QED BY <1>1, <1>2, <1>3, <1>4 DEF NightStep

LEMMA GameTypes ==
    ASSUME TypeInv, NEW h \in Handlers, GameStep(h)
    PROVE  TypeInv'
  <1>1. CASE \E L \in SUBSET Libs : AddGames(h, L) \/ UpdateGames(h, L)
    BY <1>1, AddGamesTypes, RemoveGamesTypes
  <1>2. CASE \E L \in SUBSET Libs \ {{}} : ApplyPlan(h, L)
    BY <1>2, ApplyPlanTypes
  <1>3. CASE SavePlan(h)
    BY <1>3, SavePlanDoes, RefusedKept
  <1>4. CASE InsertGames(h) \/ DropGames(h) \/ AddAfterDrop(h)
    BY <1>4, InsertGamesTypes, DropGamesTypes, AddAfterDropTypes
  <1>5. CASE \E g \in Games : RemoveGame(h, g)
    BY <1>5, RemoveGamesTypes
  <1> QED BY <1>1, <1>2, <1>3, <1>4, <1>5 DEF GameStep

LEMMA TeamStepTypes ==
    ASSUME TypeInv, NEW h \in Handlers, TeamStep(h)
    PROVE  TypeInv'
  BY TeamTypes, SaveTeamTypes DEF TeamStep

LEMMA PlayerTypes ==
    ASSUME TypeInv, NEW h \in Handlers, PlayerStep(h)
    PROVE  TypeInv'
  <1>1. CASE \E n \in Names : JoinSession(h, n) \/ EnrolPlayer(h, n)
    BY <1>1, JoinTypes, EnrolTypes
  <1>2. CASE FindByName(h) \/ InsertRefused(h) \/ FindWinner(h) \/ MarkRejoined(h)
    BY <1>2, FindTypes, InsertRefusedTypes, MarkRejoinedTypes
  <1>3. CASE AnswerJoin(h)
    BY <1>3, RefusedKept DEF AnswerJoin
  <1>4. CASE Detach(h) \/ DropPlayer(h) \/ SaveKick(h)
    BY <1>4, DetachTypes, DropPlayerTypes, SaveKickTypes
  <1>5. ASSUME NEW p \in Players,
               InsertPlayer(h, p) \/ SavePlayer(h, p) \/ RemovePlayer(h, p) \/ KickPlayer(h, p)
        PROVE  TypeInv'
    BY <1>5, InsertPlayerTypes, SavePlayerTypes, RemovePlayerTypes, KickTypes
  <1>6. ASSUME NEW p \in Players,
               \/ RejoinSession(h, p)
               \/ \E ready \in BOOLEAN : SetPlayerReady(h, p, ready)
               \/ \E s \in PlayerStatus : SetPlayerStatus(h, p, s)
        PROVE  TypeInv'
    BY <1>6, StatusTypes
  <1>7. ASSUME NEW p \in Players,
               \E n \in Names, night \in {"this", "other"} : RenamePlayer(h, p, n, night)
        PROVE  TypeInv'
    BY <1>7, RenameTypes
  <1>8. ASSUME NEW p \in Players, NEW s \in PlayerStatus, NEW n \in Names, AdmitPlayer(h, p, n, s)
        PROVE  TypeInv'
    BY <1>8, AdmitTypes
  <1> QED BY <1>1, <1>2, <1>3, <1>4, <1>5, <1>6, <1>7, <1>8 DEF PlayerStep

LEMMA TypesNext ==
    ASSUME TypeInv, [Next]_vars
    PROVE  TypeInv'
  <1>1. CASE UNCHANGED vars
    BY <1>1 DEF TypeInv, TableOK, vars
  <1>2. ASSUME NEW h \in Handlers, Fail(h)
        PROVE  TypeInv'
    BY <1>2, RefusedKept DEF Fail
  <1>3. ASSUME NEW h \in Handlers, NightStep(h) \/ GameStep(h) \/ TeamStep(h) \/ PlayerStep(h)
        PROVE  TypeInv'
    BY <1>3, NightTypes, GameTypes, TeamStepTypes, PlayerTypes
  <1> QED BY <1>1, <1>2, <1>3, PlayGameTypes DEF Next

\* TypeInv holds in every reachable state.
THEOREM TypesHold == Spec => []TypeInv
  <1>1. TypeInv /\ [Next]_vars => TypeInv'
    BY TypesNext
  <1> QED BY <1>1, TypesInit, PTL DEF Spec

\* The types hold, whatever is served beside one another: every row is one that
\* the tables take, and a request works on ids of players, games and teams.
THEOREM TypeCorrect == Spec => []TypeOK
  <1>1. TypeInv => TypeOK
    <2>1. ASSUME TypeInv, NEW h \in Handlers
          PROVE  /\ task[h].op \in AllOps \cup {"none"} /\ task[h].ses \in SessionRow \cup {None}
                 /\ DOMAIN task[h].rows \subseteq Players \cup Games \cup Teams
                 /\ task[h].list \subseteq Players \cup Games \cup Teams
                 /\ task[h].todo \subseteq Players \cup Libs \cup Names
      <3>1. task[h] \in Task
        BY <2>1 DEF TypeInv
      <3>2. DOMAIN task[h].rows \subseteq Players \cup Games \cup Teams
        BY <3>1, InPartial DEF Task, PlayerRows, GameRows, TeamRows
      <3> QED BY <3>1, <3>2 DEF Task
    <2> QED BY <2>1 DEF TypeInv, TypeOK, TableOK
  <1> QED BY <1>1, TypesHold, PTL

-----------------------------------------------------------------------------
(* Requests that are served alone.                                           *)

Shared == {"join", "enrol", "play"}
JoinsOnly == Overlapping \subseteq Shared

Alone(k) == k.op \notin {"none", "join", "enrol"}
AloneInv ==
    /\ \A h \in Handlers : task[h].op # "play" /\ (task[h].op = "none" => task[h] = NoTask)
    /\ \A h, j \in Handlers : Alone(task[h]) /\ j # h => task[j] = NoTask

\* The tables: nobody is between the nights, the games are in the night, no library
\* entry is there twice, teams have players that exist, and with the night its
\* players, games and teams are gone.
Sound ==
    /\ \A p \in Players : players[p] # None => players[p].night \in {"this", "other"}
    /\ \A g \in Games : games[g] # None => games[g].here
    /\ \A g, k \in Games : games[g] # None /\ games[k] # None /\ games[g].lib = games[k].lib
                            => g = k
    /\ \A t \in Teams : teams[t] # None => \A p \in teams[t].members : players[p] # None
    /\ session = None =>
        /\ \A p \in Players : players[p] # None => players[p].night # "this"
        /\ \A g \in Games : games[g] = None
        /\ \A t \in Teams : teams[t] = None

\* A player who was found, or put, into the night, for a join.
Found(k) ==
    \E p \in Attached : \E n \in Names :
        /\ k.rows \in [{p} -> PlayerRow] /\ k.todo = {n}
        /\ players[p].name = n /\ k.rows[p].name = n /\ k.rows[p].night = "this"

\* What a request that is served alone holds is what the tables say.
HeldStart(k) ==
    /\ session # None /\ session.status = "SCHEDULED"
    /\ k.pc = "load" => \A p \in Attached : players[p].status \in {"ready", "disconnected"}
    /\ k.pc = "players" =>
        /\ k.ses = [session EXCEPT !.status = "IN_PROGRESS"] /\ k.list = Attached
        /\ DOMAIN k.rows \subseteq Attached
        /\ \A p \in DOMAIN k.rows : k.rows[p].status = "playing" /\ k.rows[p].night = "this"
        /\ \A p \in Attached \ k.todo : players[p].status \in {"playing", "disconnected"}

HeldNight(k) ==
    /\ session # None
    /\ k.op = "update" => k.ses.status = session.status
    /\ k.op = "complete" =>
        /\ session.status = "IN_PROGRESS" /\ k.ses = [session EXCEPT !.status = "COMPLETED"]
        /\ k.list = Listed /\ Unfinished = {}
    /\ k.op = "cancel" =>
        /\ session.status \in {"SCHEDULED", "IN_PROGRESS"}
        /\ k.ses = [session EXCEPT !.status = "CANCELLED"]
        /\ k.list = Listed
        /\ k.rows = Cancelled

HeldGames(k) ==
    /\ session # None
    /\ k.op = "addGames" => k.pc = "insert" /\ k.todo \cap {games[g].lib : g \in Listed} = {}
    /\ k.op = "applyPlan" => {g \in Games : games[g] # None} \subseteq k.list

HeldPlayer(k) ==
    /\ \A p \in DOMAIN k.rows : k.rows[p].night \in {"this", "other"}
    /\ k.op = "player" => \A p \in DOMAIN k.rows : k.rows[p].night = "this"

HeldKick(k) ==
    /\ session # None /\ k.ses = session
    /\ \E p \in Attached : k.todo = {p} /\ k.list = Attached \ {p}

Held(k) ==
    /\ k.op = "join" /\ k.pc \in {"rejoin", "answer"} => Found(k)
    /\ k.op \in {"join", "enrol"} => \E n \in Names : k.todo = {n}
    /\ k.op = "start" => HeldStart(k)
    /\ k.op \in {"update", "complete", "cancel", "removeSession"} => HeldNight(k)
    /\ k.op \in {"addGames", "removeGame", "applyPlan"} => HeldGames(k)
    /\ k.op \in {"player", "rename"} => HeldPlayer(k)
    /\ k.op = "removePlayer" => \E p \in Players : k.list = {p}
    /\ k.op = "kick" => HeldKick(k)

SInv == AloneInv /\ Sound /\ \A h \in Handlers : Held(task[h])

\* What every step shows besides SInv: it is a step of the abstract life, the
\* players start together, and nobody drops out by accident.
LivesOn == [Life!Next]_Life!vars
StartsTogether ==
    session # None /\ session' # None
        /\ session.status = "SCHEDULED" /\ session'.status = "IN_PROGRESS"
       => \A p \in Attached' : players'[p].status \in {"playing", "disconnected"}
About(h, p) ==
    \/ task[h].op = "kick" /\ task[h].todo = {p}
    \/ task[h].op = "removePlayer" /\ task[h].list = {p}
    \/ task[h].op = "rename" /\ p \in DOMAIN task[h].rows /\ task[h].rows[p].night = "other"
    \/ task[h].op = "removeSession"
Stays == \A p \in Attached \ Attached' : \E h \in Handlers : About(h, p)
Promises == LivesOn /\ StartsTogether /\ Stays

LEMMA SameNight ==
    ASSUME UNCHANGED <<session, games>>
    PROVE  LivesOn /\ StartsTogether
  <1>1. Unfinished' = Unfinished
    BY DEF Unfinished, Listed
  <1>2. UNCHANGED Life!vars
    BY <1>1 DEF Life!vars
  <1> QED BY <1>2 DEF LivesOn, StartsTogether

LEMMA SamePlayers ==
    ASSUME UNCHANGED players
    PROVE  Attached' = Attached /\ Stays
  BY DEF Attached, Stays

LEMMA SameTables ==
    ASSUME UNCHANGED db
    PROVE  /\ Promises /\ (Sound => Sound')
           /\ \A k : Held(k) => Held(k)'
  <1>1. UNCHANGED <<session, players, games, teams>>
    BY DEF db
  <1>2. Attached' = Attached /\ Listed' = Listed /\ Unfinished' = Unfinished
    BY <1>1 DEF Attached, Listed, Unfinished
  <1>3. Promises
    BY <1>1, SameNight, SamePlayers DEF Promises
  <1>4. Sound => Sound'
    BY <1>1 DEF Sound
  <1>5. ASSUME NEW k, Held(k)
        PROVE  Held(k)'
    <2>1. Found(k) => Found(k)'
      BY <1>1, <1>2 DEF Found
    <2>2. HeldStart(k) => HeldStart(k)'
      BY <1>1, <1>2 DEF HeldStart
    <2>3. Cancelled' = Cancelled
      BY <1>1, <1>2 DEF Cancelled
    <2>4. HeldNight(k) => HeldNight(k)'
      BY <1>1, <1>2, <2>3 DEF HeldNight
    <2>5. HeldGames(k) => HeldGames(k)'
      BY <1>1, <1>2 DEF HeldGames
    <2>6. HeldKick(k) => HeldKick(k)'
      BY <1>1, <1>2 DEF HeldKick
    <2> QED BY <1>5, <2>1, <2>2, <2>4, <2>5, <2>6 DEF Held, HeldPlayer
  <1> QED BY <1>3, <1>4, <1>5

\* An idle handler holds nothing.
LEMMA IdleHolds ==
    /\ NoTask.op = "none" /\ Held(NoTask) /\ Held(NoTask)'
  BY DEF NoTask, Held

\* A handler that is alone.
LEMMA OneTask ==
    ASSUME TypeInv, NEW h \in Handlers, NEW k, k.op = "none" => k = NoTask, k.op # "play",
           \A j \in Handlers \ {h} : task[j] = NoTask,
           task' = [task EXCEPT ![h] = k], Sound', Held(k)'
    PROVE  SInv'
  <1>1. task \in [Handlers -> Task]
    BY DEF TypeInv
  <1>2. task'[h] = k /\ \A j \in Handlers \ {h} : task'[j] = NoTask
    BY <1>1
  <1>3. ASSUME NEW j \in Handlers
        PROVE  Held(task[j])'
    <2>1. CASE j = h
      BY <1>2, <2>1
    <2>2. CASE j # h
      BY <1>2, <2>2, IdleHolds
    <2> QED BY <2>1, <2>2
  <1>4. AloneInv'
    BY <1>2, IdleHolds DEF AloneInv, Alone
  <1> QED BY <1>3, <1>4 DEF SInv

\* A handler beside joins and enrolments.
LEMMA SharedTask ==
    ASSUME TypeInv, SInv, NEW h \in Handlers, NEW k, k = NoTask \/ k.op \in {"join", "enrol"},
           \A j \in Handlers \ {h} : ~ Alone(task[j]),
           task' = [task EXCEPT ![h] = k], Sound', Held(k)',
           \A j \in Handlers \ {h} : \A m : m = task[j] => Held(m)'
    PROVE  SInv'
  <1>1. task \in [Handlers -> Task]
    BY DEF TypeInv
  <1>2. task'[h] = k /\ \A j \in Handlers \ {h} : task'[j] = task[j]
    BY <1>1
  <1>3. ASSUME NEW j \in Handlers
        PROVE  Held(task[j])'
    <2>1. CASE j = h
      BY <1>2, <2>1
    <2>2. CASE j # h
      <3>1. PICK m : m = task[j]
        OBVIOUS
      <3>2. task'[j] = m /\ Held(m)'
        BY <1>2, <2>2, <3>1
      <3> QED BY <3>2
    <2> QED BY <2>1, <2>2
  <1>4. AloneInv'
    <2>1. ASSUME NEW j \in Handlers
          PROVE  ~ Alone(task'[j]) /\ task'[j].op # "play"
                 /\ (task'[j].op = "none" => task'[j] = NoTask)
      <3>1. CASE j = h
        BY <1>2, <3>1, IdleHolds DEF Alone
      <3>2. CASE j # h
        BY <1>2, <3>2 DEF SInv, AloneInv
      <3> QED BY <3>1, <3>2
    <2> QED BY <2>1 DEF AloneInv, Alone
  <1> QED BY <1>3, <1>4 DEF SInv

\* What is refused changes no table, and the others go on holding what they hold.
LEMMA DoneAndSame ==
    ASSUME TypeInv, SInv, NEW h \in Handlers, Done(h), UNCHANGED db
    PROVE  SInv' /\ Promises
  <1>1. task' = [task EXCEPT ![h] = NoTask]
    BY DEF Done
  <1>2. Sound' /\ Promises /\ \A k : Held(k) => Held(k)'
    BY SameTables DEF SInv
  <1>3. CASE \A j \in Handlers \ {h} : ~ Alone(task[j])
    <2>1. \A j \in Handlers \ {h} : \A m : m = task[j] => Held(m)'
      BY <1>2 DEF SInv
    <2>2. SInv'
      BY <1>1, <1>2, <1>3, <2>1, IdleHolds, SharedTask
    <2> QED BY <1>2, <2>2
  <1>4. CASE \E j \in Handlers \ {h} : Alone(task[j])
    <2>1. task[h] = NoTask
      BY <1>4 DEF SInv, AloneInv
    <2>2. UNCHANGED task
      BY <1>1, <2>1 DEF TypeInv
    <2>3. SInv'
      BY <1>2, <2>2 DEF SInv, AloneInv
    <2> QED BY <1>2, <2>3
  <1> QED BY <1>3, <1>4

LEMMA RefusedPromises ==
    ASSUME TypeInv, SInv, NEW h \in Handlers, Refused(h)
    PROVE  SInv' /\ Promises
  BY DoneAndSame DEF Refused

\* A request that is served alone comes in.
LEMMA BusyAlone ==
    ASSUME TypeInv, SInv, JoinsOnly, NEW h \in Handlers, NEW op, op \notin Shared, Request(h, op)
    PROVE  \A j \in Handlers : task[j] = NoTask
  BY DEF Request, Allowed, JoinsOnly

LEMMA BesideJoins ==
    ASSUME TypeInv, SInv, JoinsOnly, NEW op, Allowed(op), op \in Shared
    PROVE  \A j \in Handlers : ~ Alone(task[j])
  <1>1. ASSUME NEW j \in Handlers, task[j] # NoTask
        PROVE  task[j].op \in Shared
    BY <1>1 DEF Allowed, JoinsOnly
  <1>2. ASSUME NEW j \in Handlers
        PROVE  task[j].op # "play"
    BY DEF SInv, AloneInv
  <1> QED BY <1>1, <1>2, IdleHolds DEF Alone, Shared

\* A request begins, or a handler goes on, with a task that holds what it must.
LEMMA OpensAlone ==
    ASSUME TypeInv, SInv, NEW h \in Handlers, \A j \in Handlers \ {h} : task[j] = NoTask,
           NEW op \in AllOps \ {"play"}, NEW pc, NEW ses, NEW rows, NEW list, NEW todo,
           Opens(h, op, pc, ses, rows, list, todo), UNCHANGED db,
           \A k \in Task : /\ k.op = op /\ k.pc = pc /\ k.ses = ses
                           /\ k.rows = rows /\ k.list = list /\ k.todo = todo
                           => Held(k)
    PROVE  SInv' /\ Promises
  <1>1. PICK k \in Task :
            /\ task' = [task EXCEPT ![h] = k]
            /\ k.op = op /\ k.pc = pc /\ k.ses = ses
            /\ k.rows = rows /\ k.list = list /\ k.todo = todo
    BY DEF Opens
  <1>2. Held(k)
    BY <1>1
  <1>3. Sound' /\ Promises /\ Held(k)'
    BY <1>2, SameTables DEF SInv
  <1>4. k.op # "none" /\ k.op # "play"
    BY <1>1 DEF AllOps
  <1> QED BY <1>1, <1>3, <1>4, OneTask

LEMMA OpensShared ==
    ASSUME TypeInv, SInv, NEW h \in Handlers, \A j \in Handlers \ {h} : ~ Alone(task[j]),
           NEW op \in {"join", "enrol"}, NEW pc \in {"find", "insert"}, NEW ses, NEW n \in Names,
           Opens(h, op, pc, ses, NoTask.rows, {}, {n}), UNCHANGED db
    PROVE  SInv' /\ Promises
  <1>1. PICK k \in Task :
            /\ task' = [task EXCEPT ![h] = k]
            /\ k.op = op /\ k.pc = pc /\ k.todo = {n}
    BY DEF Opens
  <1>2. Held(k)
    BY <1>1 DEF Held
  <1>3. Sound' /\ Promises /\ Held(k)' /\ \A j \in Handlers : \A m : m = task[j] => Held(m)'
    BY <1>2, SameTables DEF SInv
  <1> QED BY <1>1, <1>3, SharedTask

\* An exclusive handler takes a step.
LEMMA OthersIdle ==
    ASSUME TypeInv, SInv, NEW h \in Handlers, Alone(task[h])
    PROVE  (\A j \in Handlers \ {h} : task[j] = NoTask) /\ Held(task[h])
  BY DEF SInv, AloneInv

LEMMA AloneDone ==
    ASSUME TypeInv, SInv, NEW h \in Handlers, Alone(task[h]), Done(h), Sound'
    PROVE  SInv'
  <1>1. task' = [task EXCEPT ![h] = NoTask]
    BY DEF Done
  <1> QED BY <1>1, OthersIdle, IdleHolds, OneTask

LEMMA AloneMoves ==
    ASSUME TypeInv, SInv, NEW h \in Handlers, Alone(task[h]),
           NEW pc, NEW rows, NEW todo, Moves(h, pc, rows, todo), Sound',
           \A k \in Task : /\ k.op = task[h].op /\ k.pc = pc /\ k.ses = task[h].ses
                           /\ k.rows = rows /\ k.list = task[h].list /\ k.todo = todo
                           => Held(k)'
    PROVE  SInv'
  <1>1. PICK k \in Task :
            /\ task' = [task EXCEPT ![h] = k]
            /\ k.op = task[h].op /\ k.pc = pc /\ k.ses = task[h].ses
            /\ k.rows = rows /\ k.list = task[h].list /\ k.todo = todo
    BY DEF Moves
  <1>2. Held(k)' /\ k.op # "none" /\ k.op # "play"
    BY <1>1 DEF Alone, SInv, AloneInv
  <1> QED BY <1>1, <1>2, OthersIdle, OneTask

-----------------------------------------------------------------------------
(* The steps that change no table.                                           *)

LEMMA StartHolds ==
    ASSUME TypeInv, SInv, JoinsOnly, NEW h \in Handlers, StartSession(h)
    PROVE  SInv' /\ Promises
  <1>1. \A j \in Handlers : task[j] = NoTask
    BY BusyAlone DEF StartSession, Shared
  <1>2. Opens(h, "start", "load", None, NoTask.rows, {}, {}) /\ UNCHANGED db
    BY StartTypes DEF StartSession
  <1>3. /\ session # None /\ session.status = "SCHEDULED"
        /\ \A p \in Attached : players[p].status \in {"ready", "disconnected"}
    BY DEF StartSession, IsActive
  <1>4. \A k \in Task : k.op = "start" /\ k.pc = "load" => Held(k)
    BY <1>3 DEF Held, HeldStart
  <1> QED BY <1>1, <1>2, <1>4, OpensAlone DEF AllOps

LEMMA LoadHolds ==
    ASSUME TypeInv, SInv, NEW h \in Handlers, LoadStart(h)
    PROVE  SInv' /\ Promises
  <1> DEFINE ses == [session EXCEPT !.status = "IN_PROGRESS"]
  <1>1. task[h].op = "start" /\ task[h].pc = "load"
    BY DEF LoadStart, At
  <1>2. Alone(task[h]) /\ HeldStart(task[h])
    BY <1>1 DEF Alone, SInv, Held
  <1>3. CASE Done(h)
    BY <1>3, LoadTypes, DoneAndSame
  <1>4. CASE Opens(h, "start", "players", ses, Starting, Attached, Ready)
    <2>1. /\ session # None /\ session.status = "SCHEDULED"
          /\ \A p \in Attached : players[p].status \in {"ready", "disconnected"}
      BY <1>1, <1>2 DEF HeldStart
    <2>2. \A p \in Attached \ Ready : players[p].status = "disconnected"
      BY <2>1 DEF Ready
    <2>3. DOMAIN Starting = Ready /\ Ready \subseteq Attached
      BY DEF Starting, Ready
    <2>4. ASSUME NEW p \in Ready
          PROVE  Starting[p].status = "playing" /\ Starting[p].night = "this"
      <3>1. players[p] \in PlayerRow /\ players[p].night = "this"
        BY DEF Ready, Attached, TypeInv, TableOK
      <3> QED BY <3>1 DEF Starting, PlayerRow
    <2>5. ASSUME NEW k \in Task, k.op = "start", k.pc = "players", k.ses = ses,
                 k.rows = Starting, k.list = Attached, k.todo = Ready
          PROVE  Held(k)
      BY <2>1, <2>2, <2>3, <2>4, <2>5 DEF Held, HeldStart
    <2> HIDE DEF ses
    <2>6. (\A j \in Handlers \ {h} : task[j] = NoTask) /\ UNCHANGED db
      BY <1>2, OthersIdle, LoadTypes
    <2> QED BY <1>4, <2>5, <2>6, OpensAlone DEF AllOps
  <1> QED BY <1>3, <1>4, LoadTypes

LEMMA CompleteHolds ==
    ASSUME TypeInv, SInv, JoinsOnly, NEW h \in Handlers, CompleteSession(h)
    PROVE  SInv' /\ Promises
  <1> DEFINE ses == [session EXCEPT !.status = "COMPLETED"]
  <1>1. \A j \in Handlers : task[j] = NoTask
    BY BusyAlone DEF CompleteSession, Shared
  <1>2. Opens(h, "complete", "save", ses, NoTask.rows, Listed, {}) /\ UNCHANGED db
    BY CompleteTypes
  <1>3. session # None /\ session.status = "IN_PROGRESS" /\ Unfinished = {}
    BY DEF CompleteSession
  <1>4. \A k \in Task : k.op = "complete" /\ k.ses = ses /\ k.list = Listed => Held(k)
    BY <1>3 DEF Held, HeldNight
  <1> HIDE DEF ses
  <1> QED BY <1>1, <1>2, <1>4, OpensAlone DEF AllOps

LEMMA CancelHolds ==
    ASSUME TypeInv, SInv, JoinsOnly, NEW h \in Handlers, CancelSession(h)
    PROVE  SInv' /\ Promises
  <1> DEFINE ses == [session EXCEPT !.status = "CANCELLED"]
  <1>1. \A j \in Handlers : task[j] = NoTask
    BY BusyAlone DEF CancelSession, Shared
  <1>2. Opens(h, "cancel", "save", ses, Cancelled, Listed, {}) /\ UNCHANGED db
    BY CancelTypes
  <1>3. session # None /\ session.status \in {"SCHEDULED", "IN_PROGRESS"}
    BY DEF CancelSession, TypeInv, TableOK, SessionRow, SessionStatus
  <1>4. \A k \in Task : /\ k.op = "cancel" /\ k.ses = ses /\ k.list = Listed
                        /\ k.rows = Cancelled
                        => Held(k)
    BY <1>3 DEF Held, HeldNight
  <1> HIDE DEF ses
  <1> QED BY <1>1, <1>2, <1>4, OpensAlone DEF AllOps

LEMMA UpdateHolds ==
    ASSUME TypeInv, SInv, JoinsOnly, NEW h \in Handlers,
           UpdateSession(h) \/ RegenerateJoinCode(h)
    PROVE  SInv' /\ Promises
  <1>1. \A j \in Handlers : task[j] = NoTask
    BY BusyAlone DEF UpdateSession, RegenerateJoinCode, Shared
  <1>2. PICK ses \in SessionRow : /\ ses.status = session.status
                                  /\ Opens(h, "update", "save", ses, NoTask.rows, {}, {})
    BY UpdateTypes
  <1>3. session # None /\ UNCHANGED db
    BY UpdateTypes
  <1>4. \A k \in Task : k.op = "update" /\ k.ses = ses => Held(k)
    BY <1>2, <1>3 DEF Held, HeldNight
  <1> QED BY <1>1, <1>2, <1>3, <1>4, OpensAlone DEF AllOps

LEMMA RemoveSessionHolds ==
    ASSUME TypeInv, SInv, JoinsOnly, NEW h \in Handlers, RemoveSession(h)
    PROVE  SInv' /\ Promises
  <1>1. \A j \in Handlers : task[j] = NoTask
    BY BusyAlone DEF RemoveSession, Shared
  <1>2. /\ Opens(h, "removeSession", "players", None, NoTask.rows, Attached, {})
        /\ UNCHANGED db /\ session # None
    BY RemoveSessionTypes DEF RemoveSession
  <1>3. \A k \in Task : k.op = "removeSession" => Held(k)
    BY <1>2 DEF Held, HeldNight
  <1> QED BY <1>1, <1>2, <1>3, OpensAlone DEF AllOps

LEMMA AddGamesHolds ==
    ASSUME TypeInv, SInv, JoinsOnly, NEW h \in Handlers, NEW libs \in SUBSET Libs,
           AddGames(h, libs)
    PROVE  SInv' /\ Promises
  <1>1. \A j \in Handlers : task[j] = NoTask
    BY BusyAlone DEF AddGames, Shared
  <1>2. /\ Opens(h, "addGames", "insert", None, NoTask.rows, {}, NewLibs(libs))
        /\ UNCHANGED db /\ session # None
    BY AddGamesTypes DEF AddGames
  <1>3. \A k \in Task : k.op = "addGames" /\ k.pc = "insert" /\ k.todo = NewLibs(libs) => Held(k)
    BY <1>2 DEF Held, HeldGames, NewLibs
  <1> QED BY <1>1, <1>2, <1>3, OpensAlone DEF AllOps

LEMMA AddAfterDropHolds ==
    ASSUME TypeInv, SInv, NEW h \in Handlers, AddAfterDrop(h)
    PROVE  SInv' /\ Promises
  <1>1. task[h].op = "removeGame"
    BY DEF AddAfterDrop, At
  <1>2. Alone(task[h])
    BY <1>1 DEF Alone
  <1>3. CASE Done(h)
    BY <1>3, AddAfterDropTypes, DoneAndSame
  <1>4. CASE /\ session # None
             /\ Opens(h, "addGames", "insert", None, NoTask.rows, {}, NewLibs(task[h].todo))
    <2>1. PICK libs : libs = NewLibs(task[h].todo)
      OBVIOUS
    <2>2. ASSUME NEW k \in Task, k.op = "addGames", k.pc = "insert", k.todo = libs
          PROVE  Held(k)
      BY <1>4, <2>1, <2>2 DEF Held, HeldGames, NewLibs
    <2>3. Opens(h, "addGames", "insert", None, NoTask.rows, {}, libs)
      BY <1>4, <2>1
    <2>4. (\A j \in Handlers \ {h} : task[j] = NoTask) /\ UNCHANGED db
      BY <1>2, OthersIdle, AddAfterDropTypes
    <2> QED BY <2>2, <2>3, <2>4, OpensAlone DEF AllOps
  <1> QED BY <1>3, <1>4, AddAfterDropTypes

LEMMA RemoveGamesHolds ==
    ASSUME TypeInv, SInv, JoinsOnly, NEW h \in Handlers,
           \/ \E g \in Games : RemoveGame(h, g)
           \/ \E libs \in SUBSET Libs : UpdateGames(h, libs)
    PROVE  SInv' /\ Promises
  <1>1. \A j \in Handlers : task[j] = NoTask
    BY BusyAlone DEF RemoveGame, UpdateGames, Shared
  <1>2. PICK list \in SUBSET Games, todo \in SUBSET Libs :
            Opens(h, "removeGame", "remove", None, NoTask.rows, list, todo)
    BY RemoveGamesTypes
  <1>3. UNCHANGED db
    BY RemoveGamesTypes
  <1>4. session # None
    BY DEF RemoveGame, UpdateGames, Listed, SInv, Sound
  <1>5. \A k \in Task : k.op = "removeGame" => Held(k)
    BY <1>4 DEF Held, HeldGames
  <1> QED BY <1>1, <1>2, <1>3, <1>5, OpensAlone DEF AllOps

LEMMA ApplyPlanHolds ==
    ASSUME TypeInv, SInv, JoinsOnly, NEW h \in Handlers, NEW libs \in SUBSET Libs,
           ApplyPlan(h, libs)
    PROVE  SInv' /\ Promises
  <1> DEFINE list == Listed \cup {t \in Teams : teams[t] # None}
  <1>1. \A j \in Handlers : task[j] = NoTask
    BY BusyAlone DEF ApplyPlan, Shared
  <1>2. /\ Opens(h, "applyPlan", "save", None, NoTask.rows, list, libs)
        /\ UNCHANGED db /\ session # None
    BY ApplyPlanTypes DEF ApplyPlan
  <1>3. {g \in Games : games[g] # None} \subseteq list
    BY DEF SInv, Sound, Listed
  <1>4. \A k \in Task : k.op = "applyPlan" /\ k.list = list => Held(k)
    BY <1>2, <1>3 DEF Held, HeldGames
  <1> HIDE DEF list
  <1> QED BY <1>1, <1>2, <1>4, OpensAlone DEF AllOps

LEMMA TeamHolds ==
    ASSUME TypeInv, SInv, JoinsOnly, NEW h \in Handlers, NEW t \in Teams,
           NEW members \in SUBSET Players,
           \/ AssignPlayers(h, t, members)
           \/ \E g \in Games \cup {None} : CreateTeam(h, t, members, g)
    PROVE  SInv' /\ Promises
  <1>1. \A j \in Handlers : task[j] = NoTask
    BY BusyAlone DEF AssignPlayers, CreateTeam, Shared
  <1>2. PICK rows \in TeamRows : Opens(h, "team", "save", None, rows, {}, {})
    BY TeamTypes
  <1>3. UNCHANGED db
    BY TeamTypes
  <1>4. \A k \in Task : k.op = "team" => Held(k)
    BY DEF Held
  <1> QED BY <1>1, <1>2, <1>3, <1>4, OpensAlone DEF AllOps

LEMMA JoinHolds ==
    ASSUME TypeInv, SInv, JoinsOnly, NEW h \in Handlers, NEW n \in Names,
           JoinSession(h, n) \/ EnrolPlayer(h, n)
    PROVE  SInv' /\ Promises
  <1>1. \A j \in Handlers : ~ Alone(task[j])
    BY BesideJoins DEF JoinSession, EnrolPlayer, Request, Shared
  <1>2. CASE JoinSession(h, n)
    <2>1. PICK ses : ses = session
      OBVIOUS
    <2>2. Opens(h, "join", "find", ses, NoTask.rows, {}, {n}) /\ UNCHANGED db
      BY <1>2, <2>1, JoinTypes
    <2> QED BY <1>1, <2>2, OpensShared
  <1>3. CASE EnrolPlayer(h, n)
    <2>1. Opens(h, "enrol", "insert", None, NoTask.rows, {}, {n}) /\ UNCHANGED db
      BY <1>3, EnrolTypes
    <2> QED BY <1>1, <2>1, OpensShared
  <1> QED BY <1>2, <1>3

LEMMA StatusHolds ==
    ASSUME TypeInv, SInv, JoinsOnly, NEW h \in Handlers, NEW p \in Players,
           \/ RejoinSession(h, p)
           \/ \E ready \in BOOLEAN : SetPlayerReady(h, p, ready)
           \/ \E s \in PlayerStatus : SetPlayerStatus(h, p, s)
    PROVE  SInv' /\ Promises
  <1>1. \A j \in Handlers : task[j] = NoTask
    BY BusyAlone DEF RejoinSession, SetPlayerReady, SetPlayerStatus, Shared
  <1>2. PICK row \in PlayerRow :
            /\ row.night = "this"
            /\ Opens(h, "player", "save", None, [i \in {p} |-> row], {}, {})
    BY StatusTypes
  <1>3. UNCHANGED db
    BY StatusTypes
  <1> DEFINE rows == [i \in {p} |-> row]
  <1>4. DOMAIN rows = {p} /\ rows[p] = row
    OBVIOUS
  <1> HIDE DEF rows
  <1>5. \A k \in Task : k.op = "player" /\ k.rows = rows => Held(k)
    BY <1>2, <1>4 DEF Held, HeldPlayer
  <1>6. Opens(h, "player", "save", None, rows, {}, {})
    BY <1>2 DEF rows
  <1> QED BY <1>1, <1>3, <1>5, <1>6, OpensAlone DEF AllOps

LEMMA RenameHolds ==
    ASSUME TypeInv, SInv, JoinsOnly, NEW h \in Handlers, NEW p \in Players, NEW n \in Names,
           NEW night \in {"this", "other"}, RenamePlayer(h, p, n, night)
    PROVE  SInv' /\ Promises
  <1>1. \A j \in Handlers : task[j] = NoTask
    BY BusyAlone DEF RenamePlayer, Shared
  <1>2. PICK row \in PlayerRow :
            /\ row.night = night
            /\ Opens(h, "rename", "save", None, [i \in {p} |-> row], {}, {})
    BY RenameTypes
  <1>3. UNCHANGED db
    BY RenameTypes
  <1> DEFINE rows == [i \in {p} |-> row]
  <1>4. DOMAIN rows = {p} /\ rows[p] = row
    OBVIOUS
  <1> HIDE DEF rows
  <1>5. \A k \in Task : k.op = "rename" /\ k.rows = rows => Held(k)
    BY <1>2, <1>4 DEF Held, HeldPlayer
  <1>6. Opens(h, "rename", "save", None, rows, {}, {})
    BY <1>2 DEF rows
  <1> QED BY <1>1, <1>3, <1>5, <1>6, OpensAlone DEF AllOps

LEMMA AdmitHolds ==
    ASSUME TypeInv, SInv, JoinsOnly, NEW h \in Handlers, NEW p \in Players, NEW n \in Names,
           NEW s \in PlayerStatus, AdmitPlayer(h, p, n, s)
    PROVE  SInv' /\ Promises
  <1>1. \A j \in Handlers : task[j] = NoTask
    BY BusyAlone DEF AdmitPlayer, Shared
  <1>2. PICK row \in PlayerRow :
            /\ row.night = "this"
            /\ Opens(h, "rename", "save", None, [i \in {p} |-> row], {}, {})
    BY AdmitTypes
  <1>3. UNCHANGED db
    BY AdmitTypes
  <1> DEFINE rows == [i \in {p} |-> row]
  <1>4. DOMAIN rows = {p} /\ rows[p] = row
    OBVIOUS
  <1> HIDE DEF rows
  <1>5. \A k \in Task : k.op = "rename" /\ k.rows = rows => Held(k)
    BY <1>2, <1>4 DEF Held, HeldPlayer
  <1>6. Opens(h, "rename", "save", None, rows, {}, {})
    BY <1>2 DEF rows
  <1> QED BY <1>1, <1>3, <1>5, <1>6, OpensAlone DEF AllOps

LEMMA RemovePlayerHolds ==
    ASSUME TypeInv, SInv, JoinsOnly, NEW h \in Handlers, NEW p \in Players, RemovePlayer(h, p)
    PROVE  SInv' /\ Promises
  <1>1. \A j \in Handlers : task[j] = NoTask
    BY BusyAlone DEF RemovePlayer, Shared
  <1>2. /\ Opens(h, "removePlayer", "detach", None, NoTask.rows, {p}, {})
        /\ UNCHANGED db
    BY RemovePlayerTypes
  <1>3. \A k \in Task : k.op = "removePlayer" /\ k.list = {p} => Held(k)
    BY DEF Held
  <1> QED BY <1>1, <1>2, <1>3, OpensAlone DEF AllOps

LEMMA KickHolds ==
    ASSUME TypeInv, SInv, JoinsOnly, NEW h \in Handlers, NEW p \in Players, KickPlayer(h, p)
    PROVE  SInv' /\ Promises
  <1>1. \A j \in Handlers : task[j] = NoTask
    BY BusyAlone DEF KickPlayer, Shared
  <1>2. PICK ses, rows, list : ses = session /\ rows = Without(p) /\ list = Attached \ {p}
    OBVIOUS
  <1>3. Opens(h, "kick", "save", ses, rows, list, {p}) /\ UNCHANGED db
    BY <1>2, KickTypes
  <1>4. session # None /\ p \in Attached
    BY DEF KickPlayer, Attached, SInv, Sound
  <1>5. \A k \in Task : /\ k.op = "kick" /\ k.ses = ses /\ k.list = list /\ k.todo = {p}
                        => Held(k)
    BY <1>2, <1>4 DEF Held, HeldKick
  <1> QED BY <1>1, <1>3, <1>5, OpensAlone DEF AllOps

-----------------------------------------------------------------------------
(* The steps that change the night.                                          *)

LEMMA StartPlayerHolds ==
    ASSUME TypeInv, SInv, NEW h \in Handlers, NEW p \in Players, StartPlayer(h, p)
    PROVE  SInv' /\ Promises
  <1>1. task[h].op = "start" /\ task[h].pc = "players" /\ p \in task[h].todo
    BY DEF StartPlayer, At
  <1>2. Alone(task[h]) /\ HeldStart(task[h]) /\ TaskOK(task[h])
    BY <1>1 DEF Alone, SInv, Held, TypeInv
  <1>3. CASE Refused(h)
    BY <1>3, RefusedPromises
  <1>4. CASE /\ players' = [players EXCEPT ![p] = task[h].rows[p]]
             /\ Moves(h, "players", task[h].rows, task[h].todo \ {p})
             /\ UNCHANGED <<session, games, teams>>
    <2>1. PICK t : t = task[h]
      OBVIOUS
    <2> DEFINE row == t.rows[p]
    <2>2. /\ p \in DOMAIN t.rows /\ row \in PlayerRow
      BY <1>1, <1>2, <2>1, RowsOf DEF TaskOK
    <2>3. /\ session # None /\ session.status = "SCHEDULED"
          /\ t.ses = [session EXCEPT !.status = "IN_PROGRESS"] /\ t.list = Attached
          /\ DOMAIN t.rows \subseteq Attached
          /\ \A q \in DOMAIN t.rows : t.rows[q].status = "playing" /\ t.rows[q].night = "this"
          /\ \A q \in Attached \ t.todo : players[q].status \in {"playing", "disconnected"}
      BY <1>1, <1>2, <2>1 DEF HeldStart
    <2>4. players' = [players EXCEPT ![p] = row]
      BY <1>4, <2>1
    <2>5. row.night = "this" /\ row.status = "playing" /\ p \in Attached
      BY <2>2, <2>3
    <2> HIDE DEF row
    <2>6. players \in [Players -> PlayerRow \cup {None}] /\ row # None
      BY <2>2, NoneAssumption DEF TypeInv, TableOK
    <2>7. Attached' = Attached
      BY <2>4, <2>5, <2>6 DEF Attached
    <2>8. Sound'
      BY <1>4, <2>4, <2>5, <2>6, <2>3 DEF SInv, Sound
    <2>9. /\ session' = session
          /\ \A q \in Attached \ (t.todo \ {p}) : players'[q].status \in {"playing", "disconnected"}
      <3>1. ASSUME NEW q \in Attached \ (t.todo \ {p})
            PROVE  players'[q].status \in {"playing", "disconnected"}
        <4>1. CASE q = p
          BY <2>4, <2>5, <2>6, <4>1
        <4>2. CASE q # p
          <5>1. q \in Attached \ t.todo /\ players'[q] = players[q]
            BY <2>4, <2>6, <4>2 DEF Attached
          <5> QED BY <2>3, <5>1
        <4> QED BY <4>1, <4>2
      <3> QED BY <1>4, <3>1
    <2>10. ASSUME NEW k \in Task, k.op = "start", k.pc = "players", k.ses = t.ses,
                  k.rows = t.rows, k.list = t.list, k.todo = t.todo \ {p}
           PROVE  Held(k)'
      BY <2>3, <2>7, <2>9, <2>10 DEF Held, HeldStart
    <2>11. Moves(h, "players", t.rows, t.todo \ {p})
      BY <1>4, <2>1
    <2>12. SInv'
      BY <1>1, <1>2, <2>1, <2>8, <2>10, <2>11, AloneMoves
    <2>13. Promises
      BY <1>4, <2>7, SameNight DEF Promises, Stays
    <2> QED BY <2>12, <2>13
  <1> QED BY <1>3, <1>4, StartPlayerTypes

\* Saving a session with the list of its players changes no player.
LEMMA ReattachedAll ==
    ASSUME TypeInv, players' = ReattachPlayers(players, Attached)
    PROVE  /\ Attached' = Attached
           /\ \A p \in Players :
                /\ players'[p] = None <=> players[p] = None
                /\ players[p] # None => /\ players'[p].night = players[p].night
                                        /\ players'[p].status = players[p].status
  <1>1. ASSUME NEW p \in Players
        PROVE  /\ players'[p] = None <=> players[p] = None
               /\ players[p] # None => /\ players'[p].night = players[p].night
                                       /\ players'[p].status = players[p].status
    <2>1. CASE players[p] = None
      BY <2>1 DEF ReattachPlayers
    <2>2. CASE players[p] # None
      <3> DEFINE night == IF p \in Attached THEN "this"
                          ELSE IF players[p].night = "this" THEN "none" ELSE players[p].night
      <3>1. players[p] \in PlayerRow
        BY <2>2 DEF TypeInv, TableOK
      <3>2. night = players[p].night
        BY <2>2 DEF Attached
      <3>3. players'[p] = [players[p] EXCEPT !.night = night]
        BY <2>2 DEF ReattachPlayers
      <3> HIDE DEF night
      <3>4. players'[p] \in PlayerRow
        BY <3>1, <3>2, <3>3 DEF PlayerRow
      <3>5. players'[p] # None
        BY <3>4, NoneAssumption
      <3>6. players'[p].night = players[p].night /\ players'[p].status = players[p].status
        BY <3>1, <3>2, <3>3 DEF PlayerRow
      <3> QED BY <2>2, <3>5, <3>6
    <2> QED BY <2>1, <2>2
  <1>2. Attached' = Attached
    BY <1>1 DEF Attached
  <1> QED BY <1>1, <1>2

LEMMA SaveStartHolds ==
    ASSUME TypeInv, SInv, NEW h \in Handlers, SaveStart(h)
    PROVE  SInv' /\ Promises
  <1>1. task[h].op = "start" /\ task[h].pc = "players" /\ task[h].todo = {}
    BY DEF SaveStart, At
  <1>2. Alone(task[h]) /\ HeldStart(task[h])
    BY <1>1 DEF Alone, SInv, Held
  <1>3. CASE Refused(h)
    BY <1>3, RefusedPromises
  <1>4. CASE /\ session' = task[h].ses
             /\ players' = ReattachPlayers(players, task[h].list)
             /\ Done(h) /\ UNCHANGED <<games, teams>>
    <2>1. /\ session # None /\ session.status = "SCHEDULED"
          /\ session' = [session EXCEPT !.status = "IN_PROGRESS"]
          /\ players' = ReattachPlayers(players, Attached)
          /\ \A p \in Attached : players[p].status \in {"playing", "disconnected"}
      BY <1>1, <1>2, <1>4 DEF HeldStart
    <2>2. session \in SessionRow
      BY <2>1 DEF TypeInv, TableOK
    <2>3. session' \in SessionRow /\ session'.status = "IN_PROGRESS"
      BY <2>1, <2>2 DEF SessionRow, SessionStatus
    <2>4. session' # None
      BY <2>3, NoneAssumption
    <2>5. Attached' = Attached
      BY <2>1, ReattachedAll
    <2>6. Sound'
      BY <1>4, <2>1, <2>4, ReattachedAll DEF SInv, Sound, TypeInv, TableOK, TeamRow
    <2>7. SInv'
      BY <1>2, <1>4, <2>6, AloneDone
    <2>8. Unfinished' = Unfinished
      BY <1>4 DEF Unfinished, Listed
    <2>9. LivesOn
      BY <2>1, <2>3, <2>4, <2>8 DEF LivesOn, Life!Next, Life!Start, Life!vars
    <2>10. StartsTogether
      BY <2>1, <2>5, ReattachedAll DEF StartsTogether, Attached
    <2>11. Stays
      BY <2>5 DEF Stays
    <2> QED BY <2>7, <2>9, <2>10, <2>11 DEF Promises
  <1> QED BY <1>3, <1>4 DEF SaveStart

\* Saving a session with the list of its games only sets that they are in it.
LEMMA ReattachedGames ==
    ASSUME NEW rows \in [Games -> GameRow \cup {None}], NEW list,
           \A g \in Games : rows[g] # None => g \in list
    PROVE  \A g \in Games :
                /\ ReattachGames(rows, list)[g] = None <=> rows[g] = None
                /\ rows[g] # None => /\ ReattachGames(rows, list)[g].here
                                     /\ ReattachGames(rows, list)[g].lib = rows[g].lib
                                     /\ ReattachGames(rows, list)[g].status = rows[g].status
  <1> SUFFICES ASSUME NEW g \in Games
      PROVE  /\ ReattachGames(rows, list)[g] = None <=> rows[g] = None
             /\ rows[g] # None => /\ ReattachGames(rows, list)[g].here
                                  /\ ReattachGames(rows, list)[g].lib = rows[g].lib
                                  /\ ReattachGames(rows, list)[g].status = rows[g].status
    OBVIOUS
  <1>1. CASE rows[g] = None
    BY <1>1 DEF ReattachGames
  <1>2. CASE rows[g] # None
    <2>1. rows[g] \in GameRow
      BY <1>2
    <2>2. ReattachGames(rows, list)[g] = [rows[g] EXCEPT !.here = g \in list]
      BY <1>2 DEF ReattachGames
    <2>3. (g \in list) = TRUE
      BY <1>2
    <2>4. ReattachGames(rows, list)[g] = [rows[g] EXCEPT !.here = TRUE]
      BY <2>2, <2>3
    <2>5. ReattachGames(rows, list)[g] \in GameRow
      BY <2>1, <2>4 DEF GameRow
    <2>6. ReattachGames(rows, list)[g] # None
      BY <2>5, NoneAssumption
    <2>7. /\ ReattachGames(rows, list)[g].here
          /\ ReattachGames(rows, list)[g].lib = rows[g].lib
          /\ ReattachGames(rows, list)[g].status = rows[g].status
      BY <2>1, <2>4 DEF GameRow
    <2> QED BY <1>2, <2>6, <2>7
  <1> QED BY <1>1, <1>2

LEMMA SaveCompleteHolds ==
    ASSUME TypeInv, SInv, NEW h \in Handlers, SaveComplete(h)
    PROVE  SInv' /\ Promises
  <1>1. task[h].op = "complete"
    BY DEF SaveComplete, At
  <1>2. Alone(task[h]) /\ HeldNight(task[h])
    BY <1>1 DEF Alone, SInv, Held
  <1>3. /\ session # None /\ session.status = "IN_PROGRESS" /\ Unfinished = {}
        /\ session' = [session EXCEPT !.status = "COMPLETED"]
        /\ games' = ReattachGames(games, Listed)
        /\ Done(h) /\ UNCHANGED <<players, teams>>
    BY <1>1, <1>2 DEF SaveComplete, HeldNight
  <1>4. session \in SessionRow
    BY <1>3 DEF TypeInv, TableOK
  <1>5. session' \in SessionRow /\ session'.status = "COMPLETED"
    BY <1>3, <1>4 DEF SessionRow, SessionStatus
  <1>6. session' # None
    BY <1>5, NoneAssumption
  <1>7. \A g \in Games : games[g] # None => g \in Listed
    BY DEF SInv, Sound, Listed
  <1>8. \A g \in Games :
            /\ games'[g] = None <=> games[g] = None
            /\ games[g] # None => /\ games'[g].here /\ games'[g].lib = games[g].lib
                                  /\ games'[g].status = games[g].status
    <2>1. games \in [Games -> GameRow \cup {None}] /\ Sound
      BY DEF SInv, TypeInv, TableOK
    <2> QED BY <1>3, <1>7, <2>1, ReattachedGames
  <1>9. Unfinished' = {}
    BY <1>3, <1>7, <1>8 DEF Unfinished, Listed
  <1>10. Sound'
    BY <1>3, <1>6, <1>8 DEF SInv, Sound
  <1>11. SInv'
    BY <1>2, <1>3, <1>10, AloneDone
  <1>12. LivesOn
    BY <1>3, <1>5, <1>6, <1>9 DEF LivesOn, Life!Next, Life!Complete
  <1>13. StartsTogether
    BY <1>5 DEF StartsTogether
  <1> QED BY <1>3, <1>11, <1>12, <1>13, SamePlayers DEF Promises

LEMMA SaveCancelHolds ==
    ASSUME TypeInv, SInv, NEW h \in Handlers, SaveCancel(h)
    PROVE  SInv' /\ Promises
  <1>1. task[h].op = "cancel"
    BY DEF SaveCancel, At
  <1>2. Alone(task[h]) /\ HeldNight(task[h])
    BY <1>1 DEF Alone, SInv, Held
  <1> DEFINE saved == [g \in Games |-> IF g \in Unfinished THEN Cancelled[g] ELSE games[g]]
  <1>3. /\ session # None /\ session.status \in {"SCHEDULED", "IN_PROGRESS"}
        /\ task[h].ses = [session EXCEPT !.status = "CANCELLED"]
        /\ task[h].list = Listed /\ task[h].rows = Cancelled
    BY <1>1, <1>2 DEF HeldNight
  <1>4. DOMAIN Cancelled = Unfinished
    BY DEF Cancelled
  <1>5. /\ session' = [session EXCEPT !.status = "CANCELLED"]
        /\ games' = ReattachGames(saved, Listed)
        /\ Done(h) /\ UNCHANGED <<players, teams>>
    BY <1>3, <1>4 DEF SaveCancel
  <1>6. session \in SessionRow
    BY <1>3 DEF TypeInv, TableOK
  <1>7. session' \in SessionRow /\ session'.status = "CANCELLED"
    BY <1>5, <1>6 DEF SessionRow, SessionStatus
  <1>8. session' # None
    BY <1>7, NoneAssumption
  <1>9. ASSUME NEW g \in Unfinished
        PROVE  /\ g \in Games /\ games[g] # None /\ Cancelled[g] \in GameRow
               /\ Cancelled[g].lib = games[g].lib /\ Cancelled[g].status = "CANCELLED"
    <2>1. g \in Games /\ games[g] # None /\ games[g] \in GameRow
      BY DEF Unfinished, Listed, TypeInv, TableOK
    <2>2. Cancelled[g] = [games[g] EXCEPT !.status = "CANCELLED"]
      BY DEF Cancelled
    <2>3. "CANCELLED" \in GameStatus
      BY DEF GameStatus
    <2> QED BY <2>1, <2>2, <2>3 DEF GameRow
  <1>10. /\ saved \in [Games -> GameRow \cup {None}]
         /\ \A g \in Games : /\ saved[g] = None <=> games[g] = None
                             /\ games[g] # None => saved[g].lib = games[g].lib
                             /\ g \in Unfinished => saved[g].status = "CANCELLED"
                             /\ g \notin Unfinished => saved[g] = games[g]
    BY <1>9, NoneAssumption DEF TypeInv, TableOK
  <1> HIDE DEF saved
  <1>11. \A g \in Games : games[g] # None => g \in Listed
    BY DEF SInv, Sound, Listed
  <1>12. \A g \in Games :
            /\ games'[g] = None <=> saved[g] = None
            /\ saved[g] # None => /\ games'[g].here /\ games'[g].lib = saved[g].lib
                                  /\ games'[g].status = saved[g].status
    BY <1>5, <1>10, <1>11, ReattachedGames DEF SInv
  <1>13. Unfinished' = {}
    <2>1. ASSUME NEW g \in Games, games'[g] # None
          PROVE  games'[g].status \in Finished
      <3>1. saved[g] # None /\ games'[g].status = saved[g].status
        BY <1>12, <2>1
      <3>2. CASE g \in Unfinished
        BY <1>10, <3>1, <3>2 DEF Finished
      <3>3. CASE g \notin Unfinished
        <4>1. games[g] # None /\ saved[g] = games[g] /\ g \in Listed
          BY <1>10, <1>11, <3>1, <3>3
        <4> QED BY <3>1, <3>3, <4>1 DEF Unfinished
      <3> QED BY <3>2, <3>3
    <2> QED BY <2>1 DEF Unfinished, Listed
  <1>14. Sound'
    BY <1>5, <1>8, <1>10, <1>12 DEF SInv, Sound
  <1>15. SInv'
    BY <1>2, <1>5, <1>14, AloneDone
  <1>16. LivesOn
    BY <1>3, <1>7, <1>8, <1>13 DEF LivesOn, Life!Next, Life!Cancel
  <1>17. StartsTogether
    BY <1>7 DEF StartsTogether
  <1> QED BY <1>5, <1>15, <1>16, <1>17, SamePlayers DEF Promises

LEMMA SaveSessionHolds ==
    ASSUME TypeInv, SInv, NEW h \in Handlers, SaveSession(h)
    PROVE  SInv' /\ Promises
  <1>1. task[h].op = "update"
    BY DEF SaveSession, At
  <1>2. Alone(task[h]) /\ HeldNight(task[h]) /\ task[h].ses \in SessionRow
    BY <1>1 DEF Alone, SInv, Held, TypeInv, TaskOK
  <1>3. /\ session # None /\ session'.status = session.status /\ session' # None
        /\ Done(h) /\ UNCHANGED <<players, games, teams>>
    BY <1>1, <1>2, NoneAssumption DEF SaveSession, HeldNight
  <1>4. Sound'
    BY <1>3 DEF SInv, Sound
  <1>5. SInv'
    BY <1>2, <1>3, <1>4, AloneDone
  <1>6. Unfinished' = Unfinished
    BY <1>3 DEF Unfinished, Listed
  <1>7. LivesOn
    BY <1>3, <1>6 DEF LivesOn, Life!vars
  <1>8. StartsTogether
    BY <1>3 DEF StartsTogether
  <1> QED BY <1>3, <1>5, <1>7, <1>8, SamePlayers DEF Promises

\* No team keeps a player whose row goes.
LEMMA MembersLeft ==
    ASSUME NEW ts \in [Teams -> TeamRow \cup {None}], NEW ps, NEW t \in Teams
    PROVE  /\ WithoutPlayers(ts, ps)[t] = None <=> ts[t] = None
           /\ ts[t] # None => WithoutPlayers(ts, ps)[t].members = ts[t].members \ ps
  <1>1. CASE ts[t] = None
    BY <1>1 DEF WithoutPlayers
  <1>2. CASE ts[t] # None
    <2>1. ts[t] \in TeamRow
      BY <1>2
    <2>2. WithoutPlayers(ts, ps)[t] = [ts[t] EXCEPT !.members = @ \ ps]
      BY <1>2 DEF WithoutPlayers
    <2>3. WithoutPlayers(ts, ps)[t] \in TeamRow
      BY <2>1, <2>2 DEF TeamRow
    <2>4. WithoutPlayers(ts, ps)[t] # None
      BY <2>3, NoneAssumption
    <2> QED BY <1>2, <2>1, <2>2, <2>4 DEF TeamRow
  <1> QED BY <1>1, <1>2

LEMMA RemovePlayersHolds ==
    ASSUME TypeInv, SInv, NEW h \in Handlers, RemovePlayers(h)
    PROVE  SInv' /\ Promises
  <1>1. task[h].op = "removeSession"
    BY DEF RemovePlayers, At
  <1>2. Alone(task[h]) /\ HeldNight(task[h])
    BY <1>1 DEF Alone, SInv, Held
  <1>3. PICK list : list = task[h].list
    OBVIOUS
  <1>4. /\ players' = [p \in Players |-> IF p \in list THEN None ELSE players[p]]
        /\ teams' = WithoutPlayers(teams, list)
        /\ UNCHANGED <<session, games>> /\ session # None
    BY <1>2, <1>3 DEF RemovePlayers, HeldNight
  <1>5. teams \in [Teams -> TeamRow \cup {None}]
    BY DEF TypeInv, TableOK
  <1>6. \A t \in Teams : /\ teams'[t] = None <=> teams[t] = None
                         /\ teams[t] # None => teams'[t].members = teams[t].members \ list
    BY <1>4, <1>5, MembersLeft
  <1>7. \A t \in Teams : teams[t] # None => teams[t].members \subseteq Players
    BY <1>5 DEF TeamRow
  <1>8. Sound'
    BY <1>4, <1>6, <1>7 DEF SInv, Sound
  <1>9. ASSUME NEW k \in Task, k.op = "removeSession"
        PROVE  Held(k)'
    BY <1>4, <1>9 DEF Held, HeldNight
  <1>10. PICK rows, todo : Moves(h, "session", rows, todo)
    BY RemoveTypes
  <1>11. SInv'
    BY <1>1, <1>2, <1>8, <1>9, <1>10, AloneMoves
  <1>12. Stays
    BY <1>1 DEF Stays, About
  <1> QED BY <1>4, <1>11, <1>12, SameNight DEF Promises

LEMMA RemoveRowHolds ==
    ASSUME TypeInv, SInv, NEW h \in Handlers, RemoveRow(h)
    PROVE  SInv' /\ Promises
  <1>1. task[h].op = "removeSession"
    BY DEF RemoveRow, At
  <1>2. Alone(task[h]) /\ HeldNight(task[h])
    BY <1>1 DEF Alone, SInv, Held
  <1>3. CASE Refused(h)
    BY <1>3, RefusedPromises
  <1>4. CASE /\ session' = None
             /\ players' = [p \in Players |-> IF p \in Attached THEN None ELSE players[p]]
             /\ games' = [g \in Games |-> IF g \in Listed THEN None ELSE games[g]]
             /\ teams' = [t \in Teams |-> None]
             /\ Done(h)
    <2>1. session # None
      BY <1>1, <1>2 DEF HeldNight
    <2>2. \A g \in Games : games'[g] = None
      BY <1>4 DEF SInv, Sound, Listed
    <2>3. \A p \in Players : players'[p] # None
                              => players'[p] = players[p] /\ players[p].night # "this"
      BY <1>4 DEF Attached
    <2>4. Sound'
      BY <1>4, <2>2, <2>3 DEF SInv, Sound
    <2>5. SInv'
      BY <1>2, <1>4, <2>4, AloneDone
    <2>6. Unfinished' = {}
      BY <2>2 DEF Unfinished, Listed
    <2>7. session.status # "REMOVED"
      BY <2>1 DEF TypeInv, TableOK, SessionRow, SessionStatus
    <2>8. LivesOn
      BY <1>4, <2>1, <2>6, <2>7 DEF LivesOn, Life!Next, Life!Remove
    <2>9. StartsTogether
      BY <1>4 DEF StartsTogether
    <2>10. Stays
      BY <1>1 DEF Stays, About
    <2> QED BY <2>5, <2>8, <2>9, <2>10 DEF Promises
  <1> QED BY <1>3, <1>4 DEF RemoveRow

-----------------------------------------------------------------------------
(* The steps that change the games and the teams.                            *)

LEMMA NewGames ==
    ASSUME NEW gs, NEW libs, NEW free, NEW f \in Created(libs, free), NEW g \in Games
    PROVE  \/ WithGames(gs, f)[g] = gs[g]
           \/ \E l \in libs : /\ f[l] = g
                              /\ WithGames(gs, f)[g] = [lib |-> l, status |-> "PENDING", here |-> TRUE]
  <1>1. DOMAIN f = libs
    BY DEF Created
  <1>2. CASE \E l \in libs : f[l] = g
    <2>1. PICK l : l = CHOOSE m \in DOMAIN f : f[m] = g
      OBVIOUS
    <2>2. l \in libs /\ f[l] = g
      BY <1>1, <1>2, <2>1
    <2>3. WithGames(gs, f)[g] = [lib |-> l, status |-> "PENDING", here |-> TRUE]
      BY <1>1, <1>2, <2>1 DEF WithGames
    <2> QED BY <2>2, <2>3
  <1>3. CASE ~ \E l \in libs : f[l] = g
    BY <1>1, <1>3 DEF WithGames
  <1> QED BY <1>2, <1>3

\* Games come, go and are played while the night is there.
LEMMA Plays ==
    ASSUME session # None, session' = session, session.status # "REMOVED"
    PROVE  LivesOn /\ StartsTogether
  <1>1. Unfinished' \in SUBSET Games
    BY DEF Unfinished, Listed
  <1> QED BY <1>1 DEF LivesOn, StartsTogether, Life!Next, Life!Play

LEMMA NotRemoved ==
    ASSUME TypeInv, session # None
    PROVE  session.status # "REMOVED"
  BY DEF TypeInv, TableOK, SessionRow, SessionStatus

LEMMA NewLib ==
    ASSUME NEW gs, NEW libs, NEW free, NEW f \in Created(libs, free), NEW g \in Games,
           WithGames(gs, f)[g] # gs[g]
    PROVE  \E l \in libs : f[l] = g /\ WithGames(gs, f)[g].lib = l /\ WithGames(gs, f)[g].here
  <1>1. PICK l \in libs : /\ f[l] = g
                         /\ WithGames(gs, f)[g] = [lib |-> l, status |-> "PENDING", here |-> TRUE]
    BY NewGames
  <1>2. WithGames(gs, f)[g].lib = l /\ WithGames(gs, f)[g].here
    BY <1>1
  <1> QED BY <1>1, <1>2

LEMMA InsertGamesHolds ==
    ASSUME TypeInv, SInv, NEW h \in Handlers, InsertGames(h)
    PROVE  SInv' /\ Promises
  <1>1. task[h].op = "addGames"
    BY DEF InsertGames
  <1>2. Alone(task[h]) /\ HeldGames(task[h])
    BY <1>1 DEF Alone, SInv, Held
  <1>3. session # None /\ task[h].todo \cap {games[g].lib : g \in Listed} = {}
    BY <1>1, <1>2 DEF HeldGames
  <1>4. PICK todo : todo = task[h].todo
    OBVIOUS
  <1>5. PICK f \in Created(todo, Unused(Games, games)) : games' = WithGames(games, f)
    BY <1>3, <1>4 DEF InsertGames
  <1>6. Done(h) /\ UNCHANGED <<session, players, teams>>
    BY <1>3 DEF InsertGames
  <1>7. \A g \in Games : games[g] # None => g \in Listed /\ games[g].here
    BY DEF SInv, Sound, Listed
  <1>8. \A g \in Games :
            \/ games'[g] = games[g]
            \/ \E l \in todo : /\ f[l] = g
                               /\ games'[g].lib = l /\ games'[g].here
    BY <1>5, NewLib
  <1>9. \A g \in Games : games'[g] # None => games'[g].here
    BY <1>7, <1>8
  <1>10. ASSUME NEW g \in Games, NEW k \in Games, games'[g] # None, games'[k] # None,
                games'[g].lib = games'[k].lib
         PROVE  g = k
    <2>1. CASE games'[g] = games[g] /\ games'[k] = games[k]
      BY <1>10, <2>1 DEF SInv, Sound
    <2>2. CASE games'[g] = games[g] /\ games'[k].lib \in todo
      BY <1>3, <1>4, <1>7, <1>10, <2>2
    <2>3. CASE games'[k] = games[k] /\ games'[g].lib \in todo
      BY <1>3, <1>4, <1>7, <1>10, <2>3
    <2>4. CASE f[games'[g].lib] = g /\ f[games'[k].lib] = k
      BY <1>10, <2>4
    <2> QED BY <1>8, <2>1, <2>2, <2>3, <2>4
  <1>11. Sound'
    BY <1>3, <1>6, <1>9, <1>10 DEF SInv, Sound
  <1>12. SInv'
    BY <1>2, <1>6, <1>11, AloneDone
  <1> QED BY <1>3, <1>6, <1>12, NotRemoved, Plays, SamePlayers DEF Promises

\* A team whose game goes, goes with it.
LEMMA TeamsLeft ==
    ASSUME NEW ts, NEW gs, NEW t \in Teams
    PROVE  WithoutGames(ts, gs)[t] = None \/ WithoutGames(ts, gs)[t] = ts[t]
  BY DEF WithoutGames

LEMMA DropGamesHolds ==
    ASSUME TypeInv, SInv, NEW h \in Handlers, DropGames(h)
    PROVE  SInv' /\ Promises
  <1>1. task[h].op = "removeGame"
    BY DEF DropGames, At
  <1>2. Alone(task[h]) /\ HeldGames(task[h])
    BY <1>1 DEF Alone, SInv, Held
  <1>3. PICK list : list = task[h].list
    OBVIOUS
  <1>4. /\ games' = [g \in Games |-> IF g \in list THEN None ELSE games[g]]
        /\ teams' = WithoutGames(teams, list)
        /\ UNCHANGED <<session, players>> /\ session # None
    BY <1>2, <1>3 DEF DropGames, HeldGames
  <1>5. \A t \in Teams : teams'[t] = None \/ teams'[t] = teams[t]
    BY <1>4, TeamsLeft
  <1>6. \A g \in Games : games'[g] = None \/ games'[g] = games[g]
    BY <1>4
  <1>7. Sound'
    BY <1>4, <1>5, <1>6 DEF SInv, Sound
  <1>8. ASSUME NEW k \in Task, k.op = "removeGame"
        PROVE  Held(k)'
    BY <1>4, <1>8 DEF Held, HeldGames
  <1>9. ASSUME Done(h)
        PROVE  SInv'
    BY <1>2, <1>7, <1>9, AloneDone
  <1>10. ASSUME NEW rows, NEW todo, Moves(h, "add", rows, todo)
         PROVE  SInv'
    BY <1>1, <1>2, <1>7, <1>8, <1>10, AloneMoves
  <1>11. SInv'
    BY <1>9, <1>10, DropGamesTypes
  <1> QED BY <1>4, <1>11, NotRemoved, Plays, SamePlayers DEF Promises

LEMMA PlayGameHolds ==
    ASSUME TypeInv, SInv, JoinsOnly, NEW g \in Games, PlayGame(g)
    PROVE  SInv' /\ Promises
  <1>1. /\ UNCHANGED <<session, players, teams, task>> /\ games[g] # None
        /\ \A j \in Handlers : ~ Alone(task[j])
    BY BesideJoins DEF PlayGame, Shared
  <1>2. PICK row \in GameRow :
            /\ games' = [games EXCEPT ![g] = row]
            /\ row.lib = games[g].lib /\ row.here = games[g].here
    BY PlayGameTypes
  <1>3. games \in [Games -> GameRow \cup {None}] /\ row # None
    BY NoneAssumption DEF TypeInv, TableOK
  <1>4. session # None
    BY <1>1 DEF SInv, Sound
  <1>5. \A k \in Games : /\ games'[k] = None <=> games[k] = None
                         /\ games'[k] # None => /\ games'[k].lib = games[k].lib
                                                /\ games'[k].here = games[k].here
    BY <1>1, <1>2, <1>3
  <1>6. Sound'
    BY <1>1, <1>4, <1>5 DEF SInv, Sound
  <1>7. AloneInv'
    BY <1>1 DEF SInv, AloneInv
  <1>8. ASSUME NEW j \in Handlers
        PROVE  Held(task[j])'
    <2>1. Held(task[j]) /\ task'[j] = task[j] /\ ~ Alone(task[j])
      BY <1>1 DEF SInv
    <2>2. Attached' = Attached
      BY <1>1, SamePlayers
    <2>3. ASSUME NEW k, k = task[j]
          PROVE  Held(k)'
      BY <1>1, <2>1, <2>2, <2>3 DEF Held, Alone, Found
    <2> QED BY <2>1, <2>3
  <1> QED BY <1>1, <1>4, <1>6, <1>7, <1>8, NotRemoved, Plays, SamePlayers DEF SInv, Promises

LEMMA SavePlanHolds ==
    ASSUME TypeInv, SInv, NEW h \in Handlers, SavePlan(h)
    PROVE  SInv' /\ Promises
  <1>1. task[h].op = "applyPlan"
    BY DEF SavePlan, At
  <1>2. Alone(task[h]) /\ HeldGames(task[h])
    BY <1>1 DEF Alone, SInv, Held
  <1>3. CASE Refused(h)
    BY <1>3, RefusedPromises
  <1>4. CASE ~ Refused(h)
    <2>1. PICK list, todo : list = task[h].list /\ todo = task[h].todo
      OBVIOUS
    <2>2. {g \in Games : games[g] # None} \subseteq list
      BY <1>1, <1>2, <2>1 DEF HeldGames
    <2>3. \A g \in Games : KeptGames(list)[g] = None
      BY <2>2 DEF KeptGames
    <2>4. /\ session # None /\ Done(h) /\ UNCHANGED <<session, players>>
          /\ \E f \in Created(todo, Free(KeptGames(list))) :
                games' = WithGames(KeptGames(list), f)
          /\ \A t \in Teams :
                \/ teams'[t] = None
                \/ teams'[t] \in TeamRow /\ teams'[t].members = {}
                \/ teams'[t] = teams[t]
      BY <1>4, <2>1, SavePlanDoes
    <2>5. PICK f \in Created(todo, Free(KeptGames(list))) :
                games' = WithGames(KeptGames(list), f)
      BY <2>4
    <2>6. \A g \in Games :
            \/ games'[g] = None
            \/ \E l \in todo : f[l] = g /\ games'[g].lib = l /\ games'[g].here
      BY <2>3, <2>5, NewLib
    <2>7. ASSUME NEW g \in Games, games'[g] # None
          PROVE  games'[g].here /\ f[games'[g].lib] = g
      BY <2>6, <2>7
    <2>8. Sound'
      BY <2>4, <2>7 DEF SInv, Sound
    <2>9. SInv'
      BY <1>2, <2>4, <2>8, AloneDone
    <2> QED BY <2>4, <2>9, NotRemoved, Plays, SamePlayers DEF Promises
  <1> QED BY <1>3, <1>4

LEMMA SaveTeamHolds ==
    ASSUME TypeInv, SInv, NEW h \in Handlers, NEW t \in Teams, SaveTeam(h, t)
    PROVE  SInv' /\ Promises
  <1>1. task[h].op = "team" /\ t \in DOMAIN task[h].rows
    BY DEF SaveTeam, At
  <1>2. Alone(task[h])
    BY <1>1 DEF Alone
  <1>3. CASE Refused(h)
    BY <1>3, RefusedPromises
  <1>4. CASE /\ CanSaveTeam(task[h].rows[t])
             /\ teams' = [teams EXCEPT ![t] = task[h].rows[t]]
             /\ Done(h) /\ UNCHANGED <<session, players, games>>
    <2>1. PICK row : row = task[h].rows[t]
      OBVIOUS
    <2>2. /\ teams' = [teams EXCEPT ![t] = row] /\ session # None
          /\ \A p \in row.members : players[p] # None
      BY <1>4, <2>1 DEF CanSaveTeam
    <2>3. teams \in [Teams -> TeamRow \cup {None}]
      BY DEF TypeInv, TableOK
    <2>4. Sound'
      BY <1>4, <2>2, <2>3 DEF SInv, Sound
    <2>5. SInv'
      BY <1>2, <1>4, <2>4, AloneDone
    <2> QED BY <1>4, <2>5, SameNight, SamePlayers DEF Promises
  <1> QED BY <1>3, <1>4 DEF SaveTeam

-----------------------------------------------------------------------------
(* The steps that change the players.                                        *)

LEMMA Joiners ==
    ASSUME SInv, NEW h \in Handlers, task[h].op \in {"join", "enrol"}
    PROVE  \A j \in Handlers : ~ Alone(task[j])
  BY IdleHolds DEF SInv, AloneInv, Alone

LEMMA JoinMoves ==
    ASSUME TypeInv, SInv, NEW h \in Handlers, task[h].op \in {"join", "enrol"},
           NEW pc, NEW rows, Moves(h, pc, rows, task[h].todo), Sound',
           \A j \in Handlers : \A m : m = task[j] => Held(m)',
           pc \in {"rejoin", "answer"} =>
               \A k \in Task : k.rows = rows /\ k.todo = task[h].todo => Found(k)'
    PROVE  SInv'
  <1>1. PICK k \in Task :
            /\ task' = [task EXCEPT ![h] = k]
            /\ k.op = task[h].op /\ k.pc = pc /\ k.rows = rows /\ k.todo = task[h].todo
    BY DEF Moves
  <1>2. \E n \in Names : k.todo = {n}
    BY <1>1 DEF SInv, Held
  <1>3. Held(k)'
    BY <1>1, <1>2 DEF Held
  <1> QED BY <1>1, <1>3, Joiners, SharedTask

\* A player of the night is inserted, or saved again under his name.
LEMMA JoinersKeep ==
    ASSUME TypeInv, SInv, NEW h \in Handlers, task[h].op \in {"join", "enrol"},
           NEW p \in Players, NEW row \in PlayerRow, row.night = "this",
           players[p] # None => row.name = players[p].name,
           players' = [players EXCEPT ![p] = row], UNCHANGED <<session, games, teams>>,
           session # None
    PROVE  /\ Sound' /\ Promises /\ p \in Attached' /\ players'[p] = row
           /\ \A k : Found(k) => Found(k)'
           /\ \A j \in Handlers : \A m : m = task[j] => Held(m)'
  <1>1. players \in [Players -> PlayerRow \cup {None}] /\ row # None
    BY NoneAssumption DEF TypeInv, TableOK
  <1>2. /\ players'[p] = row
        /\ \A q \in Players \ {p} : players'[q] = players[q]
    BY <1>1
  <1>3. Attached \subseteq Attached' /\ p \in Attached'
    BY <1>1, <1>2 DEF Attached
  <1>4. \A q \in Attached : players'[q].name = players[q].name
    BY <1>1, <1>2 DEF Attached
  <1>5. Sound'
    BY <1>1, <1>2 DEF SInv, Sound
  <1>6. ASSUME NEW k, Found(k)
        PROVE  Found(k)'
    <2>1. PICK q \in Attached : \E n \in Names :
            /\ k.rows \in [{q} -> PlayerRow] /\ k.todo = {n}
            /\ players[q].name = n /\ k.rows[q].name = n /\ k.rows[q].night = "this"
      BY <1>6 DEF Found
    <2>2. PICK n \in Names :
            /\ k.rows \in [{q} -> PlayerRow] /\ k.todo = {n}
            /\ players[q].name = n /\ k.rows[q].name = n /\ k.rows[q].night = "this"
      BY <2>1
    <2>3. q \in Attached' /\ players'[q].name = n
      BY <1>3, <1>4, <2>2
    <2> QED BY <2>2, <2>3 DEF Found
  <1>7. ASSUME NEW j \in Handlers, NEW m, m = task[j]
        PROVE  Held(m)'
    <2>1. Held(m) /\ ~ Alone(m)
      BY <1>7, Joiners DEF SInv
    <2> QED BY <1>6, <2>1 DEF Held, Alone
  <1>8. Promises
    BY <1>3, SameNight DEF Promises, Stays
  <1> QED BY <1>2, <1>3, <1>5, <1>6, <1>7, <1>8

LEMMA FindHolds ==
    ASSUME TypeInv, SInv, NEW h \in Handlers, FindByName(h) \/ FindWinner(h)
    PROVE  SInv' /\ Promises
  <1>1. task[h].op = "join" /\ UNCHANGED db
    BY DEF FindByName, FindWinner, At
  <1>2. /\ Sound' /\ Promises
        /\ \A j \in Handlers : \A m : m = task[j] => Held(m)'
    BY <1>1, SameTables DEF SInv
  <1>3. CASE Done(h)
    BY <1>1, <1>3, DoneAndSame
  <1>4. CASE Moves(h, "insert", task[h].rows, task[h].todo)
    BY <1>1, <1>2, <1>4, JoinMoves
  <1>5. CASE \E n \in task[h].todo : \E p \in Named(n) :
                    /\ Joined(p) \in [{p} -> PlayerRow]
                    /\ Joined(p)[p].name = players[p].name
                    /\ Joined(p)[p].night = players[p].night
                    /\ Moves(h, "rejoin", Joined(p), task[h].todo)
    <2>1. PICK n \in task[h].todo : \E p \in Named(n) :
                    /\ Joined(p) \in [{p} -> PlayerRow]
                    /\ Joined(p)[p].name = players[p].name
                    /\ Joined(p)[p].night = players[p].night
                    /\ Moves(h, "rejoin", Joined(p), task[h].todo)
      BY <1>5
    <2>2. PICK p \in Named(n) :
                    /\ Joined(p) \in [{p} -> PlayerRow]
                    /\ Joined(p)[p].name = players[p].name
                    /\ Joined(p)[p].night = players[p].night
                    /\ Moves(h, "rejoin", Joined(p), task[h].todo)
      BY <2>1
    <2>3. PICK rows, todo : rows = Joined(p) /\ todo = task[h].todo
      OBVIOUS
    <2>4. /\ p \in Attached /\ players[p].name = n /\ players[p].night = "this"
          /\ todo = {n} /\ n \in Names
      BY <1>1, <2>3 DEF Named, Attached, SInv, Held
    <2>5. UNCHANGED players /\ Attached' = Attached
      BY <1>1, SamePlayers DEF db
    <2>6. ASSUME NEW k \in Task, k.rows = rows, k.todo = todo
          PROVE  Found(k)'
      BY <2>2, <2>3, <2>4, <2>5, <2>6 DEF Found
    <2>7. Moves(h, "rejoin", rows, task[h].todo)
      BY <2>2, <2>3
    <2>8. SInv'
      BY <1>1, <1>2, <2>3, <2>6, <2>7, JoinMoves
    <2> QED BY <1>2, <2>8
  <1> QED BY <1>3, <1>4, <1>5, FindTypes

LEMMA InsertRefusedHolds ==
    ASSUME TypeInv, SInv, NEW h \in Handlers, InsertRefused(h)
    PROVE  SInv' /\ Promises
  <1>1. task[h].op \in {"join", "enrol"} /\ UNCHANGED db
    BY DEF InsertRefused, Inserting
  <1>2. /\ Sound' /\ Promises
        /\ \A j \in Handlers : \A m : m = task[j] => Held(m)'
    BY <1>1, SameTables DEF SInv
  <1>3. CASE Done(h)
    BY <1>1, <1>3, DoneAndSame
  <1>4. CASE Moves(h, "winner", task[h].rows, task[h].todo)
    BY <1>1, <1>2, <1>4, JoinMoves
  <1> QED BY <1>3, <1>4, InsertRefusedTypes

LEMMA InsertPlayerHolds ==
    ASSUME TypeInv, SInv, NEW h \in Handlers, NEW p \in Players, InsertPlayer(h, p)
    PROVE  SInv' /\ Promises
  <1>1. /\ task[h].op \in {"join", "enrol"} /\ session # None /\ players[p] = None
        /\ UNCHANGED <<session, games, teams>>
    BY DEF InsertPlayer, Inserting, Unused
  <1>2. PICK n \in task[h].todo \cap Names :
            /\ NewPlayer(n) \in PlayerRow
            /\ players' = [players EXCEPT ![p] = NewPlayer(n)]
            /\ \/ task[h].op # "join" /\ Done(h)
               \/ /\ task[h].op = "join"
                  /\ Moves(h, "answer", [i \in {p} |-> NewPlayer(n)], task[h].todo)
    BY InsertPlayerTypes
  <1>3. NewPlayer(n).night = "this" /\ NewPlayer(n).name = n
    BY DEF NewPlayer
  <1>4. /\ Sound' /\ Promises /\ p \in Attached' /\ players'[p] = NewPlayer(n)
        /\ \A j \in Handlers : \A m : m = task[j] => Held(m)'
    BY <1>1, <1>2, <1>3, JoinersKeep
  <1>5. CASE task[h].op # "join" /\ Done(h)
    <2>1. SInv'
      BY <1>1, <1>4, <1>5, IdleHolds, Joiners, SharedTask DEF Done
    <2> QED BY <1>4, <2>1
  <1>6. CASE /\ task[h].op = "join"
             /\ Moves(h, "answer", [i \in {p} |-> NewPlayer(n)], task[h].todo)
    <2>1. PICK todo : todo = task[h].todo
      OBVIOUS
    <2>2. todo = {n}
      BY <1>1, <2>1 DEF SInv, Held
    <2> DEFINE rows == [i \in {p} |-> NewPlayer(n)]
    <2>3. rows \in [{p} -> PlayerRow] /\ rows[p].name = n /\ rows[p].night = "this"
      BY <1>2, <1>3
    <2> HIDE DEF rows
    <2>4. ASSUME NEW k \in Task, k.rows = rows, k.todo = todo
          PROVE  Found(k)'
      BY <1>3, <1>4, <2>2, <2>3, <2>4 DEF Found
    <2>5. Moves(h, "answer", rows, task[h].todo)
      BY <1>6 DEF rows
    <2>6. SInv'
      BY <1>1, <1>4, <2>1, <2>4, <2>5, JoinMoves
    <2> QED BY <1>4, <2>6
  <1> QED BY <1>2, <1>5, <1>6

LEMMA MarkRejoinedHolds ==
    ASSUME TypeInv, SInv, NEW h \in Handlers, MarkRejoined(h)
    PROVE  SInv' /\ Promises
  <1>1. task[h].op = "join" /\ task[h].pc = "rejoin"
    BY DEF MarkRejoined, At
  <1>2. CASE Refused(h)
    BY <1>2, RefusedPromises
  <1>3. CASE \E p \in DOMAIN task[h].rows :
                    /\ CanSave(p, task[h].rows[p])
                    /\ players' = [players EXCEPT ![p] = task[h].rows[p]]
                    /\ Moves(h, "answer", task[h].rows, task[h].todo)
                    /\ UNCHANGED <<session, games, teams>>
    <2>1. PICK rows, todo : rows = task[h].rows /\ todo = task[h].todo
      OBVIOUS
    <2>2. PICK p \in DOMAIN rows :
                    /\ CanSave(p, rows[p])
                    /\ players' = [players EXCEPT ![p] = rows[p]]
                    /\ Moves(h, "answer", rows, task[h].todo)
                    /\ UNCHANGED <<session, games, teams>>
      BY <1>3, <2>1
    <2>3. Found(task[h])
      BY <1>1 DEF SInv, Held
    <2>4. /\ p \in Attached /\ rows[p] \in PlayerRow /\ rows[p].night = "this"
          /\ rows[p].name = players[p].name
      BY <2>1, <2>3 DEF Found
    <2>5. session # None
      BY <2>2, <2>4 DEF CanSave
    <2>6. /\ Sound' /\ Promises
          /\ \A k : Found(k) => Found(k)'
          /\ \A j \in Handlers : \A m : m = task[j] => Held(m)'
      <3>1. p \in Players
        BY <2>4 DEF Attached
      <3> QED BY <1>1, <2>2, <2>4, <2>5, <3>1, JoinersKeep
    <2>7. ASSUME NEW k \in Task, k.rows = rows, k.todo = todo
          PROVE  Found(k)'
      <3>1. Found(k)
        BY <2>1, <2>3, <2>7 DEF Found
      <3> QED BY <2>6, <3>1
    <2>8. SInv'
      BY <1>1, <2>1, <2>2, <2>6, <2>7, JoinMoves
    <2> QED BY <2>6, <2>8
  <1> QED BY <1>2, <1>3, MarkRejoinedTypes

LEMMA SavePlayerHolds ==
    ASSUME TypeInv, SInv, NEW h \in Handlers, NEW p \in Players, SavePlayer(h, p)
    PROVE  SInv' /\ Promises
  <1>1. task[h].op \in {"player", "rename"} /\ p \in DOMAIN task[h].rows
    BY DEF SavePlayer
  <1>2. Alone(task[h]) /\ HeldPlayer(task[h])
    BY <1>1 DEF Alone, SInv, Held
  <1>3. CASE Refused(h)
    BY <1>3, RefusedPromises
  <1>4. CASE /\ CanSave(p, task[h].rows[p])
             /\ players' = [players EXCEPT ![p] = task[h].rows[p]]
             /\ Done(h) /\ UNCHANGED <<session, games, teams>>
    <2>1. PICK row : row = task[h].rows[p]
      OBVIOUS
    <2>2. /\ row \in PlayerRow /\ row # None /\ row.night \in {"this", "other"}
          /\ row.night = "this" => session # None
          /\ task[h].op = "player" => row.night = "this"
          /\ players' = [players EXCEPT ![p] = row]
      BY <1>1, <1>2, <1>4, <2>1, RowsOf, NoneAssumption DEF HeldPlayer, CanSave
    <2>3. players \in [Players -> PlayerRow \cup {None}]
      BY DEF TypeInv, TableOK
    <2>4. players'[p] = row /\ \A q \in Players \ {p} : players'[q] = players[q]
      BY <2>2, <2>3
    <2>5. Sound'
      BY <1>4, <2>2, <2>4 DEF SInv, Sound, TypeInv, TableOK, TeamRow
    <2>6. SInv'
      BY <1>2, <1>4, <2>5, AloneDone
    <2>7. ASSUME NEW q \in Attached \ Attached'
          PROVE  About(h, q)
      <3>1. q = p
        BY <2>4 DEF Attached
      <3>2. row.night # "this"
        BY <2>2, <2>4, <3>1 DEF Attached
      <3> QED BY <1>1, <2>1, <2>2, <3>1, <3>2 DEF About
    <2>8. Stays
      BY <2>7 DEF Stays
    <2> QED BY <1>4, <2>6, <2>8, SameNight DEF Promises
  <1> QED BY <1>3, <1>4 DEF SavePlayer

LEMMA DetachHolds ==
    ASSUME TypeInv, SInv, NEW h \in Handlers, Detach(h)
    PROVE  SInv' /\ Promises
  <1>1. task[h].op = "removePlayer"
    BY DEF Detach, At
  <1>2. Alone(task[h]) /\ \E p \in Players : task[h].list = {p}
    BY <1>1 DEF Alone, SInv, Held
  <1>3. PICK list : list = task[h].list
    OBVIOUS
  <1>4. /\ teams' = WithoutPlayers(teams, list) /\ UNCHANGED <<session, players, games>>
    BY <1>3 DEF Detach
  <1>5. \A t \in Teams : /\ teams'[t] = None <=> teams[t] = None
                         /\ teams[t] # None => teams'[t].members = teams[t].members \ list
    BY <1>4, MembersLeft DEF TypeInv, TableOK
  <1>6. Sound'
    BY <1>4, <1>5 DEF SInv, Sound
  <1>7. ASSUME NEW k \in Task, k.op = "removePlayer", k.list = list
        PROVE  Held(k)'
    BY <1>2, <1>3, <1>7 DEF Held
  <1>8. PICK rows, todo : Moves(h, "remove", rows, todo)
    BY DetachTypes
  <1>9. SInv'
    BY <1>1, <1>2, <1>3, <1>6, <1>7, <1>8, AloneMoves
  <1> QED BY <1>4, <1>9, SameNight, SamePlayers DEF Promises

LEMMA DropPlayerHolds ==
    ASSUME TypeInv, SInv, NEW h \in Handlers, DropPlayer(h)
    PROVE  SInv' /\ Promises
  <1>1. task[h].op = "removePlayer"
    BY DEF DropPlayer, At
  <1>2. Alone(task[h]) /\ \E p \in Players : task[h].list = {p}
    BY <1>1 DEF Alone, SInv, Held
  <1>3. PICK p \in Players : task[h].list = {p}
    BY <1>2
  <1>4. /\ players' = [q \in Players |-> IF q \in {p} THEN None ELSE players[q]]
        /\ teams' = WithoutPlayers(teams, {p})
        /\ Done(h) /\ UNCHANGED <<session, games>>
    BY <1>3 DEF DropPlayer
  <1>5. \A t \in Teams : /\ teams'[t] = None <=> teams[t] = None
                         /\ teams[t] # None => teams'[t].members = teams[t].members \ {p}
    BY <1>4, MembersLeft DEF TypeInv, TableOK
  <1>6. \A t \in Teams : teams[t] # None => teams[t].members \subseteq Players
    BY DEF TypeInv, TableOK, TeamRow
  <1>7. Sound'
    BY <1>4, <1>5, <1>6 DEF SInv, Sound
  <1>8. SInv'
    BY <1>2, <1>4, <1>7, AloneDone
  <1>9. Attached \ Attached' \subseteq {p}
    BY <1>4 DEF Attached
  <1>10. Stays
    BY <1>1, <1>3, <1>9 DEF Stays, About
  <1> QED BY <1>4, <1>8, <1>10, SameNight DEF Promises

LEMMA SaveKickHolds ==
    ASSUME TypeInv, SInv, NEW h \in Handlers, SaveKick(h)
    PROVE  SInv' /\ Promises
  <1>1. task[h].op = "kick"
    BY DEF SaveKick, At
  <1>2. Alone(task[h]) /\ HeldKick(task[h])
    BY <1>1 DEF Alone, SInv, Held
  <1>3. CASE Refused(h)
    BY <1>3, RefusedPromises
  <1>4. CASE ~ Refused(h)
    <2>1. PICK p \in Attached : task[h].todo = {p} /\ task[h].list = Attached \ {p}
      BY <1>2 DEF HeldKick
    <2>2. PICK rows : rows = task[h].rows
      OBVIOUS
    <2>3. /\ \A u \in DOMAIN rows : CanSaveTeam(rows[u])
          /\ SavedTeams(rows) \in [Teams -> TeamRow \cup {None}]
          /\ LeftPlayers({p}) \in [Players -> PlayerRow \cup {None}]
          /\ teams' = WithoutPlayers(SavedTeams(rows), {p})
          /\ session' = session /\ session # None
          /\ players' = ReattachPlayers(LeftPlayers({p}), Attached \ {p})
          /\ Done(h) /\ UNCHANGED games
      BY <1>2, <1>4, <2>1, <2>2, SaveKickTypes DEF HeldKick
    <2>4. ASSUME NEW q \in Players, q # p, players[q] # None
          PROVE  players'[q] # None /\ players'[q].night = players[q].night
      <3>1. LeftPlayers({p})[q] = players[q] /\ players[q] \in PlayerRow
        BY <2>4 DEF LeftPlayers, TypeInv, TableOK
      <3> DEFINE night == IF q \in Attached \ {p} THEN "this"
                          ELSE IF players[q].night = "this" THEN "none" ELSE players[q].night
      <3>2. night = players[q].night
        BY <2>4 DEF Attached
      <3>3. players'[q] = [players[q] EXCEPT !.night = night]
        BY <2>3, <2>4, <3>1 DEF ReattachPlayers
      <3> HIDE DEF night
      <3>4. players'[q] \in PlayerRow /\ players'[q].night = players[q].night
        BY <3>1, <3>2, <3>3 DEF PlayerRow
      <3> QED BY <3>4, NoneAssumption
    <2>5. ASSUME NEW q \in Players, q = p \/ players[q] = None
          PROVE  players'[q] = None
      BY <2>3, <2>5 DEF ReattachPlayers, LeftPlayers
    <2>6. ASSUME NEW t \in Teams, teams'[t] # None, NEW q \in teams'[t].members
          PROVE  players'[q] # None
      <3>1. /\ SavedTeams(rows)[t] # None
            /\ teams'[t].members = SavedTeams(rows)[t].members \ {p}
        BY <2>3, <2>6, MembersLeft
      <3>2. q \in SavedTeams(rows)[t].members /\ q # p /\ q \in Players
        BY <2>3, <2>6, <3>1 DEF TeamRow
      <3>3. players[q] # None
        BY <2>3, <3>1, <3>2 DEF SavedTeams, CanSaveTeam, SInv, Sound
      <3> QED BY <2>4, <3>2, <3>3
    <2>7. Sound'
      BY <2>3, <2>4, <2>5, <2>6 DEF SInv, Sound
    <2>8. SInv'
      BY <1>2, <2>3, <2>7, AloneDone
    <2>9. Attached \ Attached' \subseteq {p}
      BY <2>4 DEF Attached
    <2>10. Stays
      BY <1>1, <2>1, <2>9 DEF Stays, About
    <2> QED BY <2>3, <2>8, <2>10, SameNight DEF Promises
  <1> QED BY <1>3, <1>4

-----------------------------------------------------------------------------
(* The theorems for requests that are served alone.                          *)

LEMMA SoundInit ==
    ASSUME Init
    PROVE  SInv
  <1>1. PICK c \in Codes, p \in Players, n \in Names :
            /\ session = [status |-> "SCHEDULED", code |-> c]
            /\ players = [q \in Players |-> IF q = p THEN NewPlayer(n) ELSE None]
    BY DEF Init, NewPlayer
  <1>2. session \in SessionRow
    BY <1>1 DEF SessionRow, SessionStatus
  <1>3. session # None
    BY <1>2, NoneAssumption
  <1>4. NewPlayer(n).night = "this"
    BY DEF NewPlayer
  <1>5. /\ \A g \in Games : games[g] = None
        /\ \A t \in Teams : teams[t] = None
        /\ \A h \in Handlers : task[h] = NoTask
    BY DEF Init
  <1>6. Sound
    BY <1>1, <1>3, <1>4, <1>5 DEF Sound
  <1>7. AloneInv
    BY <1>5, IdleHolds DEF AloneInv, Alone
  <1> QED BY <1>5, <1>6, <1>7, IdleHolds DEF SInv

LEMMA NightHolds ==
    ASSUME TypeInv, SInv, JoinsOnly, NEW h \in Handlers, NightStep(h)
    PROVE  SInv' /\ Promises
  <1>1. CASE StartSession(h) \/ LoadStart(h) \/ SaveStart(h)
             \/ \E p \in Players : StartPlayer(h, p)
    BY <1>1, StartHolds, LoadHolds, SaveStartHolds, StartPlayerHolds
  <1>2. CASE CompleteSession(h) \/ SaveComplete(h) \/ CancelSession(h) \/ SaveCancel(h)
    BY <1>2, CompleteHolds, SaveCompleteHolds, CancelHolds, SaveCancelHolds
  <1>3. CASE UpdateSession(h) \/ RegenerateJoinCode(h) \/ SaveSession(h)
    BY <1>3, UpdateHolds, SaveSessionHolds
  <1>4. CASE RemoveSession(h) \/ RemovePlayers(h) \/ RemoveRow(h)
    BY <1>4, RemoveSessionHolds, RemovePlayersHolds, RemoveRowHolds
  <1> QED BY <1>1, <1>2, <1>3, <1>4 DEF NightStep

LEMMA GameHolds ==
    ASSUME TypeInv, SInv, JoinsOnly, NEW h \in Handlers, GameStep(h)
    PROVE  SInv' /\ Promises
  <1>1. CASE \E L \in SUBSET Libs : AddGames(h, L) \/ UpdateGames(h, L)
    BY <1>1, AddGamesHolds, RemoveGamesHolds
  <1>2. CASE \E L \in SUBSET Libs \ {{}} : ApplyPlan(h, L)
    BY <1>2, ApplyPlanHolds
  <1>3. CASE SavePlan(h) \/ InsertGames(h) \/ DropGames(h) \/ AddAfterDrop(h)
    BY <1>3, SavePlanHolds, InsertGamesHolds, DropGamesHolds, AddAfterDropHolds
  <1>4. CASE \E g \in Games : RemoveGame(h, g)
    BY <1>4, RemoveGamesHolds
  <1> QED BY <1>1, <1>2, <1>3, <1>4 DEF GameStep

LEMMA PlayerHolds ==
    ASSUME TypeInv, SInv, JoinsOnly, NEW h \in Handlers, PlayerStep(h)
    PROVE  SInv' /\ Promises
  <1>1. CASE \E n \in Names : JoinSession(h, n) \/ EnrolPlayer(h, n)
    BY <1>1, JoinHolds
  <1>2. CASE FindByName(h) \/ InsertRefused(h) \/ FindWinner(h) \/ MarkRejoined(h)
    BY <1>2, FindHolds, InsertRefusedHolds, MarkRejoinedHolds
  <1>3. CASE AnswerJoin(h)
    BY <1>3, RefusedPromises DEF AnswerJoin
  <1>4. CASE Detach(h) \/ DropPlayer(h) \/ SaveKick(h)
    BY <1>4, DetachHolds, DropPlayerHolds, SaveKickHolds
  <1>5. ASSUME NEW p \in Players,
               InsertPlayer(h, p) \/ SavePlayer(h, p) \/ RemovePlayer(h, p) \/ KickPlayer(h, p)
        PROVE  SInv' /\ Promises
    BY <1>5, InsertPlayerHolds, SavePlayerHolds, RemovePlayerHolds, KickHolds
  <1>6. ASSUME NEW p \in Players,
               \/ RejoinSession(h, p)
               \/ \E ready \in BOOLEAN : SetPlayerReady(h, p, ready)
               \/ \E s \in PlayerStatus : SetPlayerStatus(h, p, s)
        PROVE  SInv' /\ Promises
    BY <1>6, StatusHolds
  <1>7. ASSUME NEW p \in Players,
               \E n \in Names, night \in {"this", "other"} : RenamePlayer(h, p, n, night)
        PROVE  SInv' /\ Promises
    BY <1>7, RenameHolds
  <1>8. ASSUME NEW p \in Players, NEW s \in PlayerStatus, NEW n \in Names, AdmitPlayer(h, p, n, s)
        PROVE  SInv' /\ Promises
    BY <1>8, AdmitHolds
  <1> QED BY <1>1, <1>2, <1>3, <1>4, <1>5, <1>6, <1>7, <1>8 DEF PlayerStep

LEMMA SoundNext ==
    ASSUME TypeInv, SInv, JoinsOnly, [Next]_vars
    PROVE  SInv' /\ Promises
  <1>1. CASE UNCHANGED vars
    <2>1. UNCHANGED db /\ UNCHANGED task
      BY <1>1 DEF vars, db
    <2>2. Sound' /\ Promises /\ \A k : Held(k) => Held(k)'
      BY <2>1, SameTables DEF SInv
    <2>3. AloneInv' /\ \A h \in Handlers : Held(task[h])'
      BY <2>1, <2>2 DEF SInv, AloneInv
    <2> QED BY <2>2, <2>3 DEF SInv
  <1>2. ASSUME NEW h \in Handlers, Fail(h)
        PROVE  SInv' /\ Promises
    BY <1>2, RefusedPromises DEF Fail
  <1>3. ASSUME NEW h \in Handlers, TeamStep(h)
        PROVE  SInv' /\ Promises
    BY <1>3, TeamHolds, SaveTeamHolds DEF TeamStep
  <1>4. ASSUME NEW h \in Handlers, NightStep(h) \/ GameStep(h) \/ PlayerStep(h)
        PROVE  SInv' /\ Promises
    BY <1>4, NightHolds, GameHolds, PlayerHolds
  <1> QED BY <1>1, <1>2, <1>3, <1>4, PlayGameHolds DEF Next

\* SInv holds in every reachable state when only joins, enrolments and the
\* playing of games overlap.
THEOREM SoundHolds == ASSUME JoinsOnly PROVE Spec => []SInv
  <1>1. TypeInv /\ SInv /\ [Next]_vars => SInv'
    BY SoundNext
  <1> QED BY <1>1, SoundInit, TypesHold, PTL DEF Spec

\* No game of the library is in the night twice, for any line-up and any number
\* of entries: addGames, updateSessionGames and applyPlan all see to it.
THEOREM LibrariesOnce == ASSUME JoinsOnly PROVE Spec => []NoLibraryTwice
  <1>1. SInv => NoLibraryTwice
    BY DEF SInv, Sound, NoLibraryTwice, Listed
  <1> QED BY <1>1, SoundHolds, PTL

\* Whoever is in a team is a player, of this night or of the one he was moved to.
THEOREM TeamsBelong == ASSUME JoinsOnly PROVE Spec => []MembersBelong
  <1>1. TypeInv /\ SInv => MembersBelong
    BY DEF SInv, Sound, MembersBelong, TypeInv, TableOK, TeamRow
  <1> QED BY <1>1, SoundHolds, TypesHold, PTL

\* A join that is answered has its player in the night, also when any number of
\* joins and enrolments race for one name.
THEOREM JoinsAnswered == ASSUME JoinsOnly PROVE Spec => []JoinAnswered
  <1>1. SInv => JoinAnswered
    <2>1. ASSUME SInv, NEW h \in Handlers, At(h, "join", "answer")
          PROVE  \E p \in DOMAIN task[h].rows : p \in Attached /\ players[p].name \in task[h].todo
      BY <2>1 DEF SInv, Held, Found, At
    <2> QED BY <2>1 DEF JoinAnswered
  <1> QED BY <1>1, SoundHolds, PTL

\* When startSession saves the night, everyone who takes part is playing, however
\* many players it has saved one by one.
THEOREM StartsAsOne == ASSUME JoinsOnly PROVE Spec => StartedTogether
  <1>1. TypeInv /\ SInv /\ [Next]_vars => [StartsTogether]_vars
    BY SoundNext DEF Promises
  <1>2. [StartsTogether]_vars
        => [session # None /\ session' # None
                /\ session.status = "SCHEDULED" /\ session'.status = "IN_PROGRESS"
            => \A p \in Attached' : players'[p].status \in {"playing", "disconnected"}]_vars
    BY DEF StartsTogether
  <1> QED BY <1>1, <1>2, SoundHolds, TypesHold, PTL DEF Spec, StartedTogether

\* Nobody drops out of the night but by a request that is about him, or with it.
THEOREM NobodyDropsOut == ASSUME JoinsOnly PROVE Spec => PlayersStay
  <1>1. TypeInv /\ SInv /\ [Next]_vars => [Stays]_vars
    BY SoundNext DEF Promises
  <1>2. [Stays]_vars
        => [\A p \in Attached \ Attached' : \E h \in Handlers :
                \/ task[h].op = "kick" /\ task[h].todo = {p}
                \/ task[h].op = "removePlayer" /\ task[h].list = {p}
                \/ task[h].op = "rename" /\ p \in DOMAIN task[h].rows
                                         /\ task[h].rows[p].night = "other"
                \/ task[h].op = "removeSession"]_vars
    BY DEF Stays, About
  <1> QED BY <1>1, <1>2, SoundHolds, TypesHold, PTL DEF Spec, PlayersStay

\* The handlers implement SessionLife: the night is started, completed, cancelled
\* and deleted only from the states it promises, and with no game unfinished.
THEOREM LifeImplemented == ASSUME JoinsOnly PROVE Spec => ImplementsLife
  <1>1. Init => Life!Init
    <2>1. ASSUME Init
          PROVE  session # None /\ session.status = "SCHEDULED" /\ Unfinished = {}
      <3>1. PICK c \in Codes : session = [status |-> "SCHEDULED", code |-> c]
        BY <2>1 DEF Init
      <3>2. session \in SessionRow
        BY <3>1 DEF SessionRow, SessionStatus
      <3> QED BY <2>1, <3>1, <3>2, NoneAssumption DEF Init, Unfinished, Listed
    <2> QED BY <2>1 DEF Life!Init
  <1>2. TypeInv /\ SInv /\ [Next]_vars => [Life!Next]_Life!vars
    BY SoundNext DEF Promises, LivesOn
  <1> QED BY <1>1, <1>2, SoundHolds, TypesHold, PTL DEF Spec, ImplementsLife, Life!Spec
=============================================================================
