--------------------------- MODULE PresenceProofs ----------------------------
(***************************************************************************)
(* Theorems about Presence: types and the single grace timer for any       *)
(* overlap of handlers, and what connects and disconnects achieve when     *)
(* handlers do not overlap, for any number of connections.                 *)
(***************************************************************************)
EXTENDS Presence, TLAPS

-----------------------------------------------------------------------------
(* Any number of handlers *)

\* The rows that stand for no player and for a new one, and the idle task, have
\* their types.
LEMMA ConstantsTyped == Gone \in Row /\ NewPlayer \in Row /\ NoTask \in Task
<1>1. Gone \in Row /\ NewPlayer \in Row
  BY DEF Gone, NewPlayer, Row, Status
<1>2. Gone \in Entity
  BY DEF Gone, Entity, Status
<1>3. QED BY <1>1, <1>2 DEF NoTask, Task

\* What a save leaves in the row is a row.
LEMMA SavedTyped == ASSUME row \in Row, NEW e \in Entity PROVE Saved(e) \in Row
<1> DEFINE k == Kept(e.socket, row.socket)
<1>1. k \in Sockets \cup {None}
  BY DEF Kept, Row, Entity
<1>2. Saved(e) = [e EXCEPT !.socket = k]
  BY DEF Saved
<1> HIDE DEF k
<1>3. QED BY <1>1, <1>2 DEF Row, Entity

(***************************************************************************)
(* TypeOK is not inductive: ArmGrace names the timer for the socket the    *)
(* handler serves, so that has to be known to be one.                      *)
(***************************************************************************)
Serves(h) ==
    task[h].op = "connect" \/ task[h].pc \in {"find", "arm"} =>
        task[h].socket \in Sockets

TypeInv == TypeOK /\ \A h \in Handlers : Serves(h)

\* A step that replaces the task of one handler by a sound one keeps TypeInv,
\* if it keeps the types of the rest.
LEMMA TaskReplaced ==
  ASSUME TypeInv, NEW h \in Handlers, NEW t \in Task,
         t.op = "connect" \/ t.pc \in {"find", "arm"} => t.socket \in Sockets,
         task' = [task EXCEPT ![h] = t]
  PROVE  task' \in [Handlers -> Task] /\ \A g \in Handlers : Serves(g)'
<1>1. \A g \in Handlers : task'[g] = IF g = h THEN t ELSE task[g]
  BY DEF TypeInv, TypeOK
<1>2. QED BY <1>1 DEF TypeInv, TypeOK, Serves

\* The tasks that start and end a handler are sound.
LEMMA FinishTyped ==
  ASSUME TypeInv, NEW h \in Handlers, Finish(h)
  PROVE  task' \in [Handlers -> Task] /\ \A g \in Handlers : Serves(g)'
  BY TaskReplaced, ConstantsTyped DEF Finish, NoTask

\* A handler that starts with a socket may serve it, and one that has no socket
\* starts by loading.
LEMMA StartTyped ==
  ASSUME TypeInv, NEW h \in Handlers, NEW s \in Sockets \cup {None},
         NEW op \in {"connect", "disconnect", "offline"}, NEW pc \in {"load", "find"},
         s \in Sockets \/ (op = "offline" /\ pc = "load"), Start(h, op, pc, s)
  PROVE  task' \in [Handlers -> Task] /\ \A g \in Handlers : Serves(g)'
<1> DEFINE t == [op |-> op, pc |-> pc, socket |-> s, ent |-> Gone]
<1>1. Gone \in Entity
  BY DEF Gone, Entity, Status
<1>2. t \in Task
  BY <1>1 DEF Task
<1>3. task' = [task EXCEPT ![h] = t]
  BY DEF Start
<1>4. QED BY <1>2, <1>3, TaskReplaced

\* A handler that has changed the entity it loaded keeps its socket.
LEMMA HoldTyped ==
  ASSUME TypeInv, NEW h \in Handlers, NEW e \in Entity, Hold(h, e)
  PROVE  task' \in [Handlers -> Task] /\ \A g \in Handlers : Serves(g)'
<1> DEFINE t == [task[h] EXCEPT !.ent = e, !.pc = "save"]
<1>1. t \in Task /\ t.op = task[h].op /\ t.pc = "save" /\ t.socket = task[h].socket
  BY DEF TypeInv, TypeOK, Task
<1>2. task' = [task EXCEPT ![h] = t]
  BY DEF Hold, TypeInv, TypeOK, Task
<1> HIDE DEF t
<1>3. t.op = "connect" \/ t.pc \in {"find", "arm"} => t.socket \in Sockets
  BY <1>1 DEF TypeInv, Serves
<1>4. QED BY <1>1, <1>2, <1>3, TaskReplaced

\* A request, a connect or a disconnect keeps the types.
LEMMA ClientTyped ==
  ASSUME TypeInv, NEW h \in Handlers, Client(h) PROVE TypeInv'
<1>1. ASSUME NEW s \in Sockets, Connect(h, s) PROVE TypeInv'
  BY <1>1, StartTyped DEF TypeInv, TypeOK, Connect
<1>2. ASSUME NEW s \in Sockets, Disconnect(h, s) PROVE TypeInv'
  BY <1>2, StartTyped DEF TypeInv, TypeOK, Disconnect
<1>3. ASSUME SetStatus(h) PROVE TypeInv'
  <2>1. PICK st \in Status :
          task' = [task EXCEPT ![h] =
                     [op |-> "setStatus", pc |-> "save", socket |-> None,
                      ent |-> [row EXCEPT !.status = st]]]
    BY <1>3 DEF SetStatus
  <2> DEFINE e == [row EXCEPT !.status = st]
             t == [op |-> "setStatus", pc |-> "save", socket |-> None, ent |-> e]
  <2>2. e \in Entity
    BY DEF TypeInv, TypeOK, Row, Entity
  <2> HIDE DEF e
  <2>3. t \in Task
    BY <2>2 DEF Task
  <2>4. task' = [task EXCEPT ![h] = t]
    BY <2>1 DEF e
  <2>5. QED BY <1>3, <2>3, <2>4, TaskReplaced DEF SetStatus, TypeInv, TypeOK
<1>4. QED BY <1>1, <1>2, <1>3 DEF Client

\* The entity that setPlayerOnline saves.
OnlineEntity(s) ==
    [row EXCEPT !.online = TRUE, !.socket = s,
                !.status = IF @ = "disconnected" THEN "joined" ELSE @]

\* setPlayerOnline holds an entity, or closes the socket and goes on with the
\* disconnect.
LEMMA LoadOnlineTyped ==
  ASSUME TypeInv, NEW h \in Handlers, LoadOnline(h) PROVE TypeInv'
<1> DEFINE s == task[h].socket
<1>1. s \in Sockets
  BY DEF LoadOnline, TypeInv, Serves
<1>2. CASE row.exists
  <2>1. OnlineEntity(s) \in Entity
    BY <1>1 DEF OnlineEntity, TypeInv, TypeOK, Row, Entity, Status
  <2>2. Hold(h, OnlineEntity(s)) /\ UNCHANGED <<net, row, pending, armed>>
    BY <1>2 DEF LoadOnline, OnlineEntity
  <2>3. QED BY <2>1, <2>2, HoldTyped DEF TypeInv, TypeOK
<1>3. CASE ~row.exists
  <2>1. net' \in [Sockets -> {"new", "up", "down"}]
    BY <1>1, <1>3 DEF LoadOnline, TypeInv, TypeOK
  <2>2. CASE net[s] = "up"
    <3> DEFINE t == [task[h] EXCEPT !.op = "disconnect", !.pc = "find"]
    <3>1. t \in Task /\ t.socket = s
      BY DEF TypeInv, TypeOK, Task
    <3>2. task' = [task EXCEPT ![h] = t]
      BY <1>3, <2>2 DEF LoadOnline, TypeInv, TypeOK, Task
    <3> HIDE DEF t
    <3>3. QED BY <1>1, <2>1, <3>1, <3>2, TaskReplaced DEF LoadOnline, TypeInv, TypeOK
  <2>3. CASE net[s] # "up"
    BY <1>3, <2>1, <2>3, FinishTyped DEF LoadOnline, TypeInv, TypeOK
  <2>4. QED BY <2>2, <2>3
<1>4. QED BY <1>2, <1>3

\* Every step of a handler under way keeps the types.
LEMMA HandlerTyped ==
  ASSUME TypeInv, NEW h \in Handlers, Step(h) PROVE TypeInv'
<1>1. ASSUME LoadOnline(h) PROVE TypeInv'
  BY <1>1, LoadOnlineTyped
<1>2. ASSUME ClearPending(h) PROVE TypeInv'
  BY <1>2, FinishTyped DEF ClearPending, TypeInv, TypeOK
<1>3. ASSUME FindPlayer(h) PROVE TypeInv'
  <2>1. CASE Finish(h)
    BY <1>3, <2>1, FinishTyped DEF FindPlayer, TypeInv, TypeOK
  <2>2. CASE task' = [task EXCEPT ![h].pc = "arm"]
    <3> DEFINE t == [task[h] EXCEPT !.pc = "arm"]
    <3>1. t \in Task /\ t.socket \in Sockets
      BY <1>3 DEF FindPlayer, TypeInv, TypeOK, Task, Serves
    <3>2. task' = [task EXCEPT ![h] = t]
      BY <2>2 DEF TypeInv, TypeOK, Task
    <3> HIDE DEF t
    <3>3. QED BY <1>3, <3>1, <3>2, TaskReplaced DEF FindPlayer, TypeInv, TypeOK
  <2>3. QED BY <1>3, <2>1, <2>2 DEF FindPlayer
<1>4. ASSUME ArmGrace(h) PROVE TypeInv'
  <2>1. task[h].socket \in Sockets
    BY <1>4 DEF ArmGrace, TypeInv, Serves
  <2>2. QED BY <1>4, <2>1, FinishTyped DEF ArmGrace, TypeInv, TypeOK
<1>5. ASSUME LoadOffline(h) PROVE TypeInv'
  <2> DEFINE e == [row EXCEPT !.online = FALSE, !.socket = Undef,
                              !.status = "disconnected"]
  <2>1. e \in Entity
    BY DEF TypeInv, TypeOK, Row, Entity, Status
  <2>2. Hold(h, e) \/ Finish(h)
    BY <1>5 DEF LoadOffline
  <2> HIDE DEF e
  <2>3. QED BY <1>5, <2>1, <2>2, HoldTyped, FinishTyped
    DEF LoadOffline, TypeInv, TypeOK
<1>6. ASSUME Save(h) PROVE TypeInv'
  <2>1. Saved(task[h].ent) \in Row
    BY SavedTyped DEF TypeInv, TypeOK, Task
  <2>2. CASE Finish(h)
    BY <1>6, <2>1, <2>2, FinishTyped DEF Save, TypeInv, TypeOK
  <2>3. CASE task' = [task EXCEPT ![h].pc = "clear", ![h].ent = Gone]
    <3> DEFINE t == [task[h] EXCEPT !.pc = "clear", !.ent = Gone]
    <3>1. Gone \in Entity
      BY DEF Gone, Entity, Status
    <3>2. t \in Task /\ t.op = task[h].op /\ t.pc = "clear"
          /\ t.socket = task[h].socket
      BY <3>1 DEF TypeInv, TypeOK, Task
    <3>3. task' = [task EXCEPT ![h] = t]
      BY <2>3 DEF TypeInv, TypeOK, Task
    <3> HIDE DEF t
    <3>4. t.op = "connect" \/ t.pc \in {"find", "arm"} => t.socket \in Sockets
      BY <3>2 DEF TypeInv, Serves
    <3>5. QED BY <1>6, <2>1, <3>2, <3>3, <3>4, TaskReplaced
      DEF Save, TypeInv, TypeOK
  <2>4. QED BY <1>6, <2>2, <2>3 DEF Save
<1>7. QED BY <1>1, <1>2, <1>3, <1>4, <1>5, <1>6 DEF Step

\* TypeInv is inductive.
LEMMA StepTyped == TypeInv /\ [Next]_vars => TypeInv'
<1> SUFFICES ASSUME TypeInv, [Next]_vars PROVE TypeInv'
  OBVIOUS
<1>1. ASSUME NEW h \in Handlers, GraceOver(h) PROVE TypeInv'
  BY <1>1, StartTyped DEF GraceOver, TypeInv, TypeOK
<1>2. CASE Remove
  BY <1>2, ConstantsTyped DEF Remove, TypeInv, TypeOK, Serves
<1>3. CASE Restart
  <2>1. \A h \in Handlers : task'[h] = NoTask
    BY <1>3 DEF Restart
  <2>2. QED BY <1>3, <2>1, ConstantsTyped DEF Restart, TypeInv, TypeOK, Serves, NoTask
<1>4. CASE UNCHANGED vars
  BY <1>4 DEF vars, TypeInv, TypeOK, Serves
<1>5. QED
  BY <1>1, <1>2, <1>3, <1>4, ClientTyped, HandlerTyped DEF Next

\* TypeInv holds in every reachable state.
THEOREM TypesHold == Spec => []TypeInv
<1>1. Init => TypeInv
  BY ConstantsTyped DEF Init, TypeInv, TypeOK, Serves, NoTask
<1>2. QED BY <1>1, StepTyped, PTL DEF Spec

\* Every variable keeps its type, for any number of handlers and connections.
THEOREM TypeCorrect == Spec => []TypeOK
  BY TypesHold, PTL DEF TypeInv

-----------------------------------------------------------------------------
\* Only the timer in the map can fire: connects, disconnects and callbacks touch
\* the map and the timers in the same step.
THEOREM OneTimer == Spec => []OneGraceTimer
<1>1. Init => OneGraceTimer
  BY DEF Init, OneGraceTimer
<1>2. TypeInv /\ OneGraceTimer /\ [Next]_vars => OneGraceTimer'
  <2> SUFFICES ASSUME TypeInv, OneGraceTimer, [Next]_vars PROVE OneGraceTimer'
    OBVIOUS
  <2>1. ASSUME NEW h \in Handlers, ClearPending(h) PROVE OneGraceTimer'
    BY <2>1 DEF ClearPending, OneGraceTimer
  <2>2. ASSUME NEW h \in Handlers, ArmGrace(h) PROVE OneGraceTimer'
    <3>1. task[h].socket # None
      BY <2>2, ConstantsAssumption DEF ArmGrace, TypeInv, Serves
    <3>2. QED BY <2>2, <3>1 DEF ArmGrace, OneGraceTimer
  <2>3. ASSUME NEW h \in Handlers, GraceOver(h) PROVE OneGraceTimer'
    BY <2>3 DEF GraceOver, OneGraceTimer
  <2>4. CASE Restart
    BY <2>4 DEF Restart, OneGraceTimer
  <2>5. ASSUME UNCHANGED <<pending, armed>> PROVE OneGraceTimer'
    BY <2>5 DEF OneGraceTimer
  <2>6. QED
    BY <2>1, <2>2, <2>3, <2>4, <2>5 DEF Next, Client, Connect, Disconnect,
       SetStatus, Step, LoadOnline, FindPlayer, LoadOffline, Save, Remove, vars
<1>3. QED BY <1>1, <1>2, TypesHold, PTL DEF Spec

-----------------------------------------------------------------------------
(***************************************************************************)
(* One handler at a time.  ReconnectCancels and DropIsScheduled speak of   *)
(* quiet states only; SerialInv says what the handler under way has        *)
(* achieved and still has to do, at each of its steps.                     *)
(***************************************************************************)
OneAtATime == \A g, h \in Handlers : g = h

\* The two properties, without Quiet.
ReconnectDone == row.exists /\ row.socket \in Up => row.online /\ pending = None
DropSeen == row.online /\ row.socket \notin Up => pending # None \/ "restart" \in Ops
Settled == ReconnectDone /\ DropSeen

RowInv ==
    /\ ~row.exists => row = Gone
    /\ row.socket # None => net[row.socket] # "new"

Progress(h) ==
    LET t == task[h] IN
    /\ t.pc = "idle" => Settled
    /\ t.op = "connect" /\ t.pc = "load" =>
          Settled /\ t.socket \in Up /\ row.socket # t.socket
    /\ t.op = "connect" /\ t.pc = "save" =>
          t.socket \in Up /\ t.ent.exists /\ t.ent.online /\ t.ent.socket = t.socket
    /\ t.pc = "clear" => row.online /\ row.socket \in Up
    /\ t.pc = "find" =>
          net[t.socket] = "down" /\ (row.socket # t.socket => Settled)
    /\ t.pc = "arm" => row.socket = t.socket /\ net[t.socket] = "down"
    /\ t.op = "offline" => row.socket \notin Up
    /\ t.op = "offline" /\ t.pc = "save" =>
          t.ent.exists /\ ~t.ent.online /\ t.ent.socket = Undef
    /\ t.op = "setStatus" =>
          /\ Settled /\ row.exists /\ t.ent.exists
          /\ t.ent.online = row.online /\ t.ent.socket = row.socket
    /\ t.op = "disconnect" <=> t.pc \in {"find", "arm"}
    /\ t.op = "setStatus" => t.pc = "save"
    /\ t.op = "none" <=> t.pc = "idle"

SerialInv == RowInv /\ \A h \in Handlers : Progress(h)

\* With one handler, the invariant is re-established by showing its progress.
LEMMA OnlyProgress ==
  ASSUME OneAtATime, NEW h \in Handlers, RowInv', Progress(h)'
  PROVE  SerialInv'
  BY DEF OneAtATime, SerialInv

\* A request or a connect or disconnect finds a settled state.
LEMMA ClientSerial ==
  ASSUME TypeInv, OneAtATime, SerialInv, NEW h \in Handlers, Client(h)
  PROVE  SerialInv'
<1> USE ConstantsAssumption
<1>1. RowInv /\ Progress(h) /\ row \in Row /\ task \in [Handlers -> Task]
      /\ net \in [Sockets -> {"new", "up", "down"}]
  BY DEF TypeInv, TypeOK, SerialInv
<1>2. Settled
  BY <1>1 DEF Client, Connect, Disconnect, SetStatus, Start, Idle, Progress
<1>3. ASSUME NEW s \in Sockets, Connect(h, s) PROVE SerialInv'
  <2>1. task'[h] = [op |-> "connect", pc |-> "load", socket |-> s, ent |-> Gone]
    BY <1>1, <1>3 DEF Connect, Start
  <2>2. Up' = Up \cup {s} /\ s \notin Up /\ row.socket # s
    BY <1>1, <1>3 DEF Connect, Up, RowInv
  <2>3. UNCHANGED <<row, pending>> /\ net'[s] = "up"
        /\ \A r \in Sockets \ {s} : net'[r] = net[r]
    BY <1>1, <1>3 DEF Connect
  <2>4. Settled'
    BY <1>2, <2>2, <2>3 DEF Settled, ReconnectDone, DropSeen
  <2>5. Progress(h)'
    BY <2>1, <2>2, <2>3, <2>4 DEF Progress
  <2>6. RowInv'
    BY <1>1, <2>3, <2>2 DEF RowInv, Row
  <2>7. QED BY <2>5, <2>6, OnlyProgress
<1>4. ASSUME NEW s \in Sockets, Disconnect(h, s) PROVE SerialInv'
  <2>1. task'[h] = [op |-> "disconnect", pc |-> "find", socket |-> s, ent |-> Gone]
    BY <1>1, <1>4 DEF Disconnect, Start
  <2>2. Up' = Up \ {s}
    BY <1>1, <1>4 DEF Disconnect, Up
  <2>3. UNCHANGED <<row, pending>> /\ net'[s] = "down"
        /\ \A r \in Sockets \ {s} : net'[r] = net[r]
    BY <1>1, <1>4 DEF Disconnect
  <2>4. row.socket # s => Settled'
    BY <1>2, <2>2, <2>3 DEF Settled, ReconnectDone, DropSeen
  <2>5. Progress(h)'
    BY <2>1, <2>3, <2>4 DEF Progress
  <2>6. RowInv'
    BY <1>1, <2>3 DEF RowInv, Row
  <2>7. QED BY <2>5, <2>6, OnlyProgress
<1>5. ASSUME SetStatus(h) PROVE SerialInv'
  <2>1. PICK st \in Status :
          task' = [task EXCEPT ![h] =
                     [op |-> "setStatus", pc |-> "save", socket |-> None,
                      ent |-> [row EXCEPT !.status = st]]]
    BY <1>5 DEF SetStatus
  <2> DEFINE e == [row EXCEPT !.status = st]
  <2>2. task'[h] = [op |-> "setStatus", pc |-> "save", socket |-> None, ent |-> e]
    BY <1>1, <2>1
  <2>3. UNCHANGED <<net, row, pending>> /\ row.exists
    BY <1>5 DEF SetStatus
  <2>4. e.exists /\ e.online = row.online /\ e.socket = row.socket
    BY <1>1, <2>3 DEF Row
  <2> HIDE DEF e
  <2>5. Settled' /\ RowInv'
    BY <1>1, <1>2, <2>3 DEF Settled, ReconnectDone, DropSeen, RowInv, Up
  <2>6. Progress(h)'
    BY <2>2, <2>3, <2>4, <2>5 DEF Progress
  <2>7. QED BY <2>5, <2>6, OnlyProgress
<1>6. QED BY <1>3, <1>4, <1>5 DEF Client

\* A handler that ends leaves a settled state.
LEMMA FinishSerial ==
  ASSUME TypeInv, OneAtATime, NEW h \in Handlers, Finish(h), Settled', RowInv'
  PROVE  SerialInv'
<1>1. task'[h] = NoTask
  BY DEF Finish, TypeInv, TypeOK
<1>2. Progress(h)'
  BY <1>1 DEF Progress, NoTask
<1>3. QED BY <1>2, OnlyProgress

\* The steps of a connect.
LEMMA ConnectSerial ==
  ASSUME TypeInv, OneAtATime, SerialInv, NEW h \in Handlers,
         LoadOnline(h) \/ ClearPending(h)
  PROVE  SerialInv'
<1> USE ConstantsAssumption
<1> DEFINE s == task[h].socket
<1>1. RowInv /\ Progress(h) /\ row \in Row /\ task \in [Handlers -> Task]
      /\ net \in [Sockets -> {"new", "up", "down"}]
  BY DEF TypeInv, TypeOK, SerialInv
<1>2. CASE ClearPending(h)
  <2>1. row.online /\ row.socket \in Up
    BY <1>1, <1>2 DEF ClearPending, Progress
  <2>2. pending' = None /\ UNCHANGED <<net, row>> /\ Finish(h)
    BY <1>2 DEF ClearPending
  <2>3. Settled' /\ RowInv'
    BY <1>1, <2>1, <2>2 DEF Settled, ReconnectDone, DropSeen, RowInv, Up
  <2>4. QED BY <2>2, <2>3, FinishSerial
<1>3. CASE LoadOnline(h) /\ row.exists
  <2>1. s \in Up /\ s \in Sockets
    BY <1>1, <1>3 DEF LoadOnline, Progress, Up
  <2> DEFINE e == OnlineEntity(s)
  <2>2. e.exists /\ e.online /\ e.socket = s
    BY <1>1, <1>3 DEF OnlineEntity, Row
  <2>3. Hold(h, e) /\ UNCHANGED <<net, row, pending, armed>>
    BY <1>3 DEF LoadOnline, OnlineEntity
  <2> HIDE DEF e
  <2>4. task'[h] = [task[h] EXCEPT !.ent = e, !.pc = "save"]
    BY <1>1, <2>3 DEF Hold, Task
  <2>5. task'[h].op = "connect" /\ task'[h].pc = "save" /\ task'[h].ent = e
        /\ task'[h].socket = s
    BY <1>1, <1>3, <2>4 DEF LoadOnline, Task
  <2>6. Progress(h)' /\ RowInv'
    BY <1>1, <2>1, <2>2, <2>3, <2>5 DEF Progress, RowInv, Up
  <2>7. QED BY <2>6, OnlyProgress
<1>4. CASE LoadOnline(h) /\ ~row.exists
  <2>1. s \in Up /\ s \in Sockets /\ net[s] = "up"
    BY <1>1, <1>4 DEF LoadOnline, Progress, Up
  <2>2. /\ net' = [net EXCEPT ![s] = "down"]
        /\ task' = [task EXCEPT ![h].op = "disconnect", ![h].pc = "find"]
        /\ UNCHANGED <<row, pending, armed>>
    BY <1>4, <2>1 DEF LoadOnline
  <2>3. task'[h].op = "disconnect" /\ task'[h].pc = "find" /\ task'[h].socket = s
    BY <1>1, <2>2 DEF Task
  <2>4. Settled' /\ RowInv'
    BY <1>1, <1>4, <2>2 DEF Settled, ReconnectDone, DropSeen, RowInv, Gone
  <2>5. Progress(h)'
    BY <1>1, <2>1, <2>2, <2>3, <2>4 DEF Progress
  <2>6. QED BY <2>4, <2>5, OnlyProgress
<1>5. QED BY <1>2, <1>3, <1>4

\* The steps of a disconnect.
LEMMA DisconnectSerial ==
  ASSUME TypeInv, OneAtATime, SerialInv, NEW h \in Handlers,
         FindPlayer(h) \/ ArmGrace(h)
  PROVE  SerialInv'
<1> USE ConstantsAssumption
<1> DEFINE s == task[h].socket
<1>1. RowInv /\ Progress(h) /\ row \in Row /\ task \in [Handlers -> Task]
      /\ net \in [Sockets -> {"new", "up", "down"}] /\ s \in Sockets
  BY DEF TypeInv, TypeOK, SerialInv, Serves, FindPlayer, ArmGrace
<1>2. CASE ArmGrace(h)
  <2>1. row.socket = s /\ net[s] = "down"
    BY <1>1, <1>2 DEF ArmGrace, Progress
  <2>2. pending' = s /\ UNCHANGED <<net, row>> /\ Finish(h)
    BY <1>2 DEF ArmGrace
  <2>3. Settled' /\ RowInv'
    BY <1>1, <2>1, <2>2 DEF Settled, ReconnectDone, DropSeen, RowInv, Up
  <2>4. QED BY <2>2, <2>3, FinishSerial
<1>3. CASE FindPlayer(h) /\ row.exists /\ row.socket = s
  <2>1. net[s] = "down"
    BY <1>1, <1>3 DEF FindPlayer, Progress
  <2>2. task' = [task EXCEPT ![h].pc = "arm"] /\ UNCHANGED <<net, row, pending>>
    BY <1>3 DEF FindPlayer
  <2>3. task'[h].pc = "arm" /\ task'[h].socket = s /\ task'[h].op = task[h].op
    BY <1>1, <2>2 DEF Task
  <2>4. task[h].op = "disconnect"
    BY <1>1, <1>3 DEF FindPlayer, Progress, Task
  <2>5. Progress(h)' /\ RowInv'
    BY <1>1, <1>3, <2>1, <2>2, <2>3, <2>4 DEF Progress, RowInv
  <2>6. QED BY <2>5, OnlyProgress
<1>4. CASE FindPlayer(h) /\ ~(row.exists /\ row.socket = s)
  <2>1. Settled
    BY <1>1, <1>4 DEF FindPlayer, Progress, RowInv, Gone, Settled, ReconnectDone,
       DropSeen
  <2>2. Finish(h) /\ UNCHANGED <<net, row, pending>>
    BY <1>4 DEF FindPlayer
  <2>3. Settled' /\ RowInv'
    BY <1>1, <2>1, <2>2 DEF Settled, ReconnectDone, DropSeen, RowInv, Up
  <2>4. QED BY <2>2, <2>3, FinishSerial
<1>5. QED BY <1>2, <1>3, <1>4

\* The steps after the grace period.
LEMMA OfflineSerial ==
  ASSUME TypeInv, OneGraceTimer, OneAtATime, SerialInv, NEW h \in Handlers,
         GraceOver(h) \/ LoadOffline(h)
  PROVE  SerialInv'
<1> USE ConstantsAssumption
<1>1. RowInv /\ Progress(h) /\ row \in Row /\ task \in [Handlers -> Task]
      /\ net \in [Sockets -> {"new", "up", "down"}]
  BY DEF TypeInv, TypeOK, SerialInv
<1>2. CASE GraceOver(h)
  <2>1. pending # None
    BY <1>2 DEF GraceOver, OneGraceTimer
  <2>2. Settled
    BY <1>1, <1>2 DEF GraceOver, Start, Idle, Progress
  <2>3. row.socket \notin Up
    BY <1>1, <2>1, <2>2 DEF Settled, ReconnectDone, RowInv, Gone, Up
  <2>4. task'[h] = [op |-> "offline", pc |-> "load", socket |-> None, ent |-> Gone]
        /\ UNCHANGED <<net, row>>
    BY <1>1, <1>2 DEF GraceOver, Start
  <2>5. Progress(h)' /\ RowInv'
    BY <1>1, <2>3, <2>4 DEF Progress, RowInv, Up
  <2>6. QED BY <2>5, OnlyProgress
<1>3. CASE LoadOffline(h) /\ row.exists
  <2> DEFINE e == [row EXCEPT !.online = FALSE, !.socket = Undef,
                              !.status = "disconnected"]
  <2>1. e.exists /\ ~e.online /\ e.socket = Undef
    BY <1>1, <1>3 DEF Row
  <2>2. Hold(h, e) /\ UNCHANGED <<net, row, pending, armed>>
    BY <1>3 DEF LoadOffline
  <2> HIDE DEF e
  <2>3. task'[h] = [task[h] EXCEPT !.ent = e, !.pc = "save"]
    BY <1>1, <2>2 DEF Hold, Task
  <2>4. task'[h].op = "offline" /\ task'[h].pc = "save" /\ task'[h].ent = e
    BY <1>1, <1>3, <2>3 DEF LoadOffline, Task
  <2>5. row.socket \notin Up
    BY <1>1, <1>3 DEF LoadOffline, Progress
  <2>6. Progress(h)' /\ RowInv'
    BY <1>1, <2>1, <2>2, <2>4, <2>5 DEF Progress, RowInv, Up
  <2>7. QED BY <2>6, OnlyProgress
<1>4. CASE LoadOffline(h) /\ ~row.exists
  <2>1. Finish(h) /\ UNCHANGED <<net, row, pending>>
    BY <1>4 DEF LoadOffline
  <2>2. Settled' /\ RowInv'
    BY <1>1, <1>4, <2>1 DEF Settled, ReconnectDone, DropSeen, RowInv, Gone
  <2>3. QED BY <2>1, <2>2, FinishSerial
<1>5. QED BY <1>2, <1>3, <1>4

\* A save writes what its handler intended: with one handler, the entity is not
\* stale.
LEMMA SaveSerial ==
  ASSUME TypeInv, OneAtATime, SerialInv, NEW h \in Handlers, Save(h)
  PROVE  SerialInv'
<1> USE ConstantsAssumption
<1> DEFINE t == task[h]
<1>1. RowInv /\ Progress(h) /\ row \in Row /\ task \in [Handlers -> Task]
      /\ net \in [Sockets -> {"new", "up", "down"}] /\ t \in Task
      /\ t.ent \in Entity
  BY DEF TypeInv, TypeOK, SerialInv, Task
<1>2. t.pc = "save" /\ UNCHANGED <<net, pending, armed>>
      /\ row' = [t.ent EXCEPT !.socket = Kept(t.ent.socket, row.socket)]
  BY DEF Save, Saved
<1>3. row'.exists = t.ent.exists /\ row'.online = t.ent.online
      /\ row'.socket = Kept(t.ent.socket, row.socket)
  BY <1>1, <1>2 DEF Entity
<1>4. Up' = Up
  BY <1>2 DEF Up
<1>5. CASE t.op = "connect"
  <2>1. t.socket \in Up /\ t.socket \in Sockets /\ t.ent.exists /\ t.ent.online
        /\ t.ent.socket = t.socket
    BY <1>1, <1>2, <1>5 DEF Progress, Up
  <2>2. row'.exists /\ row'.online /\ row'.socket = t.socket
    BY <1>3, <2>1 DEF Kept
  <2>3. task' = [task EXCEPT ![h].pc = "clear", ![h].ent = Gone]
    BY <1>5 DEF Save
  <2>4. task'[h].pc = "clear" /\ task'[h].op = "connect"
    BY <1>1, <1>5, <2>3 DEF Task
  <2>5. Progress(h)' /\ RowInv'
    BY <1>1, <1>2, <1>4, <2>1, <2>2, <2>4 DEF Progress, RowInv, Up
  <2>6. QED BY <2>5, OnlyProgress
<1>6. CASE t.op = "offline"
  <2>1. row.socket \notin Up /\ t.ent.exists /\ ~t.ent.online /\ t.ent.socket = Undef
    BY <1>1, <1>2, <1>6 DEF Progress
  <2>2. row'.exists /\ ~row'.online /\ row'.socket = row.socket
    BY <1>3, <2>1 DEF Kept
  <2>3. Settled' /\ RowInv'
    BY <1>1, <1>2, <1>4, <2>1, <2>2 DEF Settled, ReconnectDone, DropSeen, RowInv
  <2>4. QED BY <1>6, <2>3, FinishSerial DEF Save
<1>7. CASE t.op = "setStatus"
  <2>1. Settled /\ row.exists /\ t.ent.exists /\ t.ent.online = row.online
        /\ t.ent.socket = row.socket
    BY <1>1, <1>7 DEF Progress
  <2>2. row'.exists /\ row'.online = row.online /\ row'.socket = row.socket
    BY <1>3, <2>1 DEF Kept
  <2>3. Settled' /\ RowInv'
    BY <1>1, <1>2, <1>4, <2>1, <2>2 DEF Settled, ReconnectDone, DropSeen, RowInv
  <2>4. QED BY <1>7, <2>3, FinishSerial DEF Save
<1>8. QED BY <1>1, <1>2, <1>5, <1>6, <1>7 DEF Progress, Task

\* SerialInv is inductive when one handler runs at a time.
LEMMA SerialStep ==
  ASSUME OneAtATime
  PROVE  TypeInv /\ OneGraceTimer /\ SerialInv /\ [Next]_vars => SerialInv'
<1> SUFFICES ASSUME TypeInv, OneGraceTimer, SerialInv, [Next]_vars PROVE SerialInv'
  OBVIOUS
<1>1. CASE Remove
  <2>1. PICK h \in Handlers : task[h].pc = "idle"
    BY <1>1 DEF Remove, Idle
  <2>2. row' = Gone /\ UNCHANGED <<net, pending, task>>
    BY <1>1 DEF Remove
  <2>3. Settled' /\ RowInv'
    BY <2>2, ConstantsAssumption
    DEF Settled, ReconnectDone, DropSeen, RowInv, Gone, Up
  <2>4. task[h].op = "none"
    BY <2>1 DEF SerialInv, Progress
  <2>5. Progress(h)'
    BY <2>1, <2>2, <2>3, <2>4 DEF Progress
  <2>6. QED BY <2>3, <2>5, OnlyProgress
<1>2. CASE Restart
  <2>1. /\ "restart" \in Ops
        /\ UNCHANGED row
        /\ \A h \in Handlers : task'[h] = NoTask
        /\ net' = [s \in Sockets |-> IF net[s] = "up" THEN "down" ELSE net[s]]
    BY <1>2 DEF Restart
  <2>2. \A s \in Sockets : net'[s] # "up" /\ (net[s] # "new" => net'[s] # "new")
    BY <2>1
  <2>3. Settled'
    BY <2>1, <2>2 DEF Settled, ReconnectDone, DropSeen, Up
  <2>4. RowInv'
    BY <2>1, <2>2 DEF RowInv, SerialInv, TypeInv, TypeOK, Row
  <2>5. ASSUME NEW h \in Handlers PROVE Progress(h)'
    <3>1. task'[h] = NoTask
      BY <2>1
    <3>2. QED BY <2>3, <3>1 DEF Progress, NoTask
  <2>6. QED BY <2>4, <2>5 DEF SerialInv
<1>3. CASE UNCHANGED vars
  BY <1>3 DEF vars, SerialInv, RowInv, Progress, Settled, ReconnectDone, DropSeen, Up
<1>4. QED
  BY <1>1, <1>2, <1>3, ClientSerial, ConnectSerial, DisconnectSerial,
     OfflineSerial, SaveSerial DEF Next, Step

\* SerialInv holds in every reachable state when handlers do not overlap.
THEOREM SerialHolds == ASSUME OneAtATime PROVE Spec => []SerialInv
<1>1. Init => SerialInv
  <2> SUFFICES ASSUME Init PROVE SerialInv
    OBVIOUS
  <2>1. Settled
    BY ConstantsAssumption
    DEF Init, Settled, ReconnectDone, DropSeen, NewPlayer, Gone, Up
  <2>2. RowInv
    BY DEF Init, RowInv, NewPlayer, Gone
  <2>3. QED BY <2>1, <2>2 DEF Init, SerialInv, Progress, NoTask
<1>2. QED BY <1>1, SerialStep, TypesHold, OneTimer, PTL DEF Spec

\* A reconnect within the grace period works, for any number of connections, if
\* handlers do not overlap (PresenceReconnect shows how two of them fail).
THEOREM ReconnectWorks == ASSUME OneAtATime PROVE Spec => []ReconnectCancels
<1>1. SerialInv => ReconnectCancels
  BY ConstantsAssumption
  DEF SerialInv, Progress, ReconnectCancels, Quiet, Idle, Settled, ReconnectDone
<1>2. QED BY <1>1, SerialHolds, PTL

\* Every loss of the latest connection is noticed, if handlers do not overlap and
\* the process is not restarted.
THEOREM DropsAreSeen ==
  ASSUME OneAtATime, "restart" \notin Ops PROVE Spec => []DropIsScheduled
<1>1. SerialInv => DropIsScheduled
  BY ConstantsAssumption
  DEF SerialInv, Progress, DropIsScheduled, Quiet, Idle, Settled, DropSeen
<1>2. QED BY <1>1, SerialHolds, PTL
=============================================================================
