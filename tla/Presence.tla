------------------------------ MODULE Presence -------------------------------
(***************************************************************************)
(* Whether a player is online: the sockets of one player, the handlers of  *)
(* SessionGateway that socket.io calls when one opens or closes, the grace *)
(* timer between a disconnect and marking the player offline, and the row  *)
(* of the player, which other handlers load, change and save as well.      *)
(*                                                                         *)
(* As in Game, a handler is a sequence of actions, one per await, of one   *)
(* of the Handlers, and it saves the whole entity it has loaded.           *)
(***************************************************************************)
CONSTANTS
    Handlers,    \* handlers that may overlap
    Sockets,     \* connections the player makes; each opens once (bound)
    Ops,         \* what else happens: "setStatus", "remove", "restart"
    None,        \* SQL NULL, or "no timer"
    Undef        \* undefined: a column that TypeORM's save leaves alone

ASSUME ConstantsAssumption ==
    /\ Handlers # {}
    /\ None \notin Sockets /\ Undef \notin Sockets /\ None # Undef

Status == {"joined", "ready", "playing", "disconnected"}

\* A row of table player, Gone if the player was removed, and an entity.
Row == [exists : BOOLEAN, online : BOOLEAN, status : Status,
        socket : Sockets \cup {None}]

Entity == [exists : BOOLEAN, online : BOOLEAN, status : Status,
           socket : Sockets \cup {None, Undef}]

Gone == [exists |-> FALSE, online |-> FALSE, status |-> "joined", socket |-> None]

NewPlayer == [Gone EXCEPT !.exists = TRUE]

VARIABLES
    net,       \* each socket: not opened yet, up, or down for good
    row,       \* the player's row
    pending,   \* the timer in the map pendingOffline, None if there is none
    armed,     \* the timers that will fire; a timer is named for the socket
               \* whose disconnect started it
    task       \* what each handler is doing

vars == <<net, row, pending, armed, task>>

\* A handler's operation, its next step, the socket it serves and the entity it
\* holds.
Task == [op : {"none", "connect", "disconnect", "offline", "setStatus"},
         pc : {"idle", "load", "save", "clear", "find", "arm"},
         socket : Sockets \cup {None}, ent : Entity]

NoTask == [op |-> "none", pc |-> "idle", socket |-> None, ent |-> Gone]

TypeOK ==
    /\ net \in [Sockets -> {"new", "up", "down"}]
    /\ row \in Row
    /\ pending \in Sockets \cup {None}
    /\ armed \subseteq Sockets
    /\ task \in [Handlers -> Task]

\* The player has joined the session and has no connection yet.
Init ==
    /\ net = [s \in Sockets |-> "new"] /\ row = NewPlayer
    /\ pending = None /\ armed = {}
    /\ task = [h \in Handlers |-> NoTask]

-----------------------------------------------------------------------------
Idle(h) == task[h].pc = "idle"

Start(h, op, pc, s) ==
    /\ Idle(h)
    /\ task' = [task EXCEPT ![h] = [op |-> op, pc |-> pc, socket |-> s, ent |-> Gone]]

Finish(h) == task' = [task EXCEPT ![h] = NoTask]

\* The entity was loaded and changed into e; it is saved next.
Hold(h, e) == task' = [task EXCEPT ![h].ent = e, ![h].pc = "save"]

\* handleConnection: the handshake has found the player.
Connect(h, s) ==
    /\ net[s] = "new" /\ row.exists
    /\ net' = [net EXCEPT ![s] = "up"]
    /\ Start(h, "connect", "load", s)
    /\ UNCHANGED <<row, pending, armed>>

\* setPlayerOnline loads the player.  If there is none the socket is closed by
\* the server, and the handler of that disconnect follows.
LoadOnline(h) ==
    /\ task[h].op = "connect" /\ task[h].pc = "load"
    /\ LET s == task[h].socket IN
       IF row.exists
       THEN /\ Hold(h, [row EXCEPT !.online = TRUE, !.socket = s,
                                   !.status = IF @ = "disconnected"
                                              THEN "joined" ELSE @])
            /\ UNCHANGED net
       ELSE /\ net' = [net EXCEPT ![s] = "down"]
            /\ IF net[s] = "up"
               THEN task' = [task EXCEPT ![h].op = "disconnect", ![h].pc = "find"]
               ELSE Finish(h)
    /\ UNCHANGED <<row, pending, armed>>

\* Mutant of ClearPending: the pending timer is left to fire.
ClearPendingNot(h) ==
    /\ task[h].pc = "clear"
    /\ Finish(h)
    /\ UNCHANGED <<net, row, pending, armed>>

\* Back in handleConnection, the pending timer, if there is one, is cancelled.
ClearPending(h) ==
    /\ task[h].pc = "clear"
    /\ armed' = armed \ {pending}
    /\ pending' = None
    /\ Finish(h)
    /\ UNCHANGED <<net, row>>

\* handleDisconnect: the client left, or its pings stopped.
Disconnect(h, s) ==
    /\ net[s] = "up"
    /\ net' = [net EXCEPT ![s] = "down"]
    /\ Start(h, "disconnect", "find", s)
    /\ UNCHANGED <<row, pending, armed>>

\* findBySocketId: only the socket the row names is of interest.
FindPlayer(h) ==
    /\ task[h].pc = "find"
    /\ IF row.exists /\ row.socket = task[h].socket
       THEN task' = [task EXCEPT ![h].pc = "arm"] ELSE Finish(h)
    /\ UNCHANGED <<net, row, pending, armed>>

\* Mutant of ArmGrace: a timer that is replaced is not cancelled.
ArmGraceTwice(h) ==
    /\ task[h].pc = "arm"
    /\ armed' = armed \cup {task[h].socket}
    /\ pending' = task[h].socket
    /\ Finish(h)
    /\ UNCHANGED <<net, row>>

\* The grace timer starts; one that is running is replaced.
ArmGrace(h) ==
    /\ task[h].pc = "arm"
    /\ armed' = (armed \ {pending}) \cup {task[h].socket}
    /\ pending' = task[h].socket
    /\ Finish(h)
    /\ UNCHANGED <<net, row>>

\* Mutant of GraceOver: the callback only broadcasts.
GraceOverBroadcasts(h) ==
    /\ Idle(h)
    /\ \E t \in armed : armed' = armed \ {t}
    /\ pending' = None
    /\ UNCHANGED <<net, row, task>>

\* The grace period is over: the callback forgets the timer and marks the
\* player offline.
GraceOver(h) ==
    /\ \E t \in armed : armed' = armed \ {t}
    /\ pending' = None
    /\ Start(h, "offline", "load", None)
    /\ UNCHANGED <<net, row>>

\* Mutant of LoadOffline: only the status is changed.
LoadOfflineStatus(h) ==
    /\ task[h].op = "offline" /\ task[h].pc = "load"
    /\ IF row.exists
       THEN Hold(h, [row EXCEPT !.status = "disconnected", !.socket = Undef])
       ELSE Finish(h)
    /\ UNCHANGED <<net, row, pending, armed>>

\* setPlayerOffline; that currentSocketId is undefined keeps the column.
LoadOffline(h) ==
    /\ task[h].op = "offline" /\ task[h].pc = "load"
    /\ IF row.exists
       THEN Hold(h, [row EXCEPT !.online = FALSE, !.socket = Undef,
                                !.status = "disconnected"])
       ELSE Finish(h)
    /\ UNCHANGED <<net, row, pending, armed>>

\* updatePlayerStatus, setPlayerReady and rejoinSession load the player to
\* change the status.
SetStatus(h) ==
    /\ "setStatus" \in Ops /\ row.exists
    /\ \E st \in Status :
          /\ Idle(h)
          /\ task' = [task EXCEPT ![h] =
                        [op |-> "setStatus", pc |-> "save", socket |-> None,
                         ent |-> [row EXCEPT !.status = st]]]
    /\ UNCHANGED <<net, row, pending, armed>>

\* What repo.save(e) leaves in the row: all columns of e but undefined ones.  A
\* row that was removed in the meantime is inserted again.
Kept(new, old) == IF new = Undef THEN old ELSE new

\* Mutant of Saved: undefined is written like a value.
SavedUndefined(e) == e

Saved(e) == [e EXCEPT !.socket = Kept(e.socket, row.socket)]

Save(h) ==
    /\ task[h].pc = "save"
    /\ row' = Saved(task[h].ent)
    /\ IF task[h].op = "connect"
       THEN task' = [task EXCEPT ![h].pc = "clear", ![h].ent = Gone]
       ELSE Finish(h)
    /\ UNCHANGED <<net, pending, armed>>

\* removeFromSession, kickPlayer and delete remove the row.
Remove ==
    /\ "remove" \in Ops /\ row.exists
    /\ \E h \in Handlers : Idle(h)
    /\ row' = Gone
    /\ UNCHANGED <<net, pending, armed, task>>

\* The process dies and boots: connections, timers and handlers are lost.
\* Nothing is done about the rows.
Restart ==
    /\ "restart" \in Ops
    /\ net' = [s \in Sockets |-> IF net[s] = "up" THEN "down" ELSE net[s]]
    /\ pending' = None /\ armed' = {}
    /\ task' = [h \in Handlers |-> NoTask]
    /\ UNCHANGED row

\* A handler under way takes its next step.
Step(h) ==
    \/ LoadOnline(h) \/ ClearPending(h) \/ FindPlayer(h) \/ ArmGrace(h)
    \/ LoadOffline(h) \/ Save(h)

Client(h) ==
    \/ \E s \in Sockets : Connect(h, s) \/ Disconnect(h, s)
    \/ SetStatus(h)

Next ==
    \/ \E h \in Handlers : Client(h) \/ GraceOver(h) \/ Step(h)
    \/ Remove \/ Restart

\* Awaited statements come back.  A due timer is called even if requests keep
\* coming: with a bounded number of handlers that is strong fairness.
Fairness ==
    /\ \A h \in Handlers : WF_vars(Step(h))
    /\ SF_vars(\E h \in Handlers : GraceOver(h))

Spec == Init /\ [][Next]_vars

FairSpec == Spec /\ Fairness

-----------------------------------------------------------------------------
Quiet == \A h \in Handlers : Idle(h)

Up == {s \in Sockets : net[s] = "up"}

\* Every timer that will fire is the one in the map, so that a reconnect can
\* cancel it, and there is never more than one, however handlers overlap.
OneGraceTimer == armed = {pending} \ {None}

\* "If the player reconnects within the grace window, handleConnection cancels
\* this and no one sees them drop": once no handler is under way, a player whose
\* latest connection is up is online, and nothing is about to change that.
ReconnectCancels ==
    Quiet /\ row.exists /\ row.socket \in Up => row.online /\ pending = None

\* "A disconnect schedules one after a grace period": once no handler is under
\* way, an online player whose latest connection is down has a timer running.
DropIsScheduled ==
    Quiet /\ row.online /\ row.socket \notin Up => pending # None

\* A player who has left for good is marked offline.
GoneGoesOffline == Up = {} ~> ~row.online \/ Up # {}
=============================================================================
