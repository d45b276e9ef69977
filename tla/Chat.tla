-------------------------------- MODULE Chat --------------------------------
(***************************************************************************)
(* The chat of one session: ChatGateway with its flood limiter and its     *)
(* room, ChatService with the messages, and clients who page back through  *)
(* the history as the cursor of load-history lets them.                    *)
(*                                                                         *)
(* Time runs in ticks, the precision of the database, of which Sub make a  *)
(* millisecond, the precision of the program.  It does not run backwards.  *)
(***************************************************************************)
EXTENDS Integers, FiniteSets, Sequences

CONSTANTS
    Sockets,     \* connections; one that is gone does not come back
    MaxTime,     \* bound: ticks
    Sub,         \* ticks in a millisecond
    RateMax,     \* RATE_MAX
    Window,      \* RATE_WINDOW_MS
    MaxSent,     \* bound: messages that pass the limiter
    Limit        \* messages on a page

ASSUME ConstantsAssumption ==
    /\ MaxTime \in Nat /\ Sub \in Nat \ {0} /\ RateMax \in Nat /\ Window \in Nat
    /\ MaxSent \in Nat /\ Limit \in Nat \ {0}

VARIABLES
    now,         \* the time
    socket,      \* which connections are open
    room,        \* the sockets in the room of the session
    recent,      \* recentSends: times of the last sends of a socket, by their number
    accepted,    \* ghost: the times of all sends of a socket that passed the limiter
    messages,    \* messages that passed the limiter, in that order
    client       \* what the client of each socket has seen and asks for

vars == <<now, socket, room, recent, accepted, messages, client>>

Ms(t) == t \div Sub
Partial(S, T) == UNION {[D -> T] : D \in SUBSET S}
Times == 0..MaxTime
Numbers == 1..MaxSent

\* A message is being checked, being written, stored or told to the room, or it
\* was refused, or deleted with its author.
Stages == {"checking", "writing", "stored", "told", "gone"}
Message == [at : Times, stage : Stages]

\* A client has asked for nothing, can ask for more or has got the last page;
\* cursor is the message it asks the messages before, 0 for none.
Client == [state : {"new", "more", "all"}, seen : SUBSET Numbers, cursor : Nat]

NoSends == [k \in {} |-> 0]
NewClient == [state |-> "new", seen |-> {}, cursor |-> 0]

\* The limiter remembers at most RateMax sends, and none of a closed connection.
TypeOK ==
    /\ now \in Times
    /\ socket \in [Sockets -> {"new", "open", "closed"}] /\ room \subseteq Sockets
    /\ DOMAIN recent = Sockets /\ DOMAIN accepted = Sockets
    /\ \A s \in Sockets :
        /\ recent[s] \in Partial(Numbers, Times) /\ accepted[s] \in Seq(Times)
        /\ Cardinality(DOMAIN recent[s]) <= RateMax
        /\ socket[s] = "closed" => recent[s] = NoSends
    /\ messages \in Seq(Message) /\ Len(messages) <= MaxSent
    /\ client \in [Sockets -> Client]

Init ==
    /\ now = 0
    /\ socket = [s \in Sockets |-> "new"] /\ room = {}
    /\ recent = [s \in Sockets |-> NoSends]
    /\ accepted = [s \in Sockets |-> <<>>]
    /\ messages = <<>>
    /\ client = [s \in Sockets |-> NewClient]

Tick ==
    /\ now < MaxTime /\ now' = now + 1
    /\ UNCHANGED <<socket, room, recent, accepted, messages, client>>

-----------------------------------------------------------------------------
(* Connections and the room.                                                 *)

\* handleConnection: an authenticated player is put into the room.
Connect(s) ==
    /\ socket[s] = "new" /\ socket' = [socket EXCEPT ![s] = "open"]
    /\ room' = room \cup {s}
    /\ UNCHANGED <<now, recent, accepted, messages, client>>

\* Mutant of Disconnect: the send history of the socket is kept.
DisconnectRemembers(s) ==
    /\ socket[s] = "open" /\ socket' = [socket EXCEPT ![s] = "closed"]
    /\ room' = room \ {s}
    /\ client' = [client EXCEPT ![s] = NewClient]
    /\ UNCHANGED <<now, recent, accepted, messages>>

\* handleDisconnect.
Disconnect(s) ==
    /\ socket[s] = "open" /\ socket' = [socket EXCEPT ![s] = "closed"]
    /\ room' = room \ {s} /\ recent' = [recent EXCEPT ![s] = NoSends]
    /\ client' = [client EXCEPT ![s] = NewClient]
    /\ UNCHANGED <<now, accepted, messages>>

\* handleLeaveChat; a client who has left knows that it misses messages, and asks
\* for the history anew.
LeaveChat(s) ==
    /\ s \in room /\ room' = room \ {s}
    /\ client' = [client EXCEPT ![s] = NewClient]
    /\ UNCHANGED <<now, socket, recent, accepted, messages>>

\* handleJoinChat, for the socket's own session; it refuses any other.
JoinChat(s) ==
    /\ socket[s] = "open" /\ s \notin room /\ room' = room \cup {s}
    /\ UNCHANGED <<now, socket, recent, accepted, messages, client>>

-----------------------------------------------------------------------------
(* Sending.                                                                  *)

\* isRateLimited keeps the sends that are later than the start of the window.
Fresh(s) ==
    LET late == {k \in DOMAIN recent[s] : recent[s][k] > Ms(now) - Window} IN
    [k \in late |-> recent[s][k]]

\* Mutant of Full: one more is let through.
FullLate(s) == Cardinality(DOMAIN Fresh(s)) > RateMax

Full(s) == Cardinality(DOMAIN Fresh(s)) >= RateMax

\* handleSendMessage of a socket that has not sent too much of late.
Send(s) ==
    /\ socket[s] = "open" /\ ~Full(s) /\ Len(messages) < MaxSent
    /\ LET n == Len(accepted[s]) + 1 IN
       recent' = [recent EXCEPT ![s] =
                    [k \in DOMAIN Fresh(s) \cup {n} |-> IF k = n THEN Ms(now) ELSE Fresh(s)[k]]]
    /\ accepted' = [accepted EXCEPT ![s] = Append(@, Ms(now))]
    /\ messages' = Append(messages, [at |-> 0, stage |-> "checking"])
    /\ UNCHANGED <<now, socket, room, client>>

\* A refused attempt is not counted.
Refuse(s) ==
    /\ socket[s] = "open" /\ Full(s)
    /\ recent' = [recent EXCEPT ![s] = Fresh(s)]
    /\ UNCHANGED <<now, socket, room, accepted, messages, client>>

Stage(m, from, to) ==
    /\ messages[m].stage = from
    /\ messages' = [messages EXCEPT ![m].stage = to]
    /\ UNCHANGED <<now, socket, room, recent, accepted>>

\* saveMessage has found the session and the player, and the text is not empty:
\* the insert begins, with the database's time.
Write(m) ==
    /\ messages[m].stage = "checking"
    /\ messages' = [messages EXCEPT ![m] = [at |-> now, stage |-> "writing"]]
    /\ UNCHANGED <<now, socket, room, recent, accepted, client>>

\* ... or it has not, or the insert fails.
Reject(m) ==
    /\ messages[m].stage \in {"checking", "writing"}
    /\ Stage(m, messages[m].stage, "gone") /\ UNCHANGED client

\* The insert is committed; until then nobody sees the message.
Store(m) == Stage(m, "writing", "stored") /\ UNCHANGED client

\* The message is emitted to the room.
Tell(m) ==
    /\ Stage(m, "stored", "told")
    /\ client' = [s \in Sockets |->
                    IF s \in room THEN [client[s] EXCEPT !.seen = @ \cup {m}] ELSE client[s]]

\* The author is deleted, and his messages with him.
Purge(m) ==
    /\ messages[m].stage = "told" /\ Stage(m, "told", "gone") /\ UNCHANGED client

-----------------------------------------------------------------------------
(* Paging back.                                                              *)

Visible == {m \in DOMAIN messages : messages[m].stage \in {"stored", "told"}}

\* getMessageHistory: messages older than the cursor.  The time of the cursor has
\* come back to the program, which cuts it off to milliseconds; a cursor that is
\* not found any more is passed over.
Older(c) ==
    IF c \notin Visible THEN Visible
    ELSE {m \in Visible : messages[m].at < Sub * Ms(messages[c].at)}

\* The newest Limit of them; those of the same time come in any order.
IsPage(P, S) ==
    /\ P \subseteq S /\ \A p \in P, m \in S \ P : messages[p].at >= messages[m].at
    /\ Cardinality(P) = IF Cardinality(S) > Limit THEN Limit ELSE Cardinality(S)

\* Mutant of HasMore: the last page is not asked for.
HasMoreExact(S) == Cardinality(S) > Limit + 1

\* One more row was asked for, to see if there are any.
HasMore(S) == Cardinality(S) > Limit

\* handleLoadHistory, and a client that takes the first message of the page, which
\* is sent oldest first, for its next cursor.
LoadHistory(s) ==
    /\ s \in room /\ client[s].state # "all"
    /\ LET S == Older(client[s].cursor) IN
       \E P \in SUBSET S :
        /\ IsPage(P, S)
        /\ \E c \in IF P = {} THEN {0}
                    ELSE {p \in P : \A m \in P : messages[p].at <= messages[m].at} :
            client' = [client EXCEPT ![s] =
                        [state |-> IF HasMore(S) THEN "more" ELSE "all",
                         seen |-> @.seen \cup P, cursor |-> c]]
    /\ UNCHANGED <<now, socket, room, recent, accepted, messages>>

Next ==
    \/ Tick
    \/ \E s \in Sockets :
        Connect(s) \/ Disconnect(s) \/ LeaveChat(s) \/ JoinChat(s)
        \/ Send(s) \/ Refuse(s) \/ LoadHistory(s)
    \/ \E m \in DOMAIN messages : Write(m) \/ Reject(m) \/ Store(m) \/ Tell(m) \/ Purge(m)

Spec == Init /\ [][Next]_vars

-----------------------------------------------------------------------------
(* Properties.                                                               *)

\* No RateMax + 1 sends of a connection pass the limiter within the window, wherever
\* the window lies.
NeverTooMany ==
    \A s \in Sockets : \A k \in DOMAIN accepted[s] :
        k + RateMax \in DOMAIN accepted[s]
        => accepted[s][k + RateMax] - accepted[s][k] >= Window

\* It refuses only who really has sent RateMax messages within the window: what was
\* refused before is not held against him.
NeverTooStrict ==
    \A s \in Sockets :
        socket[s] = "open" /\ Full(s)
        => Cardinality({k \in DOMAIN accepted[s] :
                            accepted[s][k] > Ms(now) - Window}) >= RateMax

\* The limiter lets exactly RateMax sends pass in any window.
RateExact == NeverTooMany /\ NeverTooStrict

\* Who has paged back to the first page has seen every message the room was told,
\* from a page or from the room, however sends, pages and slow inserts interleave;
\* except that of messages of one millisecond some may be lost at the end of a page.
NothingMissed ==
    \A s \in Sockets : client[s].state = "all" =>
        \A m \in DOMAIN messages : messages[m].stage = "told" =>
            \/ m \in client[s].seen
            \/ \E k \in DOMAIN messages \ {m} :
                k \in client[s].seen /\ Ms(messages[k].at) = Ms(messages[m].at)
=============================================================================
