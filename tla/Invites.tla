------------------------------- MODULE Invites -------------------------------
(***************************************************************************)
(* The guest list of one night: InviteService with its listener for        *)
(* players who join, and the cron job of ReminderService.                  *)
(*                                                                         *)
(* A handler, a listener and the cron job are sequences of actions, one    *)
(* per await that matters; each keeps the invites it has loaded and saves  *)
(* them whole, whatever has happened to the rows since.  A row that was    *)
(* removed in between is inserted again by such a save.                    *)
(***************************************************************************)
EXTENDS Naturals, Sequences, FiniteSets

CONSTANTS
    Handlers,    \* requests that are being served
    Links,       \* calls of the listener (bound: joins not yet bridged)
    MaxInvites,  \* bound: invites that are ever made
    Names,       \* what guests call themselves, without regard to case
    Emails,      \* addresses, without regard to case
    MaxPlus,     \* plus-ones a guest may bring
    Ops,         \* the requests that are made
    Overlapping, \* what may be under way beside one another
    None

ASSUME ConstantsAssumption ==
    /\ None \notin Names \cup Emails /\ MaxInvites \in Nat /\ MaxPlus \in Nat

VARIABLES
    night,       \* how far off the night is
    invites,     \* the rows of table invite, by the order of their creation
    made,        \* how many there have been
    players,     \* the names of the players of the session
    task,        \* what each handler is doing
    link,        \* what each call of the listener is doing
    cron,        \* what the cron job is doing
    recorded     \* ghost: the mails that were recorded as sent

vars == <<night, invites, made, players, task, link, cron, recorded>>

Ids == 1..MaxInvites
RsvpStatus == {"PENDING", "GOING", "MAYBE", "NOT_GOING"}
Answers == RsvpStatus \ {"PENDING"}

\* "near" and "soon" are a SCHEDULED session within 48 and within 3 hours; "open" is
\* one further off, or started by its status or its date; "closed" is COMPLETED or
\* CANCELLED.
Nights == {"near", "soon", "open", "closed"}

\* The plus-ones, with the names that were given to them.
PlusOnes == UNION {[1..k -> Names \cup {None}] : k \in 0..MaxPlus}

\* A player is named by a guest, or as one of a guest's plus-ones.
PlayerNames == Names \cup (Names \X (1..MaxPlus))

\* sent holds the kinds of mail whose time column is not NULL.
Mails == {"reminder", "nudge"}
Row == [name : Names, email : Emails \cup {None}, status : RsvpStatus, plus : PlusOnes,
        player : Names \cup {None}, sent : SUBSET Mails]

ASSUME NoneAssumption == None \notin Row

\* id = 0: the entity is a new one.
NoTask == [op |-> "none", pc |-> "idle", id |-> 0, row |-> None, plus |-> 0]
NoLink == [pc |-> "idle", name |-> None, id |-> 0, row |-> None]
NoCron == [pc |-> "idle", kind |-> "reminder", batch |-> [i \in {} |-> None], id |-> 0]

TypeOK ==
    /\ night \in Nights /\ made \in 0..MaxInvites
    /\ invites \in [Ids -> Row \cup {None}]
    /\ players \subseteq PlayerNames
    /\ \A h \in Handlers :
        /\ task[h].op \in Ops \cup {"none"} /\ task[h].id \in 0..made
        /\ task[h].row \in Row \cup {None} /\ task[h].plus \in 0..MaxPlus
    /\ \A l \in Links :
        /\ link[l].name \in Names \cup {None} /\ link[l].id \in 0..made
        /\ link[l].row \in Row \cup {None}
    /\ cron.kind \in Mails /\ cron.id \in 0..made
    /\ DOMAIN cron.batch \subseteq 1..made
    /\ \A i \in DOMAIN cron.batch : cron.batch[i] \in Row
    /\ recorded \subseteq Ids \X Mails

Exists(i) == invites[i] # None
Oldest(S) == CHOOSE i \in S : \A j \in S : i <= j

Init ==
    /\ night = "open"
    /\ invites = [i \in Ids |-> None] /\ made = 0
    /\ players = {}
    /\ task = [h \in Handlers |-> NoTask]
    /\ link = [l \in Links |-> NoLink]
    /\ cron = NoCron /\ recorded = {}

-----------------------------------------------------------------------------
(* Requests.                                                                 *)

\* What is under way.
Under ==
    {task[h].op : h \in {k \in Handlers : task[k] # NoTask}}
    \cup (IF \E l \in Links : link[l] # NoLink THEN {"link"} ELSE {})
    \cup (IF cron # NoCron THEN {"cron"} ELSE {})

Allowed(what) == Under = {} \/ Under \cup {what} \subseteq Overlapping

Request(h, op) == op \in Ops /\ task[h] = NoTask /\ Allowed(op)
At(h, op, pc) == task[h].op = op /\ task[h].pc = pc
Done(h) == task' = [task EXCEPT ![h] = NoTask]
Goto(h, pc) == task' = [task EXCEPT ![h].pc = pc]

Begin(h, op, pc, i, row) ==
    /\ task' = [task EXCEPT ![h] = [NoTask EXCEPT !.op = op, !.pc = pc, !.id = i,
                                        !.row = row]]
    /\ UNCHANGED <<night, invites, made, players, link, cron, recorded>>

Insert(row) ==
    /\ made < MaxInvites /\ made' = made + 1
    /\ invites' = [invites EXCEPT ![made + 1] = row]

\* createForSession.
CreateForSession(h, n, e) ==
    /\ Request(h, "create")
    /\ Insert([name |-> n, email |-> e, status |-> "PENDING", plus |-> <<>>,
               player |-> None, sent |-> {}])
    /\ UNCHANGED <<night, players, task, link, cron, recorded>>

\* Mutant of Answered: the plus-ones stay when the guest cancels.
AnsweredKeepsPlus(row, s, n, plus) == [row EXCEPT !.status = s, !.name = n, !.plus = plus]

\* resolvePlusOnes: only who comes brings somebody.
Answered(row, s, n, plus) ==
    [row EXCEPT !.status = s, !.name = n, !.plus = IF s = "GOING" THEN plus ELSE <<>>]

\* rsvp: the name and the plus-ones may be left as they are.
Rsvp(h, i, s, n, plus) ==
    /\ Request(h, "rsvp") /\ Exists(i)
    /\ \E m \in {n, invites[i].name}, ps \in {plus, invites[i].plus} :
        Begin(h, "rsvp", "save", i, Answered(invites[i], s, m, ps))

\* Mutant of Matching: an invite that the host has made is not looked at.
MatchingAnswered(e) ==
    {i \in Ids : Exists(i) /\ invites[i].email = e /\ invites[i].status # "PENDING"}

\* findExistingForSelfRsvp; the public form demands an address.
Matching(e) == {i \in Ids : Exists(i) /\ invites[i].email = e}

\* selfRsvp: changes the oldest invite that matches, or makes one.
SelfRsvp(h, e, n, s, plus) ==
    /\ Request(h, "self")
    /\ IF Matching(e) = {}
       THEN Begin(h, "self", "save", 0,
                  Answered([name |-> n, email |-> e, status |-> "PENDING", plus |-> <<>>,
                            player |-> None, sent |-> {}], s, n, plus))
       ELSE LET i == Oldest(Matching(e)) IN
            Begin(h, "self", "save", i, Answered(invites[i], s, n, plus))

SaveAnswer(h) ==
    /\ task[h].pc = "save" /\ task[h].op \in {"rsvp", "self"}
    /\ IF task[h].id = 0 THEN Insert(task[h].row)
       ELSE invites' = [invites EXCEPT ![task[h].id] = task[h].row] /\ UNCHANGED made
    /\ Done(h) /\ UNCHANGED <<night, players, link, cron, recorded>>

\* remove.
Remove(h, i) ==
    Request(h, "remove") /\ Exists(i) /\ Begin(h, "remove", "save", i, invites[i])

RemoveRow(h) ==
    /\ At(h, "remove", "save")
    /\ invites' = [invites EXCEPT ![task[h].id] = None]
    /\ recorded' = {r \in recorded : r[1] # task[h].id}
    /\ Done(h) /\ UNCHANGED <<night, made, players, link, cron>>

-----------------------------------------------------------------------------
(* Joining.                                                                  *)

\* joinSession, served as a whole: the player is there, new or come back, and the
\* listener is called with his name.
Joins(name) ==
    /\ night # "closed"
    /\ players' = players \cup {name}
    /\ IF name \in Names
       THEN \E l \in Links : /\ link[l] = NoLink
                             /\ link' = [link EXCEPT ![l].pc = "find", ![l].name = name]
       ELSE UNCHANGED link   \* no guest of the list is called like that

\* With the join code, or the host adds the player.
WalkIn(n) ==
    /\ "walkin" \in Ops /\ Allowed("walkin")
    /\ Joins(n)
    /\ UNCHANGED <<night, invites, made, task, cron, recorded>>

\* joinViaInvite.
JoinViaInvite(h, i) ==
    Request(h, "join") /\ Exists(i) /\ Begin(h, "join", "join", i, invites[i])

JoinAsGuest(h) ==
    /\ At(h, "join", "join")
    /\ Joins(task[h].row.name)
    /\ Done(h) /\ UNCHANGED <<night, invites, made, cron, recorded>>

\* checkInGuest: the guest joins, ...
CheckIn(h, i) ==
    Request(h, "checkin") /\ Exists(i) /\ Begin(h, "checkin", "guest", i, invites[i])

JoinGuest(h) ==
    /\ At(h, "checkin", "guest")
    /\ Joins(task[h].row.name)
    /\ Goto(h, "plus") /\ UNCHANGED <<night, invites, made, cron, recorded>>

\* Mutant of JoinPlusOne: the numbers begin with two.
JoinPlusOneFromTwo(h) ==
    /\ At(h, "checkin", "plus") /\ task[h].plus < Len(task[h].row.plus)
    /\ LET k == task[h].plus + 1
           given == task[h].row.plus[k] IN
       /\ Joins(IF given # None THEN given ELSE <<task[h].row.name, k + 1>>)
       /\ task' = [task EXCEPT ![h].plus = k]
    /\ UNCHANGED <<night, invites, made, cron, recorded>>

\* ... then his plus-ones one after the other, ...
JoinPlusOne(h) ==
    /\ At(h, "checkin", "plus") /\ task[h].plus < Len(task[h].row.plus)
    /\ LET k == task[h].plus + 1
           given == task[h].row.plus[k] IN
       /\ Joins(IF given # None THEN given ELSE <<task[h].row.name, k>>)
       /\ task' = [task EXCEPT ![h].plus = k]
    /\ UNCHANGED <<night, invites, made, cron, recorded>>

\* Mutant of SaveCheckIn: only the answer is saved, the player is left to the
\* listener.
SaveCheckInUnlinked(h) ==
    /\ At(h, "checkin", "plus") /\ task[h].plus = Len(task[h].row.plus)
    /\ invites' = [invites EXCEPT ![task[h].id] = [task[h].row EXCEPT !.status = "GOING"]]
    /\ Done(h) /\ UNCHANGED <<night, made, players, link, cron, recorded>>

\* ... and the invite, as it was loaded, is linked.
SaveCheckIn(h) ==
    /\ At(h, "checkin", "plus") /\ task[h].plus = Len(task[h].row.plus)
    /\ invites' = [invites EXCEPT ![task[h].id] =
                    [task[h].row EXCEPT !.player = task[h].row.name, !.status = "GOING"]]
    /\ Done(h) /\ UNCHANGED <<night, made, players, link, cron, recorded>>

\* linkPlayerToInvite: the oldest invite of that name that has no player.
FindInvite(l) ==
    /\ link[l].pc = "find"
    /\ LET found == {i \in Ids : /\ Exists(i) /\ invites[i].player = None
                                 /\ invites[i].name = link[l].name}
           i == Oldest(found)
           s == IF invites[i].status \in {"PENDING", "MAYBE"} THEN "GOING"
                ELSE invites[i].status IN
       link' = IF found = {} THEN [link EXCEPT ![l] = NoLink]
               ELSE [link EXCEPT ![l].pc = "save", ![l].id = i,
                        ![l].row = [invites[i] EXCEPT !.player = link[l].name,
                                                      !.status = s]]
    /\ UNCHANGED <<night, invites, made, players, task, cron, recorded>>

SaveLink(l) ==
    /\ link[l].pc = "save"
    /\ invites' = [invites EXCEPT ![link[l].id] = link[l].row]
    /\ link' = [link EXCEPT ![l] = NoLink]
    /\ UNCHANGED <<night, made, players, task, cron, recorded>>

-----------------------------------------------------------------------------
(* The cron job: first the reminders of the day, then the nudges to answer.  *)

\* Mutant of Due: a guest who was mailed before is not left out.
DueAgain(i, kind) ==
    /\ Exists(i) /\ invites[i].email # None
    /\ \/ kind = "reminder" /\ invites[i].status \in {"GOING", "MAYBE"} /\ night = "soon"
       \/ kind = "nudge" /\ invites[i].status = "PENDING" /\ night \in {"near", "soon"}

Due(i, kind) ==
    /\ Exists(i) /\ invites[i].email # None /\ kind \notin invites[i].sent
    /\ \/ kind = "reminder" /\ invites[i].status \in {"GOING", "MAYBE"} /\ night = "soon"
       \/ kind = "nudge" /\ invites[i].status = "PENDING" /\ night \in {"near", "soon"}

StartCron ==
    /\ "cron" \in Ops /\ cron = NoCron /\ Allowed("cron")
    /\ cron' = [cron EXCEPT !.pc = "query"]
    /\ UNCHANGED <<night, invites, made, players, task, link, recorded>>

Query ==
    /\ cron.pc = "query"
    /\ cron' = [cron EXCEPT !.pc = "send",
                    !.batch = [i \in {j \in Ids : Due(j, cron.kind)} |-> invites[i]]]
    /\ UNCHANGED <<night, invites, made, players, task, link, recorded>>

WithoutInvite(batch, i) == [j \in DOMAIN batch \ {i} |-> batch[j]]

\* The mail goes out; the next await is the save.
Send(i) ==
    /\ cron.pc = "send" /\ i \in DOMAIN cron.batch
    /\ cron' = [cron EXCEPT !.pc = "mark", !.id = i]
    /\ UNCHANGED <<night, invites, made, players, task, link, recorded>>

\* The mail service answers false: the guest stays due.
SendFails(i) ==
    /\ cron.pc = "send" /\ i \in DOMAIN cron.batch
    /\ cron' = [cron EXCEPT !.batch = WithoutInvite(@, i)]
    /\ UNCHANGED <<night, invites, made, players, task, link, recorded>>

Mark ==
    /\ cron.pc = "mark"
    /\ invites' = [invites EXCEPT ![cron.id] =
                    [cron.batch[cron.id] EXCEPT !.sent = @ \cup {cron.kind}]]
    /\ recorded' = recorded \cup {<<cron.id, cron.kind>>}
    /\ cron' = [cron EXCEPT !.pc = "send", !.batch = WithoutInvite(@, cron.id), !.id = 0]
    /\ UNCHANGED <<night, made, players, task, link>>

BatchDone ==
    /\ cron.pc = "send" /\ DOMAIN cron.batch = {}
    /\ cron' = IF cron.kind = "reminder"
               THEN [NoCron EXCEPT !.pc = "query", !.kind = "nudge"] ELSE NoCron
    /\ UNCHANGED <<night, invites, made, players, task, link, recorded>>

-----------------------------------------------------------------------------
\* The host starts, ends, cancels or reschedules the night, or time passes.
NightPasses(n) ==
    /\ "night" \in Ops /\ night # "closed" /\ n # night /\ night' = n
    /\ UNCHANGED <<invites, made, players, task, link, cron, recorded>>

\* A statement fails, or the process stops, between two steps.
Fail ==
    /\ "fail" \in Ops
    /\ \/ \E h \in Handlers : task[h] # NoTask /\ Done(h) /\ UNCHANGED <<link, cron>>
       \/ \E l \in Links : /\ link[l] # NoLink /\ link' = [link EXCEPT ![l] = NoLink]
                           /\ UNCHANGED <<task, cron>>
       \/ cron # NoCron /\ cron' = NoCron /\ UNCHANGED <<task, link>>
    /\ UNCHANGED <<night, invites, made, players, recorded>>

HandlerStep(h) ==
    SaveAnswer(h) \/ RemoveRow(h) \/ JoinAsGuest(h) \/ JoinGuest(h) \/ JoinPlusOne(h)
    \/ SaveCheckIn(h)
LinkStep(l) == FindInvite(l) \/ SaveLink(l)
CronStep == Query \/ BatchDone \/ \E i \in Ids : SendFails(i)

Arrives(h) ==
    \/ \E n \in Names, e \in Emails \cup {None} : CreateForSession(h, n, e)
    \/ \E n \in Names, s \in Answers, plus \in PlusOnes :
        \/ \E i \in Ids : Rsvp(h, i, s, n, plus)
        \/ \E e \in Emails : SelfRsvp(h, e, n, s, plus)
    \/ \E i \in Ids : Remove(h, i) \/ JoinViaInvite(h, i) \/ CheckIn(h, i)

Next ==
    \/ \E h \in Handlers : Arrives(h) \/ HandlerStep(h)
    \/ \E l \in Links : LinkStep(l)
    \/ StartCron \/ CronStep \/ Mark \/ \E i \in Ids : Send(i)
    \/ \E n \in Names : WalkIn(n)
    \/ \E n \in Nights : NightPasses(n)
    \/ Fail

Spec == Init /\ [][Next]_vars

-----------------------------------------------------------------------------
(* Properties.                                                               *)

\* The headcount of a night adds the plus-ones of those who are going; nobody else
\* has any left, however answers, check-ins, links and mails interleave, and no
\* handler holds an invite that would bring some back.
PlusOnesOnlyGoing ==
    LET Fine(row) == row # None /\ row.status # "GOING" => row.plus = <<>> IN
    /\ \A i \in Ids : Fine(invites[i])
    /\ \A h \in Handlers : Fine(task[h].row)
    /\ \A l \in Links : Fine(link[l].row)
    /\ \A i \in DOMAIN cron.batch : Fine(cron.batch[i])

\* Answering the open form again never makes a second invite for an address.
SelfRsvpOnce ==
    [][\A i \in Ids : (~Exists(i) /\ invites'[i] # None /\ \E h \in Handlers : task[h].op = "self")
        => \A j \in Ids : Exists(j) => invites[j].email # invites'[i].email]_vars

\* A guest whose reminder was sent and recorded is not sent another one.
RemindedOnce ==
    [][cron.pc = "send" /\ cron'.pc = "mark" => <<cron'.id, cron.kind>> \notin recorded]_vars

\* A guest who has turned up stays linked to his player while he is on the list,
\* though the listener and the check-in that woke it both write his invite.
LinkKept ==
    [][\A i \in Ids : Exists(i) /\ invites[i].player # None /\ invites'[i] # None
        => invites'[i].player # None]_vars
=============================================================================
