--------------------------- MODULE InvitesProofs ---------------------------
(***************************************************************************)
(* Theorems about Invites, for any number of requests, calls of the        *)
(* listener and invites.  The types, and that only guests who are going    *)
(* bring somebody, hold whatever is under way beside one another; the      *)
(* others need that answers, removals and the cron job run alone.          *)
(***************************************************************************)
EXTENDS Invites, WellFoundedInduction, SequenceTheorems, TLAPS

-----------------------------------------------------------------------------
(* Numbers and sequences.                                                    *)

Smaller == {p \in Nat \X Nat : p[1] < p[2]}

\* A set of numbers has a smallest one.
LEMMA HasSmallest ==
    ASSUME NEW S, S \subseteq Nat, S # {}
    PROVE  Oldest(S) \in S
  <1>1. IsWellFoundedOn(Smaller, Nat)
    BY NatLessThanWellFounded, SMT DEF OpToRel, Smaller, IsWellFoundedOn
  <1>2. PICK i \in S : \A j \in S : <<j, i>> \notin Smaller
    BY <1>1, WFMin
  <1>3. ASSUME NEW j \in S PROVE i <= j
    <2>1. i \in Nat /\ j \in Nat /\ ~(j < i)
      BY <1>2, <1>3 DEF Smaller
    <2> QED BY <2>1
  <1> QED BY <1>2, <1>3 DEF Oldest

LEMMA NoPlusOnes == <<>> \in PlusOnes
  <1>1. 0 \in 0..MaxPlus
    BY ConstantsAssumption
  <1>2. <<>> \in [1..0 -> Names \cup {None}]
    OBVIOUS
  <1> QED BY <1>1, <1>2 DEF PlusOnes

\* A guest brings at most MaxPlus, each named or not.
LEMMA PlusOne ==
    ASSUME NEW plus \in PlusOnes
    PROVE  /\ Len(plus) \in 0..MaxPlus
           /\ \A k \in 1..Len(plus) : plus[k] \in Names \cup {None}
  <1>1. PICK n \in 0..MaxPlus : plus \in [1..n -> Names \cup {None}]
    BY DEF PlusOnes
  <1>2. n \in Nat
    BY <1>1, ConstantsAssumption
  <1>3. plus \in Seq(Names \cup {None})
    BY <1>1, <1>2, SeqDef
  <1>4. Len(plus) \in Nat /\ DOMAIN plus = 1..Len(plus)
    BY <1>3, LenProperties
  <1> DEFINE q == Len(plus)
  <1>5. 1..n = 1..q /\ q \in Nat
    BY <1>1, <1>4
  <1> HIDE DEF q
  <1>6. q = n
    <2>1. ASSUME n < q PROVE FALSE
      <3>1. q \in 1..q /\ q \notin 1..n
        BY <1>2, <1>5, <2>1
      <3> QED BY <1>5, <3>1
    <2>2. ASSUME q < n PROVE FALSE
      <3>1. n \in 1..n /\ n \notin 1..q
        BY <1>2, <1>5, <2>2
      <3> QED BY <1>5, <3>1
    <2> QED BY <1>2, <1>5, <2>1, <2>2
  <1> DEFINE Named == Names \cup {None}
  <1>7. plus \in [1..n -> Named]
    BY <1>1
  <1> HIDE DEF Named
  <1>8. \A k \in 1..n : plus[k] \in Named
    BY <1>7
  <1> QED BY <1>6, <1>8 DEF Named, q

-----------------------------------------------------------------------------
(* Invites.                                                                  *)

\* An invite with no plus-ones but of a guest who is going.
FineRow == {row \in Row : row.status # "GOING" => row.plus = <<>>}

LEMMA FineNew ==
    ASSUME NEW n \in Names, NEW e \in Emails \cup {None}
    PROVE  [name |-> n, email |-> e, status |-> "PENDING", plus |-> <<>>,
            player |-> None, sent |-> {}] \in FineRow
  BY NoPlusOnes DEF FineRow, Row, RsvpStatus

LEMMA FineAnswered ==
    ASSUME NEW row \in FineRow, NEW s \in Answers, NEW n \in Names, NEW plus \in PlusOnes
    PROVE  Answered(row, s, n, plus) \in FineRow
  BY NoPlusOnes DEF FineRow, Row, Answered, Answers

LEMMA FineCheckedIn ==
    ASSUME NEW row \in FineRow
    PROVE  [row EXCEPT !.player = row.name, !.status = "GOING"] \in FineRow
  BY DEF FineRow, Row, RsvpStatus

LEMMA FineLinked ==
    ASSUME NEW row \in FineRow, NEW n \in Names
    PROVE  [row EXCEPT !.player = n,
                       !.status = IF row.status \in {"PENDING", "MAYBE"} THEN "GOING"
                                  ELSE row.status] \in FineRow
  BY DEF FineRow, Row, RsvpStatus

LEMMA FineSent ==
    ASSUME NEW row \in FineRow, NEW kind \in Mails
    PROVE  [row EXCEPT !.sent = @ \cup {kind}] \in FineRow
  BY DEF FineRow, Row

-----------------------------------------------------------------------------
(* The invariant.  Every copy of an invite is fine: in the table, and in the *)
(* hands of a request, of the listener and of the cron job, who save what    *)
(* they have loaded whatever became of the row.                              *)

Task == [op : Ops \cup {"none"}, pc : {"idle", "save", "join", "guest", "plus"},
         id : 0..MaxInvites, row : FineRow \cup {None}, plus : 0..MaxPlus]
LinkState == [pc : {"idle", "find", "save"}, name : Names \cup {None},
              id : 0..MaxInvites, row : FineRow \cup {None}]
Batches == UNION {[D -> FineRow] : D \in SUBSET Ids}
CronState == [pc : {"idle", "query", "send", "mark"}, kind : Mails, batch : Batches,
              id : 0..MaxInvites]

TableOK ==
    /\ made \in 0..MaxInvites /\ invites \in [Ids -> FineRow \cup {None}]
    /\ \A i \in Ids : Exists(i) => i <= made
TasksOK ==
    /\ task \in [Handlers -> Task]
    /\ \A h \in Handlers :
        /\ task[h].id <= made
        /\ task[h].pc # "idle" => task[h].row \in FineRow
LinksOK ==
    /\ link \in [Links -> LinkState]
    /\ \A l \in Links :
        /\ link[l].id <= made
        /\ link[l].pc # "idle" => link[l].name \in Names
        /\ link[l].pc = "save" => link[l].row \in FineRow
CronOK ==
    /\ cron \in CronState /\ cron.id <= made
    /\ DOMAIN cron.batch \subseteq 1..made
    /\ cron.pc = "mark" => cron.id \in DOMAIN cron.batch
RestOK == night \in Nights /\ players \subseteq PlayerNames /\ recorded \subseteq Ids \X Mails

IInv == TableOK /\ TasksOK /\ LinksOK /\ CronOK /\ RestOK

LEMMA InvImplies == IInv => TypeOK /\ PlusOnesOnlyGoing
  <1> SUFFICES ASSUME IInv PROVE TypeOK /\ PlusOnesOnlyGoing
    OBVIOUS
  <1>1. FineRow \subseteq Row /\ \A row \in FineRow : row.status # "GOING" => row.plus = <<>>
    BY DEF FineRow
  <1>2. made \in Nat /\ made <= MaxInvites /\ MaxInvites \in Nat
    BY ConstantsAssumption DEF IInv, TableOK
  <1>3. \A i \in DOMAIN cron.batch : cron.batch[i] \in FineRow
    BY DEF IInv, CronOK, CronState, Batches
  <1>4. \A h \in Handlers :
            /\ task[h].op \in Ops \cup {"none"} /\ task[h].id \in 0..made
            /\ task[h].row \in FineRow \cup {None} /\ task[h].plus \in 0..MaxPlus
    BY <1>2 DEF IInv, TasksOK, Task
  <1>5. \A l \in Links :
            /\ link[l].name \in Names \cup {None} /\ link[l].id \in 0..made
            /\ link[l].row \in FineRow \cup {None}
    BY <1>2 DEF IInv, LinksOK, LinkState
  <1>6. cron.kind \in Mails /\ cron.id \in 0..made /\ DOMAIN cron.batch \subseteq 1..made
    BY <1>2 DEF IInv, CronOK, CronState
  <1>7. made \in 0..MaxInvites /\ invites \in [Ids -> FineRow \cup {None}] /\ RestOK
    BY DEF IInv, TableOK
  <1>8. TypeOK
    <2>1. invites \in [Ids -> Row \cup {None}]
      BY <1>1, <1>7
    <2> QED BY <1>1, <1>3, <1>4, <1>5, <1>6, <1>7, <2>1 DEF TypeOK, RestOK
  <1>9. PlusOnesOnlyGoing
    BY <1>1, <1>3, <1>4, <1>5, <1>7 DEF PlusOnesOnlyGoing
  <1> QED BY <1>8, <1>9

LEMMA InitInv == Init => IInv
  <1> SUFFICES ASSUME Init PROVE IInv
    OBVIOUS
  <1>0. MaxInvites \in Nat /\ MaxPlus \in Nat /\ 0 \in 0..MaxInvites /\ 0 \in 0..MaxPlus
    BY ConstantsAssumption
  <1>1. TableOK
    BY <1>0 DEF Init, TableOK, Exists
  <1>2. TasksOK
    BY <1>0 DEF Init, TasksOK, Task, NoTask
  <1>3. LinksOK
    BY <1>0 DEF Init, LinksOK, LinkState, NoLink
  <1>4. CronOK
    <2>1. [i \in {} |-> None] \in [{} -> FineRow] /\ {} \in SUBSET Ids
      OBVIOUS
    <2>2. [i \in {} |-> None] \in Batches
      BY <2>1 DEF Batches
    <2> QED BY <1>0, <2>2 DEF Init, CronOK, CronState, NoCron, Mails
  <1>5. RestOK
    BY DEF Init, RestOK, Nights
  <1> QED BY <1>1, <1>2, <1>3, <1>4, <1>5 DEF IInv
-----------------------------------------------------------------------------
(* What steps have in common.                                                *)

\* Who does nothing stays as he is.
LEMMA Keeps ==
    ASSUME IInv, made' \in {made, made + 1}
    PROVE  /\ UNCHANGED task => TasksOK'
           /\ UNCHANGED link => LinksOK'
           /\ UNCHANGED cron => CronOK'
           /\ UNCHANGED <<invites, made>> => TableOK'
           /\ UNCHANGED <<night, players, recorded>> => RestOK'
  <1>1. made \in Nat /\ made' \in Nat /\ made <= made'
    BY ConstantsAssumption DEF IInv, TableOK
  <1>2. UNCHANGED task => TasksOK'
    BY <1>1, ConstantsAssumption DEF IInv, TasksOK, Task
  <1>3. UNCHANGED link => LinksOK'
    BY <1>1, ConstantsAssumption DEF IInv, LinksOK, LinkState
  <1>4. UNCHANGED cron => CronOK'
    <2> SUFFICES ASSUME UNCHANGED cron PROVE CronOK'
      OBVIOUS
    <2>1. 1..made \subseteq 1..made' /\ cron.id <= made'
      BY <1>1, ConstantsAssumption DEF IInv, CronOK, CronState
    <2> QED BY <2>1 DEF IInv, CronOK
  <1>5. UNCHANGED <<invites, made>> => TableOK'
    BY DEF IInv, TableOK, Exists
  <1>6. UNCHANGED <<night, players, recorded>> => RestOK'
    BY DEF IInv, RestOK
  <1> QED BY <1>2, <1>3, <1>4, <1>5, <1>6

\* An invite is made.
LEMMA InsertOK ==
    ASSUME IInv, NEW row \in FineRow, Insert(row)
    PROVE  TableOK' /\ made' = made + 1
  <1>1. made \in Nat /\ MaxInvites \in Nat /\ made < MaxInvites /\ made' = made + 1
    BY ConstantsAssumption DEF IInv, TableOK, Insert
  <1>2. invites' = [invites EXCEPT ![made + 1] = row]
    BY DEF Insert
  <1>3. invites' \in [Ids -> FineRow \cup {None}] /\ made' \in 0..MaxInvites
    <2>1. made' \in 0..MaxInvites
      BY <1>1
    <2>2. invites \in [Ids -> FineRow \cup {None}]
      BY DEF IInv, TableOK
    <2> QED BY <1>2, <2>1, <2>2
  <1>4. ASSUME NEW i \in Ids, invites'[i] # None PROVE i <= made'
    <2>1. CASE i = made + 1
      BY <1>1, <2>1
    <2>2. CASE i # made + 1
      <3>1. Exists(i)
        BY <1>2, <1>4, <2>2 DEF IInv, TableOK, Exists
      <3>2. i <= made /\ i \in Int
        BY <3>1 DEF IInv, TableOK, Ids
      <3> QED BY <1>1, <3>2
    <2> QED BY <2>1, <2>2
  <1> QED BY <1>1, <1>3, <1>4 DEF TableOK, Exists

\* An invite is saved, or inserted again, or removed.
LEMMA SaveOK ==
    ASSUME IInv, NEW i \in 0..MaxInvites, i <= made, NEW row \in FineRow \cup {None},
           invites' = [invites EXCEPT ![i] = row], made' = made
    PROVE  TableOK'
  <1>1. invites' \in [Ids -> FineRow \cup {None}]
    BY DEF IInv, TableOK
  <1>2. ASSUME NEW j \in Ids, invites'[j] # None PROVE j <= made
    BY <1>2 DEF IInv, TableOK, Exists
  <1> QED BY <1>1, <1>2 DEF IInv, TableOK, Exists

\* A request goes on.
LEMMA TaskOK ==
    ASSUME IInv, made' \in {made, made + 1}, NEW h \in Handlers, NEW t \in Task,
           t.id <= made, t.pc # "idle" => t.row \in FineRow,
           task' = [task EXCEPT ![h] = t]
    PROVE  TasksOK'
  <1>1. made \in Nat /\ made' \in Nat /\ made <= made'
    BY ConstantsAssumption DEF IInv, TableOK
  <1>2. task' \in [Handlers -> Task]
    BY DEF IInv, TasksOK
  <1>3. ASSUME NEW g \in Handlers
        PROVE  task'[g].id <= made' /\ (task'[g].pc # "idle" => task'[g].row \in FineRow)
    <2>1. CASE g = h
      <3>1. t.id \in Nat
        BY ConstantsAssumption DEF Task
      <3> QED BY <1>1, <2>1, <3>1 DEF IInv, TasksOK
    <2>2. CASE g # h
      <3>1. task'[g] = task[g] /\ task[g].id \in Nat
        BY <2>2, ConstantsAssumption DEF IInv, TasksOK, Task
      <3> QED BY <1>1, <3>1 DEF IInv, TasksOK
    <2> QED BY <2>1, <2>2
  <1> QED BY <1>2, <1>3 DEF TasksOK

LEMMA DoneOK ==
    ASSUME IInv, made' \in {made, made + 1}, NEW h \in Handlers, Done(h)
    PROVE  TasksOK'
  <1>1. NoTask \in Task /\ NoTask.id = 0 /\ NoTask.pc = "idle"
    BY ConstantsAssumption DEF NoTask, Task
  <1>2. NoTask.id <= made
    BY <1>1, ConstantsAssumption DEF IInv, TableOK
  <1> QED BY <1>1, <1>2, TaskOK DEF Done

LEMMA BeginOK ==
    ASSUME IInv, NEW h \in Handlers, NEW op \in Ops, NEW pc \in {"save", "join", "guest"},
           NEW i \in 0..MaxInvites, i <= made, NEW row \in FineRow,
           Begin(h, op, pc, i, row)
    PROVE  IInv'
  <1> DEFINE t == [NoTask EXCEPT !.op = op, !.pc = pc, !.id = i, !.row = row]
  <1>1. t \in Task /\ t.id = i /\ t.row = row
    <2>1. NoTask \in Task
      BY ConstantsAssumption DEF NoTask, Task
    <2> QED BY <2>1 DEF Task
  <1>2. task' = [task EXCEPT ![h] = t]
    BY DEF Begin
  <1> HIDE DEF t
  <1>3. made' = made
    BY DEF Begin
  <1>4. TasksOK'
    BY <1>1, <1>2, <1>3, TaskOK
  <1> QED BY <1>3, <1>4, Keeps DEF Begin, IInv

\* Somebody joins, and the listener is called with a guest's name.
LEMMA JoinsOK ==
    ASSUME IInv, NEW name \in PlayerNames, Joins(name), UNCHANGED <<night, recorded, made>>
    PROVE  LinksOK' /\ RestOK'
  <1>1. RestOK'
    BY DEF Joins, IInv, RestOK
  <1>2. CASE name \in Names
    <2>1. PICK l \in Links : link' = [link EXCEPT ![l].pc = "find", ![l].name = name]
      BY <1>2 DEF Joins
    <2>2. link' \in [Links -> LinkState]
      BY <1>2, <2>1 DEF IInv, LinksOK, LinkState
    <2>3. \A k \in Links \ {l} : link'[k] = link[k]
      BY <2>1 DEF IInv, LinksOK
    <2>4. link'[l].id = link[l].id /\ link'[l].name = name /\ link'[l].pc = "find"
      BY <2>1 DEF IInv, LinksOK, LinkState
    <2> QED BY <1>1, <1>2, <2>2, <2>3, <2>4 DEF IInv, LinksOK
  <1>3. CASE name \notin Names
    BY <1>1, <1>3, Keeps DEF Joins
  <1> QED BY <1>2, <1>3

\* What holds of a request that has loaded an invite.
LEMMA Holds ==
    ASSUME IInv, NEW h \in Handlers, task[h].pc # "idle"
    PROVE  /\ task[h] \in Task /\ task[h].row \in FineRow
           /\ task[h].id \in 0..MaxInvites /\ task[h].id <= made
  BY DEF IInv, TasksOK, Task

LEMMA LoadedRow ==
    ASSUME IInv, NEW i \in Ids, Exists(i)
    PROVE  invites[i] \in FineRow /\ i \in 0..MaxInvites /\ i <= made
  <1>1. i \in 0..MaxInvites
    BY ConstantsAssumption DEF Ids
  <1> QED BY <1>1 DEF IInv, TableOK, Exists
-----------------------------------------------------------------------------
(* Requests.                                                                 *)

LEMMA StepCreate ==
    ASSUME IInv, NEW h \in Handlers, NEW n \in Names, NEW e \in Emails \cup {None},
           CreateForSession(h, n, e)
    PROVE  IInv'
  <1>1. TableOK' /\ made' = made + 1
    BY FineNew, InsertOK DEF CreateForSession
  <1> QED BY <1>1, Keeps DEF CreateForSession, IInv

LEMMA StepRsvp ==
    ASSUME IInv, NEW h \in Handlers, NEW i \in Ids, NEW s \in Answers, NEW n \in Names,
           NEW plus \in PlusOnes, Rsvp(h, i, s, n, plus)
    PROVE  IInv'
  <1>1. invites[i] \in FineRow /\ i \in 0..MaxInvites /\ i <= made
    BY LoadedRow DEF Rsvp
  <1>2. PICK m \in {n, invites[i].name}, ps \in {plus, invites[i].plus} :
            Begin(h, "rsvp", "save", i, Answered(invites[i], s, m, ps))
    BY DEF Rsvp
  <1>3. m \in Names /\ ps \in PlusOnes
    BY <1>1 DEF FineRow, Row
  <1>4. Answered(invites[i], s, m, ps) \in FineRow
    BY <1>1, <1>3, FineAnswered
  <1>5. "rsvp" \in Ops
    BY DEF Rsvp, Request
  <1> QED BY <1>1, <1>2, <1>4, <1>5, BeginOK

LEMMA StepSelf ==
    ASSUME IInv, NEW h \in Handlers, NEW e \in Emails, NEW n \in Names,
           NEW s \in Answers, NEW plus \in PlusOnes, SelfRsvp(h, e, n, s, plus)
    PROVE  IInv'
  <1>0. "self" \in Ops
    BY DEF SelfRsvp, Request
  <1> DEFINE row == [name |-> n, email |-> e, status |-> "PENDING", plus |-> <<>>,
                     player |-> None, sent |-> {}]
             i == Oldest(Matching(e))
  <1>1. CASE Matching(e) = {}
    <2>1. Answered(row, s, n, plus) \in FineRow
      BY FineNew, FineAnswered
    <2>2. Begin(h, "self", "save", 0, Answered(row, s, n, plus))
      BY <1>1 DEF SelfRsvp
    <2>3. 0 \in 0..MaxInvites /\ 0 <= made
      BY ConstantsAssumption DEF IInv, TableOK
    <2> HIDE DEF row
    <2> QED BY <1>0, <2>1, <2>2, <2>3, BeginOK
  <1>2. CASE Matching(e) # {}
    <2>1. Matching(e) \subseteq Nat
      BY ConstantsAssumption DEF Matching, Ids
    <2>2. i \in Ids /\ Exists(i)
      BY <1>2, <2>1, HasSmallest DEF Matching
    <2>3. Begin(h, "self", "save", i, Answered(invites[i], s, n, plus))
      BY <1>2 DEF SelfRsvp
    <2> HIDE DEF i
    <2>4. invites[i] \in FineRow /\ i \in 0..MaxInvites /\ i <= made
      BY <2>2, LoadedRow
    <2>5. Answered(invites[i], s, n, plus) \in FineRow
      BY <2>4, FineAnswered
    <2> QED BY <1>0, <2>3, <2>4, <2>5, BeginOK
  <1> QED BY <1>1, <1>2

LEMMA StepLoad ==
    ASSUME IInv, NEW h \in Handlers, NEW i \in Ids,
           Remove(h, i) \/ JoinViaInvite(h, i) \/ CheckIn(h, i)
    PROVE  IInv'
  <1>1. invites[i] \in FineRow /\ i \in 0..MaxInvites /\ i <= made
    BY LoadedRow DEF Remove, JoinViaInvite, CheckIn
  <1>2. PICK op \in Ops, pc \in {"save", "join", "guest"} : Begin(h, op, pc, i, invites[i])
    BY DEF Remove, JoinViaInvite, CheckIn, Request
  <1> QED BY <1>1, <1>2, BeginOK

LEMMA StepSaveAnswer ==
    ASSUME IInv, NEW h \in Handlers, SaveAnswer(h)
    PROVE  IInv'
  <1>1. /\ task[h] \in Task /\ task[h].row \in FineRow
        /\ task[h].id \in 0..MaxInvites /\ task[h].id <= made
    BY Holds DEF SaveAnswer
  <1>2. TableOK' /\ made' \in {made, made + 1}
    <2>1. CASE task[h].id = 0
      BY <1>1, <2>1, InsertOK DEF SaveAnswer
    <2>2. CASE task[h].id # 0
      BY <1>1, <2>2, SaveOK DEF SaveAnswer
    <2> QED BY <2>1, <2>2
  <1>3. TasksOK'
    BY <1>2, DoneOK DEF SaveAnswer
  <1> QED BY <1>2, <1>3, Keeps DEF SaveAnswer, IInv

LEMMA StepRemoveRow ==
    ASSUME IInv, NEW h \in Handlers, RemoveRow(h)
    PROVE  IInv'
  <1>1. task[h].id \in 0..MaxInvites /\ task[h].id <= made
    BY Holds DEF RemoveRow, At
  <1>2. TableOK'
    BY <1>1, SaveOK DEF RemoveRow
  <1>3. TasksOK'
    BY DoneOK DEF RemoveRow
  <1>4. RestOK'
    BY DEF RemoveRow, IInv, RestOK
  <1> QED BY <1>2, <1>3, <1>4, Keeps DEF RemoveRow, IInv

LEMMA StepJoin ==
    ASSUME IInv, NEW h \in Handlers, JoinAsGuest(h) \/ JoinGuest(h)
    PROVE  IInv'
  <1>1. /\ task[h] \in Task /\ task[h].row \in FineRow
        /\ task[h].id \in 0..MaxInvites /\ task[h].id <= made
    BY Holds DEF JoinAsGuest, JoinGuest, At
  <1>2. task[h].row.name \in PlayerNames
    BY <1>1 DEF FineRow, Row, PlayerNames
  <1>3. LinksOK' /\ RestOK'
    BY <1>2, JoinsOK DEF JoinAsGuest, JoinGuest
  <1>4. TasksOK'
    <2>1. CASE JoinAsGuest(h)
      BY <2>1, DoneOK DEF JoinAsGuest
    <2>2. CASE JoinGuest(h)
      <3> DEFINE t == [task[h] EXCEPT !.pc = "plus"]
      <3>1. t \in Task /\ t.id = task[h].id /\ t.row = task[h].row
        BY <1>1 DEF Task
      <3>2. task' = [task EXCEPT ![h] = t] /\ made' = made
        BY <2>2 DEF JoinGuest, Goto
      <3> HIDE DEF t
      <3> QED BY <1>1, <3>1, <3>2, TaskOK
    <2> QED BY <2>1, <2>2
  <1> QED BY <1>3, <1>4, Keeps DEF JoinAsGuest, JoinGuest, IInv

LEMMA StepPlusOne ==
    ASSUME IInv, NEW h \in Handlers, JoinPlusOne(h)
    PROVE  IInv'
  <1> DEFINE k == task[h].plus + 1
             given == task[h].row.plus[k]
  <1>1. /\ task[h] \in Task /\ task[h].row \in FineRow
        /\ task[h].id \in 0..MaxInvites /\ task[h].id <= made
    BY Holds DEF JoinPlusOne, At
  <1>2. task[h].row.plus \in PlusOnes /\ task[h].row.name \in Names
    BY <1>1 DEF FineRow, Row
  <1>3. Len(task[h].row.plus) \in 0..MaxPlus
    BY <1>2, PlusOne
  <1>4. task[h].plus \in Nat /\ task[h].plus < Len(task[h].row.plus) /\ MaxPlus \in Nat
    BY <1>1, ConstantsAssumption DEF JoinPlusOne, Task
  <1>5. k \in 1..Len(task[h].row.plus) /\ k \in 1..MaxPlus /\ k \in 0..MaxPlus
    BY <1>3, <1>4
  <1>6. given \in Names \cup {None}
    BY <1>2, <1>5, PlusOne
  <1>7. PICK name \in PlayerNames : Joins(name)
    <2>1. CASE given # None
      BY <1>6, <2>1 DEF JoinPlusOne, PlayerNames
    <2>2. CASE given = None
      BY <1>2, <1>5, <2>2 DEF JoinPlusOne, PlayerNames
    <2> QED BY <2>1, <2>2
  <1>8. LinksOK' /\ RestOK'
    BY <1>7, JoinsOK DEF JoinPlusOne
  <1>9. TasksOK'
    <2> DEFINE t == [task[h] EXCEPT !.plus = k]
    <2>1. t \in Task /\ t.id = task[h].id /\ t.row = task[h].row
      BY <1>1, <1>5 DEF Task
    <2>2. task' = [task EXCEPT ![h] = t] /\ made' = made
      BY DEF JoinPlusOne
    <2> HIDE DEF t
    <2> QED BY <1>1, <2>1, <2>2, TaskOK
  <1> QED BY <1>8, <1>9, Keeps DEF JoinPlusOne, IInv

LEMMA StepSaveCheckIn ==
    ASSUME IInv, NEW h \in Handlers, SaveCheckIn(h)
    PROVE  IInv'
  <1>1. /\ task[h].row \in FineRow
        /\ task[h].id \in 0..MaxInvites /\ task[h].id <= made
    BY Holds DEF SaveCheckIn, At
  <1>2. TableOK'
    BY <1>1, FineCheckedIn, SaveOK DEF SaveCheckIn
  <1>3. TasksOK'
    BY DoneOK DEF SaveCheckIn
  <1> QED BY <1>2, <1>3, Keeps DEF SaveCheckIn, IInv

-----------------------------------------------------------------------------
(* The listener and the cron job.                                            *)

LEMMA LinkOver ==
    ASSUME IInv, NEW l \in Links, link' = [link EXCEPT ![l] = NoLink], made' = made
    PROVE  LinksOK'
  <1>1. NoLink \in LinkState /\ NoLink.id = 0 /\ NoLink.pc = "idle"
    BY ConstantsAssumption DEF NoLink, LinkState
  <1>2. 0 <= made
    BY ConstantsAssumption DEF IInv, TableOK
  <1> QED BY <1>1, <1>2 DEF IInv, LinksOK

LEMMA StepFindInvite ==
    ASSUME IInv, NEW l \in Links, FindInvite(l)
    PROVE  IInv'
  <1> DEFINE found == {i \in Ids : /\ Exists(i) /\ invites[i].player = None
                                   /\ invites[i].name = link[l].name}
             i == Oldest(found)
             s == IF invites[i].status \in {"PENDING", "MAYBE"} THEN "GOING"
                  ELSE invites[i].status
             row == [invites[i] EXCEPT !.player = link[l].name, !.status = s]
  <1>1. CASE found = {}
    <2>1. link' = [link EXCEPT ![l] = NoLink]
      BY <1>1 DEF FindInvite
    <2> QED BY <2>1, LinkOver, Keeps DEF FindInvite, IInv
  <1>2. CASE found # {}
    <2>1. found \subseteq Nat /\ found \subseteq {j \in Ids : Exists(j)}
      BY ConstantsAssumption DEF Ids
    <2>2. link' = [link EXCEPT ![l].pc = "save", ![l].id = i, ![l].row = row]
      BY <1>2 DEF FindInvite
    <2>3. i \in found
      <3> HIDE DEF found
      <3> QED BY <1>2, <2>1, HasSmallest
    <2> HIDE DEF found, i
    <2>4. invites[i] \in FineRow /\ i \in 0..MaxInvites /\ i <= made
      BY <2>1, <2>3, LoadedRow
    <2>5. link[l].name \in Names /\ link[l] \in LinkState
      BY DEF FindInvite, IInv, LinksOK
    <2>6. row \in FineRow
      BY <2>4, <2>5, FineLinked
    <2> HIDE DEF row
    <2> DEFINE t == [link[l] EXCEPT !.pc = "save", !.id = i, !.row = row]
    <2>7. t \in LinkState /\ t.id = i /\ t.row = row /\ t.name = link[l].name
      BY <2>4, <2>5, <2>6 DEF LinkState
    <2>8. link' = [link EXCEPT ![l] = t]
      BY <2>2 DEF IInv, LinksOK
    <2> HIDE DEF t
    <2>9. made' = made
      BY DEF FindInvite
    <2>10. LinksOK'
      BY <2>4, <2>5, <2>6, <2>7, <2>8, <2>9 DEF IInv, LinksOK
    <2> QED BY <2>9, <2>10, Keeps DEF FindInvite, IInv
  <1> QED BY <1>1, <1>2

LEMMA StepSaveLink ==
    ASSUME IInv, NEW l \in Links, SaveLink(l)
    PROVE  IInv'
  <1>1. /\ link[l].row \in FineRow
        /\ link[l].id \in 0..MaxInvites /\ link[l].id <= made
    BY DEF SaveLink, IInv, LinksOK, LinkState
  <1>2. TableOK'
    BY <1>1, SaveOK DEF SaveLink
  <1>3. LinksOK'
    BY LinkOver DEF SaveLink
  <1> QED BY <1>2, <1>3, Keeps DEF SaveLink, IInv

LEMMA NoBatch == NoCron \in CronState /\ DOMAIN NoCron.batch = {} /\ NoCron.id = 0
  <1>1. [i \in {} |-> None] \in [{} -> FineRow] /\ {} \in SUBSET Ids
    OBVIOUS
  <1>2. [i \in {} |-> None] \in Batches
    BY <1>1 DEF Batches
  <1> QED BY <1>2, ConstantsAssumption DEF NoCron, CronState, Mails

LEMMA StepQuery ==
    ASSUME IInv, Query
    PROVE  IInv'
  <1> DEFINE D == {j \in Ids : Due(j, cron.kind)}
             b == [i \in D |-> invites[i]]
  <1>1. \A j \in D : invites[j] \in FineRow /\ j <= made
    BY LoadedRow DEF Due
  <1>2. b \in Batches /\ DOMAIN b = D
    <2>1. D \in SUBSET Ids /\ b \in [D -> FineRow]
      BY <1>1
    <2> QED BY <2>1 DEF Batches
  <1>3. D \subseteq 1..made
    BY <1>1, ConstantsAssumption DEF IInv, TableOK, Ids
  <1>4. cron' = [cron EXCEPT !.pc = "send", !.batch = b] /\ made' = made
    BY DEF Query
  <1> HIDE DEF b, D
  <1>5. CronOK'
    BY <1>2, <1>3, <1>4 DEF IInv, CronOK, CronState
  <1> QED BY <1>4, <1>5, Keeps DEF Query, IInv

\* The rest of a batch.
LEMMA RestOfBatch ==
    ASSUME IInv, NEW i
    PROVE  /\ WithoutInvite(cron.batch, i) \in Batches
           /\ DOMAIN WithoutInvite(cron.batch, i) \subseteq 1..made
  <1>1. PICK D \in SUBSET Ids : cron.batch \in [D -> FineRow]
    BY DEF IInv, CronOK, CronState, Batches
  <1>2. D \ {i} \in SUBSET Ids /\ WithoutInvite(cron.batch, i) \in [D \ {i} -> FineRow]
    BY <1>1 DEF WithoutInvite
  <1>3. DOMAIN cron.batch \subseteq 1..made
    BY DEF IInv, CronOK
  <1> QED BY <1>1, <1>2, <1>3 DEF Batches

LEMMA StepSend ==
    ASSUME IInv, NEW i \in Ids, Send(i) \/ SendFails(i)
    PROVE  IInv'
  <1>1. made' = made
    BY DEF Send, SendFails
  <1>2. CronOK'
    <2>1. CASE Send(i)
      <3>1. i \in 0..MaxInvites /\ i <= made
        BY <2>1, ConstantsAssumption DEF Send, IInv, CronOK, Ids, TableOK
      <3>2. cron' = [cron EXCEPT !.pc = "mark", !.id = i] /\ i \in DOMAIN cron.batch
        BY <2>1 DEF Send
      <3> QED BY <1>1, <3>1, <3>2 DEF IInv, CronOK, CronState
    <2>2. CASE SendFails(i)
      <3>1. cron' = [cron EXCEPT !.batch = WithoutInvite(cron.batch, i)] /\ cron.pc = "send"
        BY <2>2 DEF SendFails, IInv, CronOK, CronState
      <3> QED BY <1>1, <3>1, RestOfBatch DEF IInv, CronOK, CronState
    <2> QED BY <2>1, <2>2
  <1> QED BY <1>1, <1>2, Keeps DEF Send, SendFails, IInv

LEMMA StepMark ==
    ASSUME IInv, Mark
    PROVE  IInv'
  <1>1. cron.id \in DOMAIN cron.batch /\ cron \in CronState
    BY DEF Mark, IInv, CronOK
  <1>2. cron.batch[cron.id] \in FineRow /\ cron.kind \in Mails
    BY <1>1 DEF CronState, Batches
  <1>3. /\ cron.id \in 0..MaxInvites /\ cron.id <= made /\ cron.id \in Ids
        /\ 0 \in 0..MaxInvites /\ 0 <= made
    BY <1>1, ConstantsAssumption DEF IInv, CronOK, CronState, TableOK, Ids
  <1>4. TableOK'
    BY <1>2, <1>3, FineSent, SaveOK DEF Mark
  <1>5. CronOK'
    <2>1. cron' = [cron EXCEPT !.pc = "send", !.batch = WithoutInvite(cron.batch, cron.id),
                               !.id = 0]
      BY <1>1 DEF Mark, CronState
    <2>2. made' = made
      BY DEF Mark
    <2> QED BY <1>1, <1>3, <2>1, <2>2, RestOfBatch DEF CronOK, CronState
  <1>6. RestOK'
    BY <1>2, <1>3 DEF Mark, IInv, RestOK
  <1> QED BY <1>4, <1>5, <1>6, Keeps DEF Mark, IInv

LEMMA StepCron ==
    ASSUME IInv, StartCron \/ BatchDone
    PROVE  IInv'
  <1>1. made' = made /\ 0 <= made
    BY ConstantsAssumption DEF StartCron, BatchDone, IInv, TableOK
  <1>2. CronOK'
    <2>1. CASE StartCron
      BY <1>1, <2>1 DEF StartCron, IInv, CronOK, CronState
    <2>2. CASE BatchDone /\ cron.kind = "reminder"
      <3>1. cron' = [NoCron EXCEPT !.pc = "query", !.kind = "nudge"]
        BY <2>2 DEF BatchDone
      <3> QED BY <1>1, <3>1, NoBatch DEF CronOK, CronState, Mails
    <2>3. CASE BatchDone /\ cron.kind # "reminder"
      <3>1. cron' = NoCron
        BY <2>3 DEF BatchDone
      <3> QED BY <1>1, <3>1, NoBatch DEF CronOK, NoCron
    <2> QED BY <2>1, <2>2, <2>3
  <1> QED BY <1>1, <1>2, Keeps DEF StartCron, BatchDone, IInv

LEMMA StepFail ==
    ASSUME IInv, Fail
    PROVE  IInv'
  <1>1. made' = made /\ 0 <= made
    BY ConstantsAssumption DEF Fail, IInv, TableOK
  <1>2. CASE \E h \in Handlers : Done(h) /\ UNCHANGED <<link, cron>>
    BY <1>1, <1>2, DoneOK, Keeps DEF Fail, IInv
  <1>3. CASE \E l \in Links : link' = [link EXCEPT ![l] = NoLink] /\ UNCHANGED <<task, cron>>
    BY <1>1, <1>3, LinkOver, Keeps DEF Fail, IInv
  <1>4. CASE cron' = NoCron /\ UNCHANGED <<task, link>>
    <2>1. CronOK'
      BY <1>1, <1>4, NoBatch DEF CronOK, NoCron
    <2> QED BY <1>1, <1>4, <2>1, Keeps DEF Fail, IInv
  <1> QED BY <1>2, <1>3, <1>4 DEF Fail

LEMMA NextInv == IInv /\ [Next]_vars => IInv'
  <1> SUFFICES ASSUME IInv, [Next]_vars PROVE IInv'
    OBVIOUS
  <1>1. ASSUME NEW h \in Handlers, Arrives(h) PROVE IInv'
    BY <1>1, StepCreate, StepRsvp, StepSelf, StepLoad DEF Arrives
  <1>2. ASSUME NEW h \in Handlers, HandlerStep(h) PROVE IInv'
    BY <1>2, StepSaveAnswer, StepRemoveRow, StepJoin, StepPlusOne, StepSaveCheckIn
       DEF HandlerStep
  <1>3. ASSUME NEW l \in Links, LinkStep(l) PROVE IInv'
    BY <1>3, StepFindInvite, StepSaveLink DEF LinkStep
  <1>4. CASE StartCron \/ CronStep \/ Mark \/ \E i \in Ids : Send(i)
    BY <1>4, StepCron, StepQuery, StepSend, StepMark DEF CronStep
  <1>5. ASSUME NEW n \in Names, WalkIn(n) PROVE IInv'
    <2>1. n \in PlayerNames /\ made' = made
      BY <1>5 DEF PlayerNames, WalkIn
    <2>2. LinksOK' /\ RestOK'
      BY <1>5, <2>1, JoinsOK DEF WalkIn
    <2> QED BY <1>5, <2>1, <2>2, Keeps DEF WalkIn, IInv
  <1>6. ASSUME NEW n \in Nights, NightPasses(n) PROVE IInv'
    <2>1. RestOK' /\ made' = made
      BY <1>6 DEF NightPasses, IInv, RestOK
    <2> QED BY <1>6, <2>1, Keeps DEF NightPasses, IInv
  <1>7. CASE Fail
    BY <1>7, StepFail
  <1>8. CASE UNCHANGED vars
    BY <1>8, Keeps DEF vars, IInv
  <1> QED BY <1>1, <1>2, <1>3, <1>4, <1>5, <1>6, <1>7, <1>8 DEF Next

\* The types hold however requests, the listener and the cron job interleave: the id
\* every one of them will save to is one that was given out.
THEOREM InvitesTypeCorrect == Spec => []TypeOK
  BY InitInv, NextInv, InvImplies, PTL DEF Spec

\* Only guests who are going bring somebody, for any number of requests and invites
\* and whatever is under way beside one another, stale saves included.
THEOREM OnlyGoingBringPlusOnes == Spec => []PlusOnesOnlyGoing
  BY InitInv, NextInv, InvImplies, PTL DEF Spec
-----------------------------------------------------------------------------
(* What needs that some requests are served alone.  A stale save of an       *)
(* answer or of a reminder, or a removal beside others, would undo what they *)
(* save; check-ins, joins and the listener may go on beside one another.     *)

Lone == {"rsvp", "self", "remove"}
ServedAlone == Overlapping \cap (Lone \cup {"cron"}) = {}

NobodyElse == (\A l \in Links : link[l] = NoLink) /\ cron = NoCron
Idle == NobodyElse /\ \A h \in Handlers : task[h] = NoTask

\* No answer, removal or cron job is under way.
NoneLone == cron = NoCron /\ \A h \in Handlers : task[h].op \notin Lone

AloneInv ==
    /\ \A h \in Handlers : task[h].op \in Lone =>
        /\ task[h].pc = "save" /\ NobodyElse
        /\ \A g \in Handlers \ {h} : task[g] = NoTask
    /\ cron # NoCron =>
        (\A h \in Handlers : task[h] = NoTask) /\ (\A l \in Links : link[l] = NoLink)

\* What is held of an invite agrees with the row in what the save must not change.
TaskHeld(h) ==
    /\ task[h].pc # "idle" /\ task[h].id # 0 =>
        Exists(task[h].id) /\ task[h].row.sent = invites[task[h].id].sent
    /\ task[h].op \in {"rsvp", "self"} /\ task[h].id # 0 =>
        task[h].row.player = invites[task[h].id].player
    /\ task[h].op = "self" /\ task[h].id = 0 => Matching(task[h].row.email) = {}
    /\ task[h].pc # "idle" /\ task[h].op # "self" => task[h].id # 0
LinkHeld(l) ==
    link[l].pc = "save" =>
        /\ link[l].id # 0 /\ Exists(link[l].id)
        /\ link[l].row.sent = invites[link[l].id].sent /\ link[l].row.player # None
BatchHeld ==
    \A i \in DOMAIN cron.batch :
        Exists(i) /\ cron.batch[i] = invites[i] /\ <<i, cron.kind>> \notin recorded
SentHeld == \A i \in Ids, k \in Mails :
    <<i, k>> \in recorded => Exists(i) /\ k \in invites[i].sent
HeldInv ==
    /\ \A h \in Handlers : TaskHeld(h)
    /\ \A l \in Links : LinkHeld(l)
    /\ BatchHeld /\ SentHeld

LInv == IInv /\ AloneInv /\ HeldInv

LEMMA NoTaskHeld ==
    ASSUME NEW h, task[h] = NoTask
    PROVE  TaskHeld(h) /\ task[h].op \notin Lone
  BY DEF NoTask, TaskHeld, Lone

LEMMA NoLinkHeld ==
    ASSUME NEW l, link[l] = NoLink
    PROVE  LinkHeld(l)
  BY DEF NoLink, LinkHeld

LEMMA NoCronHeld == cron = NoCron => BatchHeld
  BY NoBatch DEF BatchHeld

LEMMA IdleHeld == Idle /\ SentHeld => AloneInv /\ HeldInv
  BY NoTaskHeld, NoLinkHeld, NoCronHeld DEF Idle, NobodyElse, AloneInv, HeldInv

\* The same of the next state.
LEMMA IdleNext == Idle' /\ SentHeld' => AloneInv' /\ HeldInv'
  <1> SUFFICES ASSUME Idle', SentHeld' PROVE AloneInv' /\ HeldInv'
    OBVIOUS
  <1>1. /\ cron' = NoCron /\ DOMAIN NoCron.batch = {}
        /\ \A h \in Handlers : task'[h] = NoTask
        /\ \A l \in Links : link'[l] = NoLink
    BY NoBatch DEF Idle, NobodyElse
  <1>2. \A h \in Handlers : TaskHeld(h)' /\ task'[h].op \notin Lone
    BY <1>1 DEF NoTask, TaskHeld, Lone
  <1>3. \A l \in Links : LinkHeld(l)'
    BY <1>1 DEF NoLink, LinkHeld
  <1>4. BatchHeld'
    BY <1>1 DEF BatchHeld
  <1>5. AloneInv'
    BY <1>1, <1>2 DEF AloneInv
  <1> QED BY <1>2, <1>3, <1>4, <1>5 DEF HeldInv

LEMMA LoneInit == Init => LInv
  <1> SUFFICES ASSUME Init PROVE LInv
    OBVIOUS
  <1>1. Idle /\ SentHeld
    BY DEF Init, Idle, NobodyElse, SentHeld
  <1> QED BY <1>1, InitInv, IdleHeld DEF LInv

\* Who may begin: whatever it is, beside nobody who is to be alone, and one who is to
\* be alone beside nobody.
LEMMA MayBegin ==
    ASSUME LInv, ServedAlone, NEW what, Allowed(what)
    PROVE  /\ NoneLone
           /\ what \in Lone \cup {"cron"} => Idle
  <1>1. CASE Under = {}
    <2>1. \A h \in Handlers : task[h] = NoTask
      BY <1>1 DEF Under
    <2>2. \A l \in Links : link[l] = NoLink
      BY <1>1 DEF Under
    <2>3. cron = NoCron
      BY <1>1 DEF Under
    <2> QED BY <2>1, <2>2, <2>3, NoTaskHeld DEF NoneLone, Idle, NobodyElse
  <1>2. CASE Under \cup {what} \subseteq Overlapping
    <2>1. what \notin Lone \cup {"cron"}
      BY <1>2 DEF ServedAlone
    <2>2. cron = NoCron
      <3> SUFFICES ASSUME cron # NoCron PROVE FALSE
        OBVIOUS
      <3>1. "cron" \in Under
        BY DEF Under
      <3> QED BY <1>2, <3>1 DEF ServedAlone
    <2>3. ASSUME NEW h \in Handlers, task[h].op \in Lone PROVE FALSE
      <3>1. task[h] # NoTask
        BY <2>3, NoTaskHeld
      <3>2. task[h].op \in Under
        BY <3>1 DEF Under
      <3> QED BY <1>2, <2>3, <3>2 DEF ServedAlone
    <2> QED BY <2>1, <2>2, <2>3 DEF NoneLone
  <1> QED BY <1>1, <1>2 DEF Allowed

\* Beside one another, what is held stays as good as it was while rows stay and keep
\* the mails that were sent.
LEMMA Beside ==
    ASSUME LInv, NoneLone, UNCHANGED <<cron, recorded>>,
           \A i \in Ids : Exists(i) => Exists(i)' /\ invites'[i].sent = invites[i].sent
    PROVE  /\ \A h \in Handlers : task'[h] = task[h] => TaskHeld(h)'
           /\ \A l \in Links : link'[l] = link[l] => LinkHeld(l)'
           /\ BatchHeld' /\ SentHeld'
  <1>1. ASSUME NEW h \in Handlers, task'[h] = task[h] PROVE TaskHeld(h)'
    <2>1. TaskHeld(h) /\ task[h].op \notin Lone /\ task[h].id \in 0..MaxInvites
      BY DEF LInv, HeldInv, NoneLone, IInv, TasksOK, Task
    <2>2. task[h].id # 0 => task[h].id \in Ids
      BY <2>1, ConstantsAssumption DEF Ids
    <2> QED BY <1>1, <2>1, <2>2 DEF TaskHeld, Lone, Exists
  <1>2. ASSUME NEW l \in Links, link'[l] = link[l] PROVE LinkHeld(l)'
    <2>1. LinkHeld(l) /\ link[l].id \in 0..MaxInvites
      BY DEF LInv, HeldInv, IInv, LinksOK, LinkState
    <2>2. link[l].id # 0 => link[l].id \in Ids
      BY <2>1, ConstantsAssumption DEF Ids
    <2> QED BY <1>2, <2>1, <2>2 DEF LinkHeld, Exists
  <1>3. BatchHeld'
    BY NoBatch DEF NoneLone, BatchHeld
  <1>4. SentHeld'
    BY DEF LInv, HeldInv, SentHeld
  <1> QED BY <1>1, <1>2, <1>3, <1>4

LEMMA BesideAlone ==
    ASSUME NoneLone, UNCHANGED cron, \A h \in Handlers : task'[h].op \notin Lone
    PROVE  AloneInv'
  BY DEF NoneLone, AloneInv

\* A row that is there keeps its mails when another, or the same with the same mails,
\* is saved.
LEMMA SaveKeepsSent ==
    ASSUME IInv, NEW i \in Ids, NEW row \in FineRow, Exists(i) => row.sent = invites[i].sent,
           invites' = [invites EXCEPT ![i] = row]
    PROVE  \A j \in Ids : Exists(j) => Exists(j)' /\ invites'[j].sent = invites[j].sent
  <1>1. row # None
    BY NoneAssumption DEF FineRow
  <1>2. invites \in [Ids -> FineRow \cup {None}]
    BY DEF IInv, TableOK
  <1> QED BY <1>1, <1>2 DEF Exists

LEMMA InsertIsNew ==
    ASSUME IInv, NEW row \in FineRow, Insert(row)
    PROVE  /\ made + 1 \in Ids /\ ~Exists(made + 1)
           /\ invites' = [invites EXCEPT ![made + 1] = row]
  <1>1. made \in Nat /\ MaxInvites \in Nat /\ made < MaxInvites
    BY ConstantsAssumption DEF IInv, TableOK, Insert
  <1>2. made + 1 \in Ids
    BY <1>1 DEF Ids
  <1>3. Exists(made + 1) => made + 1 <= made
    BY <1>2 DEF IInv, TableOK
  <1> QED BY <1>1, <1>2, <1>3 DEF Insert

\* A request begins with an invite in hand.
LEMMA LoneBegin ==
    ASSUME LInv, ServedAlone, NEW h \in Handlers, NEW op \in Ops \ {"none"},
           NEW pc \in {"save", "join", "guest"}, NEW i \in 0..MaxInvites, NEW row \in FineRow,
           Allowed(op), op \in Lone => pc = "save", op = "self" \/ i # 0,
           i # 0 => Exists(i) /\ row.sent = invites[i].sent,
           op \in {"rsvp", "self"} /\ i # 0 => row.player = invites[i].player,
           op = "self" /\ i = 0 => Matching(row.email) = {},
           Begin(h, op, pc, i, row)
    PROVE  AloneInv' /\ HeldInv'
  <1>1. NoneLone /\ (op \in Lone => Idle)
    BY MayBegin
  <1>2. UNCHANGED <<night, invites, made, players, link, cron, recorded>>
    BY DEF Begin
  <1> DEFINE t == [NoTask EXCEPT !.op = op, !.pc = pc, !.id = i, !.row = row]
  <1>3. t.op = op /\ t.pc = pc /\ t.id = i /\ t.row = row
    BY DEF NoTask
  <1>4. task'[h] = t /\ \A g \in Handlers \ {h} : task'[g] = task[g]
    BY DEF Begin, LInv, IInv, TasksOK
  <1> HIDE DEF t
  <1>5. /\ \A g \in Handlers \ {h} : TaskHeld(g)'
        /\ \A l \in Links : LinkHeld(l)'
        /\ BatchHeld' /\ SentHeld'
    <2>1. \A j \in Ids : Exists(j) => Exists(j)' /\ invites'[j].sent = invites[j].sent
      BY <1>2 DEF Exists
    <2> QED BY <1>1, <1>2, <1>4, <2>1, Beside
  <1>6. TaskHeld(h)'
    BY <1>2, <1>3, <1>4 DEF TaskHeld, Exists, Matching
  <1>7. AloneInv'
    <2>1. CASE op \in Lone
      BY <1>1, <1>2, <1>3, <1>4, <2>1, NoTaskHeld DEF Idle, NobodyElse, AloneInv
    <2>2. CASE op \notin Lone
      BY <1>1, <1>2, <1>3, <1>4, <2>2, BesideAlone DEF NoneLone
    <2> QED BY <2>1, <2>2
  <1> QED BY <1>5, <1>6, <1>7 DEF HeldInv

LEMMA LoneArrives ==
    ASSUME LInv, ServedAlone, NEW h \in Handlers, Arrives(h)
    PROVE  AloneInv' /\ HeldInv'
  <1>i. IInv
    BY DEF LInv
  <1>1. ASSUME NEW n \in Names, NEW e \in Emails \cup {None}, CreateForSession(h, n, e)
        PROVE  AloneInv' /\ HeldInv'
    <2> DEFINE row == [name |-> n, email |-> e, status |-> "PENDING", plus |-> <<>>,
                       player |-> None, sent |-> {}]
    <2>1. NoneLone
      BY <1>1, MayBegin DEF CreateForSession, Request
    <2>2. Insert(row) /\ row \in FineRow
      BY <1>1, FineNew DEF CreateForSession
    <2> HIDE DEF row
    <2>3. \A j \in Ids : Exists(j) => Exists(j)' /\ invites'[j].sent = invites[j].sent
      BY <1>i, <2>2, InsertIsNew, SaveKeepsSent
    <2>4. UNCHANGED <<task, link, cron, recorded>>
      BY <1>1 DEF CreateForSession
    <2>5. HeldInv'
      BY <2>1, <2>3, <2>4, Beside DEF HeldInv
    <2> QED BY <2>1, <2>4, <2>5, BesideAlone DEF NoneLone
  <1>2. ASSUME NEW n \in Names, NEW s \in Answers, NEW plus \in PlusOnes, NEW i \in Ids,
               Rsvp(h, i, s, n, plus)
        PROVE  AloneInv' /\ HeldInv'
    <2>1. invites[i] \in FineRow /\ i \in 0..MaxInvites /\ i # 0 /\ Exists(i)
      BY <1>i, <1>2, LoadedRow, ConstantsAssumption DEF Rsvp, Ids
    <2>2. PICK m \in {n, invites[i].name}, ps \in {plus, invites[i].plus} :
            Begin(h, "rsvp", "save", i, Answered(invites[i], s, m, ps))
      BY <1>2 DEF Rsvp
    <2>3. m \in Names /\ ps \in PlusOnes
      BY <2>1 DEF FineRow, Row
    <2> DEFINE row == Answered(invites[i], s, m, ps)
    <2>4. row \in FineRow
      BY <2>1, <2>3, FineAnswered
    <2>5. row.sent = invites[i].sent /\ row.player = invites[i].player
      BY <2>1 DEF Answered, FineRow, Row
    <2>6. "rsvp" \in Ops \ {"none"} /\ Allowed("rsvp")
      BY <1>2 DEF Rsvp, Request
    <2> HIDE DEF row
    <2> QED BY <2>1, <2>2, <2>4, <2>5, <2>6, LoneBegin DEF row
  <1>3. ASSUME NEW n \in Names, NEW s \in Answers, NEW plus \in PlusOnes, NEW e \in Emails,
               SelfRsvp(h, e, n, s, plus)
        PROVE  AloneInv' /\ HeldInv'
    <2>0. "self" \in Ops \ {"none"} /\ Allowed("self")
      BY <1>3 DEF SelfRsvp, Request
    <2> DEFINE blank == [name |-> n, email |-> e, status |-> "PENDING", plus |-> <<>>,
                         player |-> None, sent |-> {}]
               new == Answered(blank, s, n, plus)
               i == Oldest(Matching(e))
               row == Answered(invites[i], s, n, plus)
    <2>1. CASE Matching(e) = {}
      <3>1. blank \in FineRow /\ blank.email = e
        BY FineNew
      <3>2. new \in FineRow /\ new.email = e
        <4> HIDE DEF blank
        <4>1. new \in FineRow
          BY <3>1, FineAnswered
        <4>2. new.email = e
          BY <3>1 DEF Answered, FineRow, Row
        <4> QED BY <4>1, <4>2
      <3>3. Begin(h, "self", "save", 0, new)
        BY <1>3, <2>1 DEF SelfRsvp
      <3>4. 0 \in 0..MaxInvites
        BY ConstantsAssumption
      <3> HIDE DEF new
      <3> QED BY <2>0, <2>1, <3>2, <3>3, <3>4, LoneBegin
    <2>2. CASE Matching(e) # {}
      <3>1. Matching(e) \subseteq Nat
        BY ConstantsAssumption DEF Matching, Ids
      <3>2. i \in Ids /\ Exists(i)
        BY <2>2, <3>1, HasSmallest DEF Matching
      <3>3. Begin(h, "self", "save", i, row)
        BY <1>3, <2>2 DEF SelfRsvp
      <3> HIDE DEF i
      <3>4. invites[i] \in FineRow /\ i \in 0..MaxInvites /\ i # 0
        BY <1>i, <3>2, LoadedRow, ConstantsAssumption DEF Ids
      <3>5. row \in FineRow
        BY <3>4, FineAnswered
      <3>6. row.sent = invites[i].sent /\ row.player = invites[i].player
        BY <3>4 DEF Answered, FineRow, Row
      <3> HIDE DEF row
      <3> QED BY <2>0, <3>2, <3>3, <3>4, <3>5, <3>6, LoneBegin
    <2> QED BY <2>1, <2>2
  <1>4. ASSUME NEW i \in Ids, Remove(h, i) \/ JoinViaInvite(h, i) \/ CheckIn(h, i)
        PROVE  AloneInv' /\ HeldInv'
    <2>1. invites[i] \in FineRow /\ i \in 0..MaxInvites /\ i # 0 /\ Exists(i)
      BY <1>i, <1>4, LoadedRow, ConstantsAssumption DEF Remove, JoinViaInvite, CheckIn, Ids
    <2>2. CASE Remove(h, i)
      <3>1. "remove" \in Ops \ {"none"} /\ Allowed("remove")
            /\ Begin(h, "remove", "save", i, invites[i])
        BY <2>2 DEF Remove, Request
      <3> QED BY <2>1, <3>1, LoneBegin
    <2>3. CASE JoinViaInvite(h, i)
      <3>1. "join" \in Ops \ {"none"} /\ "join" \notin Lone /\ Allowed("join")
            /\ Begin(h, "join", "join", i, invites[i])
        BY <2>3 DEF JoinViaInvite, Request, Lone
      <3> QED BY <2>1, <3>1, LoneBegin
    <2>4. CASE CheckIn(h, i)
      <3>1. "checkin" \in Ops \ {"none"} /\ "checkin" \notin Lone /\ Allowed("checkin")
            /\ Begin(h, "checkin", "guest", i, invites[i])
        BY <2>4 DEF CheckIn, Request, Lone
      <3> QED BY <2>1, <3>1, LoneBegin
    <2> QED BY <1>4, <2>2, <2>3, <2>4
  <1> QED BY <1>1, <1>2, <1>3, <1>4 DEF Arrives

\* Who is alone and done leaves nobody.
LEMMA LoneLast ==
    ASSUME LInv, NEW h \in Handlers, task[h].op \in Lone, Done(h), UNCHANGED <<link, cron>>
    PROVE  Idle'
  BY DEF LInv, AloneInv, NobodyElse, Idle, Done, IInv, TasksOK

LEMMA LoneSaveAnswer ==
    ASSUME LInv, NEW h \in Handlers, SaveAnswer(h)
    PROVE  AloneInv' /\ HeldInv'
  <1>1. IInv /\ task[h].pc # "idle" /\ TaskHeld(h) /\ task[h].op \in {"rsvp", "self"}
    BY DEF LInv, HeldInv, SaveAnswer
  <1>2. task[h].row \in FineRow /\ task[h].id \in 0..MaxInvites
    BY <1>1, Holds
  <1>3. Idle'
    BY <1>1, LoneLast DEF SaveAnswer, Lone
  <1>4. \A j \in Ids : Exists(j) => Exists(j)' /\ invites'[j].sent = invites[j].sent
    <2>1. CASE task[h].id = 0
      BY <1>1, <1>2, <2>1, InsertIsNew, SaveKeepsSent DEF SaveAnswer
    <2>2. CASE task[h].id # 0
      <3>1. task[h].id \in Ids
        BY <1>2, <2>2, ConstantsAssumption DEF Ids
      <3>2. task[h].row.sent = invites[task[h].id].sent
        BY <1>1, <2>2 DEF TaskHeld
      <3> QED BY <1>1, <1>2, <2>2, <3>1, <3>2, SaveKeepsSent DEF SaveAnswer
    <2> QED BY <2>1, <2>2
  <1>5. SentHeld'
    <2>1. recorded' = recorded /\ SentHeld
      BY DEF SaveAnswer, LInv, HeldInv
    <2> QED BY <1>4, <2>1 DEF SentHeld
  <1> QED BY <1>3, <1>5, IdleNext

LEMMA LoneRemoveRow ==
    ASSUME LInv, NEW h \in Handlers, RemoveRow(h)
    PROVE  AloneInv' /\ HeldInv'
  <1>1. Idle'
    BY LoneLast DEF RemoveRow, At, Lone
  <1>2. SentHeld'
    <2> SUFFICES ASSUME NEW i \in Ids, NEW k \in Mails, <<i, k>> \in recorded'
                 PROVE  Exists(i)' /\ k \in invites'[i].sent
      BY DEF SentHeld
    <2>1. <<i, k>> \in recorded /\ i # task[h].id
      BY DEF RemoveRow
    <2>2. invites'[i] = invites[i]
      BY <2>1 DEF RemoveRow, LInv, IInv, TableOK
    <2>3. Exists(i) /\ k \in invites[i].sent
      BY <2>1 DEF LInv, HeldInv, SentHeld
    <2> QED BY <2>2, <2>3 DEF Exists
  <1> QED BY <1>1, <1>2, IdleNext

\* A request that is under way, or a call of the listener, is not beside a lone one.
LEMMA NotBesideLone ==
    ASSUME LInv,
           \/ \E h \in Handlers : task[h].pc # "idle" /\ task[h].op \notin Lone
           \/ \E l \in Links : link[l].pc # "idle"
    PROVE  NoneLone
  <1>1. ASSUME NEW h \in Handlers, task[h].pc # "idle", task[h].op \notin Lone
        PROVE  NoneLone
    <2>1. task[h] # NoTask
      BY <1>1 DEF NoTask
    <2> QED BY <1>1, <2>1 DEF LInv, AloneInv, NoneLone
  <1>2. ASSUME NEW l \in Links, link[l].pc # "idle" PROVE NoneLone
    <2>1. link[l] # NoLink
      BY <1>2 DEF NoLink
    <2> QED BY <2>1 DEF LInv, AloneInv, NoneLone, NobodyElse
  <1> QED BY <1>1, <1>2

\* Joining touches no invite.
LEMMA LoneJoins ==
    ASSUME LInv, NoneLone, NEW name, Joins(name), UNCHANGED <<invites, cron, recorded>>
    PROVE  (\A l \in Links : LinkHeld(l)') /\ BatchHeld' /\ SentHeld'
  <1>1. \A i \in Ids : Exists(i) => Exists(i)' /\ invites'[i].sent = invites[i].sent
    BY DEF Exists
  <1>2. BatchHeld' /\ SentHeld' /\ \A l \in Links : link'[l] = link[l] => LinkHeld(l)'
    BY <1>1, Beside
  <1>3. ASSUME NEW l \in Links, link'[l] # link[l] PROVE LinkHeld(l)'
    BY <1>3 DEF Joins, LinkHeld, LInv, IInv, LinksOK, LinkState
  <1> QED BY <1>2, <1>3

LEMMA LoneJoin ==
    ASSUME LInv, NEW h \in Handlers, JoinAsGuest(h) \/ JoinGuest(h) \/ JoinPlusOne(h)
    PROVE  AloneInv' /\ HeldInv'
  <1>1. task[h].pc # "idle" /\ task[h].op \notin Lone /\ task[h] \in Task
    BY DEF JoinAsGuest, JoinGuest, JoinPlusOne, At, Lone, LInv, IInv, TasksOK
  <1>2. NoneLone
    BY <1>1, NotBesideLone
  <1>3. (\E name : Joins(name)) /\ UNCHANGED <<invites, cron, recorded>>
    BY DEF JoinAsGuest, JoinGuest, JoinPlusOne
  <1>4. (\A l \in Links : LinkHeld(l)') /\ BatchHeld' /\ SentHeld'
    BY <1>2, <1>3, LoneJoins
  <1>5. \A i \in Ids : Exists(i) => Exists(i)' /\ invites'[i].sent = invites[i].sent
    BY <1>3 DEF Exists
  <1>6. \A g \in Handlers : task'[g] = task[g] => TaskHeld(g)'
    BY <1>2, <1>3, <1>5, Beside
  <1>7. \A g \in Handlers \ {h} : task'[g] = task[g]
    BY DEF JoinAsGuest, JoinGuest, JoinPlusOne, Done, Goto, LInv, IInv, TasksOK
  <1>8. TaskHeld(h)' /\ task'[h].op \notin Lone
    <2>1. CASE JoinAsGuest(h)
      <3>1. task'[h] = NoTask
        BY <2>1 DEF JoinAsGuest, Done, LInv, IInv, TasksOK
      <3> QED BY <3>1 DEF NoTask, TaskHeld, Lone
    <2>2. CASE JoinGuest(h) \/ JoinPlusOne(h)
      <3>1. /\ task'[h].op = task[h].op /\ task'[h].id = task[h].id
            /\ task'[h].row = task[h].row
        BY <1>1, <2>2 DEF JoinGuest, JoinPlusOne, Goto, LInv, IInv, TasksOK, Task
      <3>2. task[h].op = "checkin" /\ TaskHeld(h)
        BY <2>2 DEF JoinGuest, JoinPlusOne, At, LInv, HeldInv
      <3> QED BY <1>1, <1>3, <3>1, <3>2 DEF TaskHeld, Lone, Exists
    <2> QED BY <2>1, <2>2
  <1>9. \A g \in Handlers : task'[g].op \notin Lone
    BY <1>2, <1>7, <1>8 DEF NoneLone
  <1>10. AloneInv'
    BY <1>2, <1>3, <1>9, BesideAlone
  <1> QED BY <1>4, <1>6, <1>7, <1>8, <1>10 DEF HeldInv

LEMMA LoneSaveCheckIn ==
    ASSUME LInv, NEW h \in Handlers, SaveCheckIn(h)
    PROVE  AloneInv' /\ HeldInv'
  <1> DEFINE i == task[h].id
             row == [task[h].row EXCEPT !.player = task[h].row.name, !.status = "GOING"]
  <1>1. task[h].pc # "idle" /\ task[h].op \notin Lone /\ task[h].op = "checkin"
    BY DEF SaveCheckIn, At, Lone
  <1>2. NoneLone
    BY <1>1, NotBesideLone
  <1>3. task[h].row \in FineRow /\ i \in 0..MaxInvites /\ TaskHeld(h)
    BY <1>1, Holds DEF LInv, HeldInv
  <1>4. i \in Ids /\ Exists(i) /\ task[h].row.sent = invites[i].sent
    BY <1>1, <1>3, ConstantsAssumption DEF TaskHeld, Ids
  <1>5. row \in FineRow /\ row.sent = task[h].row.sent
    <2>1. row \in FineRow
      BY <1>3, FineCheckedIn
    <2> QED BY <1>3, <2>1 DEF FineRow, Row
  <1>6. invites' = [invites EXCEPT ![i] = row] /\ UNCHANGED <<link, cron, recorded>>
    BY DEF SaveCheckIn
  <1> HIDE DEF row
  <1>7. \A j \in Ids : Exists(j) => Exists(j)' /\ invites'[j].sent = invites[j].sent
    BY <1>4, <1>5, <1>6, SaveKeepsSent DEF LInv
  <1>8. task'[h] = NoTask /\ \A g \in Handlers \ {h} : task'[g] = task[g]
    BY DEF SaveCheckIn, Done, LInv, IInv, TasksOK
  <1>9. TaskHeld(h)' /\ task'[h].op \notin Lone
    BY <1>8 DEF NoTask, TaskHeld, Lone
  <1>10. HeldInv'
    BY <1>2, <1>6, <1>7, <1>8, <1>9, Beside DEF HeldInv
  <1> QED BY <1>2, <1>6, <1>8, <1>9, <1>10, BesideAlone DEF NoneLone

LEMMA LoneFind ==
    ASSUME LInv, NEW l \in Links, FindInvite(l)
    PROVE  AloneInv' /\ HeldInv'
  <1> DEFINE found == {i \in Ids : /\ Exists(i) /\ invites[i].player = None
                                   /\ invites[i].name = link[l].name}
             i == Oldest(found)
             s == IF invites[i].status \in {"PENDING", "MAYBE"} THEN "GOING"
                  ELSE invites[i].status
             row == [invites[i] EXCEPT !.player = link[l].name, !.status = s]
  <1>1. link[l].pc # "idle"
    BY DEF FindInvite
  <1>2. NoneLone
    BY <1>1, NotBesideLone
  <1>3. UNCHANGED <<invites, task, cron, recorded>>
    BY DEF FindInvite
  <1>4. \A j \in Ids : Exists(j) => Exists(j)' /\ invites'[j].sent = invites[j].sent
    BY <1>3 DEF Exists
  <1>5. /\ \A h \in Handlers : TaskHeld(h)'
        /\ BatchHeld' /\ SentHeld' /\ \A k \in Links : link'[k] = link[k] => LinkHeld(k)'
    BY <1>2, <1>3, <1>4, Beside
  <1>6. \A k \in Links \ {l} : link'[k] = link[k]
    <2> HIDE DEF found, i, row
    <2>1. link' \in {[link EXCEPT ![l] = NoLink],
                     [link EXCEPT ![l].pc = "save", ![l].id = i, ![l].row = row]}
      BY DEF FindInvite, found, i, row
    <2> QED BY <2>1 DEF LInv, IInv, LinksOK
  <1>7. LinkHeld(l)'
    <2>1. CASE found = {}
      <3>1. link'[l] = NoLink
        BY <2>1 DEF FindInvite, LInv, IInv, LinksOK
      <3> QED BY <3>1 DEF NoLink, LinkHeld
    <2>2. CASE found # {}
      <3>1. found \subseteq Nat /\ found \subseteq {j \in Ids : Exists(j)}
        BY ConstantsAssumption DEF Ids
      <3>2. link' = [link EXCEPT ![l].pc = "save", ![l].id = i, ![l].row = row]
        BY <2>2 DEF FindInvite
      <3>3. i \in found
        <4> HIDE DEF found
        <4> QED BY <2>2, <3>1, HasSmallest
      <3> HIDE DEF found, i
      <3>4. invites[i] \in FineRow /\ i \in Ids /\ Exists(i) /\ i # 0
        BY <3>1, <3>3, LoadedRow, ConstantsAssumption DEF LInv, Ids
      <3>5. link[l].name \in Names /\ link[l].name # None /\ link[l] \in LinkState
        BY <1>1, ConstantsAssumption DEF LInv, IInv, LinksOK
      <3>6. row.sent = invites[i].sent /\ row.player = link[l].name
        BY <3>4 DEF FineRow, Row
      <3> HIDE DEF row
      <3>7. link'[l].id = i /\ link'[l].row = row
        BY <3>2, <3>5 DEF LInv, IInv, LinksOK, LinkState
      <3> QED BY <1>3, <3>4, <3>5, <3>6, <3>7 DEF LinkHeld, Exists
    <2> QED BY <2>1, <2>2
  <1> QED BY <1>2, <1>3, <1>5, <1>6, <1>7, BesideAlone DEF HeldInv, NoneLone

LEMMA LoneSaveLink ==
    ASSUME LInv, NEW l \in Links, SaveLink(l)
    PROVE  AloneInv' /\ HeldInv'
  <1>1. link[l].pc # "idle" /\ link[l].pc = "save"
    BY DEF SaveLink
  <1>2. NoneLone
    BY <1>1, NotBesideLone
  <1>3. /\ link[l].row \in FineRow /\ link[l].id \in Ids /\ Exists(link[l].id)
        /\ link[l].row.sent = invites[link[l].id].sent
    BY <1>1, ConstantsAssumption DEF LInv, IInv, LinksOK, LinkState, HeldInv, LinkHeld, Ids
  <1>4. \A j \in Ids : Exists(j) => Exists(j)' /\ invites'[j].sent = invites[j].sent
    BY <1>3, SaveKeepsSent DEF SaveLink, LInv
  <1>5. /\ UNCHANGED <<task, cron, recorded>> /\ link'[l] = NoLink
        /\ \A k \in Links \ {l} : link'[k] = link[k]
    BY DEF SaveLink, LInv, IInv, LinksOK
  <1>6. LinkHeld(l)'
    BY <1>5 DEF NoLink, LinkHeld
  <1>7. HeldInv'
    BY <1>2, <1>4, <1>5, <1>6, Beside DEF HeldInv
  <1> QED BY <1>2, <1>5, <1>7, BesideAlone DEF NoneLone

\* While the cron job is under way nobody else is.
LEMMA LoneCron ==
    ASSUME LInv, ServedAlone, StartCron \/ CronStep \/ Mark \/ \E i \in Ids : Send(i)
    PROVE  AloneInv' /\ HeldInv'
  <1>1. /\ \A h \in Handlers : task[h] = NoTask
        /\ \A l \in Links : link[l] = NoLink
    <2>1. CASE StartCron
      BY <2>1, MayBegin DEF StartCron, Idle, NobodyElse
    <2>2. CASE CronStep \/ Mark \/ \E i \in Ids : Send(i)
      <3>1. cron.pc # "idle"
        BY <2>2 DEF CronStep, Query, BatchDone, SendFails, Mark, Send
      <3>2. cron # NoCron
        BY <3>1 DEF NoCron
      <3> QED BY <3>2 DEF LInv, AloneInv
    <2> QED BY <2>1, <2>2
  <1>2. UNCHANGED <<task, link>>
    BY DEF StartCron, CronStep, Query, BatchDone, SendFails, Mark, Send
  <1>3. AloneInv' /\ (\A h \in Handlers : TaskHeld(h)') /\ (\A l \in Links : LinkHeld(l)')
    <2>1. \A h \in Handlers : task'[h] = NoTask
      BY <1>1, <1>2
    <2>2. \A l \in Links : link'[l] = NoLink
      BY <1>1, <1>2
    <2> QED BY <2>1, <2>2 DEF AloneInv, TaskHeld, LinkHeld, NoTask, NoLink, Lone
  <1>t. cron \in CronState /\ BatchHeld /\ SentHeld /\ invites \in [Ids -> FineRow \cup {None}]
    BY DEF LInv, IInv, CronOK, TableOK, HeldInv
  <1>4. ASSUME UNCHANGED <<invites, recorded>>, NEW b, cron'.batch = b,
               DOMAIN b \subseteq DOMAIN cron.batch,
               \A i \in DOMAIN b : b[i] = cron.batch[i], cron'.kind = cron.kind \/ DOMAIN b = {}
        PROVE  BatchHeld' /\ SentHeld'
    BY <1>t, <1>4 DEF BatchHeld, SentHeld, Exists
  <1>5. CASE StartCron
    <2>1. cron'.batch = cron.batch /\ cron'.kind = cron.kind
      BY <1>t, <1>5 DEF StartCron, CronState
    <2> QED BY <1>3, <1>4, <1>5, <2>1 DEF StartCron, HeldInv
  <1>6. CASE Query
    <2> DEFINE D == {j \in Ids : Due(j, cron.kind)}
               b == [i \in D |-> invites[i]]
    <2>1. cron'.batch = b /\ cron'.kind = cron.kind /\ UNCHANGED <<invites, recorded>>
      BY <1>t, <1>6 DEF Query, CronState
    <2>2. \A i \in D : Exists(i) /\ cron.kind \notin invites[i].sent
      BY DEF Due
    <2>3. \A i \in D : <<i, cron.kind>> \notin recorded
      BY <1>t, <2>2 DEF SentHeld, CronState
    <2>4. BatchHeld'
      BY <2>1, <2>2, <2>3 DEF BatchHeld, Exists
    <2>5. SentHeld'
      BY <1>t, <2>1 DEF SentHeld, Exists
    <2> QED BY <1>3, <2>4, <2>5 DEF HeldInv
  <1>7. CASE BatchDone
    <2>1. DOMAIN cron'.batch = {}
      BY <1>7, NoBatch DEF BatchDone, NoCron
    <2> QED BY <1>3, <1>4, <1>7, <2>1 DEF BatchDone, HeldInv
  <1>8. ASSUME NEW i \in Ids, SendFails(i) PROVE AloneInv' /\ HeldInv'
    <2>1. cron'.batch = WithoutInvite(cron.batch, i) /\ cron'.kind = cron.kind
      BY <1>t, <1>8 DEF SendFails, CronState
    <2> QED BY <1>3, <1>4, <1>8, <2>1 DEF SendFails, HeldInv, WithoutInvite
  <1>9. ASSUME NEW i \in Ids, Send(i) PROVE AloneInv' /\ HeldInv'
    <2>1. cron'.batch = cron.batch /\ cron'.kind = cron.kind
      BY <1>t, <1>9 DEF Send, CronState
    <2> QED BY <1>3, <1>4, <1>9, <2>1 DEF Send, HeldInv
  <1>10. CASE Mark
    <2> DEFINE i == cron.id
               row == [cron.batch[i] EXCEPT !.sent = @ \cup {cron.kind}]
    <2>1. i \in DOMAIN cron.batch /\ i \in Ids /\ cron.kind \in Mails
      BY <1>10, <1>t DEF Mark, LInv, IInv, CronOK, CronState, Batches
    <2>2. cron.batch[i] \in FineRow /\ cron.batch[i] = invites[i] /\ Exists(i)
      <3>1. PICK D \in SUBSET Ids : cron.batch \in [D -> FineRow]
        BY <1>t DEF CronState, Batches
      <3> QED BY <1>t, <2>1, <3>1 DEF BatchHeld
    <2>3. row \in FineRow /\ row.sent = invites[i].sent \cup {cron.kind} /\ row # None
      <3>1. row \in FineRow
        BY <2>1, <2>2, FineSent
      <3> QED BY <2>2, <3>1, NoneAssumption DEF FineRow, Row
    <2>4. /\ invites' = [invites EXCEPT ![i] = row]
          /\ recorded' = recorded \cup {<<i, cron.kind>>}
      BY <1>10 DEF Mark
    <2>5. cron'.batch = WithoutInvite(cron.batch, i) /\ cron'.kind = cron.kind
      BY <1>t, <1>10 DEF Mark, CronState
    <2> HIDE DEF row
    <2>6. invites'[i] = row /\ \A j \in Ids \ {i} : invites'[j] = invites[j]
      BY <1>t, <2>1, <2>4
    <2>7. SentHeld'
      BY <1>t, <2>2, <2>3, <2>4, <2>6 DEF SentHeld, Exists
    <2>8. BatchHeld'
      <3> SUFFICES ASSUME NEW j \in DOMAIN cron'.batch
                   PROVE  /\ Exists(j)' /\ cron'.batch[j] = invites'[j]
                          /\ <<j, cron'.kind>> \notin recorded'
        BY DEF BatchHeld
      <3>1. j \in DOMAIN cron.batch /\ j # i /\ cron'.batch[j] = cron.batch[j]
        BY <2>5 DEF WithoutInvite
      <3>2. j \in Ids
        BY <1>t, <3>1 DEF CronState, Batches
      <3>3. Exists(j) /\ cron.batch[j] = invites[j] /\ <<j, cron.kind>> \notin recorded
        BY <1>t, <3>1 DEF BatchHeld
      <3> QED BY <2>4, <2>5, <2>6, <3>1, <3>2, <3>3 DEF Exists
    <2> QED BY <1>3, <2>7, <2>8 DEF HeldInv
  <1> QED BY <1>5, <1>6, <1>7, <1>8, <1>9, <1>10 DEF CronStep

LEMMA LoneOther ==
    ASSUME LInv, ServedAlone,
           \/ \E n \in Names : WalkIn(n)
           \/ \E n \in Nights : NightPasses(n)
           \/ Fail \/ UNCHANGED vars
    PROVE  AloneInv' /\ HeldInv'
  <1>1. UNCHANGED <<invites, recorded>>
    BY DEF WalkIn, NightPasses, Fail, vars
  <1>2. CASE UNCHANGED <<invites, task, link, cron, recorded>>
    BY <1>2 DEF LInv, AloneInv, HeldInv, NobodyElse, TaskHeld, LinkHeld, BatchHeld, SentHeld,
                Exists, Matching
  <1>3. ASSUME NEW n \in Names, WalkIn(n) PROVE AloneInv' /\ HeldInv'
    <2>1. NoneLone
      BY <1>3, MayBegin DEF WalkIn
    <2>2. (\A l \in Links : LinkHeld(l)') /\ BatchHeld' /\ SentHeld'
      BY <1>3, <2>1, LoneJoins DEF WalkIn
    <2>3. \A i \in Ids : Exists(i) => Exists(i)' /\ invites'[i].sent = invites[i].sent
      BY <1>1 DEF Exists
    <2>4. \A h \in Handlers : TaskHeld(h)'
      BY <1>3, <2>1, <2>3, Beside DEF WalkIn
    <2> QED BY <1>3, <2>1, <2>2, <2>4, BesideAlone DEF WalkIn, HeldInv, NoneLone
  <1>4. CASE Fail
    <2>1. SentHeld'
      BY <1>1 DEF LInv, HeldInv, SentHeld, Exists
    <2>2. ASSUME NEW h \in Handlers, Done(h), UNCHANGED <<link, cron>>
          PROVE  AloneInv' /\ HeldInv'
      <3>1. task'[h] = NoTask /\ \A g \in Handlers \ {h} : task'[g] = task[g]
        BY <2>2 DEF Done, LInv, IInv, TasksOK
      <3>2. TaskHeld(h)' /\ task'[h].op \notin Lone
        BY <3>1 DEF NoTask, TaskHeld, Lone
      <3>3. ASSUME NEW g \in Handlers \ {h} PROVE TaskHeld(g)'
        BY <1>1, <3>1 DEF LInv, HeldInv, TaskHeld, Exists, Matching
      <3>4. (\A l \in Links : LinkHeld(l)') /\ BatchHeld'
        BY <1>1, <2>2 DEF LInv, HeldInv, LinkHeld, BatchHeld, Exists
      <3>5. AloneInv'
        BY <2>2, <3>1, <3>2 DEF LInv, AloneInv, NobodyElse
      <3> QED BY <2>1, <3>2, <3>3, <3>4, <3>5 DEF HeldInv
    <2>3. ASSUME NEW l \in Links, link' = [link EXCEPT ![l] = NoLink], UNCHANGED <<task, cron>>
          PROVE  AloneInv' /\ HeldInv'
      <3>1. link'[l] = NoLink /\ \A k \in Links \ {l} : link'[k] = link[k]
        BY <2>3 DEF LInv, IInv, LinksOK
      <3>2. LinkHeld(l)'
        BY <3>1 DEF NoLink, LinkHeld
      <3>3. ASSUME NEW k \in Links \ {l} PROVE LinkHeld(k)'
        BY <1>1, <3>1 DEF LInv, HeldInv, LinkHeld, Exists
      <3>4. (\A h \in Handlers : TaskHeld(h)') /\ BatchHeld'
        BY <1>1, <2>3 DEF LInv, HeldInv, TaskHeld, BatchHeld, Exists, Matching
      <3>5. AloneInv'
        BY <2>3, <3>1 DEF LInv, AloneInv, NobodyElse
      <3> QED BY <2>1, <3>2, <3>3, <3>4, <3>5 DEF HeldInv
    <2>4. CASE cron' = NoCron /\ UNCHANGED <<task, link>>
      <3>1. BatchHeld'
        BY <2>4, NoBatch DEF BatchHeld
      <3>2. (\A h \in Handlers : TaskHeld(h)') /\ (\A l \in Links : LinkHeld(l)')
        BY <1>1, <2>4 DEF LInv, HeldInv, TaskHeld, LinkHeld, Exists, Matching
      <3>3. AloneInv'
        BY <2>4 DEF LInv, AloneInv, NobodyElse
      <3> QED BY <2>1, <3>1, <3>2, <3>3 DEF HeldInv
    <2> QED BY <1>4, <2>2, <2>3, <2>4 DEF Fail
  <1> QED BY <1>2, <1>3, <1>4 DEF NightPasses, vars

LEMMA LoneNext ==
    ASSUME ServedAlone
    PROVE  LInv /\ [Next]_vars => LInv'
  <1> SUFFICES ASSUME LInv, [Next]_vars PROVE LInv'
    OBVIOUS
  <1>1. IInv'
    BY NextInv DEF LInv
  <1>2. AloneInv' /\ HeldInv'
    <2>1. ASSUME NEW h \in Handlers, HandlerStep(h) PROVE AloneInv' /\ HeldInv'
      BY <2>1, LoneSaveAnswer, LoneRemoveRow, LoneJoin, LoneSaveCheckIn DEF HandlerStep
    <2>2. ASSUME NEW l \in Links, LinkStep(l) PROVE AloneInv' /\ HeldInv'
      BY <2>2, LoneFind, LoneSaveLink DEF LinkStep
    <2> QED BY <2>1, <2>2, LoneArrives, LoneCron, LoneOther DEF Next
  <1> QED BY <1>1, <1>2 DEF LInv

-----------------------------------------------------------------------------
(* The steps that make, mail and save invites.                               *)

\* What each of the three properties says of a step.
OnceStep ==
    \A i \in Ids : (~Exists(i) /\ invites'[i] # None /\ \E h \in Handlers : task[h].op = "self")
        => \A j \in Ids : Exists(j) => invites[j].email # invites'[i].email
RemindStep == cron.pc = "send" /\ cron'.pc = "mark" => <<cron'.id, cron.kind>> \notin recorded
LinkStepKept ==
    \A i \in Ids : Exists(i) /\ invites[i].player # None /\ invites'[i] # None
        => invites'[i].player # None

LEMMA StepsOnce ==
    ASSUME LInv, ServedAlone, [Next]_vars
    PROVE  OnceStep
  <1> SUFFICES ASSUME NEW i \in Ids, ~Exists(i), invites'[i] # None,
                      NEW h \in Handlers, task[h].op = "self"
               PROVE  \A j \in Ids : Exists(j) => invites[j].email # invites'[i].email
    BY DEF OnceStep
  <1>1. /\ NobodyElse /\ \A g \in Handlers \ {h} : task[g] = NoTask
        /\ task[h].pc = "save" /\ TaskHeld(h) /\ task[h] # NoTask
    BY DEF LInv, AloneInv, HeldInv, Lone, NoTask
  <1>2. invites' # invites
    BY DEF Exists
  <1>3. ~NoneLone
    BY DEF NoneLone, Lone
  <1>4. SaveAnswer(h)
    <2>1. ASSUME NEW g \in Handlers, Arrives(g) PROVE FALSE
      <3>1. PICK n \in Names, e \in Emails \cup {None} : CreateForSession(g, n, e)
        BY <1>2, <2>1 DEF Arrives, Rsvp, SelfRsvp, Remove, JoinViaInvite, CheckIn, Begin
      <3> QED BY <1>3, <3>1, MayBegin DEF CreateForSession, Request
    <2>2. ASSUME NEW g \in Handlers, HandlerStep(g) PROVE SaveAnswer(h)
      <3>1. g = h
        BY <1>1, <2>2 DEF HandlerStep, SaveAnswer, RemoveRow, JoinAsGuest, JoinGuest,
                          JoinPlusOne, SaveCheckIn, At, NoTask
      <3> QED BY <2>2, <3>1 DEF HandlerStep, RemoveRow, JoinAsGuest, JoinGuest,
                                JoinPlusOne, SaveCheckIn, At
    <2>3. ASSUME NEW l \in Links, LinkStep(l) PROVE FALSE
      <3>1. link[l] = NoLink
        BY <1>1 DEF NobodyElse
      <3>2. link[l].pc = "idle"
        BY <3>1 DEF NoLink
      <3> QED BY <2>3, <3>2 DEF LinkStep, FindInvite, SaveLink
    <2>4. ASSUME Mark PROVE FALSE
      BY <1>1, <2>4 DEF Mark, NobodyElse, NoCron
    <2> QED BY <1>2, <2>1, <2>2, <2>3, <2>4 DEF Next, vars, StartCron, CronStep, Query,
                    BatchDone, SendFails, Send, WalkIn, NightPasses, Fail
  <1>5. IInv /\ task[h].row \in FineRow /\ task[h].id \in 0..MaxInvites
    BY <1>1, Holds DEF LInv
  <1>6. task[h].id = 0
    <2> SUFFICES ASSUME task[h].id # 0 PROVE FALSE
      OBVIOUS
    <2>1. Exists(task[h].id) /\ invites' = [invites EXCEPT ![task[h].id] = task[h].row]
      BY <1>1, <1>4 DEF TaskHeld, SaveAnswer
    <2> QED BY <1>5, <2>1 DEF IInv, TableOK, Exists
  <1>7. /\ i = made + 1 /\ invites'[i] = task[h].row
    <2>1. made + 1 \in Ids /\ invites' = [invites EXCEPT ![made + 1] = task[h].row]
      BY <1>4, <1>5, <1>6, InsertIsNew DEF SaveAnswer
    <2> QED BY <1>5, <2>1 DEF IInv, TableOK, Exists
  <1>8. Matching(task[h].row.email) = {}
    BY <1>1, <1>6 DEF TaskHeld
  <1> QED BY <1>7, <1>8 DEF Matching

LEMMA StepsRemind ==
    ASSUME LInv, [Next]_vars
    PROVE  RemindStep
  <1> SUFFICES ASSUME cron.pc = "send", cron'.pc = "mark"
               PROVE  <<cron'.id, cron.kind>> \notin recorded
    BY DEF RemindStep
  <1>0. cron \in CronState
    BY DEF LInv, IInv, CronOK
  <1>1. PICK i \in Ids : Send(i)
    <2>1. cron' # cron
      OBVIOUS
    <2>2. ~Fail
      BY <2>1 DEF Fail, NoCron
    <2>3. ~StartCron /\ ~Mark /\ ~Query
      BY DEF StartCron, Mark, Query, NoCron
    <2>4. ~BatchDone
      <3>1. NoCron \in CronState /\ NoCron.pc = "idle"
        BY NoBatch DEF NoCron
      <3>2. [NoCron EXCEPT !.pc = "query", !.kind = "nudge"].pc = "query"
        BY <3>1 DEF CronState
      <3> QED BY <3>1, <3>2 DEF BatchDone
    <2>5. \A i \in Ids : ~SendFails(i)
      BY <1>0 DEF SendFails, CronState
    <2>6. ~(\E h \in Handlers : Arrives(h) \/ HandlerStep(h))
      <3>1. ASSUME NEW h \in Handlers, Arrives(h) PROVE cron' = cron
        BY <3>1 DEF Arrives, CreateForSession, Rsvp, SelfRsvp, Remove, JoinViaInvite,
                    CheckIn, Begin
      <3>2. ASSUME NEW h \in Handlers, HandlerStep(h) PROVE cron' = cron
        BY <3>2 DEF HandlerStep, SaveAnswer, RemoveRow, JoinAsGuest, JoinGuest,
                    JoinPlusOne, SaveCheckIn
      <3> QED BY <2>1, <3>1, <3>2
    <2>7. ~(\E l \in Links : LinkStep(l))
      BY <2>1 DEF LinkStep, FindInvite, SaveLink
    <2> QED BY <2>1, <2>2, <2>3, <2>4, <2>5, <2>6, <2>7
            DEF Next, vars, CronStep, WalkIn, NightPasses
  <1>2. cron'.id = i /\ i \in DOMAIN cron.batch
    BY <1>0, <1>1 DEF Send, CronState
  <1> QED BY <1>2 DEF LInv, HeldInv, BatchHeld

LEMMA StepsLink ==
    ASSUME LInv, [Next]_vars
    PROVE  LinkStepKept
  <1> SUFFICES ASSUME NEW i \in Ids, Exists(i), invites[i].player # None, invites'[i] # None
               PROVE  invites'[i].player # None
    BY DEF LinkStepKept
  <1>0. IInv /\ invites \in [Ids -> FineRow \cup {None}]
    BY DEF LInv, IInv, TableOK
  <1>1. ASSUME NEW row \in FineRow, Insert(row) PROVE invites'[i] = invites[i]
    BY <1>0, <1>1, InsertIsNew
  <1>2. ASSUME NEW h \in Handlers, SaveAnswer(h) PROVE invites'[i].player # None
    <2>1. task[h].row \in FineRow /\ TaskHeld(h)
      BY <1>0, <1>2, Holds DEF SaveAnswer, LInv, HeldInv
    <2>2. CASE task[h].id = 0
      BY <1>1, <1>2, <2>1, <2>2 DEF SaveAnswer
    <2>3. CASE task[h].id # 0
      <3>1. task[h].row.player = invites[task[h].id].player
        BY <1>2, <2>1, <2>3 DEF SaveAnswer, TaskHeld
      <3> QED BY <1>0, <1>2, <2>3, <3>1 DEF SaveAnswer
    <2> QED BY <2>2, <2>3
  <1>3. ASSUME NEW h \in Handlers, RemoveRow(h) PROVE invites'[i].player # None
    BY <1>0, <1>3 DEF RemoveRow
  <1>4. ASSUME NEW h \in Handlers, SaveCheckIn(h) PROVE invites'[i].player # None
    <2> DEFINE row == [task[h].row EXCEPT !.player = task[h].row.name, !.status = "GOING"]
    <2>1. task[h].row \in FineRow
      BY <1>0, <1>4, Holds DEF SaveCheckIn, At
    <2>2. row.player # None
      BY <2>1, ConstantsAssumption DEF FineRow, Row
    <2>3. invites' = [invites EXCEPT ![task[h].id] = row]
      BY <1>4 DEF SaveCheckIn
    <2> HIDE DEF row
    <2> QED BY <1>0, <2>2, <2>3
  <1>5. ASSUME NEW l \in Links, SaveLink(l) PROVE invites'[i].player # None
    <2>1. link[l].row.player # None
      BY <1>5 DEF SaveLink, LInv, HeldInv, LinkHeld
    <2> QED BY <1>0, <1>5, <2>1 DEF SaveLink
  <1>6. ASSUME Mark PROVE invites'[i].player # None
    <2> DEFINE k == cron.id
               row == [cron.batch[k] EXCEPT !.sent = @ \cup {cron.kind}]
    <2>1. k \in DOMAIN cron.batch
      BY <1>6 DEF Mark, LInv, IInv, CronOK
    <2>2. cron.batch[k] = invites[k] /\ cron.batch[k] \in FineRow
      <3>1. PICK D \in SUBSET Ids : cron.batch \in [D -> FineRow]
        BY DEF LInv, IInv, CronOK, CronState, Batches
      <3> QED BY <2>1, <3>1 DEF LInv, HeldInv, BatchHeld
    <2>3. row.player = invites[k].player
      BY <2>2 DEF FineRow, Row
    <2>4. invites' = [invites EXCEPT ![k] = row]
      BY <1>6 DEF Mark
    <2> HIDE DEF row
    <2> QED BY <1>0, <2>3, <2>4
  <1>7. ASSUME NEW h \in Handlers, Arrives(h) PROVE invites'[i].player # None
    <2>1. ASSUME NEW n \in Names, NEW e \in Emails \cup {None}, CreateForSession(h, n, e)
          PROVE  invites'[i].player # None
      BY <1>1, <2>1, FineNew DEF CreateForSession
    <2> QED BY <1>7, <2>1 DEF Arrives, Rsvp, SelfRsvp, Remove, JoinViaInvite, CheckIn, Begin
  <1>8. CASE UNCHANGED invites
    BY <1>8
  <1>9. ASSUME NEW h \in Handlers, HandlerStep(h) PROVE invites'[i].player # None
    BY <1>2, <1>3, <1>4, <1>8, <1>9 DEF HandlerStep, JoinAsGuest, JoinGuest, JoinPlusOne
  <1>10. ASSUME NEW l \in Links, LinkStep(l) PROVE invites'[i].player # None
    BY <1>5, <1>8, <1>10 DEF LinkStep, FindInvite
  <1> QED BY <1>6, <1>7, <1>8, <1>9, <1>10 DEF Next, vars, StartCron, CronStep, Query,
                    BatchDone, SendFails, Send, WalkIn, NightPasses, Fail

\* The open form never makes a second invite for an address, for any number of guests,
\* if answers and removals are served alone.
THEOREM SelfRsvpMakesOne ==
    ASSUME ServedAlone
    PROVE  Spec => SelfRsvpOnce
  <1>1. LInv /\ [Next]_vars => OnceStep
    BY StepsOnce
  <1>2. SelfRsvpOnce <=> [][OnceStep]_vars
    BY DEF SelfRsvpOnce, OnceStep
  <1> QED BY <1>1, <1>2, LoneInit, LoneNext, PTL DEF Spec

\* A reminder that was sent and recorded is not sent again, for any number of invites,
\* if answers, removals and the cron job run alone: a failed run, or one that mails
\* only some of the guests, does not change that.
THEOREM ReminderOnce ==
    ASSUME ServedAlone
    PROVE  Spec => RemindedOnce
  <1>1. LInv /\ [Next]_vars => RemindStep
    BY StepsRemind
  <1>2. RemindedOnce <=> [][RemindStep]_vars
    BY DEF RemindedOnce, RemindStep
  <1> QED BY <1>1, <1>2, LoneInit, LoneNext, PTL DEF Spec

\* A guest who has turned up stays linked, for any number of guests and check-ins and
\* joins beside one another, if answers, removals and the cron job run alone.
THEOREM LinkIsKept ==
    ASSUME ServedAlone
    PROVE  Spec => LinkKept
  <1>1. LInv /\ [Next]_vars => LinkStepKept
    BY StepsLink
  <1>2. LinkKept <=> [][LinkStepKept]_vars
    BY DEF LinkKept, LinkStepKept
  <1> QED BY <1>1, <1>2, LoneInit, LoneNext, PTL DEF Spec
=============================================================================
