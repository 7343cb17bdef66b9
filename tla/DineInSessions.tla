--------------------------- MODULE DineInSessions ---------------------------
(***************************************************************************)
(* Dine-in tables, sessions and their members                             *)
(* (src/src/dine-in/dine-in.service.ts and the repositories of tables,    *)
(* sessions and members).                                                 *)
(*                                                                         *)
(* Starting, joining and leaving a session are transactions that lock the *)
(* customer, then (not to leave) the table, and read the rest without     *)
(* locks; a step is what happens between two reads that others may        *)
(* separate, and the last step is the commit.  A manager's requests run   *)
(* without a transaction: read the row, save the entity (EntityRows).     *)
(* The bill and the payments (DineInBilling) move a session's status      *)
(* under the session's own lock, which nobody here takes.                 *)
(*                                                                         *)
(* One restaurant; a table is named by its number, unique there.  The     *)
(* database's unique index on the open session of a table, which          *)
(* startSession retries on, is left out: the locks alone must do.         *)
(***************************************************************************)
EXTENDS Integers, FiniteSets, EntityRows, SessionStatus

CONSTANTS
  Guests,     \* customers
  Tables,     \* table numbers
  Sessions,   \* names of sessions
  Handlers,   \* concurrently served requests of customers
  Managers,   \* concurrently served requests of managers
  None,       \* no session, no table, no guest
  MaxTokens   \* bound: QR tokens generated

ASSUME NoneAssumption == None \notin Guests \union Tables \union Sessions
ASSUME TokensAssumption == MaxTokens \in Nat

VARIABLES
  table,      \* restaurant_tables rows
  issued,     \* QR codes printed for each table: version and token
  retired,    \* history: tokens of each table that were replaced
  generated,  \* number of tokens generated so far
  status,     \* dine_in_sessions rows: status ...
  place,      \* ... and table
  member,     \* dine_in_session_members rows of each session and guest
  req,        \* local state of each customer request
  edit        \* local state of each manager request

vars == <<table, issued, retired, generated, status, place, member, req, edit>>
rows == <<table, issued, retired, generated>>
tables == <<table, issued, retired, generated, edit>>
sessions == <<status, place, member>>

Tokens == 0..MaxTokens
TableRow == [hash : Tokens, ver : Nat, active : BOOLEAN]
NoTable == [hash |-> 0, ver |-> 0, active |-> FALSE]
Exists(t) == table[t].ver # 0

\* n counts the rows: nothing but the locks keeps it from exceeding one.
Membership == [n : Nat, host : BOOLEAN, active : BOOLEAN]
NoMember == [n |-> 0, host |-> FALSE, active |-> FALSE]

Requests == [pc : {"idle", "checked", "table", "current", "create", "insert",
                   "rejoin", "leave"},
             op : {"none", "start", "join", "leave"},
             guest : Guests \union {None}, table : Tables \union {None},
             session : Sessions \union {None}, link : Nat \X Tokens]
Idle == [pc |-> "idle", op |-> "none", guest |-> None, table |-> None,
         session |-> None, link |-> <<0, 0>>]

Edits == [pc : {"idle", "read", "save"}, table : Tables \union {None},
          entity : TableRow, cols : SUBSET {"hash", "ver", "active"},
          prints : BOOLEAN]
NoEdit == [pc |-> "idle", table |-> None, entity |-> NoTable, cols |-> {},
           prints |-> FALSE]

Init ==
  /\ table = [t \in Tables |-> NoTable]
  /\ issued = [t \in Tables |-> {}]
  /\ retired = [t \in Tables |-> {}]
  /\ generated = 0
  /\ status = [s \in Sessions |-> "none"]
  /\ place = [s \in Sessions |-> None]
  /\ member = [s \in Sessions |-> [g \in Guests |-> NoMember]]
  /\ req = [h \in Handlers |-> Idle]
  /\ edit = [m \in Managers |-> NoEdit]

At(h, step) == req[h].pc = step
Continue(h, step) == req' = [req EXCEPT ![h].pc = step]
Goto(h, step, s) ==
  req' = [req EXCEPT ![h] = [pc |-> step, op |-> @.op, guest |-> @.guest,
                             table |-> @.table, session |-> s, link |-> @.link]]
Finish(h) == req' = [req EXCEPT ![h] = Idle]

IsOpen(s) == status[s] \in OpenStatus
\* findActiveByTable
OpenAt(t) == {s \in Sessions : IsOpen(s) /\ place[s] = t}
\* findCurrentForUser
CurrentOf(g) == {s \in Sessions : IsOpen(s) /\ member[s][g].active}

\* Row locks: of the customer from the first step on, of the table while a
\* request is past the step that waits for it.
HoldsUser(h) == ~ At(h, "idle")
HoldsTable(h) == req[h].op # "leave" /\ ~ At(h, "idle") /\ ~ At(h, "checked")
UserLocked(g) == \E h \in Handlers : HoldsUser(h) /\ req[h].guest = g
TableLocked(t) == \E h \in Handlers : HoldsTable(h) /\ req[h].table = t

(***************************************************************************)
(* startSession and joinSession.                                          *)
(***************************************************************************)
\* Bound: a request to start is served while a name is left for its session.
Spare ==
  Cardinality({s \in Sessions : status[s] = "none"}) >
  Cardinality({h \in Handlers : req[h].op = "start"})

StartSession(h, g, t, link) ==
  /\ At(h, "idle") /\ ~ UserLocked(g) /\ Spare
  /\ req' = [req EXCEPT ![h] = [pc |-> "checked", op |-> "start", guest |-> g,
               table |-> t, session |-> None, link |-> link]]
  /\ UNCHANGED <<tables, sessions>>

\* The session's status is read here and never again.
JoinSession(h, g, s, link) ==
  /\ At(h, "idle") /\ ~ UserLocked(g)
  /\ status[s] = "ACTIVE"
  /\ req' = [req EXCEPT ![h] = [pc |-> "checked", op |-> "join", guest |-> g,
               table |-> place[s], session |-> s, link |-> link]]
  /\ UNCHANGED <<tables, sessions>>

\* verifyQrForTable; the restaurant may have become inactive.
Accepts(t, link) == table[t].active /\ link = <<table[t].ver, table[t].hash>>

\* Mutant: the table is read without FOR UPDATE.
ReadTable(h) ==
  /\ At(h, "checked")
  /\ \/ Accepts(req[h].table, req[h].link) /\ Continue(h, "table")
     \/ Finish(h)
  /\ UNCHANGED <<tables, sessions>>

\* Mutant: the QR code is not checked again under the lock.
LockOnly(h) ==
  /\ At(h, "checked")
  /\ ~ TableLocked(req[h].table)
  /\ Continue(h, "table")
  /\ UNCHANGED <<tables, sessions>>

LockTable(h) ==
  /\ At(h, "checked")
  /\ ~ TableLocked(req[h].table)
  /\ \/ Accepts(req[h].table, req[h].link) /\ Continue(h, "table")
     \/ Finish(h)
  /\ UNCHANGED <<tables, sessions>>

\* Mutant: the customer's other session is not looked at.
NowhereElse(h, s) == FALSE

\* A customer may sit at one table only: elsewhere is another table (start)
\* or another session (join).
Elsewhere(h, s) ==
  IF req[h].op = "join" THEN s # req[h].session ELSE place[s] # req[h].table

\* ensureMembership reads the row before it decides how to save it.
Entering(h, s) ==
  LET row == member[s][req[h].guest] IN
  IF row.n = 0 THEN "insert" ELSE IF ~ row.active THEN "rejoin" ELSE "idle"

Enter(h, s) ==
  IF Entering(h, s) = "idle" THEN Finish(h)
  ELSE Goto(h, Entering(h, s), s)

FindCurrent(h) ==
  /\ At(h, "table")
  /\ \E s \in CurrentOf(req[h].guest) \union {None} :
       /\ s = None => CurrentOf(req[h].guest) = {}
       /\ IF s # None /\ Elsewhere(h, s) THEN Finish(h)
          ELSE IF req[h].op = "join" THEN Enter(h, req[h].session)
          ELSE Goto(h, "current", s)
  /\ UNCHANGED <<tables, sessions>>

\* Starting at a table that has a session means entering that one; when its
\* bill is under way, only who sits there already.
FindActive(h) ==
  /\ At(h, "current")
  /\ \/ OpenAt(req[h].table) = {} /\ Continue(h, "create")
     \/ \E s \in OpenAt(req[h].table) :
          IF status[s] # "ACTIVE" /\ req[h].session # s THEN Finish(h)
          ELSE Enter(h, s)
  /\ UNCHANGED <<tables, sessions>>

OpenSession(h) ==
  /\ At(h, "create")
  /\ \E s \in Sessions :
       /\ status[s] = "none"
       /\ status' = [status EXCEPT ![s] = "ACTIVE"]
       /\ place' = [place EXCEPT ![s] = req[h].table]
       /\ member' = [member EXCEPT ![s][req[h].guest] =
                       [n |-> 1, host |-> TRUE, active |-> TRUE]]
  /\ Finish(h)
  /\ UNCHANGED tables

InsertMember(h) ==
  /\ At(h, "insert")
  /\ member' = [member EXCEPT ![req[h].session][req[h].guest] =
                  [n |-> @.n + 1, host |-> @.host, active |-> TRUE]]
  /\ Finish(h)
  /\ UNCHANGED <<tables, status, place>>

Reactivate(h) ==
  /\ At(h, "rejoin")
  /\ member' = [member EXCEPT ![req[h].session][req[h].guest] =
                  [n |-> @.n, host |-> @.host, active |-> TRUE]]
  /\ Finish(h)
  /\ UNCHANGED <<tables, status, place>>

(***************************************************************************)
(* leaveSession, and what may happen to any request.                      *)
(***************************************************************************)
LeaveSession(h, g, s) ==
  /\ At(h, "idle") /\ ~ UserLocked(g)
  /\ IsOpen(s) /\ member[s][g].active
  /\ req' = [req EXCEPT ![h] = [pc |-> "leave", op |-> "leave", guest |-> g,
               table |-> None, session |-> s, link |-> <<0, 0>>]]
  /\ UNCHANGED <<tables, sessions>>

Deactivate(h) ==
  /\ At(h, "leave")
  /\ member' = [member EXCEPT ![req[h].session][req[h].guest] =
                  [n |-> @.n, host |-> @.host, active |-> FALSE]]
  /\ Finish(h)
  /\ UNCHANGED <<tables, status, place>>

\* The process or the connection dies: the transaction is rolled back.
RollBack(h) ==
  /\ ~ At(h, "idle")
  /\ Finish(h)
  /\ UNCHANGED <<tables, sessions>>

(***************************************************************************)
(* The bill and its payments, as far as a session's status goes: under    *)
(* the session's own lock, at any time, for any session.                  *)
(***************************************************************************)
BillingMoves(s) ==
  /\ \E st \in AfterBilling(status[s]) : status' = [status EXCEPT ![s] = st]
  /\ UNCHANGED <<tables, place, member, req>>

(***************************************************************************)
(* Tables, as managers keep them.                                         *)
(***************************************************************************)
CreateTable(t) ==
  /\ ~ Exists(t) /\ generated < MaxTokens
  /\ generated' = generated + 1
  /\ table' = [table EXCEPT ![t] = [hash |-> generated', ver |-> 1, active |-> TRUE]]
  /\ issued' = [issued EXCEPT ![t] = {<<1, generated'>>}]
  /\ UNCHANGED <<retired, sessions, req, edit>>

\* updateManagedTable: display name and capacity are not modelled.
UpdateTable(m, t) ==
  /\ edit[m].pc = "idle" /\ Exists(t)
  /\ \E on \in BOOLEAN :
       edit' = [edit EXCEPT ![m] = [pc |-> "read", table |-> t, cols |-> {},
                  entity |-> [hash |-> table[t].hash, ver |-> table[t].ver, active |-> on],
                  prints |-> FALSE]]
  /\ UNCHANGED <<rows, sessions, req>>

RegenerateQr(m, t) ==
  /\ edit[m].pc = "idle" /\ Exists(t) /\ generated < MaxTokens
  /\ generated' = generated + 1
  /\ edit' = [edit EXCEPT ![m] = [pc |-> "read", table |-> t, cols |-> {},
                entity |-> [hash |-> generated', ver |-> table[t].ver + 1,
                            active |-> table[t].active],
                prints |-> TRUE]]
  /\ UNCHANGED <<table, issued, retired, sessions, req>>

CompareTable(m) ==
  /\ edit[m].pc = "read"
  /\ edit' = [edit EXCEPT ![m] = [pc |-> "save", table |-> @.table,
                cols |-> Changed(@.entity, table[@.table]),
                entity |-> @.entity, prints |-> @.prints]]
  /\ UNCHANGED <<rows, sessions, req>>

\* The answer to a regeneration prints the entity's version and its token.
SaveTable(m) ==
  /\ edit[m].pc = "save"
  /\ LET t == edit[m].table
         new == Written(table[t], edit[m].entity, edit[m].cols) IN
     /\ edit[m].cols = {} \/ ~ TableLocked(t)
     /\ table' = [table EXCEPT ![t] = new]
     /\ retired' = [retired EXCEPT ![t] =
                      IF new.hash = table[t].hash THEN @ ELSE @ \union {table[t].hash}]
     /\ issued' = [issued EXCEPT ![t] =
                     IF edit[m].prints
                     THEN @ \union {<<edit[m].entity.ver, edit[m].entity.hash>>} ELSE @]
  /\ edit' = [edit EXCEPT ![m] = NoEdit]
  /\ UNCHANGED <<generated, sessions, req>>

Request(h) ==
  \/ \E g \in Guests, t \in Tables : \E link \in issued[t] : StartSession(h, g, t, link)
  \/ \E g \in Guests, s \in Sessions : \E t \in Tables : \E link \in issued[t] :
       place[s] = t /\ JoinSession(h, g, s, link)
  \/ \E g \in Guests, s \in Sessions : LeaveSession(h, g, s)
  \/ RollBack(h)

Proceed(h) ==
  \/ FindCurrent(h)
  \/ FindActive(h)
  \/ OpenSession(h)
  \/ InsertMember(h)
  \/ Reactivate(h)
  \/ Deactivate(h)

Manage(m) ==
  \/ \E t \in Tables : UpdateTable(m, t) \/ RegenerateQr(m, t)
  \/ CompareTable(m)
  \/ SaveTable(m)

Next ==
  \/ \E h \in Handlers : Request(h) \/ LockTable(h) \/ Proceed(h)
  \/ \E t \in Tables : CreateTable(t)
  \/ \E m \in Managers : Manage(m)
  \/ \E s \in Sessions : BillingMoves(s)

Spec == Init /\ [][Next]_vars

-----------------------------------------------------------------------------
TypeOK ==
  /\ table \in [Tables -> TableRow]
  /\ issued \in [Tables -> SUBSET (Nat \X Tokens)]
  /\ retired \in [Tables -> SUBSET Tokens]
  /\ generated \in Tokens
  /\ status \in [Sessions -> Status]
  /\ place \in [Sessions -> Tables \union {None}]
  /\ member \in [Sessions -> [Guests -> Membership]]
  /\ req \in [Handlers -> Requests]
  /\ edit \in [Managers -> Edits]

\* A table is never taken by two parties: however many guests start, join,
\* leave and rejoin at once, it has at most one session that is not closed.
OneSessionPerTable ==
  \A s, r \in Sessions : IsOpen(s) /\ IsOpen(r) /\ place[s] = place[r] => s = r

\* A customer sits in one open session at most, though joinSession trusts a
\* status it read before it waited for the table.
OneSessionPerGuest ==
  \A g \in Guests : \A s, r \in CurrentOf(g) : s = r

\* A guest has one membership row in a session, joined and left any number of
\* times, and every session has exactly one host.
MembersUnique ==
  \A s \in Sessions :
    /\ \A g \in Guests : member[s][g].n <= 1
    /\ status[s] # "none" =>
         \E g \in Guests : \A k \in Guests : member[s][k].host <=> k = g

\* Nobody shares a table with strangers, sits at two, or is a member of a
\* session twice: what requests read before they waited for a lock is still
\* so when they write.
SeatsExclusive == OneSessionPerTable /\ OneSessionPerGuest /\ MembersUnique

\* Nobody gets to a table by a QR code that has been replaced or switched off,
\* though managers edit tables at any time and the code was checked earlier in
\* the request than the membership is written.
EntersOnValidQr ==
  [][\A s \in Sessions, g \in Guests :
       member'[s][g].active /\ ~ member[s][g].active =>
         \E h \in Handlers : req[h].guest = g /\ Accepts(place'[s], req[h].link)]_vars

\* Requests that read, wait and write in several steps implement visits that
\* are decided in one.
Stage == [none |-> "new", ACTIVE |-> "dining", BILL_REQUESTED |-> "paying",
          PAYMENT_PENDING |-> "paying", COMPLETED |-> "over"]

House == INSTANCE TableSeating WITH
  stage <- [s \in Sessions |-> Stage[status[s]]],
  spot <- place,
  party <- [s \in Sessions |-> {g \in Guests : member[s][g].active}]

SeatingSpec == House!Spec

\* Claimed by the operation's summary (dine-in-management.controller.ts:120):
\* regenerating a QR token invalidates the previous token for good.
RetiredTokenStaysDead ==
  [][\A t \in Tables : table'[t].hash # table[t].hash => table'[t].hash \notin retired[t]]_vars

\* The condition under which that is so: managers never edit a table at once.
EditsApart ==
  \A m, n \in Managers :
    edit[m].pc # "idle" /\ edit[n].pc # "idle" /\ edit[m].table = edit[n].table => m = n

=============================================================================
