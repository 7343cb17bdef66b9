----------------------- MODULE DineInSessions_proofs -----------------------
(***************************************************************************)
(* Theorems about DineInSessions, for every set of guests, tables,        *)
(* sessions and concurrent requests of customers and managers.            *)
(***************************************************************************)
EXTENDS DineInSessions, TLAPS

\* The row locks exclude: one request per customer, one per locked table.
LocksHeld ==
  \A h, k \in Handlers :
    /\ HoldsUser(h) /\ HoldsUser(k) /\ req[h].guest = req[k].guest => h = k
    /\ HoldsTable(h) /\ HoldsTable(k) /\ req[h].table = req[k].table => h = k

\* A name that is not used yet has no table and no members.
Unused ==
  \A s \in Sessions :
    /\ status[s] = "none" =>
         /\ place[s] = None
         /\ \A g \in Guests :
              member[s][g].n = 0 /\ ~ member[s][g].host /\ ~ member[s][g].active
    /\ status[s] # "none" => place[s] \in Tables

\* A table that can be scanned exists, and so does one that is being edited.
EditsSound ==
  /\ \A t \in Tables : table[t].active => Exists(t)
  /\ \A m \in Managers : edit[m].pc # "idle" =>
       edit[m].table \in Tables /\ Exists(edit[m].table) /\ edit[m].entity.ver # 0

Shape(r) ==
  /\ r.pc = "idle" <=> r.op = "none"
  /\ r.pc = "leave" <=> r.op = "leave"
  /\ r.pc \in {"current", "create"} => r.op = "start"
  /\ r.pc # "idle" => r.guest \in Guests
  /\ r.op \in {"start", "join"} => r.table \in Tables
  /\ r.op \in {"join", "leave"} \/ r.pc \in {"insert", "rejoin"} => r.session \in Sessions

\* What a request read is still true when it is used, thanks to its locks.
Knows(h) ==
  LET r == req[h] IN
  /\ r.op = "join" \/ r.pc \in {"insert", "rejoin"} => place[r.session] = r.table
  /\ HoldsTable(h) => Accepts(r.table, r.link)
  /\ r.pc \in {"current", "create"} => \A s \in CurrentOf(r.guest) : ~ Elsewhere(h, s)
  /\ r.pc \in {"insert", "rejoin"} => CurrentOf(r.guest) \subseteq {r.session}
  /\ r.pc = "create" => OpenAt(r.table) = {}
  /\ r.pc = "insert" => member[r.session][r.guest].n = 0

Seating == OneSessionPerTable /\ OneSessionPerGuest /\ MembersUnique /\ Unused

IInv ==
  /\ TypeOK
  /\ LocksHeld
  /\ Seating
  /\ EditsSound
  /\ \A h \in Handlers : Shape(req[h]) /\ Knows(h)

-----------------------------------------------------------------------------

\* Nothing exists at first.
LEMMA InitIInv == Init => IInv
<1> SUFFICES ASSUME Init PROVE IInv
  OBVIOUS
<1>1. TypeOK
  BY TokensAssumption
  DEF Init, TypeOK, Tokens, TableRow, NoTable, Status, OpenStatus, Membership, NoMember,
      Requests, Idle, Edits, NoEdit
<1>2. LocksHeld /\ EditsSound
  BY DEF Init, LocksHeld, EditsSound, HoldsUser, HoldsTable, At, Idle, NoTable, NoEdit, Exists
<1>3. Seating
  BY DEF Init, Seating, OneSessionPerTable, OneSessionPerGuest, MembersUnique, Unused,
      IsOpen, OpenStatus, CurrentOf, NoMember
<1>4. \A h \in Handlers : Shape(req[h]) /\ Knows(h)
  BY DEF Init, Shape, Knows, HoldsTable, At, Idle
<1> QED
  BY <1>1, <1>2, <1>3, <1>4 DEF IInv

(***************************************************************************)
(* What a step does to the sessions.                                      *)
(***************************************************************************)
Opens(h, s) ==
  /\ At(h, "create") /\ Finish(h) /\ status[s] = "none"
  /\ status' = [status EXCEPT ![s] = "ACTIVE"]
  /\ place' = [place EXCEPT ![s] = req[h].table]
  /\ member' = [member EXCEPT ![s][req[h].guest] = [n |-> 1, host |-> TRUE, active |-> TRUE]]

Seats(h) ==
  /\ req[h].pc \in {"insert", "rejoin"} /\ Finish(h)
  /\ \E row \in Membership :
       /\ row.active /\ row.n <= 1
       /\ row.host = member[req[h].session][req[h].guest].host
       /\ member' = [member EXCEPT ![req[h].session][req[h].guest] = row]
  /\ UNCHANGED <<status, place>>

Leaves(s, g) ==
  /\ member' = [member EXCEPT ![s][g] = [n |-> @.n, host |-> @.host, active |-> FALSE]]
  /\ UNCHANGED <<status, place>>

Bills(s) ==
  /\ IsOpen(s)
  /\ \E st \in Status \ {"none"} :
       st \in AfterBilling(status[s]) /\ status' = [status EXCEPT ![s] = st]
  /\ UNCHANGED <<place, member>>

\* The rows of the sessions change in one of these ways, and a table only
\* while nobody holds it.
Effect ==
  /\ \/ UNCHANGED sessions
     \/ \E h \in Handlers, s \in Sessions : Opens(h, s)
     \/ \E h \in Handlers : Seats(h)
     \/ \E s \in Sessions, g \in Guests : Leaves(s, g)
     \/ \E s \in Sessions : Bills(s)
  /\ \A t \in Tables : table'[t] = table[t] \/ ~ TableLocked(t)

\* Saving an entity that differs in no column leaves the row as it is.
LEMMA NothingWritten ==
  ASSUME NEW row \in TableRow, NEW entity
  PROVE  Written(row, entity, {}) = row
BY DEF Written, TableRow

LEMMA WrittenRow ==
  ASSUME NEW row \in TableRow, NEW entity \in TableRow, NEW cols
  PROVE  /\ Written(row, entity, cols) \in TableRow
         /\ Written(row, entity, cols).ver \in {row.ver, entity.ver}
BY DEF Written, TableRow

\* Every step has one of the effects.
LEMMA NextEffect ==
  ASSUME IInv, [Next]_vars
  PROVE  Effect
<1> USE DEF sessions, tables, rows
<1>1. CASE UNCHANGED vars
  BY <1>1 DEF vars, Effect
<1>2. ASSUME NEW h \in Handlers, Request(h) \/ LockTable(h) \/ FindCurrent(h) \/ FindActive(h)
      PROVE  Effect
  BY <1>2 DEF Request, StartSession, JoinSession, LeaveSession, RollBack, LockTable,
              FindCurrent, FindActive, Effect
<1>3. ASSUME NEW h \in Handlers, OpenSession(h)
      PROVE  Effect
  BY <1>3 DEF OpenSession, Opens, Effect
<1>4. ASSUME NEW h \in Handlers, InsertMember(h) \/ Reactivate(h)
      PROVE  Effect
  <2> DEFINE s == req[h].session
             g == req[h].guest
  <2>1. s \in Sessions /\ g \in Guests /\ req[h].pc \in {"insert", "rejoin"}
    BY <1>4 DEF InsertMember, Reactivate, At, IInv, Shape
  <2>2. member[s][g] \in Membership /\ member[s][g].n <= 1
    BY <2>1 DEF IInv, TypeOK, Seating, MembersUnique
  <2>3. CASE InsertMember(h)
    <3>1. member[s][g].n = 0
      BY <2>1, <2>3 DEF InsertMember, At, IInv, Knows
    <3>2. PICK row \in Membership : row = [n |-> 1, host |-> member[s][g].host, active |-> TRUE]
      BY <2>2 DEF Membership
    <3>3. row.active /\ row.host = member[s][g].host /\ row.n <= 1
      BY <3>2
    <3>4. member' = [member EXCEPT ![s][g] = row]
      BY <2>1, <2>3, <3>1, <3>2 DEF InsertMember, IInv, TypeOK
    <3>5. Seats(h)
      BY <2>1, <2>3, <3>3, <3>4 DEF InsertMember, Seats
    <3> QED
      BY <2>3, <3>5 DEF InsertMember, Effect
  <2>4. CASE Reactivate(h)
    <3>1. PICK row \in Membership : row = [n |-> member[s][g].n, host |-> member[s][g].host, active |-> TRUE]
      BY <2>2 DEF Membership
    <3>2. row.active /\ row.host = member[s][g].host /\ row.n <= 1
      BY <2>2, <3>1 DEF Membership
    <3>3. member' = [member EXCEPT ![s][g] = row]
      BY <2>1, <2>2, <2>4, <3>1 DEF Reactivate, IInv, TypeOK
    <3>4. Seats(h)
      BY <2>1, <2>4, <3>2, <3>3 DEF Reactivate, Seats
    <3> QED
      BY <2>4, <3>4 DEF Reactivate, Effect
  <2> QED
    BY <1>4, <2>3, <2>4
<1>5. ASSUME NEW h \in Handlers, Deactivate(h)
      PROVE  Effect
  <2>1. req[h].session \in Sessions /\ req[h].guest \in Guests
    BY <1>5 DEF Deactivate, At, IInv, Shape
  <2> QED
    BY <1>5, <2>1 DEF Deactivate, Leaves, Effect
<1>6. ASSUME NEW s \in Sessions, BillingMoves(s)
      PROVE  Effect
  BY <1>6 DEF BillingMoves, AfterBilling, Bills, IsOpen, OpenStatus, Status, Effect
<1>7. ASSUME NEW t \in Tables, CreateTable(t)
      PROVE  Effect
  <2>1. ~ TableLocked(t)
    BY <1>7 DEF CreateTable, TableLocked, IInv, EditsSound, Knows, Accepts
  <2> QED
    BY <1>7, <2>1 DEF CreateTable, Effect, IInv, TypeOK
<1>8. ASSUME NEW m \in Managers, Manage(m)
      PROVE  Effect
  <2>1. CASE SaveTable(m)
    <3>1. edit[m].table \in Tables /\ table[edit[m].table] \in TableRow
      BY <2>1 DEF SaveTable, IInv, EditsSound, TypeOK
    <3>2. edit[m].cols = {} => table' = [table EXCEPT ![edit[m].table] = table[edit[m].table]]
      BY <2>1, <3>1, NothingWritten DEF SaveTable
    <3> QED
      BY <2>1, <3>1, <3>2 DEF SaveTable, Effect, IInv, TypeOK
  <2>2. CASE CompareTable(m) \/ \E t \in Tables : UpdateTable(m, t) \/ RegenerateQr(m, t)
    BY <2>2 DEF CompareTable, UpdateTable, RegenerateQr, Effect
  <2> QED
    BY <1>8, <2>1, <2>2 DEF Manage
<1> QED
  BY <1>1, <1>2, <1>3, <1>4, <1>5, <1>6, <1>7, <1>8 DEF Next, Proceed

\* The tables of sessions and members stay sound.
LEMMA SeatingKept ==
  ASSUME IInv, Effect
  PROVE  Seating'
<1> USE NoneAssumption DEF IInv, TypeOK
<1>1. CASE UNCHANGED sessions
  BY <1>1 DEF sessions, Seating, OneSessionPerTable, OneSessionPerGuest, MembersUnique,
              Unused, IsOpen, CurrentOf
<1>2. ASSUME NEW h \in Handlers, NEW s \in Sessions, Opens(h, s)
      PROVE  Seating'
  <2> DEFINE t == req[h].table
             g == req[h].guest
  <2>1. t \in Tables /\ g \in Guests /\ OpenAt(t) = {}
    BY <1>2 DEF Opens, At, Shape, Knows
  <2>2. \A r \in CurrentOf(g) : FALSE
    BY <1>2, <2>1 DEF Opens, At, Shape, Knows, CurrentOf, OpenAt, Elsewhere
  <2>3. \A r \in Sessions :
          /\ r # s => status'[r] = status[r] /\ place'[r] = place[r] /\ member'[r] = member[r]
          /\ r = s => status'[r] = "ACTIVE" /\ place'[r] = t
    BY <1>2 DEF Opens
  <2>4. /\ \A k \in Guests : k # g =>
             member'[s][k].n = 0 /\ ~ member'[s][k].host /\ ~ member'[s][k].active
        /\ member'[s][g] = [n |-> 1, host |-> TRUE, active |-> TRUE]
    BY <1>2, <2>1 DEF Opens, Seating, Unused
  <2>5. OneSessionPerTable'
    BY <2>1, <2>3 DEF Seating, OneSessionPerTable, IsOpen, OpenAt
  <2>6. OneSessionPerGuest'
    BY <2>2, <2>3, <2>4 DEF Seating, OneSessionPerGuest, IsOpen, CurrentOf
  <2>7. MembersUnique'
    <3>1. \A k \in Guests : member'[s][k].n <= 1 /\ (member'[s][k].host <=> k = g)
      BY <2>4
    <3>2. \E j \in Guests : \A k \in Guests : member'[s][k].host <=> k = j
      BY <2>1, <3>1, Zenon
    <3>3. \A r \in Sessions : r # s => status'[r] = status[r] /\ member'[r] = member[r]
      BY <2>3
    <3>4. ASSUME NEW r \in Sessions
          PROVE  /\ \A k \in Guests : member'[r][k].n <= 1
                 /\ status'[r] # "none" =>
                      \E j \in Guests : \A k \in Guests : member'[r][k].host <=> k = j
      <4>1. CASE r = s
        BY <3>1, <3>2, <4>1, Zenon
      <4>2. CASE r # s
        BY <3>3, <4>2, Zenon DEF Seating, MembersUnique
      <4> QED
        BY <4>1, <4>2
    <3> QED
      BY <3>4, Zenon DEF MembersUnique
  <2>8. Unused'
    BY <2>1, <2>3 DEF Seating, Unused
  <2> QED
    BY <2>5, <2>6, <2>7, <2>8 DEF Seating
<1>3. ASSUME NEW h \in Handlers, Seats(h)
      PROVE  Seating'
  <2> DEFINE s == req[h].session
             g == req[h].guest
  <2>1. s \in Sessions /\ g \in Guests /\ place[s] = req[h].table /\ req[h].table \in Tables
    BY <1>3 DEF Seats, Shape, Knows, Requests
  <2>2. status[s] # "none" /\ UNCHANGED <<status, place>>
    BY <1>3, <2>1 DEF Seats, Seating, Unused
  <2>3. /\ \A r \in Sessions, k \in Guests :
             r # s \/ k # g => member'[r][k] = member[r][k]
        /\ member'[s][g].n <= 1 /\ (member'[s][g].host <=> member[s][g].host)
    BY <1>3, <2>1 DEF Seats
  <2>4. CurrentOf(g) \subseteq {s}
    BY <1>3, <2>1 DEF Seats, Knows
  <2>5. OneSessionPerTable'
    BY <2>2 DEF Seating, OneSessionPerTable, IsOpen
  <2>6. OneSessionPerGuest'
    BY <2>1, <2>2, <2>3, <2>4 DEF Seating, OneSessionPerGuest, IsOpen, CurrentOf
  <2>7. MembersUnique'
    <3>1. \A r \in Sessions, k \in Guests :
            member'[r][k].n <= 1 /\ (member'[r][k].host <=> member[r][k].host)
      BY <2>1, <2>3 DEF Seating, MembersUnique
    <3> QED
      BY <2>2, <3>1 DEF Seating, MembersUnique
  <2>8. Unused'
    BY <2>2, <2>3 DEF Seating, Unused
  <2> QED
    BY <2>5, <2>6, <2>7, <2>8 DEF Seating
<1>4. ASSUME NEW s \in Sessions, NEW g \in Guests, Leaves(s, g)
      PROVE  Seating'
  <2>1. \A r \in Sessions, k \in Guests :
          /\ member'[r][k].n = member[r][k].n
          /\ member'[r][k].host <=> member[r][k].host
          /\ member'[r][k].active => member[r][k].active
    BY <1>4 DEF Leaves, Membership
  <2>2. UNCHANGED <<status, place>>
    BY <1>4 DEF Leaves
  <2>3. OneSessionPerTable'
    BY <2>2 DEF Seating, OneSessionPerTable, IsOpen
  <2>4. OneSessionPerGuest'
    <3>1. \A k \in Guests : CurrentOf(k)' \subseteq CurrentOf(k)
      BY <2>1, <2>2, Zenon DEF CurrentOf, IsOpen
    <3> QED
      BY <3>1, Zenon DEF Seating, OneSessionPerGuest
  <2>5. MembersUnique'
    <3>1. ASSUME NEW r \in Sessions
          PROVE  /\ \A k \in Guests : member'[r][k].n <= 1
                 /\ status'[r] # "none" =>
                      \E j \in Guests : \A k \in Guests : member'[r][k].host <=> k = j
      <4>1. \A k \in Guests : member'[r][k].n <= 1
        BY <2>1, Zenon DEF Seating, MembersUnique
      <4>2. ASSUME status'[r] # "none"
            PROVE  \E j \in Guests : \A k \in Guests : member'[r][k].host <=> k = j
        <5>1. PICK j \in Guests : \A k \in Guests : member[r][k].host <=> k = j
          BY <2>2, <4>2 DEF Seating, MembersUnique
        <5> QED
          BY <2>1, <5>1, Zenon
      <4> QED
        BY <4>1, <4>2
    <3> QED
      BY <3>1, Zenon DEF MembersUnique
  <2>6. Unused'
    <3>1. ASSUME NEW r \in Sessions, status'[r] = "none"
          PROVE  /\ place'[r] = None
                 /\ \A k \in Guests :
                      member'[r][k].n = 0 /\ ~ member'[r][k].host /\ ~ member'[r][k].active
      <4>1. /\ place[r] = None
            /\ \A k \in Guests :
                 member[r][k].n = 0 /\ ~ member[r][k].host /\ ~ member[r][k].active
        BY <2>2, <3>1 DEF Seating, Unused
      <4>2. place'[r] = None
        BY <2>2, <4>1
      <4> QED
        BY <2>1, <4>1, <4>2, Zenon
    <3>2. \A r \in Sessions : status'[r] # "none" => place'[r] \in Tables
      BY <2>2 DEF Seating, Unused
    <3> QED
      BY <3>1, <3>2, Zenon DEF Unused
  <2> QED
    BY <2>3, <2>4, <2>5, <2>6 DEF Seating
<1>5. ASSUME NEW s \in Sessions, Bills(s)
      PROVE  Seating'
  <2>1. /\ \A r \in Sessions : IsOpen(r)' => IsOpen(r)
        /\ \A r \in Sessions : status'[r] = "none" <=> status[r] = "none"
        /\ UNCHANGED <<place, member>>
    BY <1>5 DEF Bills, IsOpen, OpenStatus
  <2> QED
    BY <2>1 DEF Seating, OneSessionPerTable, OneSessionPerGuest, MembersUnique, Unused, CurrentOf
<1> QED
  BY <1>1, <1>2, <1>3, <1>4, <1>5 DEF Effect

(***************************************************************************)
(* What a step does to the requests: it moves at most one.                *)
(***************************************************************************)
Moves(h) ==
  /\ \A k \in Handlers : k # h => req'[k] = req[k]
  /\ \/ req'[h] = Idle
     \/ At(h, "idle") /\ ~ UserLocked(req'[h].guest) /\ req'[h].pc \in {"checked", "leave"}
        /\ (req'[h].pc = "leave" <=> req'[h].op = "leave")
     \/ /\ req'[h].guest = req[h].guest /\ req'[h].table = req[h].table
        /\ ~ At(h, "idle")
        /\ HoldsTable(h) \/ ~ TableLocked(req[h].table)

LEMMA NextMoves ==
  ASSUME IInv, [Next]_vars
  PROVE  UNCHANGED req \/ \E h \in Handlers : Moves(h)
<1> USE DEF IInv, TypeOK
<1>1. CASE UNCHANGED vars
  BY <1>1 DEF vars
<1>2. ASSUME NEW h \in Handlers, Request(h)
      PROVE  Moves(h)
  BY <1>2 DEF Request, StartSession, JoinSession, LeaveSession, RollBack, Finish, Moves, Idle
<1>3. ASSUME NEW h \in Handlers, LockTable(h)
      PROVE  Moves(h)
  BY <1>3 DEF LockTable, Finish, Continue, Moves, At, Requests
<1>4. ASSUME NEW h \in Handlers, FindCurrent(h) \/ FindActive(h)
      PROVE  Moves(h)
  <2>1. HoldsTable(h) /\ ~ At(h, "idle")
    BY <1>4 DEF FindCurrent, FindActive, At, HoldsTable, Shape
  <2>2. \A k \in Handlers : k # h => req'[k] = req[k]
    BY <1>4 DEF FindCurrent, FindActive, Enter, Finish, Continue, Goto
  <2>3. req'[h] = Idle \/ (req'[h].guest = req[h].guest /\ req'[h].table = req[h].table)
    BY <1>4 DEF FindCurrent, FindActive, Enter, Finish, Continue, Goto, Requests
  <2> QED
    BY <2>1, <2>2, <2>3 DEF Moves
<1>5. ASSUME NEW h \in Handlers,
             OpenSession(h) \/ InsertMember(h) \/ Reactivate(h) \/ Deactivate(h)
      PROVE  Moves(h)
  BY <1>5 DEF OpenSession, InsertMember, Reactivate, Deactivate, Finish, Moves
<1>6. CASE \E s \in Sessions : BillingMoves(s)
  BY <1>6 DEF BillingMoves
<1>7. CASE \E t \in Tables : CreateTable(t)
  BY <1>7 DEF CreateTable
<1>8. CASE \E m \in Managers : Manage(m)
  BY <1>8 DEF Manage, CompareTable, SaveTable, UpdateTable, RegenerateQr
<1> QED
  BY <1>1, <1>2, <1>3, <1>4, <1>5, <1>6, <1>7, <1>8 DEF Next, Proceed

\* The locks go on excluding each other.
LEMMA LocksKept ==
  ASSUME IInv, UNCHANGED req \/ \E h \in Handlers : Moves(h)
  PROVE  LocksHeld'
<1>1. CASE UNCHANGED req
  BY <1>1 DEF IInv, LocksHeld, HoldsUser, HoldsTable, At
<1>2. ASSUME NEW h \in Handlers, Moves(h)
      PROVE  LocksHeld'
  <2>1. /\ \A k \in Handlers : k # h => (HoldsUser(k)' <=> HoldsUser(k))
        /\ \A k \in Handlers : k # h => (HoldsTable(k)' <=> HoldsTable(k))
    BY <1>2 DEF Moves, HoldsUser, HoldsTable, At
  <2>2. ASSUME NEW k \in Handlers, k # h, HoldsUser(h)', HoldsUser(k)
        PROVE  req'[h].guest # req[k].guest
    BY <1>2, <2>2 DEF Moves, HoldsUser, At, UserLocked, Idle, IInv, LocksHeld
  <2>3. ASSUME NEW k \in Handlers, k # h, HoldsTable(h)', HoldsTable(k)
        PROVE  req'[h].table # req[k].table
    BY <1>2, <2>3 DEF Moves, HoldsTable, At, TableLocked, Idle, IInv, LocksHeld
  <2> QED
    BY <1>2, <2>1, <2>2, <2>3 DEF Moves, LocksHeld, IInv
<1> QED
  BY <1>1, <1>2

(***************************************************************************)
(* Types, and what is known of the tables being edited.                   *)
(***************************************************************************)
RowsTyped ==
  /\ table \in [Tables -> TableRow]
  /\ issued \in [Tables -> SUBSET (Nat \X Tokens)]
  /\ retired \in [Tables -> SUBSET Tokens]
  /\ generated \in Tokens
  /\ edit \in [Managers -> Edits]

LEMMA RowsKept ==
  ASSUME IInv, [Next]_vars
  PROVE  RowsTyped' /\ EditsSound'
<1> USE DEF rows, tables
<1>0. RowsTyped /\ EditsSound
  BY DEF IInv, TypeOK, RowsTyped
<1>1. CASE UNCHANGED tables
  BY <1>0, <1>1 DEF RowsTyped, EditsSound, Exists
<1>2. ASSUME NEW t \in Tables, CreateTable(t)
      PROVE  RowsTyped' /\ EditsSound'
  <2>1. generated' \in Tokens /\ generated' = generated + 1
    BY <1>0, <1>2, TokensAssumption DEF CreateTable, RowsTyped, Tokens
  <2>2. RowsTyped'
    BY <1>0, <1>2, <2>1 DEF CreateTable, RowsTyped, TableRow
  <2>3. EditsSound'
    BY <1>0, <1>2, <2>1 DEF CreateTable, RowsTyped, EditsSound, Exists
  <2> QED
    BY <2>2, <2>3
<1>3. ASSUME NEW m \in Managers, NEW t \in Tables, UpdateTable(m, t)
      PROVE  RowsTyped' /\ EditsSound'
  <2>1. PICK on \in BOOLEAN :
          edit' = [edit EXCEPT ![m] = [pc |-> "read", table |-> t, cols |-> {},
                     entity |-> [hash |-> table[t].hash, ver |-> table[t].ver,
                                 active |-> on], prints |-> FALSE]]
    BY <1>3 DEF UpdateTable
  <2>2. PICK e \in TableRow :
          e = [hash |-> table[t].hash, ver |-> table[t].ver, active |-> on]
    <3>1. table[t] \in TableRow
      BY <1>0 DEF RowsTyped
    <3>2. table[t].hash \in Tokens /\ table[t].ver \in Nat
      BY <3>1 DEF TableRow
    <3> QED
      BY <3>2, Zenon DEF TableRow
  <2>3. UNCHANGED rows /\ Exists(t)
    BY <1>3 DEF UpdateTable
  <2>4. edit' = [edit EXCEPT ![m] = [pc |-> "read", table |-> t, cols |-> {},
                   entity |-> e, prints |-> FALSE]]
    BY <2>1, <2>2
  <2>5. RowsTyped'
    BY <1>0, <2>3, <2>4 DEF RowsTyped, Edits
  <2>6. EditsSound'
    BY <1>0, <2>2, <2>3, <2>4 DEF RowsTyped, EditsSound, Exists
  <2> QED
    BY <2>5, <2>6
<1>4. ASSUME NEW m \in Managers, NEW t \in Tables, RegenerateQr(m, t)
      PROVE  RowsTyped' /\ EditsSound'
  <2>1. generated' \in Tokens
    BY <1>0, <1>4, TokensAssumption DEF RegenerateQr, RowsTyped, Tokens
  <2>2. PICK e \in TableRow : e = [hash |-> generated', ver |-> table[t].ver + 1,
                                   active |-> table[t].active]
    <3>1. table[t] \in TableRow
      BY <1>0 DEF RowsTyped
    <3>2. table[t].ver + 1 \in Nat /\ table[t].active \in BOOLEAN
      BY <3>1 DEF TableRow
    <3> QED
      BY <2>1, <3>2, Zenon DEF TableRow
  <2>3. Exists(t) /\ UNCHANGED <<table, issued, retired>> /\ e.ver # 0
    BY <1>0, <1>4, <2>2 DEF RegenerateQr, RowsTyped, TableRow
  <2>4. edit' = [edit EXCEPT ![m] = [pc |-> "read", table |-> t, cols |-> {},
                   entity |-> e, prints |-> TRUE]]
    BY <1>4, <2>2 DEF RegenerateQr
  <2>5. RowsTyped'
    BY <1>0, <2>1, <2>3, <2>4 DEF RowsTyped, Edits
  <2>6. EditsSound'
    BY <1>0, <2>3, <2>4 DEF RowsTyped, EditsSound, Exists
  <2> QED
    BY <2>5, <2>6
<1>5. ASSUME NEW m \in Managers, CompareTable(m)
      PROVE  RowsTyped' /\ EditsSound'
  <2>1. edit[m] \in Edits /\ edit[m].table \in Tables
    BY <1>0, <1>5 DEF CompareTable, RowsTyped, EditsSound
  <2>2. Changed(edit[m].entity, table[edit[m].table]) \in SUBSET {"hash", "ver", "active"}
    BY <2>1 DEF Changed, Edits, TableRow
  <2>3. PICK cs \in SUBSET {"hash", "ver", "active"} :
          edit' = [edit EXCEPT ![m] = [pc |-> "save", table |-> edit[m].table, cols |-> cs,
                     entity |-> edit[m].entity, prints |-> edit[m].prints]]
    BY <1>0, <1>5, <2>2 DEF CompareTable, RowsTyped
  <2>4. [pc |-> "save", table |-> edit[m].table, cols |-> cs,
         entity |-> edit[m].entity, prints |-> edit[m].prints] \in Edits
    <3>1. edit[m].entity \in TableRow /\ edit[m].prints \in BOOLEAN
      BY <2>1 DEF Edits
    <3> QED
      BY <2>1, <3>1, Zenon DEF Edits
  <2>5. RowsTyped'
    BY <1>0, <1>5, <2>3, <2>4, Zenon DEF CompareTable, RowsTyped
  <2>6. EditsSound'
    BY <1>0, <1>5, <2>1, <2>3 DEF CompareTable, RowsTyped, EditsSound, Exists
  <2> QED
    BY <2>5, <2>6
<1>6. ASSUME NEW m \in Managers, SaveTable(m)
      PROVE  RowsTyped' /\ EditsSound'
  <2> DEFINE t == edit[m].table
             new == Written(table[t], edit[m].entity, edit[m].cols)
  <2>1. /\ edit[m] \in Edits /\ edit[m].entity \in TableRow /\ t \in Tables
        /\ Exists(t) /\ edit[m].entity.ver # 0
    BY <1>0, <1>6 DEF SaveTable, RowsTyped, EditsSound, Edits
  <2>2. table[t] \in TableRow
    BY <1>0, <2>1 DEF RowsTyped
  <2>3. new \in TableRow /\ new.ver # 0
    BY <2>1, <2>2, WrittenRow DEF Exists
  <2>4. PICK row \in TableRow : row = new
    BY <2>3
  <2>5. /\ table' = [table EXCEPT ![t] = row] /\ row.ver # 0
        /\ edit' = [edit EXCEPT ![m] = NoEdit] /\ generated' = generated
    BY <1>6, <2>3, <2>4 DEF SaveTable
  <2>6. table' \in [Tables -> TableRow] /\ generated' \in Tokens
    BY <1>0, <2>5 DEF RowsTyped
  <2>7. edit' \in [Managers -> Edits]
    <3>1. NoEdit \in Edits
      BY TokensAssumption DEF Edits, NoEdit, NoTable, TableRow, Tokens
    <3> QED
      BY <1>0, <2>5, <3>1, Zenon DEF RowsTyped
  <2>8. issued' \in [Tables -> SUBSET (Nat \X Tokens)]
    <3>1. <<edit[m].entity.ver, edit[m].entity.hash>> \in Nat \X Tokens
      BY <2>1 DEF TableRow
    <3> QED
      BY <1>0, <1>6, <3>1 DEF SaveTable, RowsTyped
  <2>9. retired' \in [Tables -> SUBSET Tokens]
    <3>1. table[t].hash \in Tokens
      BY <2>2 DEF TableRow
    <3> QED
      BY <1>0, <1>6, <3>1 DEF SaveTable, RowsTyped
  <2>10. EditsSound'
    BY <1>0, <2>5 DEF RowsTyped, EditsSound, Exists, NoEdit
  <2> QED
    BY <2>6, <2>7, <2>8, <2>9, <2>10 DEF RowsTyped
<1>7. CASE UNCHANGED vars
  BY <1>1, <1>7 DEF vars
<1>8. CASE \E h \in Handlers : Request(h) \/ LockTable(h) \/ Proceed(h)
  BY <1>1, <1>8 DEF Request, StartSession, JoinSession, LeaveSession, RollBack, LockTable, Proceed,
     FindCurrent, FindActive, OpenSession, InsertMember, Reactivate, Deactivate
<1>9. CASE \E s \in Sessions : BillingMoves(s)
  BY <1>1, <1>9 DEF BillingMoves
<1> QED
  BY <1>2, <1>3, <1>4, <1>5, <1>6, <1>7, <1>8, <1>9 DEF Next, Manage

LEMMA SessionsTyped ==
  ASSUME IInv, Effect
  PROVE  /\ status' \in [Sessions -> Status]
         /\ place' \in [Sessions -> Tables \union {None}]
         /\ member' \in [Sessions -> [Guests -> Membership]]
<1> USE DEF IInv, TypeOK
<1>1. CASE UNCHANGED sessions
  BY <1>1 DEF sessions
<1>2. ASSUME NEW h \in Handlers, NEW s \in Sessions, Opens(h, s)
      PROVE  /\ status' \in [Sessions -> Status]
             /\ place' \in [Sessions -> Tables \union {None}]
             /\ member' \in [Sessions -> [Guests -> Membership]]
  BY <1>2 DEF Opens, Status, OpenStatus, Membership, Requests
<1>3. ASSUME NEW h \in Handlers, Seats(h)
      PROVE  /\ status' \in [Sessions -> Status]
             /\ place' \in [Sessions -> Tables \union {None}]
             /\ member' \in [Sessions -> [Guests -> Membership]]
  <2>1. req[h].session \in Sessions /\ req[h].guest \in Guests
    BY <1>3 DEF Seats, Shape
  <2> QED
    BY <1>3, <2>1 DEF Seats
<1>4. ASSUME NEW s \in Sessions, NEW g \in Guests, Leaves(s, g)
      PROVE  /\ status' \in [Sessions -> Status]
             /\ place' \in [Sessions -> Tables \union {None}]
             /\ member' \in [Sessions -> [Guests -> Membership]]
  <2>1. member[s][g] \in Membership
    OBVIOUS
  <2>2. PICK row \in Membership :
          row = [n |-> member[s][g].n, host |-> member[s][g].host, active |-> FALSE]
    BY <2>1 DEF Membership
  <2>3. member' = [member EXCEPT ![s][g] = row]
    BY <1>4, <2>2 DEF Leaves
  <2>4. member' \in [Sessions -> [Guests -> Membership]]
    BY <2>3
  <2> QED
    BY <1>4, <2>4 DEF Leaves
<1>5. ASSUME NEW s \in Sessions, Bills(s)
      PROVE  /\ status' \in [Sessions -> Status]
             /\ place' \in [Sessions -> Tables \union {None}]
             /\ member' \in [Sessions -> [Guests -> Membership]]
  BY <1>5 DEF Bills, Status
<1> QED
  BY <1>1, <1>2, <1>3, <1>4, <1>5 DEF Effect

(***************************************************************************)
(* What requests know.                                                    *)
(***************************************************************************)
\* What others do to the sessions takes no seat from under a request that
\* holds the locks of its guest and table, and gives its guest no other.
LEMMA OthersHarmless ==
  ASSUME IInv, Effect, NEW k \in Handlers, req'[k] = req[k], HoldsUser(k),
         NEW g, g = req[k].guest
  PROVE  /\ \A s \in Sessions : place[s] # None => place'[s] = place[s]
         /\ CurrentOf(g)' \subseteq CurrentOf(g)
         /\ HoldsTable(k) => OpenAt(req[k].table)' \subseteq OpenAt(req[k].table)
         /\ \A s \in Sessions : member[s][g].n = 0 => member'[s][g].n = 0
<1>0. g \in Guests /\ req[k] # Idle
  BY DEF IInv, Shape, HoldsUser, At, Idle
<1> USE DEF IInv, TypeOK
<1>1. CASE UNCHANGED sessions
  BY <1>1 DEF sessions, CurrentOf, OpenAt, IsOpen
<1>2. ASSUME NEW h \in Handlers, NEW s \in Sessions, Opens(h, s)
      PROVE  /\ \A r \in Sessions : place[r] # None => place'[r] = place[r]
             /\ CurrentOf(g)' \subseteq CurrentOf(g)
             /\ HoldsTable(k) => OpenAt(req[k].table)' \subseteq OpenAt(req[k].table)
             /\ \A r \in Sessions : member[r][g].n = 0 => member'[r][g].n = 0
  <2>1. h # k
    BY <1>0, <1>2 DEF Opens, Finish
  <2>2. req[h].guest # g /\ (HoldsTable(k) => req[h].table # req[k].table)
    BY <1>2, <2>1 DEF Opens, At, LocksHeld, HoldsUser, HoldsTable, Shape
  <2>3. place[s] = None /\ ~ member[s][g].active
    BY <1>0, <1>2 DEF Opens, Seating, Unused
  <2>4. \A r \in Sessions : member'[r][g] = member[r][g]
    BY <1>0, <1>2, <2>2 DEF Opens
  <2>5. /\ \A r \in Sessions : r # s => status'[r] = status[r] /\ place'[r] = place[r]
        /\ place'[s] = req[h].table
    BY <1>2 DEF Opens
  <2>6. CurrentOf(g)' \subseteq CurrentOf(g)
    BY <2>3, <2>4, <2>5 DEF CurrentOf, IsOpen
  <2>7. HoldsTable(k) => OpenAt(req[k].table)' \subseteq OpenAt(req[k].table)
    BY <2>2, <2>5 DEF OpenAt, IsOpen
  <2> QED
    BY <2>3, <2>4, <2>5, <2>6, <2>7
<1>3. ASSUME NEW h \in Handlers, Seats(h)
      PROVE  /\ \A r \in Sessions : place[r] # None => place'[r] = place[r]
             /\ CurrentOf(g)' \subseteq CurrentOf(g)
             /\ HoldsTable(k) => OpenAt(req[k].table)' \subseteq OpenAt(req[k].table)
             /\ \A r \in Sessions : member[r][g].n = 0 => member'[r][g].n = 0
  <2>1. h # k
    BY <1>0, <1>3 DEF Seats, Finish
  <2>2. req[h].guest # g
    BY <1>3, <2>1 DEF Seats, At, LocksHeld, HoldsUser
  <2>3. \A r \in Sessions : member'[r][g] = member[r][g]
    BY <1>0, <1>3, <2>2 DEF Seats
  <2> QED
    BY <1>3, <2>3 DEF Seats, CurrentOf, OpenAt, IsOpen
<1>4. ASSUME NEW s \in Sessions, NEW j \in Guests, Leaves(s, j)
      PROVE  /\ \A r \in Sessions : place[r] # None => place'[r] = place[r]
             /\ CurrentOf(g)' \subseteq CurrentOf(g)
             /\ HoldsTable(k) => OpenAt(req[k].table)' \subseteq OpenAt(req[k].table)
             /\ \A r \in Sessions : member[r][g].n = 0 => member'[r][g].n = 0
  <2>1. \A r \in Sessions :
          /\ member'[r][g].n = member[r][g].n
          /\ member'[r][g].active => member[r][g].active
    BY <1>0, <1>4 DEF Leaves, Membership
  <2>2. UNCHANGED <<status, place>>
    BY <1>4 DEF Leaves
  <2>3. CurrentOf(g)' \subseteq CurrentOf(g)
    BY <2>1, <2>2, Zenon DEF CurrentOf, IsOpen
  <2> QED
    BY <2>1, <2>2, <2>3 DEF OpenAt, IsOpen
<1>5. ASSUME NEW s \in Sessions, Bills(s)
      PROVE  /\ \A r \in Sessions : place[r] # None => place'[r] = place[r]
             /\ CurrentOf(g)' \subseteq CurrentOf(g)
             /\ HoldsTable(k) => OpenAt(req[k].table)' \subseteq OpenAt(req[k].table)
             /\ \A r \in Sessions : member[r][g].n = 0 => member'[r][g].n = 0
  BY <1>5 DEF Bills, CurrentOf, OpenAt, IsOpen
<1> QED
  BY <1>1, <1>2, <1>3, <1>4, <1>5 DEF Effect

\* So a request that does not move goes on knowing what it knew.
LEMMA KnowsStays ==
  ASSUME IInv, Effect, NEW k \in Handlers, req'[k] = req[k]
  PROVE  Knows(k)'
<1> DEFINE g == req[k].guest
<1>0. CASE req[k].pc = "idle"
  BY <1>0 DEF IInv, Knows, Shape, HoldsTable, At
<1>1. CASE req[k].pc # "idle"
  <2>1. HoldsUser(k) /\ g \in Guests /\ Shape(req[k]) /\ Knows(k) /\ req[k] \in Requests
    BY <1>1 DEF IInv, TypeOK, HoldsUser, At, Shape
  <2>2. /\ \A s \in Sessions : place[s] # None => place'[s] = place[s]
        /\ CurrentOf(g)' \subseteq CurrentOf(g)
        /\ HoldsTable(k) => OpenAt(req[k].table)' \subseteq OpenAt(req[k].table)
        /\ \A s \in Sessions : member[s][g].n = 0 => member'[s][g].n = 0
    BY <2>1, OthersHarmless
  <2>3. HoldsTable(k)' <=> HoldsTable(k)
    BY DEF HoldsTable, At
  <2>4. req[k].op = "join" \/ req[k].pc \in {"insert", "rejoin"} =>
          place'[req[k].session] = req[k].table
    BY <2>1, <2>2, NoneAssumption DEF Shape, Knows, Requests
  <2>5. HoldsTable(k) => Accepts(req[k].table, req[k].link)'
    BY <2>1 DEF HoldsTable, At, Shape, Knows, Requests, Effect, TableLocked, Accepts
  <2>6. req[k].pc \in {"current", "create"} => \A s \in CurrentOf(g)' : ~ Elsewhere(k, s)'
    <3> SUFFICES ASSUME req[k].pc \in {"current", "create"},
                        NEW s \in CurrentOf(g)'
                 PROVE  ~ Elsewhere(k, s)'
      OBVIOUS
    <3>1. s \in CurrentOf(g) /\ ~ Elsewhere(k, s)
      BY <2>1, <2>2 DEF Knows
    <3>2. s \in Sessions /\ place[s] # None
      BY <3>1, NoneAssumption DEF CurrentOf, IsOpen, OpenStatus, IInv, Seating, Unused
    <3> QED
      BY <2>2, <3>1, <3>2 DEF Elsewhere
  <2>7. req[k].pc = "create" => OpenAt(req[k].table)' = {}
    BY <2>1, <2>2 DEF Knows, Shape, HoldsTable, At
  <2>8. req[k].pc = "insert" => member'[req[k].session][g].n = 0
    BY <2>1, <2>2 DEF Knows, Shape
  <2>9. req[k].pc \in {"insert", "rejoin"} => CurrentOf(g)' \subseteq {req[k].session}
    BY <2>1, <2>2 DEF Knows
  <2> QED
    BY <2>3, <2>4, <2>5, <2>6, <2>7, <2>8, <2>9 DEF Knows, OpenAt
<1> QED
  BY <1>0, <1>1

\* A request that moves is sound afterwards, and no other moves.
MovedSoundly(h) ==
  /\ req' \in [Handlers -> Requests]
  /\ \A k \in Handlers : k # h => req'[k] = req[k]
  /\ Shape(req'[h]) /\ Knows(h)'

LEMMA FinishedSound ==
  ASSUME IInv, NEW h \in Handlers, Finish(h)
  PROVE  MovedSoundly(h)
<1>1. Idle \in Requests
  BY TokensAssumption DEF Idle, Requests, Tokens
<1>2. req' \in [Handlers -> Requests] /\ req'[h] = Idle
  BY <1>1 DEF Finish, IInv, TypeOK
<1>3. \A k \in Handlers : k # h => req'[k] = req[k]
  BY DEF Finish, IInv, TypeOK
<1>4. Shape(req'[h]) /\ Knows(h)'
  BY <1>2 DEF Shape, Knows, HoldsTable, At, Idle
<1> QED
  BY <1>2, <1>3, <1>4 DEF MovedSoundly

\* The parts of Requests and of req that the steps below build on.
LEMMA RequestParts ==
  ASSUME IInv, NEW h \in Handlers
  PROVE  /\ req[h].guest \in Guests \union {None} /\ req[h].table \in Tables \union {None}
         /\ req[h].session \in Sessions \union {None} /\ req[h].link \in Nat \X Tokens
         /\ req[h].op \in {"none", "start", "join", "leave"}
         /\ Shape(req[h]) /\ Knows(h)
BY DEF IInv, TypeOK, Requests

LEMMA RequestSound ==
  ASSUME IInv, NEW h \in Handlers, Request(h)
  PROVE  MovedSoundly(h)
<1> USE DEF IInv, TypeOK
<1>1. ASSUME NEW g \in Guests, NEW t \in Tables, NEW link \in issued[t],
             StartSession(h, g, t, link)
      PROVE  MovedSoundly(h)
  <2>1. link \in Nat \X Tokens
    OBVIOUS
  <2>2. PICK r \in Requests :
          r = [pc |-> "checked", op |-> "start", guest |-> g, table |-> t,
               session |-> None, link |-> link]
    BY <2>1 DEF Requests
  <2>3. req' = [req EXCEPT ![h] = r]
    BY <1>1, <2>2 DEF StartSession
  <2> QED
    BY <2>2, <2>3 DEF MovedSoundly, Shape, Knows, HoldsTable, At
<1>2. ASSUME NEW g \in Guests, NEW s \in Sessions, NEW t \in Tables, NEW link \in issued[t],
             place[s] = t, JoinSession(h, g, s, link)
      PROVE  MovedSoundly(h)
  <2>1. link \in Nat \X Tokens
    OBVIOUS
  <2>2. PICK r \in Requests :
          r = [pc |-> "checked", op |-> "join", guest |-> g, table |-> t,
               session |-> s, link |-> link]
    BY <2>1 DEF Requests
  <2>3. req' = [req EXCEPT ![h] = r] /\ UNCHANGED place
    BY <1>2, <2>2 DEF JoinSession, sessions
  <2> QED
    BY <1>2, <2>2, <2>3 DEF MovedSoundly, Shape, Knows, HoldsTable, At
<1>3. ASSUME NEW g \in Guests, NEW s \in Sessions, LeaveSession(h, g, s)
      PROVE  MovedSoundly(h)
  <2>0. <<0, 0>> \in Nat \X Tokens
    BY TokensAssumption DEF Tokens
  <2>1. PICK r \in Requests :
          r = [pc |-> "leave", op |-> "leave", guest |-> g, table |-> None,
               session |-> s, link |-> <<0, 0>>]
    BY <2>0, Zenon DEF Requests
  <2>2. req' = [req EXCEPT ![h] = r]
    BY <1>3, <2>1 DEF LeaveSession
  <2> QED
    BY <2>1, <2>2 DEF MovedSoundly, Shape, Knows, HoldsTable, At
<1>4. CASE RollBack(h)
  BY <1>4, FinishedSound DEF RollBack
<1> QED
  BY <1>1, <1>2, <1>3, <1>4 DEF Request

LEMMA LockTableSound ==
  ASSUME IInv, NEW h \in Handlers, LockTable(h)
  PROVE  MovedSoundly(h)
<1>1. CASE Finish(h)
  BY <1>1, FinishedSound
<1>2. CASE Accepts(req[h].table, req[h].link) /\ Continue(h, "table")
  <2>1. req[h] \in Requests /\ Shape(req[h]) /\ Knows(h) /\ req[h].pc = "checked"
    BY DEF IInv, TypeOK, LockTable, At
  <2>2. /\ req' \in [Handlers -> Requests] /\ \A k \in Handlers : k # h => req'[k] = req[k]
        /\ req'[h].pc = "table" /\ req'[h].op = req[h].op /\ req'[h].guest = req[h].guest
        /\ req'[h].table = req[h].table /\ req'[h].session = req[h].session
        /\ req'[h].link = req[h].link
    BY <1>2 DEF Continue, IInv, TypeOK, Requests
  <2>3. UNCHANGED <<table, place>>
    BY DEF LockTable, tables, sessions
  <2>4. Shape(req'[h])
    BY <2>1, <2>2 DEF Shape
  <2>5. Knows(h)'
    BY <1>2, <2>1, <2>2, <2>3 DEF Knows, Accepts
  <2> QED
    BY <2>2, <2>4, <2>5 DEF MovedSoundly
<1> QED
  BY <1>1, <1>2 DEF LockTable

\* Entering session s once the guest is known to sit nowhere else.
LEMMA EnterSound ==
  ASSUME IInv, NEW h \in Handlers, HoldsTable(h), ~ At(h, "idle"),
         UNCHANGED <<table, status, place, member>>,
         NEW s \in Sessions, place[s] = req[h].table,
         req[h].op = "join" => s = req[h].session,
         CurrentOf(req[h].guest) \subseteq {s},
         Enter(h, s)
  PROVE  MovedSoundly(h)
<1>1. CASE Finish(h)
  BY <1>1, FinishedSound
<1>2. CASE Goto(h, Entering(h, s), s) /\ Entering(h, s) \in {"insert", "rejoin"}
  <2>1. req[h] \in Requests /\ Shape(req[h]) /\ Knows(h)
    BY DEF IInv, TypeOK
  <2>2. PICK r : r = [pc |-> Entering(h, s), op |-> req[h].op, guest |-> req[h].guest,
                      table |-> req[h].table, session |-> s, link |-> req[h].link]
    OBVIOUS
  <2>3. r \in Requests
    BY <1>2, <2>2, RequestParts DEF Requests
  <2>4. req' = [req EXCEPT ![h] = r]
    BY <1>2, <2>2 DEF Goto, IInv, TypeOK
  <2>5. req' \in [Handlers -> Requests] /\ \A k \in Handlers : k # h => req'[k] = req[k]
    BY <2>3, <2>4 DEF IInv, TypeOK
  <2>6. req'[h] = r
    BY <2>4 DEF IInv, TypeOK
  <2>7. req[h].op \in {"start", "join"} /\ req[h].pc # "idle"
    BY <2>1 DEF HoldsTable, At, Shape, Requests
  <2>8. Shape(req'[h])
    BY <1>2, <2>1, <2>2, <2>6, <2>7 DEF Shape
  <2>9. r.pc = "insert" => member[s][r.guest].n = 0
    BY <2>2 DEF Entering
  <2>10. /\ HoldsTable(h)' /\ Accepts(r.table, r.link)'
         /\ CurrentOf(r.guest)' \subseteq {s}
    <3>1. HoldsTable(h)' /\ Accepts(r.table, r.link)'
      BY <1>2, <2>1, <2>2, <2>6, <2>7 DEF HoldsTable, At, Knows, Accepts
    <3>2. CurrentOf(r.guest)' = CurrentOf(req[h].guest)
      BY <2>2 DEF CurrentOf, IsOpen
    <3> QED
      BY <3>1, <3>2
  <2>11. Knows(h)'
    BY <1>2, <2>2, <2>6, <2>9, <2>10 DEF Knows
  <2> QED
    BY <2>5, <2>8, <2>11 DEF MovedSoundly
<1> QED
  BY <1>1, <1>2 DEF Enter, Entering

LEMMA FindCurrentSound ==
  ASSUME IInv, NEW h \in Handlers, FindCurrent(h)
  PROVE  MovedSoundly(h)
<1> DEFINE g == req[h].guest
<1>0. /\ UNCHANGED <<table, status, place, member>> /\ req[h].pc = "table"
      /\ req[h] \in Requests /\ Shape(req[h]) /\ Knows(h)
  BY DEF FindCurrent, tables, sessions, At, IInv, TypeOK
<1>1. PICK s \in CurrentOf(g) \union {None} :
        /\ s = None => CurrentOf(g) = {}
        /\ IF s # None /\ Elsewhere(h, s) THEN Finish(h)
           ELSE IF req[h].op = "join" THEN Enter(h, req[h].session)
           ELSE Goto(h, "current", s)
  BY DEF FindCurrent
<1>2. CASE Finish(h)
  BY <1>2, FinishedSound
<1>3. ASSUME ~ (s # None /\ Elsewhere(h, s))
      PROVE  MovedSoundly(h)
  <2>1. \A r \in CurrentOf(g) : ~ Elsewhere(h, r)
    BY <1>0, <1>1, <1>3 DEF IInv, Seating, OneSessionPerGuest, Shape
  <2>2. HoldsTable(h) /\ ~ At(h, "idle") /\ req[h].op \in {"start", "join"}
    BY <1>0 DEF HoldsTable, At, Shape, Requests
  <2>3. CASE req[h].op = "join"
    <3>1. req[h].session \in Sessions /\ place[req[h].session] = req[h].table
      BY <1>0, <2>3 DEF Shape, Knows
    <3>2. Enter(h, req[h].session)
      BY <1>1, <1>3, <2>3
    <3>3. CurrentOf(g) \subseteq {req[h].session}
      BY <2>1, <2>3 DEF Elsewhere
    <3> QED
      BY <1>0, <2>2, <2>3, <3>1, <3>2, <3>3, EnterSound
  <2>4. CASE req[h].op = "start"
    <3>1. Goto(h, "current", s)
      BY <1>1, <1>3, <2>4
    <3>2. PICK r : r = [pc |-> "current", op |-> req[h].op, guest |-> req[h].guest,
                        table |-> req[h].table, session |-> s, link |-> req[h].link]
      OBVIOUS
    <3>3. s \in Sessions \union {None}
      BY DEF CurrentOf
    <3>4. r \in Requests
      BY <3>2, <3>3, RequestParts DEF Requests
    <3>5. req' = [req EXCEPT ![h] = r]
      BY <3>1, <3>2 DEF Goto, IInv, TypeOK
    <3>6. req' \in [Handlers -> Requests] /\ \A k \in Handlers : k # h => req'[k] = req[k]
      BY <3>4, <3>5 DEF IInv, TypeOK
    <3>7. req'[h] = r
      BY <3>5 DEF IInv, TypeOK
    <3>8. Shape(req'[h])
      BY <1>0, <2>4, <3>2, <3>7 DEF Shape
    <3>9. HoldsTable(h)' /\ Accepts(r.table, r.link)'
      BY <1>0, <2>2, <2>4, <3>2, <3>7 DEF HoldsTable, At, Knows, Accepts
    <3>10. CurrentOf(r.guest)' = CurrentOf(g)
      BY <1>0, <3>2 DEF CurrentOf, IsOpen
    <3>11. ASSUME NEW x \in CurrentOf(g) PROVE ~ Elsewhere(h, x)'
      BY <1>0, <2>1, <2>4, <3>2, <3>7, <3>11 DEF Elsewhere
    <3>12. Knows(h)'
      BY <2>4, <3>2, <3>7, <3>9, <3>10, <3>11 DEF Knows
    <3> QED
      BY <3>6, <3>8, <3>12 DEF MovedSoundly
  <2> QED
    BY <2>2, <2>3, <2>4
<1> QED
  BY <1>1, <1>2, <1>3

LEMMA FindActiveSound ==
  ASSUME IInv, NEW h \in Handlers, FindActive(h)
  PROVE  MovedSoundly(h)
<1>0. /\ UNCHANGED <<table, status, place, member>> /\ req[h].pc = "current"
      /\ req[h] \in Requests /\ Shape(req[h]) /\ Knows(h)
  BY DEF FindActive, tables, sessions, At, IInv, TypeOK
<1>1. HoldsTable(h) /\ ~ At(h, "idle") /\ req[h].op = "start"
  BY <1>0 DEF HoldsTable, At, Shape
<1>2. CASE Finish(h)
  BY <1>2, FinishedSound
<1>3. ASSUME NEW s \in OpenAt(req[h].table), Enter(h, s)
      PROVE  MovedSoundly(h)
  <2>1. s \in Sessions /\ place[s] = req[h].table
    BY DEF OpenAt
  <2>2. CurrentOf(req[h].guest) \subseteq {s}
    BY <1>0, <1>1, <2>1 DEF Knows, Elsewhere, CurrentOf, OpenAt, IInv, Seating, OneSessionPerTable
  <2> QED
    BY <1>0, <1>1, <1>3, <2>1, <2>2, EnterSound
<1>4. CASE OpenAt(req[h].table) = {} /\ Continue(h, "create")
  <2>1. PICK r : r = req'[h]
    OBVIOUS
  <2>2. /\ req' \in [Handlers -> Requests] /\ \A k \in Handlers : k # h => req'[k] = req[k]
        /\ r.pc = "create" /\ r.op = req[h].op /\ r.guest = req[h].guest
        /\ r.table = req[h].table /\ r.session = req[h].session /\ r.link = req[h].link
    BY <1>4, <2>1 DEF Continue, IInv, TypeOK, Requests
  <2>3. Shape(r)
    BY <1>0, <1>1, <2>2 DEF Shape
  <2>4. Accepts(r.table, r.link)'
    BY <1>0, <1>1, <2>2 DEF Knows, Accepts
  <2>5. CurrentOf(r.guest)' = CurrentOf(req[h].guest) /\ OpenAt(r.table)' = {}
    BY <1>0, <1>4, <2>2 DEF CurrentOf, OpenAt, IsOpen
  <2>6. ASSUME NEW x \in CurrentOf(req[h].guest) PROVE ~ Elsewhere(h, x)'
    BY <1>0, <1>1, <2>1, <2>2, <2>6 DEF Elsewhere, Knows
  <2>7. Knows(h)'
    BY <1>1, <2>1, <2>2, <2>4, <2>5, <2>6 DEF Knows
  <2> QED
    BY <2>1, <2>2, <2>3, <2>7 DEF MovedSoundly
<1> QED
  BY <1>2, <1>3, <1>4 DEF FindActive

LEMMA RequestsKept ==
  ASSUME IInv, [Next]_vars
  PROVE  /\ req' \in [Handlers -> Requests]
         /\ \A h \in Handlers : Shape(req'[h]) /\ Knows(h)'
<1>1. Effect
  BY NextEffect
<1>2. CASE UNCHANGED req
  BY <1>1, <1>2, KnowsStays DEF IInv, TypeOK
<1>3. ASSUME NEW h \in Handlers, MovedSoundly(h)
      PROVE  /\ req' \in [Handlers -> Requests]
             /\ \A k \in Handlers : Shape(req'[k]) /\ Knows(k)'
  <2>1. ASSUME NEW k \in Handlers, k # h PROVE Shape(req'[k]) /\ Knows(k)'
    BY <1>1, <1>3, <2>1, KnowsStays DEF MovedSoundly, IInv
  <2> QED
    BY <1>3, <2>1 DEF MovedSoundly
<1>4. ASSUME NEW h \in Handlers, Request(h) \/ LockTable(h) \/ Proceed(h)
      PROVE  MovedSoundly(h)
  BY <1>4, RequestSound, LockTableSound, FindCurrentSound, FindActiveSound, FinishedSound
  DEF Proceed, OpenSession, InsertMember, Reactivate, Deactivate
<1>5. CASE (\E t \in Tables : CreateTable(t)) \/ (\E m \in Managers : Manage(m))
           \/ (\E s \in Sessions : BillingMoves(s)) \/ UNCHANGED vars
  BY <1>2, <1>5 DEF CreateTable, Manage, CompareTable, SaveTable, UpdateTable, RegenerateQr,
     BillingMoves, vars
<1> QED
  BY <1>3, <1>4, <1>5 DEF Next

(***************************************************************************)
(* The theorems.                                                          *)
(***************************************************************************)
LEMMA NextIInv == IInv /\ [Next]_vars => IInv'
<1> SUFFICES ASSUME IInv, [Next]_vars PROVE IInv'
  OBVIOUS
<1>1. Effect
  BY NextEffect
<1>2. RowsTyped' /\ EditsSound'
  BY RowsKept
<1>3. req' \in [Handlers -> Requests] /\ \A h \in Handlers : Shape(req'[h]) /\ Knows(h)'
  BY RequestsKept
<1>4. Seating'
  BY <1>1, SeatingKept
<1>5. LocksHeld'
  BY NextMoves, LocksKept
<1>6. TypeOK'
  BY <1>1, <1>2, <1>3, SessionsTyped DEF RowsTyped, TypeOK
<1> QED
  BY <1>2, <1>3, <1>4, <1>5, <1>6 DEF IInv

\* The locks and what requests know under them make an inductive invariant.
THEOREM Invariance == Spec => []IInv
<1>1. Init => IInv
  BY InitIInv
<1>2. IInv /\ [Next]_vars => IInv'
  BY NextIInv
<1> QED
  BY <1>1, <1>2, PTL DEF Spec

\* Every variable keeps its type.
THEOREM TypeCorrect == Spec => []TypeOK
<1>1. IInv => TypeOK
  BY DEF IInv
<1> QED
  BY Invariance, <1>1, PTL

\* No table has two open sessions.
THEOREM TablesNotShared == Spec => []OneSessionPerTable
<1>1. IInv => OneSessionPerTable
  BY DEF IInv, Seating
<1> QED
  BY Invariance, <1>1, PTL

\* No customer sits in two open sessions.
THEOREM GuestsInOnePlace == Spec => []OneSessionPerGuest
<1>1. IInv => OneSessionPerGuest
  BY DEF IInv, Seating
<1> QED
  BY Invariance, <1>1, PTL

\* One membership per guest and session, one host per session.
THEOREM MembersOnce == Spec => []MembersUnique
<1>1. IInv => MembersUnique
  BY DEF IInv, Seating
<1> QED
  BY Invariance, <1>1, PTL

\* No table is shared, no customer sits twice, and no membership is double.
THEOREM SeatsNeverShared == Spec => []SeatsExclusive
BY TablesNotShared, GuestsInOnePlace, MembersOnce, PTL DEF SeatsExclusive

\* Whoever becomes a member holds a code that the table accepts at that moment.
THEOREM QrChecked == Spec => EntersOnValidQr
<1>1. ASSUME IInv, [Next]_vars
      PROVE  [\A s \in Sessions, g \in Guests :
               member'[s][g].active /\ ~ member[s][g].active =>
                 \E h \in Handlers : req[h].guest = g /\ Accepts(place'[s], req[h].link)]_vars
  <2> SUFFICES ASSUME NEW s \in Sessions, NEW g \in Guests,
                      member'[s][g].active, ~ member[s][g].active
               PROVE  \E h \in Handlers : req[h].guest = g /\ Accepts(place'[s], req[h].link)
    OBVIOUS
  <2> USE <1>1 DEF IInv, TypeOK
  <2>1. Effect
    BY NextEffect
  <2>2. CASE UNCHANGED sessions
    BY <2>2 DEF sessions
  <2>3. ASSUME NEW h \in Handlers, NEW r \in Sessions, Opens(h, r)
        PROVE  req[h].guest = g /\ Accepts(place'[s], req[h].link)
    <3>1. req[h].guest = g /\ s = r
      BY <2>3 DEF Opens, At, Shape
    <3>2. place'[s] = req[h].table
      BY <2>3, <3>1 DEF Opens
    <3>3. HoldsTable(h)
      BY <2>3 DEF Opens, HoldsTable, At, Shape
    <3> QED
      BY <3>1, <3>2, <3>3 DEF Knows
  <2>4. ASSUME NEW h \in Handlers, Seats(h)
        PROVE  req[h].guest = g /\ Accepts(place'[s], req[h].link)
    <3>1. req[h].guest = g /\ s = req[h].session
      BY <2>4 DEF Seats, Shape
    <3>2. place'[s] = req[h].table
      BY <2>4, <3>1 DEF Seats, Knows
    <3>3. HoldsTable(h)
      BY <2>4 DEF Seats, HoldsTable, At, Shape
    <3> QED
      BY <3>1, <3>2, <3>3 DEF Knows
  <2>5. ASSUME NEW r \in Sessions, NEW k \in Guests, Leaves(r, k)
        PROVE  FALSE
    <3>1. member'[s][g].active => member[s][g].active
      BY <2>5 DEF Leaves, Membership
    <3> QED
      BY <3>1
  <2>6. ASSUME NEW r \in Sessions, Bills(r)
        PROVE  FALSE
    BY <2>6 DEF Bills
  <2> QED
    BY <2>1, <2>2, <2>3, <2>4, <2>5, <2>6 DEF Effect
<1> QED
  BY Invariance, <1>1, PTL DEF Spec, EntersOnValidQr

(***************************************************************************)
(* The refinement: a visit is decided when its row is written.            *)
(***************************************************************************)
\* Stages and open statuses say the same.
LEMMA StageOf ==
  ASSUME TypeOK, NEW s \in Sessions
  PROVE  /\ Stage[status[s]] \in {"dining", "paying"} <=> IsOpen(s)
         /\ Stage[status[s]] = "new" <=> status[s] = "none"
<1>1. status[s] \in Status
  BY DEF TypeOK
<1> QED
  BY <1>1 DEF Stage, Status, IsOpen, OpenStatus

\* Who is in no other open session than s is away from every other visit.
LEMMA AwayUnlessCurrent ==
  ASSUME TypeOK, NEW s \in Sessions, NEW g \in Guests, CurrentOf(g) \subseteq {s}
  PROVE  House!AwayFrom(g, s)
<1> SUFFICES ASSUME NEW r \in Sessions, r # s, Stage[status[r]] \in {"dining", "paying"},
                    member[r][g].active
             PROVE  FALSE
  BY DEF House!AwayFrom, House!Underway
<1>1. r \in CurrentOf(g)
  BY StageOf DEF CurrentOf
<1> QED
  BY <1>1

\* Nobody sits anywhere at first.
LEMMA InitSeats == Init => House!Init
BY DEF Init, House!Init, Stage, NoMember

\* Opening a session is sitting down at a vacant table.
LEMMA OpenSitsDown ==
  ASSUME IInv, NEW h \in Handlers, NEW s \in Sessions, Opens(h, s)
  PROVE  \E t \in Tables, g \in Guests : House!SitDown(s, t, g)
<1>0. PICK t, g : t = req[h].table /\ g = req[h].guest
  OBVIOUS
<1>1. t \in Tables /\ g \in Guests /\ OpenAt(t) = {} /\ req[h].pc = "create" /\ req[h].op = "start"
  BY <1>0 DEF Opens, At, IInv, Shape, Knows
<1>2. TypeOK /\ status[s] = "none"
  BY DEF IInv, Opens
<1>3. \A r \in CurrentOf(g) : FALSE
  BY <1>0, <1>1 DEF IInv, Knows, CurrentOf, OpenAt, Elsewhere
<1>4. House!Vacant(t)
  BY <1>1, <1>2, StageOf DEF House!Vacant, House!Underway, OpenAt
<1>5. House!AwayFrom(g, s)
  BY <1>1, <1>2, <1>3, AwayUnlessCurrent
<1>6. \A r \in Sessions : r # s => status'[r] = status[r] /\ member'[r] = member[r]
  BY <1>2 DEF Opens, TypeOK
<1>7. status'[s] = "ACTIVE" /\ \A k \in Guests : member'[s][k].active <=> k = g
  BY <1>0, <1>1, <1>2 DEF Opens, IInv, Seating, Unused, TypeOK
<1>8. [r \in Sessions |-> Stage[status[r]]]' =
        [[r \in Sessions |-> Stage[status[r]]] EXCEPT ![s] = "dining"]
  <2>1. Stage["ACTIVE"] = "dining"
    BY DEF Stage
  <2>2. \A r \in Sessions : r # s => status'[r] = status[r]
    BY <1>6
  <2> QED
    BY <1>7, <2>1, <2>2
<1>9. [r \in Sessions |-> {k \in Guests : member[r][k].active}]' =
        [[r \in Sessions |-> {k \in Guests : member[r][k].active}] EXCEPT ![s] = {g}]
  BY <1>1, <1>6, <1>7
<1>10. place' = [place EXCEPT ![s] = t]
  BY <1>0 DEF Opens
<1>11. House!SitDown(s, t, g)
  BY <1>2, <1>4, <1>5, <1>8, <1>9, <1>10, StageOf DEF House!SitDown
<1> QED
  BY <1>1, <1>11, Zenon

\* Inserting or reactivating a membership is joining, at the moment of the
\* commit: what the request read is still so.
LEMMA SeatJoins ==
  ASSUME IInv, NEW h \in Handlers, Seats(h)
  PROVE  \E s \in Sessions, g \in Guests : House!Join(s, g)
<1>0. PICK s, g : s = req[h].session /\ g = req[h].guest
  OBVIOUS
<1>1. s \in Sessions /\ g \in Guests /\ place[s] = req[h].table /\ req[h].table \in Tables
      /\ CurrentOf(g) \subseteq {s}
  BY <1>0 DEF Seats, IInv, TypeOK, Shape, Knows, Requests
<1>2. TypeOK /\ status[s] # "none" /\ UNCHANGED <<status, place>>
  BY <1>1, NoneAssumption DEF Seats, IInv, Seating, Unused
<1>3. House!AwayFrom(g, s)
  BY <1>1, <1>2, AwayUnlessCurrent
<1>4. \A r \in Sessions, k \in Guests :
        member'[r][k].active <=> member[r][k].active \/ (r = s /\ k = g)
  <2>1. PICK row \in Membership :
          row.active /\ member' = [member EXCEPT ![s][g] = row]
    BY <1>0 DEF Seats
  <2>2. member'[s][g].active
    BY <1>1, <1>2, <2>1 DEF TypeOK
  <2>3. \A r \in Sessions, k \in Guests : r # s \/ k # g => member'[r][k] = member[r][k]
    BY <1>1, <1>2, <2>1 DEF TypeOK
  <2> QED
    BY <2>2, <2>3, Zenon
<1>5. ASSUME NEW r \in Sessions
      PROVE  {k \in Guests : member'[r][k].active} =
               IF r = s THEN {k \in Guests : member[r][k].active} \union {g}
               ELSE {k \in Guests : member[r][k].active}
  BY <1>1, <1>4
<1>6. [r \in Sessions |-> {k \in Guests : member[r][k].active}]' =
        [[r \in Sessions |-> {k \in Guests : member[r][k].active}] EXCEPT ![s] = @ \union {g}]
  BY <1>1, <1>5
<1>7. House!Join(s, g)
  BY <1>1, <1>2, <1>3, <1>6, StageOf DEF House!Join
<1> QED
  BY <1>1, <1>7, Zenon

LEMMA LeaveLeaves ==
  ASSUME IInv, NEW s \in Sessions, NEW g \in Guests, Leaves(s, g)
  PROVE  House!Leave(s, g)
<1>1. UNCHANGED <<status, place>>
  BY DEF Leaves
<1>2. /\ ~ member'[s][g].active
      /\ \A r \in Sessions, k \in Guests : r # s \/ k # g => member'[r][k] = member[r][k]
  BY DEF Leaves, IInv, TypeOK
<1>3. ASSUME NEW r \in Sessions
      PROVE  {k \in Guests : member'[r][k].active} =
               IF r = s THEN {k \in Guests : member[r][k].active} \ {g}
               ELSE {k \in Guests : member[r][k].active}
  BY <1>2
<1>4. [r \in Sessions |-> {k \in Guests : member[r][k].active}]' =
        [[r \in Sessions |-> {k \in Guests : member[r][k].active}] EXCEPT ![s] = @ \ {g}]
  BY <1>3
<1> QED
  BY <1>1, <1>4 DEF House!Leave

LEMMA BillsMove ==
  ASSUME IInv, NEW s \in Sessions, Bills(s)
  PROVE  House!Bill(s) \/ House!Resume(s) \/ House!Close(s) \/ UNCHANGED House!seating
<1> DEFINE stage == [r \in Sessions |-> Stage[status[r]]]
<1>1. status[s] \in Status /\ UNCHANGED <<place, member>>
      /\ \E st \in AfterBilling(status[s]) : status' = [status EXCEPT ![s] = st]
  BY DEF IInv, TypeOK, Bills
<1>2. PICK st \in AfterBilling(status[s]) : status'[s] = st /\ stage' = [stage EXCEPT ![s] = Stage[st]]
  BY <1>1 DEF IInv, TypeOK
<1>3. \/ status[s] = "ACTIVE" /\ st = "BILL_REQUESTED"
      \/ status[s] = "BILL_REQUESTED" /\ st \in {"ACTIVE", "PAYMENT_PENDING"}
      \/ status[s] = "PAYMENT_PENDING" /\ st = "COMPLETED"
  BY <1>1 DEF AfterBilling, Status
<1>4. CASE status[s] = "ACTIVE" /\ st = "BILL_REQUESTED"
  BY <1>1, <1>2, <1>4 DEF House!Bill, Stage
<1>5. CASE status[s] = "BILL_REQUESTED" /\ st = "ACTIVE"
  BY <1>1, <1>2, <1>5 DEF House!Resume, Stage
<1>6. CASE status[s] = "BILL_REQUESTED" /\ st = "PAYMENT_PENDING"
  BY <1>1, <1>2, <1>6 DEF House!seating, Stage
<1>7. CASE status[s] = "PAYMENT_PENDING" /\ st = "COMPLETED"
  BY <1>1, <1>2, <1>7 DEF House!Close, Stage
<1> QED
  BY <1>3, <1>4, <1>5, <1>6, <1>7

LEMMA NextSeats ==
  ASSUME IInv, [Next]_vars
  PROVE  [House!Next]_(House!seating)
<1>1. Effect
  BY NextEffect
<1>2. CASE UNCHANGED sessions
  BY <1>2 DEF sessions, House!seating
<1>3. ASSUME NEW h \in Handlers, NEW s \in Sessions, Opens(h, s) PROVE House!Next
  BY <1>3, OpenSitsDown DEF House!Next
<1>4. ASSUME NEW h \in Handlers, Seats(h) PROVE House!Next
  BY <1>4, SeatJoins DEF House!Next
<1>5. ASSUME NEW s \in Sessions, NEW g \in Guests, Leaves(s, g) PROVE House!Next
  BY <1>5, LeaveLeaves DEF House!Next
<1>6. ASSUME NEW s \in Sessions, Bills(s) PROVE House!Next \/ UNCHANGED House!seating
  BY <1>6, BillsMove DEF House!Next
<1> QED
  BY <1>1, <1>2, <1>3, <1>4, <1>5, <1>6 DEF Effect

\* Requests that read the rows, wait for locks and write implement visits that
\* are decided in one step.
THEOREM ImplementsSeating == Spec => SeatingSpec
<1>1. Init => House!Init
  BY InitSeats
<1>2. IInv /\ [Next]_vars => [House!Next]_(House!seating)
  BY NextSeats
<1> QED
  BY Invariance, <1>1, <1>2, PTL DEF Spec, SeatingSpec, House!Spec

(***************************************************************************)
(* Replaced QR codes.  No lock and no version check keeps a manager from  *)
(* saving a table that another has changed since it was read; what        *)
(* follows is that nothing else brings a replaced code back.              *)
(***************************************************************************)
\* Neither a table nor an edit under way carries a replaced token.
NoneRevived ==
  /\ \A t \in Tables :
       /\ table[t].hash \notin retired[t] /\ table[t].hash <= generated
       /\ \A x \in retired[t] : x <= generated
  /\ \A m \in Managers : edit[m].pc # "idle" =>
       /\ edit[m].table \in Tables
       /\ edit[m].entity.hash \notin retired[edit[m].table]
       /\ edit[m].entity.hash <= generated

LEMMA WrittenHash ==
  ASSUME NEW row \in TableRow, NEW entity \in TableRow, NEW cols
  PROVE  Written(row, entity, cols).hash \in {row.hash, entity.hash}
BY DEF Written, TableRow

\* A request that reads the table puts into its entity the token the table
\* has, or a new one.
LEMMA EditRevivesNone ==
  ASSUME TypeOK, NoneRevived, NEW m \in Managers, NEW t \in Tables,
         UpdateTable(m, t) \/ RegenerateQr(m, t)
  PROVE  NoneRevived' /\ table' = table
<1>1. UNCHANGED <<table, retired>> /\ generated \in Nat /\ generated' \in Nat /\ generated <= generated'
  BY TokensAssumption DEF UpdateTable, RegenerateQr, rows, TypeOK, Tokens
<1>2. /\ \A u \in Tables : \A x \in retired[u] : x \in Nat
      /\ \A u \in Tables : table[u].hash \in Nat
      /\ \A n \in Managers : edit[n].entity.hash \in Nat
  BY TokensAssumption DEF TypeOK, Tokens, TableRow, Edits
<1>3. /\ \A n \in Managers : n # m => edit'[n] = edit[n]
      /\ edit'[m].table = t
      /\ \/ edit'[m].entity.hash = table[t].hash
         \/ edit'[m].entity.hash = generated' /\ generated' = generated + 1
  <2>1. DOMAIN edit = Managers
    BY DEF TypeOK
  <2>2. CASE UpdateTable(m, t)
    <3>1. PICK on \in BOOLEAN : edit' = [edit EXCEPT ![m] =
            [pc |-> "read", table |-> t, cols |-> {},
             entity |-> [hash |-> table[t].hash, ver |-> table[t].ver, active |-> on],
             prints |-> FALSE]]
      BY <2>2 DEF UpdateTable
    <3> QED
      BY <2>1, <3>1
  <2>3. CASE RegenerateQr(m, t)
    <3>1. /\ generated' = generated + 1
          /\ edit' = [edit EXCEPT ![m] =
               [pc |-> "read", table |-> t, cols |-> {},
                entity |-> [hash |-> generated', ver |-> table[t].ver + 1,
                            active |-> table[t].active],
                prints |-> TRUE]]
      BY <2>3 DEF RegenerateQr
    <3> QED
      BY <2>1, <3>1
  <2> QED
    BY <2>2, <2>3
<1>4. edit'[m].entity.hash \notin retired[t] /\ edit'[m].entity.hash <= generated'
  BY <1>1, <1>2, <1>3 DEF NoneRevived
<1>5. ASSUME NEW u \in Tables
      PROVE  /\ table'[u].hash \notin retired'[u] /\ table'[u].hash <= generated'
             /\ \A x \in retired'[u] : x <= generated'
  BY <1>1, <1>2 DEF NoneRevived
<1>6. ASSUME NEW n \in Managers, edit'[n].pc # "idle"
      PROVE  /\ edit'[n].table \in Tables
             /\ edit'[n].entity.hash \notin retired'[edit'[n].table]
             /\ edit'[n].entity.hash <= generated'
  <2>1. CASE n = m
    BY <1>1, <1>3, <1>4, <2>1
  <2>2. CASE n # m
    BY <1>1, <1>2, <1>3, <1>6, <2>2 DEF NoneRevived
  <2> QED
    BY <2>1, <2>2
<1> QED
  BY <1>1, <1>5, <1>6 DEF NoneRevived

\* Saving retires a token of a table that nobody else is editing.
LEMMA SaveRevivesNone ==
  ASSUME TypeOK, NoneRevived, EditsApart, NEW m \in Managers, SaveTable(m)
  PROVE  /\ NoneRevived'
         /\ \A t \in Tables : table'[t].hash # table[t].hash => table'[t].hash \notin retired[t]
<1>0. PICK t \in Tables : t = edit[m].table
  BY DEF SaveTable, NoneRevived
<1>1. PICK row : t = edit[m].table /\ row = Written(table[t], edit[m].entity, edit[m].cols)
  BY <1>0
<1>2. table[t] \in TableRow /\ edit[m].entity \in TableRow /\ edit[m].pc = "save"
  BY DEF TypeOK, Edits, SaveTable
<1>3. row.hash \in {table[t].hash, edit[m].entity.hash}
  BY <1>1, <1>2, WrittenHash
<1>4. row.hash \notin retired[t] /\ row.hash <= generated
  BY <1>1, <1>2, <1>3 DEF NoneRevived
<1>5. /\ table' = [table EXCEPT ![t] = row]
      /\ retired' = [retired EXCEPT ![t] =
                       IF row.hash = table[t].hash THEN @ ELSE @ \union {table[t].hash}]
      /\ edit' = [edit EXCEPT ![m] = NoEdit]
      /\ generated' = generated
  BY <1>1 DEF SaveTable
<1>6. /\ \A u \in Tables : u # t => table'[u] = table[u] /\ retired'[u] = retired[u]
      /\ table'[t] = row
      /\ retired'[t] \subseteq retired[t] \union {table[t].hash}
      /\ row.hash \notin retired'[t]
  BY <1>4, <1>5 DEF TypeOK
<1>7. \A x \in retired'[t] : x <= generated'
  BY <1>5, <1>6 DEF NoneRevived
<1>8. \A u \in Tables :
        /\ table'[u].hash \notin retired'[u] /\ table'[u].hash <= generated'
        /\ \A x \in retired'[u] : x <= generated'
  BY <1>4, <1>5, <1>6, <1>7 DEF NoneRevived
<1>9. ASSUME NEW n \in Managers, edit'[n].pc # "idle"
      PROVE  /\ edit'[n].table \in Tables
             /\ edit'[n].entity.hash \notin retired'[edit'[n].table]
             /\ edit'[n].entity.hash <= generated'
  <2>1. n # m /\ edit'[n] = edit[n]
    BY <1>5, <1>9 DEF TypeOK, NoEdit
  <2>2. edit[n].table \in Tables /\ edit[n].table # t
    BY <1>1, <1>2, <1>9, <2>1 DEF EditsApart, NoneRevived
  <2> QED
    BY <1>5, <1>6, <1>9, <2>1, <2>2 DEF NoneRevived
<1> QED
  BY <1>4, <1>6, <1>8, <1>9 DEF NoneRevived

LEMMA NextRevivesNone ==
  ASSUME IInv, EditsApart, NoneRevived, [Next]_vars
  PROVE  /\ NoneRevived'
         /\ \A t \in Tables : table'[t].hash # table[t].hash => table'[t].hash \notin retired[t]
<1> USE DEF IInv
<1>1. CASE UNCHANGED <<table, retired, generated, edit>>
  BY <1>1 DEF NoneRevived
<1>2. ASSUME NEW t \in Tables, CreateTable(t)
      PROVE  /\ NoneRevived'
             /\ \A u \in Tables : table'[u].hash # table[u].hash => table'[u].hash \notin retired[u]
  <2>1. /\ generated \in Nat /\ generated' = generated + 1
        /\ \A u \in Tables : table[u].hash \in Nat /\ \A x \in retired[u] : x \in Nat
        /\ \A n \in Managers : edit[n].entity.hash \in Nat
    BY <1>2, TokensAssumption DEF CreateTable, TypeOK, Tokens, TableRow, Edits
  <2>2. UNCHANGED <<retired, edit>> /\ table'[t].hash = generated'
        /\ \A u \in Tables : u # t => table'[u] = table[u]
    BY <1>2 DEF CreateTable, TypeOK
  <2>3. generated' \notin retired[t]
    BY <2>1 DEF NoneRevived
  <2>4. \A u \in Tables :
          /\ table'[u].hash \notin retired'[u] /\ table'[u].hash <= generated'
          /\ \A x \in retired'[u] : x <= generated'
    BY <2>1, <2>2, <2>3 DEF NoneRevived
  <2>5. \A n \in Managers : edit'[n].pc # "idle" =>
          /\ edit'[n].table \in Tables
          /\ edit'[n].entity.hash \notin retired'[edit'[n].table]
          /\ edit'[n].entity.hash <= generated'
    BY <2>1, <2>2 DEF NoneRevived
  <2> QED
    BY <2>2, <2>3, <2>4, <2>5 DEF NoneRevived
<1>3. ASSUME NEW m \in Managers, CompareTable(m)
      PROVE  NoneRevived' /\ table' = table
  <2>1. /\ UNCHANGED <<table, retired, generated>>
        /\ \A n \in Managers : n # m => edit'[n] = edit[n]
        /\ edit'[m].table = edit[m].table /\ edit'[m].entity = edit[m].entity
        /\ edit[m].pc = "read"
    BY <1>3 DEF CompareTable, rows, TypeOK
  <2> QED
    BY <2>1 DEF NoneRevived
<1>4. ASSUME NEW h \in Handlers, Request(h) \/ LockTable(h) \/ Proceed(h)
      PROVE  UNCHANGED <<table, retired, generated, edit>>
  <2> USE DEF tables
  <2>1. CASE Request(h)
    BY <2>1 DEF Request, StartSession, JoinSession, LeaveSession, RollBack
  <2>2. CASE LockTable(h) \/ FindCurrent(h) \/ FindActive(h)
    BY <2>2 DEF LockTable, FindCurrent, FindActive
  <2>3. CASE OpenSession(h) \/ InsertMember(h) \/ Reactivate(h) \/ Deactivate(h)
    BY <2>3 DEF OpenSession, InsertMember, Reactivate, Deactivate
  <2> QED
    BY <1>4, <2>1, <2>2, <2>3 DEF Proceed
<1>5. CASE (\E s \in Sessions : BillingMoves(s)) \/ UNCHANGED vars
  BY <1>1, <1>5 DEF BillingMoves, tables, vars
<1>6. ASSUME UNCHANGED <<table, retired, generated, edit>>
      PROVE  \A t \in Tables : table'[t].hash # table[t].hash => table'[t].hash \notin retired[t]
  BY <1>6
<1> QED
  BY <1>1, <1>2, <1>3, <1>4, <1>5, <1>6, EditRevivesNone, SaveRevivesNone DEF Next, Manage

\* The token of a table changes to one it never had, unless two managers edit
\* the table at once: overlapping edits are the only way back for a token.
THEOREM ApartKeepsTokensDead == Spec /\ []EditsApart => RetiredTokenStaysDead
<1>1. Init => NoneRevived
  BY DEF Init, NoneRevived, NoTable, NoEdit
<1>2. IInv /\ EditsApart /\ NoneRevived /\ [Next]_vars => NoneRevived'
  BY NextRevivesNone
<1>3. IInv /\ EditsApart /\ NoneRevived /\ [Next]_vars
      => [\A t \in Tables : table'[t].hash # table[t].hash => table'[t].hash \notin retired[t]]_vars
  BY NextRevivesNone
<1> QED
  BY Invariance, <1>1, <1>2, <1>3, PTL DEF Spec, RetiredTokenStaysDead

\* In particular, a restaurant with one manager is safe.
COROLLARY OneManagerKeepsTokensDead ==
  ASSUME \A m, n \in Managers : m = n
  PROVE  Spec => RetiredTokenStaysDead
<1>1. EditsApart
  BY DEF EditsApart
<1> QED
  BY <1>1, ApartKeepsTokensDead, PTL

=============================================================================
