-------------------------------- MODULE Tables --------------------------------
(***************************************************************************)
(* TablesService: the floor's tables and who waits on them.  Each request  *)
(* reads first and writes some awaits later; a write the database refuses  *)
(* (unique number, foreign keys, row gone, a number that is none for the   *)
(* column) reaches the client as a bare 500, since the service foresees    *)
(* 404 and 409 only.                                                       *)
(***************************************************************************)
EXTENDS Naturals

CONSTANTS
  Tables, Numbers, Waiters,
  Unfit,         \* numbers the DTO lets through and the column cannot hold
  Ids,           \* ids of TableAssignment rows; a released row's is used again
  Askers         \* slots for requests in flight

ASSUME TablesAssumption == 0 \notin Numbers \cup Unfit /\ Numbers \cap Unfit = {}

VARIABLES
  number,        \* number of a table, 0 when there is no such row
  active,        \* assignments with no releasedAt
  everAssigned,  \* tables with TableAssignment rows, released ones included
  orders,        \* Order rows of a table: "none", an "active" one, only "past" ones
  ask,           \* requests in flight
  overlapped,    \* history: assignments of the table overlapped the last time
  surprised      \* history: a 500 that InternalErrorsAreRaces does not name

floorVars == <<number, active, everAssigned, orders>>
tableVars == <<floorVars, ask, overlapped, surprised>>

NoAsk == [at |-> "idle"]
Manager == "manager"     \* stands for MANAGER and ADMIN; waiters are Waiters

TablesInit ==
  /\ number \in {n \in [Tables -> Numbers \cup {0}] :
       \A t, s \in Tables : n[t] = n[s] /\ n[t] # 0 => t = s}
  /\ active = {} /\ everAssigned = {}
  /\ orders = [t \in Tables |-> "none"]
  /\ ask = [q \in Askers |-> NoAsk]
  /\ overlapped = [t \in Tables |-> FALSE]
  /\ surprised = FALSE

Taken(n) == \E t \in Tables : number[t] = n
Assignments == [id : Ids, table : Tables, waiter : Waiters]
ActiveOf(t) == {a \in active : a.table = t}

Ask(q, request) ==
  /\ ask[q] = NoAsk
  /\ ask' = [ask EXCEPT ![q] = request]

Writes == {"create", "update", "remove"}
Writing(r) == ask[r].at \in Writes

\* Requests keep whether what they looked up has changed since: their table's
\* row and orders, or who has the number they want.
Overtake(Changed(_)) ==
  [r \in Askers |-> IF Writing(r) /\ Changed(r) THEN [ask[r] EXCEPT !.raced = TRUE] ELSE ask[r]]

-----------------------------------------------------------------------------
\* create, update and remove, for a manager.  The DTOs ask for a number from 1
\* on, or for none in an update, and set no maximum: one beyond four bytes, or a
\* null, goes down to the database.

CreateTable(q, t, n) ==
  /\ number[t] = 0 /\ ~ Taken(n)
  /\ Ask(q, [at |-> "create", table |-> t, n |-> n, raced |-> FALSE])
  /\ UNCHANGED <<floorVars, overlapped, surprised>>

\* A number that stays as it is, is not looked up.
UpdateTable(q, t, n) ==
  /\ number[t] # 0 /\ (n # number[t] => ~ Taken(n))
  /\ Ask(q, [at |-> "update", table |-> t, n |-> n, raced |-> FALSE])
  /\ UNCHANGED <<floorVars, overlapped, surprised>>

\* Mutant: the count of all orders is left out.
RemoveTableActive(q, t) ==
  /\ number[t] # 0 /\ orders[t] # "active"
  /\ Ask(q, [at |-> "remove", table |-> t, n |-> 0, raced |-> FALSE])
  /\ UNCHANGED <<floorVars, overlapped, surprised>>

RemoveTable(q, t) ==
  /\ number[t] # 0 /\ orders[t] = "none"
  /\ Ask(q, [at |-> "remove", table |-> t, n |-> 0, raced |-> FALSE])
  /\ UNCHANGED <<floorVars, overlapped, surprised>>

\* The 500s that can be had without a race.
Foreseeable(r) ==
  \/ r.n \in Unfit
  \/ r.at = "remove" /\ r.table \in everAssigned

\* The write, unless the database refuses it.
WriteTable(q) ==
  LET t == ask[q].table
      n == ask[q].n
      fits == n \in Numbers /\ \A s \in Tables \ {t} : number[s] # n
      ok == CASE ask[q].at = "create" -> number[t] = 0 /\ fits
              [] ask[q].at = "update" -> number[t] # 0 /\ fits
              [] OTHER -> number[t] # 0 /\ orders[t] = "none" /\ t \notin everAssigned
      Changed(r) == ok /\ number[t] # n /\ (ask[r].table = t \/ (n # 0 /\ ask[r].n = n))
  IN /\ Writing(q)
     /\ number' = IF ok THEN [number EXCEPT ![t] = n] ELSE number
     /\ surprised' = (surprised \/ ~ (ok \/ ask[q].raced \/ Foreseeable(ask[q])))
     /\ ask' = [Overtake(Changed) EXCEPT ![q] = NoAsk]
     /\ UNCHANGED <<active, everAssigned, orders, overlapped>>

-----------------------------------------------------------------------------
\* assignWaiter: one transaction of two statements, at READ COMMITTED.  The
\* first releases the rows it finds; rows another transaction has inserted and
\* not yet committed are not among them.

Assigning(q, t) == ask[q].at = "assign" /\ ask[q].table = t

\* Mutant: taking a table over leaves the old assignment as it is.
ReleaseHoldersNone(q, t, w, by) ==
  /\ number[t] # 0 /\ by \in {Manager, w}
  /\ Ask(q, [at |-> "assign", table |-> t, waiter |-> w, found |-> {},
             shared |-> FALSE])
  /\ UNCHANGED <<floorVars, overlapped, surprised>>

\* A waiter assigns nobody but himself.
ReleaseHolders(q, t, w, by) ==
  /\ number[t] # 0 /\ by \in {Manager, w}
  /\ Ask(q, [at |-> "assign", table |-> t, waiter |-> w, found |-> ActiveOf(t),
             shared |-> FALSE])
  /\ UNCHANGED <<floorVars, overlapped, surprised>>

\* The insertion and the commit: an assignment still in flight has seen nothing
\* of it.  The row of the table may be gone by now.
InsertAssignment(q, a) ==
  LET t == ask[q].table IN
  /\ ask[q].at = "assign" /\ a.table = t /\ a.waiter = ask[q].waiter
  /\ \A b \in active : b.id # a.id
  /\ \A r \in Askers :
       /\ ask[r].at = "release" => ask[r].row.id # a.id
       /\ ask[r].at = "assign" => \A b \in ask[r].found : b.id # a.id
  /\ ask' = [r \in Askers |-> IF r = q THEN NoAsk
                             ELSE IF Assigning(r, t) THEN [ask[r] EXCEPT !.shared = TRUE]
                             ELSE ask[r]]
  /\ IF number[t] = 0 THEN UNCHANGED <<active, everAssigned, overlapped>>
     ELSE /\ active' = (active \ ask[q].found) \cup {a}
          /\ everAssigned' = everAssigned \cup {t}
          /\ overlapped' = [overlapped EXCEPT ![t] = ask[q].shared]
  /\ UNCHANGED <<number, orders, surprised>>

\* releaseTable: findFirst, whichever it is, then the update of that row.
FindHolder(q, a, by) ==
  /\ a \in active /\ by \in {Manager, a.waiter}
  /\ Ask(q, [at |-> "release", row |-> a])
  /\ UNCHANGED <<floorVars, overlapped, surprised>>

ReleaseHolder(q) ==
  /\ ask[q].at = "release"
  /\ active' = active \ {ask[q].row}
  /\ ask' = [ask EXCEPT ![q] = NoAsk]
  /\ UNCHANGED <<number, everAssigned, orders, overlapped, surprised>>

\* OrdersService, as far as tables see it: orders come, and none is deleted.
OrderMoves(t) ==
  LET About(r) == ask[r].table = t IN
  /\ number[t] # 0
  /\ orders' = [orders EXCEPT ![t] = IF @ = "active" THEN "past" ELSE "active"]
  /\ ask' = Overtake(About)
  /\ UNCHANGED <<number, active, everAssigned, overlapped, surprised>>

TablesNext ==
  \/ \E q \in Askers :
       \/ \E t \in Tables :
            \/ \E n \in Numbers \cup Unfit : CreateTable(q, t, n) \/ UpdateTable(q, t, n)
            \/ RemoveTable(q, t)
            \/ \E w \in Waiters, by \in Waiters \cup {Manager} : ReleaseHolders(q, t, w, by)
       \/ WriteTable(q)
       \/ \E a \in Assignments : InsertAssignment(q, a)
       \/ \E a \in active, by \in Waiters \cup {Manager} : FindHolder(q, a, by)
       \/ ReleaseHolder(q)
  \/ \E t \in Tables : OrderMoves(t)

TablesSpec == TablesInit /\ [][TablesNext]_tableVars

-----------------------------------------------------------------------------
\* A table is held by one waiter at most, unless assignments of it overlapped
\* and no assignment has had it to itself since: releasing one of two holders
\* does not cure it, the next assignment does.
OneWaiterPerTable ==
  \A a, b \in active : a.table = b.table => a = b \/ overlapped[a.table]

\* Whoever is answered with a bare 500 was overtaken by a request that changed
\* what had been looked up, gave a number (or a null) that the column cannot hold, or was
\* deleting a table that has been assigned at some time.
InternalErrorsAreRaces == ~ surprised

\* The variables hold rows and requests.
AskRows ==
  {NoAsk}
  \cup [at : Writes, table : Tables, n : Numbers \cup Unfit \cup {0}, raced : BOOLEAN]
  \cup [at : {"assign"}, table : Tables, waiter : Waiters, found : SUBSET Assignments,
        shared : BOOLEAN]
  \cup [at : {"release"}, row : Assignments]
TablesTypeOK ==
  /\ number \in [Tables -> Numbers \cup {0}]
  /\ active \subseteq Assignments /\ everAssigned \subseteq Tables
  /\ orders \in [Tables -> {"none", "active", "past"}]
  /\ ask \in [Askers -> AskRows]
  /\ overlapped \in [Tables -> BOOLEAN] /\ surprised \in BOOLEAN

\* What OneWaiterPerTable needs: who has shared the table with nobody has found
\* every holder of it.
HoldersAreFound ==
  \A q \in Askers : ask[q].at = "assign" /\ ~ ask[q].shared =>
    ActiveOf(ask[q].table) \subseteq ask[q].found

\* What InternalErrorsAreRaces needs: numbers differ, and a request nobody
\* overtook would still pass its checks.
NumbersDiffer ==
  \A t, s \in Tables : number[t] = number[s] /\ number[t] # 0 => t = s
Free(t, n) == \A s \in Tables \ {t} : number[s] # n
AsksStand ==
  \A q \in Askers : Writing(q) /\ ~ ask[q].raced =>
    LET t == ask[q].table IN
    /\ ask[q].at = "create" => number[t] = 0 /\ ask[q].n # 0 /\ Free(t, ask[q].n)
    /\ ask[q].at = "update" => number[t] # 0 /\ ask[q].n # 0 /\ Free(t, ask[q].n)
    /\ ask[q].at = "remove" => number[t] # 0 /\ ask[q].n = 0 /\ orders[t] = "none"
NumbersAreKept == \A q \in Askers : Writing(q) => (ask[q].n = 0 <=> ask[q].at = "remove")

TablesInv ==
  /\ TablesTypeOK /\ HoldersAreFound /\ OneWaiterPerTable
  /\ NumbersDiffer /\ NumbersAreKept /\ AsksStand /\ InternalErrorsAreRaces
=============================================================================
