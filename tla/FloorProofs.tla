----------------------------- MODULE FloorProofs -----------------------------
(***************************************************************************)
(* Proofs about the floor: its tables, for any number of tables, waiters,  *)
(* assignments and requests in flight; its stock, for any ingredients,     *)
(* sales and managers; and the floor as a whole, whose every behaviour is  *)
(* one of its tables, of its stock and of its menu.                        *)
(***************************************************************************)
EXTENDS Floor, MenuProofs, SumTheorems

LEMMA TablesStart == TablesInit => TablesInv
<1> SUFFICES ASSUME TablesInit PROVE TablesInv
  OBVIOUS
<1>1. \A q \in Askers : ask[q] = NoAsk /\ ask[q].at = "idle"
  BY DEF TablesInit, NoAsk
<1>2. TablesTypeOK
  BY <1>1 DEF TablesInit, TablesTypeOK, AskRows
<1>3. HoldersAreFound /\ OneWaiterPerTable
  BY <1>1 DEF TablesInit, HoldersAreFound, OneWaiterPerTable
<1>4. NumbersDiffer
  BY DEF TablesInit, NumbersDiffer
<1>5. NumbersAreKept /\ AsksStand /\ InternalErrorsAreRaces
  BY <1>1 DEF TablesInit, NumbersAreKept, AsksStand, Writing, Writes, InternalErrorsAreRaces
<1> QED
  BY <1>2, <1>3, <1>4, <1>5 DEF TablesInv

\* A request that is made stands, and finds what there is.
LEMMA AskKeeps ==
  ASSUME TablesInv, NEW q \in Askers, NEW row \in AskRows, Ask(q, row),
         UNCHANGED <<floorVars, overlapped, surprised>>,
         row.at = "assign" => ActiveOf(row.table) \subseteq row.found,
         row.at = "create" => number[row.table] = 0 /\ row.n # 0 /\ Free(row.table, row.n),
         row.at = "update" => number[row.table] # 0 /\ row.n # 0 /\ Free(row.table, row.n),
         row.at = "remove" => /\ number[row.table] # 0 /\ row.n = 0
                              /\ orders[row.table] = "none"
  PROVE  TablesInv'
<1> USE DEF TablesInv
<1>1. /\ ask' = [ask EXCEPT ![q] = row]
      /\ UNCHANGED <<number, active, everAssigned, orders, overlapped, surprised>>
  BY DEF Ask, floorVars
<1>2. TablesTypeOK'
  BY <1>1 DEF TablesTypeOK
<1>3. \A r \in Askers : ask'[r] = IF r = q THEN row ELSE ask[r]
  BY <1>1 DEF TablesTypeOK
<1>4. HoldersAreFound'
  BY <1>1, <1>3 DEF HoldersAreFound, ActiveOf
<1>5. OneWaiterPerTable' /\ NumbersDiffer' /\ InternalErrorsAreRaces'
  BY <1>1 DEF OneWaiterPerTable, NumbersDiffer, InternalErrorsAreRaces
<1>6. NumbersAreKept'
  BY <1>3 DEF NumbersAreKept, Writing, Writes
<1>7. AsksStand'
  <2> SUFFICES ASSUME NEW r \in Askers, Writing(r)', ~ ask'[r].raced
               PROVE  /\ ask'[r].at = "create" => number[ask'[r].table] = 0 /\ ask'[r].n # 0
                                                  /\ Free(ask'[r].table, ask'[r].n)
                      /\ ask'[r].at = "update" => number[ask'[r].table] # 0 /\ ask'[r].n # 0
                                                  /\ Free(ask'[r].table, ask'[r].n)
                      /\ ask'[r].at = "remove" => /\ number[ask'[r].table] # 0 /\ ask'[r].n = 0
                                                  /\ orders[ask'[r].table] = "none"
    BY <1>1 DEF AsksStand, Free
  <2>1. CASE r = q
    BY <1>3, <2>1
  <2>2. CASE r # q
    BY <1>3, <2>2 DEF AsksStand, Writing
  <2> QED
    BY <2>1, <2>2
<1> QED
  BY <1>2, <1>4, <1>5, <1>6, <1>7

LEMMA CreateTableKeeps ==
  ASSUME TablesInv, NEW q \in Askers, NEW t \in Tables, NEW n \in Numbers \cup Unfit,
         CreateTable(q, t, n)
  PROVE  TablesInv'
<1> DEFINE row == [at |-> "create", table |-> t, n |-> n, raced |-> FALSE]
<1>1. /\ number[t] = 0 /\ ~ Taken(n) /\ Ask(q, row)
      /\ UNCHANGED <<floorVars, overlapped, surprised>>
  BY DEF CreateTable
<1>2. row \in AskRows /\ row.at = "create" /\ row.table = t /\ row.n = n
  BY DEF AskRows, Writes
<1>3. n # 0 /\ Free(t, n)
  BY <1>1, TablesAssumption DEF Taken, Free
<1> HIDE DEF row
<1> QED
  BY <1>1, <1>2, <1>3, AskKeeps

LEMMA UpdateTableKeeps ==
  ASSUME TablesInv, NEW q \in Askers, NEW t \in Tables, NEW n \in Numbers \cup Unfit,
         UpdateTable(q, t, n)
  PROVE  TablesInv'
<1> DEFINE row == [at |-> "update", table |-> t, n |-> n, raced |-> FALSE]
<1>1. /\ number[t] # 0 /\ (n # number[t] => ~ Taken(n)) /\ Ask(q, row)
      /\ UNCHANGED <<floorVars, overlapped, surprised>>
  BY DEF UpdateTable
<1>2. row \in AskRows /\ row.at = "update" /\ row.table = t /\ row.n = n
  BY DEF AskRows, Writes
<1>3. n # 0 /\ Free(t, n)
  BY <1>1, TablesAssumption DEF Taken, Free, TablesInv, NumbersDiffer
<1> HIDE DEF row
<1> QED
  BY <1>1, <1>2, <1>3, AskKeeps

LEMMA RemoveTableKeeps ==
  ASSUME TablesInv, NEW q \in Askers, NEW t \in Tables, RemoveTable(q, t)
  PROVE  TablesInv'
<1> DEFINE row == [at |-> "remove", table |-> t, n |-> 0, raced |-> FALSE]
<1>1. /\ number[t] # 0 /\ orders[t] = "none" /\ Ask(q, row)
      /\ UNCHANGED <<floorVars, overlapped, surprised>>
  BY DEF RemoveTable
<1>2. row \in AskRows /\ row.at = "remove" /\ row.table = t /\ row.n = 0
  BY DEF AskRows, Writes
<1> HIDE DEF row
<1> QED
  BY <1>1, <1>2, AskKeeps

LEMMA ReleaseHoldersKeeps ==
  ASSUME TablesInv, NEW q \in Askers, NEW t \in Tables, NEW w \in Waiters, NEW by,
         ReleaseHolders(q, t, w, by)
  PROVE  TablesInv'
<1> DEFINE row == [at |-> "assign", table |-> t, waiter |-> w, found |-> ActiveOf(t),
                   shared |-> FALSE]
<1>1. Ask(q, row) /\ UNCHANGED <<floorVars, overlapped, surprised>>
  BY DEF ReleaseHolders
<1>2. ActiveOf(t) \subseteq Assignments
  BY DEF ActiveOf, TablesInv, TablesTypeOK
<1>3. row \in AskRows /\ row.at = "assign" /\ row.table = t /\ row.found = ActiveOf(t)
  BY <1>2 DEF AskRows
<1> HIDE DEF row
<1> QED
  BY <1>1, <1>3, AskKeeps

LEMMA FindHolderKeeps ==
  ASSUME TablesInv, NEW q \in Askers, NEW a \in active, NEW by, FindHolder(q, a, by)
  PROVE  TablesInv'
<1> DEFINE row == [at |-> "release", row |-> a]
<1>1. Ask(q, row) /\ UNCHANGED <<floorVars, overlapped, surprised>>
  BY DEF FindHolder
<1>2. row \in AskRows /\ row.at = "release"
  BY DEF AskRows, TablesInv, TablesTypeOK
<1> HIDE DEF row
<1> QED
  BY <1>1, <1>2, AskKeeps

\* What a request holds, by what it is about to do.
LEMMA AskFields ==
  ASSUME TablesTypeOK, NEW q \in Askers
  PROVE  /\ Writing(q) => /\ ask[q].table \in Tables /\ ask[q].n \in Numbers \cup Unfit \cup {0}
                          /\ ask[q].raced \in BOOLEAN
                          /\ ask[q] \in [at : Writes, table : Tables,
                                         n : Numbers \cup Unfit \cup {0}, raced : BOOLEAN]
         /\ ask[q].at = "assign" =>
              /\ ask[q].table \in Tables /\ ask[q].shared \in BOOLEAN
              /\ ask[q] \in [at : {"assign"}, table : Tables, waiter : Waiters,
                             found : SUBSET Assignments, shared : BOOLEAN]
<1>1. ask[q] \in AskRows
  BY DEF TablesTypeOK
<1> QED
  BY <1>1 DEF AskRows, NoAsk, Writing, Writes

\* A request that is overtaken changes in that alone.
LEMMA OvertakenRow ==
  ASSUME TablesTypeOK, NEW r \in Askers, Writing(r)
  PROVE  LET late == [ask[r] EXCEPT !.raced = TRUE] IN
         late \in AskRows /\ late.at = ask[r].at /\ late.table = ask[r].table
         /\ late.n = ask[r].n /\ late.raced = TRUE
BY AskFields DEF AskRows

\* The rows of the others when some of them are overtaken and one ends.
LEMMA RowsAfter ==
  ASSUME TablesTypeOK, NEW q \in Askers, NEW Late \in SUBSET Askers,
         \A r \in Late : Writing(r),
         ask' = [[r \in Askers |-> IF r \in Late THEN [ask[r] EXCEPT !.raced = TRUE] ELSE ask[r]]
                   EXCEPT ![q] = NoAsk]
  PROVE  /\ ask' \in [Askers -> AskRows]
         /\ ask'[q].at = "idle"
         /\ \A r \in Askers \ {q} : ask'[r].at = ask[r].at
         /\ \A r \in Askers \ {q} : r \notin Late => ask'[r] = ask[r]
         /\ \A r \in Askers \ {q} : r \in Late =>
              ask'[r].table = ask[r].table /\ ask'[r].n = ask[r].n /\ ask'[r].raced = TRUE
<1>1. \A r \in Late : /\ [ask[r] EXCEPT !.raced = TRUE] \in AskRows
                      /\ [ask[r] EXCEPT !.raced = TRUE].at = ask[r].at
                      /\ [ask[r] EXCEPT !.raced = TRUE].table = ask[r].table
                      /\ [ask[r] EXCEPT !.raced = TRUE].n = ask[r].n
                      /\ [ask[r] EXCEPT !.raced = TRUE].raced = TRUE
  BY OvertakenRow
<1>2. \A r \in Askers : ask[r] \in AskRows
  BY DEF TablesTypeOK
<1>3. NoAsk \in AskRows /\ NoAsk.at = "idle"
  BY DEF AskRows, NoAsk
<1>4. \A r \in Askers : ask'[r] = IF r = q THEN NoAsk
                                  ELSE IF r \in Late THEN [ask[r] EXCEPT !.raced = TRUE]
                                  ELSE ask[r]
  OBVIOUS
<1>5. ask' \in [Askers -> AskRows]
  BY <1>1, <1>2, <1>3
<1> QED
  BY <1>1, <1>3, <1>4, <1>5

\* The requests that still stand after one has been written: what they looked
\* at is as it was, or they are overtaken.
LEMMA WriteTableKeeps ==
  ASSUME TablesInv, NEW q \in Askers, WriteTable(q)
  PROVE  TablesInv'
<1> USE DEF TablesInv
<1> DEFINE t == ask[q].table
           n == ask[q].n
           fits == n \in Numbers /\ \A s \in Tables \ {t} : number[s] # n
           ok == CASE ask[q].at = "create" -> number[t] = 0 /\ fits
                   [] ask[q].at = "update" -> number[t] # 0 /\ fits
                   [] OTHER -> number[t] # 0 /\ orders[t] = "none" /\ t \notin everAssigned
           Late == {r \in Askers : /\ Writing(r) /\ ok /\ number[t] # n
                                   /\ ask[r].table = t \/ (n # 0 /\ ask[r].n = n)}
<1>1. /\ Writing(q)
      /\ number' = IF ok THEN [number EXCEPT ![t] = n] ELSE number
      /\ surprised' = (surprised \/ ~ (ok \/ ask[q].raced \/ Foreseeable(ask[q])))
      /\ UNCHANGED <<active, everAssigned, orders, overlapped>>
  BY DEF WriteTable
<1>2. ask' = [[r \in Askers |-> IF r \in Late THEN [ask[r] EXCEPT !.raced = TRUE] ELSE ask[r]]
                EXCEPT ![q] = NoAsk]
  BY DEF WriteTable, Overtake
<1>3. t \in Tables /\ n \in Numbers \cup Unfit \cup {0} /\ ask[q].at \in Writes
  BY <1>1, AskFields DEF Writing
<1>4. ok /\ n # 0 => fits
  BY <1>1, <1>3 DEF NumbersAreKept, Writes
<1>5. ~ ask[q].raced /\ ~ Foreseeable(ask[q]) => ok
  BY <1>1, <1>3 DEF AsksStand, Free, Writes, Foreseeable
<1>6. Late \in SUBSET Askers /\ \A r \in Late : Writing(r)
  OBVIOUS
<1>7. \A r \in Askers : r \notin Late /\ Writing(r) =>
        /\ number'[ask[r].table] = number[ask[r].table]
        /\ \A s \in Tables : ask[r].n # 0 /\ number[s] # ask[r].n => number'[s] # ask[r].n
  <2> SUFFICES ASSUME NEW r \in Askers, r \notin Late, Writing(r)
               PROVE  /\ number'[ask[r].table] = number[ask[r].table]
                      /\ \A s \in Tables :
                           ask[r].n # 0 /\ number[s] # ask[r].n => number'[s] # ask[r].n
    OBVIOUS
  <2>1. CASE ~ ok \/ number[t] = n
    BY <1>1, <1>3, <2>1 DEF TablesTypeOK
  <2>2. CASE ok /\ ask[r].table # t /\ (n = 0 \/ ask[r].n # n)
    BY <1>1, <1>3, <2>2, AskFields DEF TablesTypeOK
  <2> QED
    BY <2>1, <2>2
<1>7a. ok => n \in Numbers \cup {0}
  BY <1>3, <1>4
<1> HIDE DEF ok, Late, n, t, fits
<1>8. /\ ask' \in [Askers -> AskRows] /\ ask'[q].at = "idle"
      /\ \A r \in Askers \ {q} : ask'[r].at = ask[r].at
      /\ \A r \in Askers \ {q} : r \notin Late => ask'[r] = ask[r]
      /\ \A r \in Askers \ {q} : r \in Late =>
           ask'[r].table = ask[r].table /\ ask'[r].n = ask[r].n /\ ask'[r].raced = TRUE
  BY <1>2, <1>6, RowsAfter
<1>9. TablesTypeOK'
  BY <1>1, <1>3, <1>7a, <1>8 DEF TablesTypeOK
<1>10. HoldersAreFound'
  <2> SUFFICES ASSUME NEW r \in Askers, ask'[r].at = "assign", ~ ask'[r].shared
               PROVE  \A b \in active' : b.table = ask'[r].table => b \in ask'[r].found
    BY DEF HoldersAreFound, ActiveOf
  <2>1. r # q /\ ask[r].at = "assign"
    BY <1>8
  <2>2. r \notin Late
    BY <1>6, <2>1 DEF Writing, Writes
  <2>3. ask'[r] = ask[r]
    BY <1>8, <2>1, <2>2
  <2> QED
    BY <1>1, <2>1, <2>3 DEF HoldersAreFound, ActiveOf
<1>11. OneWaiterPerTable' /\ InternalErrorsAreRaces'
  BY <1>1, <1>5 DEF OneWaiterPerTable, InternalErrorsAreRaces
<1>12. NumbersDiffer'
  <2>1. CASE ok
    <3>1. \A s \in Tables : number'[s] = IF s = t THEN n ELSE number[s]
      BY <1>1, <1>3, <2>1 DEF TablesTypeOK
    <3>2. n # 0 => \A s \in Tables \ {t} : number[s] # n
      BY <1>4, <2>1 DEF fits
    <3> QED
      BY <3>1, <3>2 DEF NumbersDiffer
  <2>2. CASE ~ ok
    BY <1>1, <2>2 DEF NumbersDiffer
  <2> QED
    BY <2>1, <2>2
<1>13. NumbersAreKept'
  <2>1. \A r \in Askers : Writing(r)' => r # q /\ Writing(r) /\ ask'[r].n = ask[r].n
    BY <1>8 DEF Writing, Writes
  <2> QED
    BY <1>8, <2>1 DEF NumbersAreKept
<1>14. AsksStand'
  <2> SUFFICES ASSUME NEW r \in Askers, Writing(r)', ~ ask'[r].raced
               PROVE  /\ ask'[r].at = "create" =>
                           /\ number'[ask'[r].table] = 0 /\ ask'[r].n # 0
                           /\ \A s \in Tables \ {ask'[r].table} : number'[s] # ask'[r].n
                      /\ ask'[r].at = "update" =>
                           /\ number'[ask'[r].table] # 0 /\ ask'[r].n # 0
                           /\ \A s \in Tables \ {ask'[r].table} : number'[s] # ask'[r].n
                      /\ ask'[r].at = "remove" =>
                           /\ number'[ask'[r].table] # 0 /\ ask'[r].n = 0
                           /\ orders'[ask'[r].table] = "none"
    BY DEF AsksStand, Free
  <2>1. r # q /\ r \notin Late /\ Writing(r)
    BY <1>8 DEF Writing, Writes
  <2>2. ask'[r] = ask[r] /\ orders' = orders
    BY <1>1, <1>8, <2>1
  <2>3. /\ number'[ask[r].table] = number[ask[r].table]
        /\ \A s \in Tables : ask[r].n # 0 /\ number[s] # ask[r].n => number'[s] # ask[r].n
    BY <1>7, <2>1
  <2> QED
    BY <2>1, <2>2, <2>3 DEF AsksStand, Free
<1> QED
  BY <1>9, <1>10, <1>11, <1>12, <1>13, <1>14

\* The row inserted is the only one left, unless another assignment of the table
\* came in between.
LEMMA InsertKeeps ==
  ASSUME TablesInv, NEW q \in Askers, NEW a \in Assignments, InsertAssignment(q, a)
  PROVE  TablesInv'
<1> USE DEF TablesInv
<1> DEFINE t == ask[q].table
<1>1. /\ ask[q].at = "assign" /\ a.table = t
      /\ ask' = [r \in Askers |-> IF r = q THEN NoAsk
                                  ELSE IF Assigning(r, t) THEN [ask[r] EXCEPT !.shared = TRUE]
                                  ELSE ask[r]]
      /\ UNCHANGED <<number, orders, surprised>>
      /\ \/ UNCHANGED <<active, everAssigned, overlapped>>
         \/ /\ active' = (active \ ask[q].found) \cup {a}
            /\ everAssigned' = everAssigned \cup {t}
            /\ overlapped' = [overlapped EXCEPT ![t] = ask[q].shared]
  BY DEF InsertAssignment
<1>2. t \in Tables /\ ask[q].shared \in BOOLEAN
  BY <1>1, AskFields
<1>3. \A r \in Askers : ask[r].at = "assign" =>
        LET late == [ask[r] EXCEPT !.shared = TRUE] IN
        late \in AskRows /\ late.at = "assign" /\ late.table = ask[r].table /\ late.shared = TRUE
        /\ late.found = ask[r].found
  BY AskFields DEF AskRows
<1>4. \A r \in Askers :
        /\ ask'[r].at = IF r = q THEN "idle" ELSE ask[r].at
        /\ ask'[r] \in AskRows
        /\ r # q /\ ask[r].at # "assign" => ask'[r] = ask[r]
        /\ r # q /\ ask[r].at = "assign" =>
             /\ ask'[r].table = ask[r].table /\ ask'[r].found = ask[r].found
             /\ ~ ask'[r].shared => ask[r].table # t /\ ~ ask[r].shared
  <2> SUFFICES ASSUME NEW r \in Askers
               PROVE  /\ ask'[r].at = IF r = q THEN "idle" ELSE ask[r].at
                      /\ ask'[r] \in AskRows
                      /\ r # q /\ ask[r].at # "assign" => ask'[r] = ask[r]
                      /\ r # q /\ ask[r].at = "assign" =>
                           /\ ask'[r].table = ask[r].table /\ ask'[r].found = ask[r].found
                           /\ ~ ask'[r].shared => ask[r].table # t /\ ~ ask[r].shared
    OBVIOUS
  <2>1. CASE r = q
    BY <1>1, <2>1 DEF NoAsk, AskRows
  <2>2. CASE r # q /\ Assigning(r, t)
    BY <1>1, <1>3, <2>2 DEF Assigning
  <2>3. CASE r # q /\ ~ Assigning(r, t)
    BY <1>1, <2>3 DEF Assigning, TablesTypeOK
  <2> QED
    BY <2>1, <2>2, <2>3
<1>5. ask' \in [Askers -> AskRows]
  BY <1>1, <1>4
<1>6. ~ ask[q].shared => ActiveOf(t) \subseteq ask[q].found
  BY <1>1 DEF HoldersAreFound
<1> HIDE DEF t
<1>7. TablesTypeOK'
  BY <1>1, <1>2, <1>5 DEF TablesTypeOK
<1>8. HoldersAreFound'
  <2> SUFFICES ASSUME NEW r \in Askers, ask'[r].at = "assign", ~ ask'[r].shared
               PROVE  \A b \in active' : b.table = ask'[r].table => b \in ask'[r].found
    BY DEF HoldersAreFound, ActiveOf
  <2>1. r # q /\ ask[r].at = "assign"
    BY <1>4
  <2>2. ask[r].table # t /\ ask'[r].table = ask[r].table /\ ask'[r].found = ask[r].found
        /\ ~ ask[r].shared
    BY <1>4, <2>1
  <2>3. ActiveOf(ask[r].table) \subseteq ask[r].found
    BY <2>1, <2>2 DEF HoldersAreFound
  <2> QED
    BY <1>1, <2>2, <2>3 DEF ActiveOf
<1>9. OneWaiterPerTable'
  <2>1. CASE UNCHANGED <<active, everAssigned, overlapped>>
    BY <2>1 DEF OneWaiterPerTable
  <2>2. CASE /\ active' = (active \ ask[q].found) \cup {a}
             /\ overlapped' = [overlapped EXCEPT ![t] = ask[q].shared]
    <3> SUFFICES ASSUME NEW b \in active', NEW c \in active', b.table = c.table, b # c
                 PROVE  overlapped'[b.table]
      BY DEF OneWaiterPerTable
    <3>1. CASE b.table = t
      <4>1. b \in ActiveOf(t) \ ask[q].found \/ c \in ActiveOf(t) \ ask[q].found
        BY <2>2, <3>1 DEF ActiveOf
      <4>2. ask[q].shared
        BY <1>6, <4>1
      <4> QED
        BY <1>2, <2>2, <3>1, <4>2 DEF TablesTypeOK
    <3>2. CASE b.table # t
      <4>1. b \in active /\ c \in active
        BY <1>1, <2>2, <3>2
      <4>2. b.table \in Tables
        BY <4>1 DEF TablesTypeOK, Assignments
      <4>3. overlapped[b.table]
        BY <4>1 DEF OneWaiterPerTable
      <4> QED
        BY <2>2, <3>2, <4>2, <4>3 DEF TablesTypeOK
    <3> QED
      BY <3>1, <3>2
  <2> QED
    BY <1>1, <2>1, <2>2
<1>10. NumbersDiffer' /\ InternalErrorsAreRaces'
  BY <1>1 DEF NumbersDiffer, InternalErrorsAreRaces
<1>11. NumbersAreKept'
  BY <1>4 DEF NumbersAreKept, Writing, Writes
<1>12. AsksStand'
  <2>1. \A r \in Askers : Writing(r)' => Writing(r) /\ ask'[r] = ask[r]
    BY <1>4 DEF Writing, Writes
  <2>2. number' = number /\ orders' = orders
    BY <1>1
  <2> QED
    BY <2>1, <2>2 DEF AsksStand, Free
<1> QED
  BY <1>7, <1>8, <1>9, <1>10, <1>11, <1>12

LEMMA ReleaseHolderKeeps ==
  ASSUME TablesInv, NEW q \in Askers, ReleaseHolder(q)
  PROVE  TablesInv'
<1> USE DEF TablesInv
<1>1. /\ active' \subseteq active /\ ask' = [ask EXCEPT ![q] = NoAsk]
      /\ UNCHANGED <<number, everAssigned, orders, overlapped, surprised>>
  BY DEF ReleaseHolder
<1>2. \A r \in Askers : ask'[r] = IF r = q THEN NoAsk ELSE ask[r]
  BY <1>1 DEF TablesTypeOK
<1>3. TablesTypeOK'
  BY <1>1 DEF TablesTypeOK, AskRows
<1>4. HoldersAreFound' /\ OneWaiterPerTable'
  BY <1>1, <1>2 DEF HoldersAreFound, ActiveOf, OneWaiterPerTable, NoAsk
<1>5. NumbersDiffer' /\ InternalErrorsAreRaces' /\ NumbersAreKept'
  BY <1>1, <1>2 DEF NumbersDiffer, InternalErrorsAreRaces, NumbersAreKept, NoAsk, Writing, Writes
<1>6. AsksStand'
  BY <1>1, <1>2 DEF AsksStand, Writing, Writes, Free, NoAsk
<1> QED
  BY <1>3, <1>4, <1>5, <1>6

LEMMA OrderMovesKeeps ==
  ASSUME TablesInv, NEW t \in Tables, OrderMoves(t)
  PROVE  TablesInv'
<1> USE DEF TablesInv
<1>1. /\ orders' = [orders EXCEPT ![t] = IF @ = "active" THEN "past" ELSE "active"]
      /\ ask' = [r \in Askers |-> IF Writing(r) /\ ask[r].table = t
                                  THEN [ask[r] EXCEPT !.raced = TRUE] ELSE ask[r]]
      /\ UNCHANGED <<number, active, everAssigned, overlapped, surprised>>
  BY DEF OrderMoves, Overtake
<1>2. \A r \in Askers :
        /\ ask'[r] \in AskRows /\ ask'[r].at = ask[r].at
        /\ ~ Writing(r) => ask'[r] = ask[r]
        /\ Writing(r) => /\ ask'[r].table = ask[r].table /\ ask'[r].n = ask[r].n
                         /\ ~ ask'[r].raced => ask[r].table # t /\ ~ ask[r].raced
  <2> SUFFICES ASSUME NEW r \in Askers
               PROVE  /\ ask'[r] \in AskRows /\ ask'[r].at = ask[r].at
                      /\ ~ Writing(r) => ask'[r] = ask[r]
                      /\ Writing(r) => /\ ask'[r].table = ask[r].table /\ ask'[r].n = ask[r].n
                                       /\ ~ ask'[r].raced => ask[r].table # t /\ ~ ask[r].raced
    OBVIOUS
  <2>1. CASE Writing(r) /\ ask[r].table = t
    BY <1>1, <2>1, OvertakenRow
  <2>2. CASE ~ (Writing(r) /\ ask[r].table = t)
    BY <1>1, <2>2 DEF TablesTypeOK
  <2> QED
    BY <2>1, <2>2
<1>3. ask' \in [Askers -> AskRows]
  BY <1>1, <1>2
<1>4. TablesTypeOK'
  BY <1>1, <1>3 DEF TablesTypeOK
<1>5. HoldersAreFound'
  BY <1>1, <1>2 DEF HoldersAreFound, ActiveOf, Writing, Writes
<1>6. OneWaiterPerTable' /\ NumbersDiffer' /\ InternalErrorsAreRaces'
  BY <1>1 DEF OneWaiterPerTable, NumbersDiffer, InternalErrorsAreRaces
<1>7. NumbersAreKept'
  BY <1>2 DEF NumbersAreKept, Writing, Writes
<1>8. AsksStand'
  <2> SUFFICES ASSUME NEW r \in Askers, Writing(r)', ~ ask'[r].raced
               PROVE  /\ ask'[r].at = "create" =>
                           /\ number'[ask'[r].table] = 0 /\ ask'[r].n # 0
                           /\ \A s \in Tables \ {ask'[r].table} : number'[s] # ask'[r].n
                      /\ ask'[r].at = "update" =>
                           /\ number'[ask'[r].table] # 0 /\ ask'[r].n # 0
                           /\ \A s \in Tables \ {ask'[r].table} : number'[s] # ask'[r].n
                      /\ ask'[r].at = "remove" =>
                           /\ number'[ask'[r].table] # 0 /\ ask'[r].n = 0
                           /\ orders'[ask'[r].table] = "none"
    BY DEF AsksStand, Free
  <2>1. Writing(r)
    BY <1>2 DEF Writing
  <2>2. ask'[r].table = ask[r].table /\ ask'[r].n = ask[r].n /\ ask'[r].at = ask[r].at
        /\ ask[r].table # t /\ ~ ask[r].raced
    BY <1>2, <2>1
  <2>3. ask[r].table \in Tables
    BY <2>1, AskFields
  <2>4. orders'[ask[r].table] = orders[ask[r].table]
    BY <1>1, <2>2, <2>3 DEF TablesTypeOK
  <2> QED
    BY <1>1, <2>1, <2>2, <2>4 DEF AsksStand, Free
<1> QED
  BY <1>4, <1>5, <1>6, <1>7, <1>8

LEMMA TablesKeep == TablesInv /\ [TablesNext]_tableVars => TablesInv'
<1> SUFFICES ASSUME TablesInv, [TablesNext]_tableVars PROVE TablesInv'
  OBVIOUS
<1>1. CASE UNCHANGED tableVars
  BY <1>1 DEF tableVars, floorVars, TablesInv, TablesTypeOK, HoldersAreFound, ActiveOf,
     OneWaiterPerTable, NumbersDiffer, NumbersAreKept, AsksStand, Writing, Free,
     InternalErrorsAreRaces
<1> QED
  BY <1>1, CreateTableKeeps, UpdateTableKeeps, RemoveTableKeeps, ReleaseHoldersKeeps,
     WriteTableKeeps, InsertKeeps, FindHolderKeeps, ReleaseHolderKeeps, OrderMovesKeeps
  DEF TablesNext

\* A table has one waiter, but for assignments that overlapped.
THEOREM ATableHasOneWaiter == TablesSpec => []OneWaiterPerTable
<1>1. TablesInv => OneWaiterPerTable
  BY DEF TablesInv
<1> QED
  BY <1>1, TablesStart, TablesKeep, PTL DEF TablesSpec

\* Whoever is answered with a bare 500 at the tables was overtaken, gave a number
\* that the column cannot hold, or was removing a table assigned at some time.
THEOREM TableErrorsAreRaces == TablesSpec => []InternalErrorsAreRaces
<1>1. TablesInv => InternalErrorsAreRaces
  BY DEF TablesInv
<1> QED
  BY <1>1, TablesStart, TablesKeep, PTL DEF TablesSpec

-----------------------------------------------------------------------------
\* The stock

LEMMA StockStart == StockInit => StockInv
<1> SUFFICES ASSUME StockInit PROVE StockInv
  OBVIOUS
<1>1. StockTypeOK
  <2>1. NoForm \in StockForms /\ [at |-> "unpaid", left |-> {}] \in
          [at : {"unpaid", "taking", "failed"}, left : SUBSET Ingredients]
    BY DEF StockForms
  <2>2. sale \in [Sales -> [at : {"unpaid", "taking", "failed"}, left : SUBSET Ingredients]]
    BY <2>1 DEF StockInit
  <2>3. form \in [Managers -> StockForms]
    BY <2>1 DEF StockInit
  <2>4. stock \in [Ingredients -> Int] /\ books \in [Ingredients -> Int]
    <3>1. stock \in [Ingredients -> Int]
      BY DEF StockInit
    <3>2. books = stock
      BY DEF StockInit
    <3> QED
      BY <3>1, <3>2
  <2>5. /\ supplier \in [Ingredients -> Suppliers \cup {"none", "absent"}]
        /\ lost \in [Ingredients -> BOOLEAN] /\ suppliers \subseteq Suppliers
    BY DEF StockInit
  <2> QED
    BY <2>2, <2>3, <2>4, <2>5 DEF StockTypeOK
<1>2. ChangesAreOfKept /\ StockIsAccounted
  BY DEF StockInit, ChangesAreOfKept, StockIsAccounted, Kept
<1> QED
  BY <1>1, <1>2 DEF StockInv

LEMMA UsesAreWhole == \A s \in Sales, i \in Ingredients : Uses[s][i] \in Int
<1> TAKE s \in Sales, i \in Ingredients
<1>1. Uses[s] \in [Ingredients -> Nat]
  BY StockAssumption
<1> QED
  BY <1>1

\* What the type of a form says of it.
LEMMA FormRows ==
  ASSUME StockTypeOK, NEW m \in Managers
  PROVE  \/ form[m] = NoForm /\ form[m].at = "closed"
         \/ /\ form[m] # NoForm /\ form[m].at \in {"edit", "adjust"}
            /\ form[m].on \in Ingredients /\ form[m].read \in Int
            /\ form[m].at = "adjust" => form[m].by \in Int
<1>1. form[m] \in StockForms
  BY DEF StockTypeOK
<1> QED
  BY <1>1 DEF StockForms, NoForm

\* Sums of what sales use of an ingredient are whole numbers, and go by members.
LEMMA UsesAddUp ==
  ASSUME NEW i \in Ingredients, NEW S \in SUBSET Sales
  PROVE  LET f == [s \in Sales |-> Uses[s][i]] IN
         /\ SumFunctionOnSet(f, S) \in Int
         /\ \A s \in S : SumFunctionOnSet(f, S) = Uses[s][i] + SumFunctionOnSet(f, S \ {s})
<1> DEFINE f == [s \in Sales |-> Uses[s][i]]
<1>1. IsFiniteSet(S) /\ \A s \in S : f[s] \in Int /\ f[s] = Uses[s][i]
  BY FS_Subset, StockAssumption, UsesAreWhole
<1> HIDE DEF f
<1>2. SumFunctionOnSet(f, S) \in Int
  BY <1>1, SumIsInteger
<1>3. ASSUME NEW s \in S
      PROVE  SumFunctionOnSet(f, S) = f[s] + SumFunctionOnSet(f, S \ {s})
  BY <1>1, SumWithout
<1> QED
  BY <1>1, <1>2, <1>3 DEF f

LEMMA UntakenIsInteger ==
  ASSUME NEW i \in Ingredients
  PROVE  Untaken(i) \in Int
BY UsesAddUp, {s \in Sales : i \in sale[s].left} \in SUBSET Sales DEF Untaken

\* A step that leaves sales alone and puts a form on an ingredient that is kept.
LEMMA StockFormsStep ==
  ASSUME StockInv, NEW m \in Managers, NEW row \in StockForms,
         form' = [form EXCEPT ![m] = row], row # NoForm => Kept(row.on),
         UNCHANGED <<stock, supplier, suppliers, sale, books, lost>>
  PROVE  StockInv'
<1> USE DEF StockInv
<1>1. StockTypeOK'
  BY DEF StockTypeOK
<1>2. ChangesAreOfKept'
  BY DEF ChangesAreOfKept, Kept, StockTypeOK
<1>3. StockIsAccounted'
  BY DEF StockIsAccounted, Kept, Untaken
<1> QED
  BY <1>1, <1>2, <1>3

\* A write over what was read is in the books; any other loses count.
LEMMA StockOverwriteStep ==
  ASSUME StockInv, NEW m \in Managers, NEW q \in Int, form[m] # NoForm, Overwrite(m, q),
         UNCHANGED <<suppliers, sale>>,
         supplier' \in [Ingredients -> Suppliers \cup {"none", "absent"}],
         \A i \in Ingredients : Kept(i)' <=> Kept(i)
  PROVE  StockInv'
<1> USE DEF StockInv
<1> DEFINE j == form[m].on
<1>1. j \in Ingredients /\ form[m].read \in Int
  BY FormRows
<1>2. /\ stock' = [stock EXCEPT ![j] = q]
      /\ lost' = [lost EXCEPT ![j] = lost[j] \/ stock[j] # form[m].read]
      /\ books' = IF lost'[j] THEN books ELSE [books EXCEPT ![j] = books[j] + q - form[m].read]
      /\ form' = [form EXCEPT ![m] = NoForm]
  BY DEF Overwrite
<1>3. StockTypeOK'
  <2>1. lost' \in [Ingredients -> BOOLEAN] /\ stock' \in [Ingredients -> Int]
    BY <1>1, <1>2 DEF StockTypeOK
  <2>2. books' \in [Ingredients -> Int]
    <3>1. books \in [Ingredients -> Int] /\ books[j] \in Int
      BY <1>1 DEF StockTypeOK
    <3>2. \A a, b, c \in Int : a + b - c \in Int
      OBVIOUS
    <3>3. books[j] + q - form[m].read \in Int
      <4> HIDE DEF j
      <4> QED
        BY <1>1, <3>1, <3>2, Zenon
    <3> HIDE DEF j
    <3> QED
      BY <1>2, <3>1, <3>3
  <2>3. form' \in [Managers -> StockForms]
    BY <1>2 DEF StockTypeOK, StockForms
  <2> QED
    BY <2>1, <2>2, <2>3 DEF StockTypeOK
<1>4. ChangesAreOfKept'
  <2>1. \A n \in Managers : form'[n] = IF n = m THEN NoForm ELSE form[n]
    BY <1>2 DEF StockTypeOK
  <2>2. \A n \in Managers : form[n] # NoForm => form[n].on \in Ingredients
    BY FormRows
  <2>3. \A s \in Sales : sale[s].left \subseteq Ingredients
    BY DEF StockTypeOK
  <2> QED
    BY <2>1, <2>2, <2>3 DEF ChangesAreOfKept
<1>5. StockIsAccounted'
  <2> SUFFICES ASSUME NEW i \in Ingredients, Kept(i), ~ lost'[i]
               PROVE  stock'[i] = books'[i] + Untaken(i)
    BY DEF StockIsAccounted, Untaken
  <2> HIDE DEF j
  <2>1. ~ lost[i] /\ (i = j => stock[i] = form[m].read)
    BY <1>1, <1>2 DEF StockTypeOK
  <2>2. stock[i] = books[i] + Untaken(i) /\ Untaken(i) \in Int
    BY <2>1, UntakenIsInteger DEF StockIsAccounted
  <2>3. CASE i = j
    <3>1. stock'[i] = q /\ books'[i] = books[i] + q - form[m].read
      BY <1>1, <1>2, <2>3 DEF StockTypeOK
    <3>2. books[i] \in Int /\ stock[i] \in Int
      BY DEF StockTypeOK
    <3> QED
      BY <1>1, <2>1, <2>2, <2>3, <3>1, <3>2
  <2>4. CASE i # j
    <3>1. stock'[i] = stock[i] /\ books'[i] = books[i]
      BY <1>1, <1>2, <2>4 DEF StockTypeOK
    <3>2. stock[i] = books[i] + Untaken(i)
      BY <2>2
    <3> QED
      BY <3>1, <3>2, Zenon
  <2> QED
    BY <2>3, <2>4
<1> QED
  BY <1>3, <1>4, <1>5

LEMMA StockUpdateStep ==
  ASSUME StockInv, NEW m \in Managers, NEW q \in Quantities, NEW s \in Suppliers \cup {"none"},
         UpdateIngredient(m, q, s)
  PROVE  StockInv'
<1>1. form[m] # NoForm /\ form[m].on \in Ingredients /\ Kept(form[m].on)
  BY FormRows DEF UpdateIngredient, StockInv, ChangesAreOfKept
<1>2. supplier' = IF s = "none" THEN supplier ELSE [supplier EXCEPT ![form[m].on] = s]
  BY DEF UpdateIngredient
<1>3. /\ supplier' \in [Ingredients -> Suppliers \cup {"none", "absent"}]
      /\ \A i \in Ingredients : Kept(i)' <=> Kept(i)
  BY <1>1, <1>2, StockAssumption DEF StockInv, StockTypeOK, Kept
<1>4. q \in Int
  BY StockAssumption
<1> QED
  BY <1>1, <1>3, <1>4, StockOverwriteStep DEF UpdateIngredient

LEMMA StockAdjustStep ==
  ASSUME StockInv, NEW m \in Managers, AdjustWrite(m)
  PROVE  StockInv'
<1>1. form[m] # NoForm /\ form[m].read + form[m].by \in Int
  BY FormRows DEF AdjustWrite, StockInv
<1>2. UNCHANGED <<supplier, suppliers, sale>> /\ Overwrite(m, form[m].read + form[m].by)
  BY DEF AdjustWrite
<1>3. \A i \in Ingredients : Kept(i)' <=> Kept(i)
  BY <1>2 DEF Kept
<1> QED
  BY <1>1, <1>2, <1>3, StockOverwriteStep DEF StockInv, StockTypeOK

\* A new ingredient is counted as it is entered, and no sale is to take of it.
LEMMA StockCreateStep ==
  ASSUME StockInv, NEW j \in Ingredients, NEW q \in Quantities, NEW s \in Suppliers \cup {"none"},
         CreateIngredient(j, q, s)
  PROVE  StockInv'
<1> USE DEF StockInv
<1>1. /\ ~ Kept(j) /\ UNCHANGED <<suppliers, form, sale, lost>>
      /\ stock' = [stock EXCEPT ![j] = q] /\ books' = [books EXCEPT ![j] = q]
      /\ supplier' = [supplier EXCEPT ![j] = s]
  BY DEF CreateIngredient
<1>2. q \in Int /\ s # "absent"
  BY StockAssumption
<1>3. StockTypeOK'
  BY <1>1, <1>2 DEF StockTypeOK
<1>4. \A i \in Ingredients : Kept(i)' <=> (Kept(i) \/ i = j)
  BY <1>1, <1>2 DEF StockTypeOK, Kept
<1>5. ChangesAreOfKept'
  <2>1. \A n \in Managers : form[n] # NoForm => form[n].on \in Ingredients
    BY FormRows
  <2>2. \A t \in Sales : sale[t].left \subseteq Ingredients
    BY DEF StockTypeOK
  <2> QED
    BY <1>1, <1>4, <2>1, <2>2 DEF ChangesAreOfKept
<1>6. StockIsAccounted'
  <2> SUFFICES ASSUME NEW i \in Ingredients, Kept(i) \/ i = j, ~ lost[i]
               PROVE  stock'[i] = books'[i] + Untaken(i)
    BY <1>1, <1>4 DEF StockIsAccounted, Untaken
  <2>1. CASE i = j
    <3>1. {t \in Sales : i \in sale[t].left} = {}
      BY <1>1, <2>1 DEF ChangesAreOfKept
    <3>2. Untaken(i) = 0
      BY <3>1, SumOverNothing DEF Untaken
    <3>3. stock'[i] = q /\ books'[i] = q
      BY <1>1, <2>1 DEF StockTypeOK
    <3> QED
      BY <1>2, <3>2, <3>3
  <2>2. CASE i # j
    <3>1. stock'[i] = stock[i] /\ books'[i] = books[i] /\ Kept(i)
      BY <1>1, <2>2 DEF StockTypeOK
    <3>2. stock[i] = books[i] + Untaken(i)
      BY <3>1 DEF StockIsAccounted
    <3> QED
      BY <3>1, <3>2, Zenon
  <2> QED
    BY <2>1, <2>2
<1> QED
  BY <1>3, <1>5, <1>6

\* A sale that starts is booked, and owes what it is booked with.
LEMMA SaleStartStep ==
  ASSUME StockInv, NEW x \in Sales, SaleStart(x)
  PROVE  StockInv'
<1> USE DEF StockInv
<1>1. /\ sale[x].at = "unpaid" /\ UNCHANGED <<stock, supplier, suppliers, form, lost>>
      /\ sale' = [sale EXCEPT ![x] = [at |-> "taking", left |-> Needed(x)]]
      /\ books' = [i \in Ingredients |->
                     IF i \in Needed(x) THEN books[i] - Uses[x][i] ELSE books[i]]
  BY DEF SaleStart
<1>2. \A s \in Sales : sale'[s] = IF s = x THEN [at |-> "taking", left |-> Needed(x)] ELSE sale[s]
  BY <1>1 DEF StockTypeOK
<1>3. StockTypeOK'
  <2>1. Needed(x) \in SUBSET Ingredients
    BY DEF Needed
  <2>2. books' \in [Ingredients -> Int]
    <3>1. \A i \in Ingredients : books[i] \in Int /\ Uses[x][i] \in Int
      BY UsesAreWhole DEF StockTypeOK
    <3>2. \A a, b \in Int : a - b \in Int
      OBVIOUS
    <3>3. \A i \in Ingredients : books[i] - Uses[x][i] \in Int
      BY <3>1, <3>2, Zenon
    <3> QED
      BY <1>1, <3>1, <3>3
  <2> QED
    BY <1>1, <2>1, <2>2 DEF StockTypeOK
<1>4. ChangesAreOfKept'
  <2>1. \A s \in Sales : sale'[s].at = "unpaid" => s # x
    BY <1>2
  <2>2. \A i \in Needed(x) : Kept(i)
    BY DEF Needed
  <2>3. \A s \in Sales : sale'[s].left = IF s = x THEN Needed(x) ELSE sale[s].left
    BY <1>2
  <2>4. \A s \in Sales : s # x => sale'[s] = sale[s]
    BY <1>2
  <2>5. \A i : Kept(i)' <=> Kept(i)
    BY <1>1 DEF Kept
  <2>6. \A s \in Sales : /\ \A i \in sale'[s].left : Kept(i)
                         /\ sale'[s].at = "unpaid" => sale'[s].left = {}
    BY <2>1, <2>2, <2>3, <2>4 DEF ChangesAreOfKept
  <2> QED
    BY <1>1, <2>5, <2>6 DEF ChangesAreOfKept
<1>5. StockIsAccounted'
  <2> SUFFICES ASSUME NEW i \in Ingredients, Kept(i), ~ lost[i]
               PROVE  stock[i] = books'[i] + Untaken(i)'
    BY <1>1 DEF StockIsAccounted, Kept
  <2> DEFINE S == {s \in Sales : i \in sale[s].left}
             T == {s \in Sales : i \in sale'[s].left}
             f == [s \in Sales |-> Uses[s][i]]
  <2>1. stock[i] = books[i] + SumFunctionOnSet(f, S)
    BY DEF StockIsAccounted, Untaken
  <2>2. Untaken(i)' = SumFunctionOnSet(f, T)
    BY DEF Untaken
  <2>3. x \notin S
    BY <1>1 DEF ChangesAreOfKept
  <2>4. T = IF i \in Needed(x) THEN S \cup {x} ELSE S
    BY <1>2, <2>3
  <2>5. CASE i \in Needed(x)
    <3>1. T \in SUBSET Sales /\ x \in T /\ T \ {x} = S
      BY <2>3, <2>4, <2>5
    <3>2. SumFunctionOnSet(f, T) = Uses[x][i] + SumFunctionOnSet(f, T \ {x})
      <4> HIDE DEF T
      <4> QED
        BY <3>1, UsesAddUp
    <3>3. SumFunctionOnSet(f, T \ {x}) = SumFunctionOnSet(f, S)
      BY <3>1
    <3>4. SumFunctionOnSet(f, S) \in Int
      BY UsesAddUp, S \in SUBSET Sales
    <3>5. books'[i] = books[i] - Uses[x][i] /\ books[i] \in Int /\ Uses[x][i] \in Int
      <4>1. i \in Ingredients /\ books \in [Ingredients -> Int]
        BY DEF StockTypeOK
      <4> QED
        BY <1>1, <2>5, <4>1, UsesAreWhole
    <3> HIDE DEF S, T, f
    <3> QED
      BY <2>1, <2>2, <3>2, <3>3, <3>4, <3>5
  <2>6. CASE i \notin Needed(x)
    <3>1. SumFunctionOnSet(f, T) = SumFunctionOnSet(f, S)
      BY <2>4, <2>6
    <3>2. books'[i] = books[i]
      BY <1>1, <2>6
    <3> QED
      BY <2>1, <2>2, <3>1, <3>2
  <2> QED
    BY <2>5, <2>6
<1> QED
  BY <1>3, <1>4, <1>5

\* What a sale takes, it owes no longer.
LEMMA SaleTakesStep ==
  ASSUME StockInv, NEW x \in Sales, NEW j \in Ingredients, SaleTakes(x, j)
  PROVE  StockInv'
<1> USE DEF StockInv
<1>1. /\ j \in sale[x].left /\ UNCHANGED <<supplier, suppliers, form, books, lost>>
      /\ stock' = [stock EXCEPT ![j] = stock[j] - Uses[x][j]]
      /\ sale' = [sale EXCEPT ![x].left = sale[x].left \ {j}]
  BY DEF SaleTakes
<1>2. \A s \in Sales : /\ sale'[s].at = sale[s].at
                       /\ sale'[s].left = IF s = x THEN sale[s].left \ {j} ELSE sale[s].left
  BY <1>1 DEF StockTypeOK
<1>3. StockTypeOK'
  <2>1. stock' \in [Ingredients -> Int]
    <3>1. stock \in [Ingredients -> Int] /\ stock[j] \in Int /\ Uses[x][j] \in Int
      BY UsesAreWhole DEF StockTypeOK
    <3>2. stock[j] - Uses[x][j] \in Int
      BY <3>1
    <3> QED
      BY <1>1, <3>1, <3>2
  <2> QED
    BY <1>1, <2>1 DEF StockTypeOK
<1>4. ChangesAreOfKept'
  <2>1. \A s \in Sales : sale'[s].left \subseteq sale[s].left /\ sale'[s].at = sale[s].at
    BY <1>2
  <2> QED
    BY <1>1, <2>1 DEF ChangesAreOfKept, Kept
<1>5. StockIsAccounted'
  <2> SUFFICES ASSUME NEW i \in Ingredients, Kept(i), ~ lost[i]
               PROVE  stock'[i] = books[i] + Untaken(i)'
    BY <1>1 DEF StockIsAccounted, Kept
  <2> DEFINE S == {s \in Sales : i \in sale[s].left}
             T == {s \in Sales : i \in sale'[s].left}
             f == [s \in Sales |-> Uses[s][i]]
  <2>1. stock[i] = books[i] + SumFunctionOnSet(f, S)
    BY DEF StockIsAccounted, Untaken
  <2>2. Untaken(i)' = SumFunctionOnSet(f, T)
    BY DEF Untaken
  <2>3. T = IF i = j THEN S \ {x} ELSE S
    BY <1>2
  <2>4. CASE i = j
    <3>1. S \in SUBSET Sales /\ T \in SUBSET Sales /\ x \in S /\ T = S \ {x}
      BY <1>1, <2>3, <2>4
    <3>2. SumFunctionOnSet(f, S) = Uses[x][i] + SumFunctionOnSet(f, S \ {x})
      <4> HIDE DEF S
      <4> QED
        BY <3>1, UsesAddUp
    <3>3. SumFunctionOnSet(f, T) = SumFunctionOnSet(f, S \ {x})
      BY <3>1
    <3>4. SumFunctionOnSet(f, T) \in Int
      <4> HIDE DEF T
      <4> QED
        BY <3>1, UsesAddUp
    <3>5. stock'[i] = stock[i] - Uses[x][i]
      BY <1>1, <2>4 DEF StockTypeOK
    <3>6. books[i] \in Int /\ Uses[x][i] \in Int /\ stock[i] \in Int
      BY UsesAreWhole DEF StockTypeOK
    <3> HIDE DEF S, T, f
    <3> QED
      BY <2>1, <2>2, <3>2, <3>3, <3>4, <3>5, <3>6
  <2>5. CASE i # j
    <3>1. SumFunctionOnSet(f, T) = SumFunctionOnSet(f, S)
      BY <2>3, <2>5
    <3>2. stock'[i] = stock[i]
      BY <1>1, <2>5 DEF StockTypeOK
    <3> QED
      BY <2>1, <2>2, <3>1, <3>2
  <2> QED
    BY <2>4, <2>5
<1> QED
  BY <1>3, <1>4, <1>5

\* A sale that fails goes on owing.
LEMMA SaleFailsStep ==
  ASSUME StockInv, NEW x \in Sales, SaleFails(x)
  PROVE  StockInv'
<1> USE DEF StockInv
<1>1. /\ sale' = [sale EXCEPT ![x].at = "failed"]
      /\ UNCHANGED <<stock, supplier, suppliers, form, books, lost>>
  BY DEF SaleFails
<1>2. \A s \in Sales : /\ sale'[s].at = "unpaid" => sale[s].at = "unpaid"
                       /\ sale'[s].left = sale[s].left
  BY <1>1 DEF StockTypeOK
<1>3. StockTypeOK'
  BY <1>1 DEF StockTypeOK
<1>4. ChangesAreOfKept'
  BY <1>1, <1>2 DEF ChangesAreOfKept, Kept
<1>5. StockIsAccounted'
  <2>1. ASSUME NEW i \in Ingredients PROVE Untaken(i)' = Untaken(i)
    <3>1. {s \in Sales : i \in sale'[s].left} = {s \in Sales : i \in sale[s].left}
      BY <1>2
    <3> QED
      BY <3>1 DEF Untaken
  <2> QED
    BY <1>1, <2>1 DEF StockIsAccounted, Kept
<1> QED
  BY <1>3, <1>4, <1>5

LEMMA StockStep == StockInv /\ [StockNext]_stockVars => StockInv'
<1> SUFFICES ASSUME StockInv, [StockNext]_stockVars PROVE StockInv'
  OBVIOUS
<1>1. ASSUME NEW m \in Managers, NEW i \in Ingredients, StartEdit(m, i) PROVE StockInv'
  <2>1. [at |-> "edit", on |-> i, read |-> stock[i]] \in StockForms
    BY DEF StockInv, StockTypeOK, StockForms
  <2> QED
    BY <1>1, <2>1, StockFormsStep DEF StartEdit
<1>2. ASSUME NEW m \in Managers, NEW i \in Ingredients, NEW d \in Adjustments, AdjustRead(m, i, d)
      PROVE  StockInv'
  <2>1. [at |-> "adjust", on |-> i, read |-> stock[i], by |-> d] \in StockForms
    BY StockAssumption DEF StockInv, StockTypeOK, StockForms
  <2> QED
    BY <1>2, <2>1, StockFormsStep DEF AdjustRead
<1>3. ASSUME NEW m \in Managers, CloseForm(m) PROVE StockInv'
  <2>1. NoForm \in StockForms
    BY DEF StockForms
  <2> QED
    BY <1>3, <2>1, StockFormsStep DEF CloseForm
<1>4. ASSUME NEW m \in Managers, NEW q \in Quantities, NEW s \in Suppliers \cup {"none"},
             UpdateIngredient(m, q, s)
      PROVE  StockInv'
  BY <1>4, StockUpdateStep
<1>5. ASSUME NEW m \in Managers, AdjustWrite(m) PROVE StockInv'
  BY <1>5, StockAdjustStep
<1>6. ASSUME NEW s \in Suppliers, CreateSupplier(s) PROVE StockInv'
  BY <1>6 DEF CreateSupplier, StockInv, StockTypeOK, ChangesAreOfKept, StockIsAccounted,
              Kept, Untaken
<1>7. ASSUME NEW i \in Ingredients, NEW q \in Quantities, NEW s \in Suppliers \cup {"none"},
             CreateIngredient(i, q, s)
      PROVE  StockInv'
  BY <1>7, StockCreateStep
<1>8. ASSUME NEW s \in Sales, SaleStart(s) PROVE StockInv'
  BY <1>8, SaleStartStep
<1>9. ASSUME NEW s \in Sales, SaleFails(s) PROVE StockInv'
  BY <1>9, SaleFailsStep
<1>10. ASSUME NEW s \in Sales, NEW i \in Ingredients, SaleTakes(s, i) PROVE StockInv'
  BY <1>10, SaleTakesStep
<1>11. CASE UNCHANGED stockVars
  BY <1>11 DEF stockVars, StockInv, StockTypeOK, ChangesAreOfKept, StockIsAccounted,
               Kept, Untaken
<1> QED
  BY <1>1, <1>2, <1>3, <1>4, <1>5, <1>6, <1>7, <1>8, <1>9, <1>10, <1>11 DEF StockNext

\* Whatever sales, adjustments and edit forms do to a quantity, and however far a
\* sale gets, the stock is the booked one but for what sales owe, until a
\* quantity is written over one that its writer had not read.
THEOREM TheStockIsAccountedFor == StockSpec => []StockIsAccounted
<1>1. StockSpec => []StockInv
  BY StockStart, StockStep, PTL DEF StockSpec
<1>2. StockInv => StockIsAccounted
  BY DEF StockInv
<1> QED
  BY <1>1, <1>2, PTL

-----------------------------------------------------------------------------
\* The floor

\* A behaviour of the floor is one of its tables: those that start with the
\* numbers at rest start as tables may, and what moves elsewhere moves no table.
LEMMA FloorHasTables == FloorSpec => TablesSpec
<1>1. FloorInit => TablesInit
  BY DEF FloorInit
<1>2. [FloorNext]_floorAllVars => [TablesNext]_tableVars
  BY DEF FloorNext, floorAllVars
<1> QED
  BY <1>1, <1>2, PTL DEF FloorSpec, TablesSpec

\* ... of its stock ...
LEMMA FloorHasStock == FloorSpec => StockSpec
<1>1. FloorInit => StockInit
  BY DEF FloorInit
<1>2. [FloorNext]_floorAllVars => [StockNext]_stockVars
  BY DEF FloorNext, floorAllVars
<1> QED
  BY <1>1, <1>2, PTL DEF FloorSpec, StockSpec

\* ... and of its menu.
LEMMA FloorHasMenu == FloorSpec => MenuSpec
<1>1. FloorInit => MenuInit
  BY DEF FloorInit
<1>2. [FloorNext]_floorAllVars => [MenuNext]_menuVars
  BY DEF FloorNext, floorAllVars
<1> QED
  BY <1>1, <1>2, PTL DEF FloorSpec, MenuSpec

\* What holds of each part holds of the whole: every invariant of the floor's
\* run, of any floor.
THEOREM TheFloorIsSafe ==
  FloorSpec => /\ []OneWaiterPerTable /\ []InternalErrorsAreRaces
               /\ []StockIsAccounted
               /\ []PicturesAreNotShared /\ []MenuErrorsAreRaces
BY FloorHasTables, FloorHasStock, FloorHasMenu, ATableHasOneWaiter, TableErrorsAreRaces,
   TheStockIsAccountedFor, APictureHasOneHome, MenuErrorsAreFromRaces
=============================================================================
