---------------------------- MODULE AccountsProofs ----------------------------
(***************************************************************************)
(* Proofs about accounts: that administrators remain (Users), that lock    *)
(* and counters of logins agree (Login), and that password histories and   *)
(* reset tokens are kept (Passwords), for any number of accounts,          *)
(* addresses, tokens and requests in flight.                               *)
(***************************************************************************)
EXTENDS Users, Login, Passwords, Access, SequenceTheorems, TLAPS

-----------------------------------------------------------------------------
\* Users.  Every request begins with an administrator's own account in order
\* and is about another; so the account it came from is still an administrator
\* after the write, unless it had stopped being one: then `crossed` says so.

LEMMA UsersStarts == UsersInit => UsersInv
<1> SUFFICES ASSUME UsersInit PROVE UsersInv
  OBVIOUS
<1>1. \A j \in Jobs : job[j] = NoJob /\ job[j].at = "idle"
  BY DEF UsersInit, NoJob
<1>2. job \in [Jobs -> JobRows]
  BY DEF UsersInit, JobRows
<1>3. account \in [People -> AccountRows] /\ crossed \in BOOLEAN /\ \E p \in People : IsAdmin(p)
  BY DEF UsersInit
<1> QED
  BY <1>1, <1>2, <1>3 DEF UsersInv, UsersTypeOK, AdminsRemain

LEMMA BeginKeeps ==
  ASSUME UsersInv, NEW j \in Jobs, NEW request \in JobRows, Begin(j, request),
         request.on # request.by, request.at = "update" => account[request.on] # NoAccount
  PROVE  UsersInv'
<1> USE DEF UsersInv, UsersTypeOK
<1>1. job' = [job EXCEPT ![j] = request] /\ account' = account /\ crossed' = crossed
  BY DEF Begin
<1>2. job' \in [Jobs -> JobRows]
  BY <1>1
<1>3. \A i \in Jobs : job'[i] = IF i = j THEN request ELSE job[i]
  BY <1>1
<1>4. ASSUME NEW i \in Jobs
      PROVE  /\ job'[i] # NoJob => job'[i].on # job'[i].by
             /\ job'[i].at = "update" => account'[job'[i].on] # NoAccount
  BY <1>1, <1>3
<1>5. AdminsRemain'
  BY <1>1 DEF AdminsRemain, IsAdmin
<1> QED
  BY <1>1, <1>2, <1>4, <1>5

\* A request that is not idle has an author and somebody it is about.
LEMMA WriteKeeps ==
  ASSUME UsersInv, NEW j \in Jobs, NEW by \in People, NEW on \in People, NEW row \in AccountRows,
         on # by, row # NoAccount, job[j].by = by,
         account' = [account EXCEPT ![on] = row], Ended(j)
  PROVE  UsersInv'
<1> USE DEF UsersInv, UsersTypeOK
<1>1. job' = [job EXCEPT ![j] = NoJob] /\ crossed' = (crossed \/ ~ IsAdmin(by))
  BY DEF Ended
<1>2. job' \in [Jobs -> JobRows] /\ account' \in [People -> AccountRows] /\ crossed' \in BOOLEAN
  BY <1>1 DEF JobRows
<1>3. ASSUME NEW i \in Jobs
      PROVE  /\ job'[i] # NoJob => job'[i].on # job'[i].by
             /\ job'[i].at = "update" => account'[job'[i].on] # NoAccount
  <2>1. CASE i = j
    BY <1>1, <2>1 DEF NoJob
  <2>2. CASE i # j
    <3>1. job'[i] = job[i]
      BY <1>1, <2>2
    <3>2. job[i] \in JobRows
      OBVIOUS
    <3>3. job[i].at = "update" => job[i].on \in People
      BY <3>2 DEF JobRows, NoJob
    <3> QED
      BY <3>1, <3>3
  <2> QED
    BY <2>1, <2>2
<1>4. AdminsRemain'
  <2>1. CASE crossed \/ ~ IsAdmin(by)
    BY <1>1, <2>1 DEF AdminsRemain
  <2>2. CASE IsAdmin(by)
    <3>1. account'[by] = account[by]
      OBVIOUS
    <3>2. IsAdmin(by)'
      BY <2>2, <3>1 DEF IsAdmin
    <3> QED
      BY <3>2 DEF AdminsRemain
  <2> QED
    BY <2>1, <2>2
<1> QED
  BY <1>2, <1>3, <1>4

\* What a request holds, by the statement it is at.
LEMMA JobFields ==
  ASSUME UsersInv, NEW j \in Jobs, job[j] # NoJob
  PROVE  /\ job[j].by \in People /\ job[j].on \in People /\ job[j].on # job[j].by
         /\ job[j].at = "update" => job[j].fields \in UpdateFields
         /\ job[j].at = "create" => job[j].role \in ASSIGNABLE_ROLES
<1>1. job[j] \in JobRows
  BY DEF UsersInv, UsersTypeOK
<1> QED
  BY <1>1 DEF JobRows, UsersInv, UsersTypeOK

LEMMA RowKept ==
  ASSUME NEW row \in AccountRows, row # NoAccount, NEW new \in UpdateFields
  PROVE  LET written == [role |-> IF new.role = Keep THEN row.role ELSE new.role,
                         active |-> new.active]
         IN written \in AccountRows /\ written # NoAccount
BY DEF AccountRows, NoAccount, UpdateFields, EditFields, SwitchFields, ASSIGNABLE_ROLES, Keep, Roles

LEMMA UsersKeeps == UsersInv /\ [UsersNext]_userVars => UsersInv'
<1> SUFFICES ASSUME UsersInv, [UsersNext]_userVars PROVE UsersInv'
  OBVIOUS
<1>1. ASSUME NEW j \in Jobs, NEW by \in People, NEW on \in People, NEW fields \in UpdateFields,
             UpdateBegin(j, by, on, fields)
      PROVE  UsersInv'
  <2> DEFINE request == [at |-> "update", by |-> by, on |-> on, fields |-> fields]
  <2>1. on # by /\ account[on] # NoAccount /\ Begin(j, request)
    BY <1>1 DEF UpdateBegin
  <2>2. request \in JobRows /\ request.on = on /\ request.by = by
    BY DEF JobRows
  <2> HIDE DEF request
  <2> QED
    BY <2>1, <2>2, BeginKeeps
<1>2. ASSUME NEW j \in Jobs, NEW by \in People, NEW on \in People, NEW role \in ASSIGNABLE_ROLES,
             CreateBegin(j, by, on, role)
      PROVE  UsersInv'
  <2> DEFINE request == [at |-> "create", by |-> by, on |-> on, role |-> role]
  <2>1. account[on] = NoAccount /\ Begin(j, request)
    BY <1>2 DEF CreateBegin
  <2>2. request \in JobRows /\ request.on = on /\ request.by = by /\ request.at # "update"
    BY DEF JobRows
  <2>3. on # by
    BY <2>1, <2>2 DEF Begin, IsAdmin, NoAccount
  <2> HIDE DEF request
  <2> QED
    BY <2>1, <2>2, <2>3, BeginKeeps
<1>3. ASSUME NEW j \in Jobs, UpdateWrite(j)
      PROVE  UsersInv'
  <2>1. job[j] # NoJob /\ job[j].at = "update"
    BY <1>3 DEF UpdateWrite, NoJob
  <2> DEFINE by == job[j].by  on == job[j].on  new == job[j].fields
             row == [role |-> IF new.role = Keep THEN account[on].role ELSE new.role,
                     active |-> new.active]
  <2>2. by \in People /\ on \in People /\ on # by /\ new \in UpdateFields
    BY <2>1, JobFields
  <2>3. account[on] \in AccountRows /\ account[on] # NoAccount
    BY <2>1, <2>2 DEF UsersInv, UsersTypeOK
  <2>4. row \in AccountRows /\ row # NoAccount
    BY <2>2, <2>3, RowKept
  <2>5. account' = [account EXCEPT ![on] = row] /\ Ended(j)
    BY <1>3 DEF UpdateWrite
  <2>6. job[j].by = by
    OBVIOUS
  <2> HIDE DEF by, on, row, new
  <2> QED
    BY <2>2, <2>4, <2>5, <2>6, WriteKeeps
<1>4. ASSUME NEW j \in Jobs, CreateWrite(j)
      PROVE  UsersInv'
  <2>1. job[j] # NoJob /\ job[j].at = "create"
    BY <1>4 DEF CreateWrite, NoJob
  <2> DEFINE by == job[j].by  on == job[j].on
             row == IF account[on] = NoAccount THEN [role |-> job[j].role, active |-> TRUE]
                    ELSE account[on]
  <2>2. by \in People /\ on \in People /\ on # by /\ job[j].role \in ASSIGNABLE_ROLES
    BY <2>1, JobFields
  <2>3. account \in [People -> AccountRows]
    BY DEF UsersInv, UsersTypeOK
  <2>4. row \in AccountRows /\ row # NoAccount
    BY <2>2, <2>3 DEF AccountRows, NoAccount, ASSIGNABLE_ROLES, Roles
  <2>5. account' = [account EXCEPT ![on] = row] /\ Ended(j)
    BY <1>4, <2>2, <2>3 DEF CreateWrite
  <2>6. job[j].by = by
    OBVIOUS
  <2> HIDE DEF by, on, row
  <2> QED
    BY <2>2, <2>4, <2>5, <2>6, WriteKeeps
<1>5. CASE UNCHANGED userVars
  BY <1>5 DEF userVars, UsersInv, UsersTypeOK, AdminsRemain, IsAdmin
<1> QED
  BY <1>1, <1>2, <1>3, <1>4, <1>5 DEF UsersNext

\* Whatever administrators change about each other, and whenever, one of them
\* remains unless a change was written for somebody who no longer was one.
THEOREM AnAdministratorRemains == UsersSpec => []AdminsRemain
<1>1. UsersInv => AdminsRemain
  BY DEF UsersInv
<1> QED
  BY <1>1, UsersStarts, UsersKeeps, PTL DEF UsersSpec

-----------------------------------------------------------------------------
\* Logins.  What the three properties say of an account speaks of its lock, its
\* counter and the logins about to lock it; of an address, of its count, the
\* count's time to live and the logins about to set it.  Most steps leave one
\* of the two groups alone, which LockKept and CountKept say once.

LEMMA LoginStarts == LoginInit => LoginInv
<1> SUFFICES ASSUME LoginInit PROVE LoginInv
  OBVIOUS
<1>1. LoginTypeOK
  BY DEF LoginInit, LoginTypeOK, LoginRows
<1>2. LockMatchesCount
  BY LoginAssumption DEF LoginInit, LockMatchesCount
<1>3. CountsExpire /\ WindowOfCount
  BY DEF LoginInit, CountsExpire, WindowOfCount
<1> QED
  BY <1>1, <1>2, <1>3 DEF LoginInv

LEMMA Moves ==
  ASSUME LoginTypeOK, NEW l \in Logins, login[l].at \in Steps, NEW step \in Steps, Goto(l, step)
  PROVE  /\ login' \in [Logins -> LoginRows]
         /\ login[l].user \in Accounts /\ login[l].from \in Addresses
         /\ login'[l].at = step
         /\ login'[l].user = login[l].user /\ login'[l].from = login[l].from
         /\ \A i \in Logins : i # l => login'[i] = login[i]
<1>1. login[l] \in [at : Steps, user : Accounts, from : Addresses]
  BY DEF LoginTypeOK, LoginRows, NoLogin, Steps
<1>2. [login[l] EXCEPT !.at = step] \in LoginRows
  BY <1>1 DEF LoginRows
<1>3. login' = [login EXCEPT ![l] = [login[l] EXCEPT !.at = step]]
  BY DEF Goto
<1> QED
  BY <1>1, <1>2, <1>3 DEF LoginTypeOK

LEMMA Leaves ==
  ASSUME LoginTypeOK, NEW l \in Logins, Ends(l)
  PROVE  /\ login' \in [Logins -> LoginRows]
         /\ login'[l].at = "idle"
         /\ \A i \in Logins : i # l => login'[i] = login[i]
BY DEF Ends, LoginTypeOK, LoginRows, NoLogin

LEMMA Holds ==
  ASSUME LoginTypeOK, NEW l \in Logins, login[l].at \in Steps
  PROVE  login[l].user \in Accounts /\ login[l].from \in Addresses
BY DEF LoginTypeOK, LoginRows, NoLogin, Steps

LEMMA LockKept ==
  ASSUME LockMatchesCount, attempts' = attempts, locked' = locked, excused' = excused,
         \A i \in Logins : login[i].at = "lock" =>
           login'[i].at = "lock" /\ login'[i].user = login[i].user
  PROVE  LockMatchesCount'
BY DEF LockMatchesCount, About

LEMMA CountKept ==
  ASSUME CountsExpire, WindowOfCount,
         lockouts' = lockouts, expiring' = expiring, orphaned' = orphaned,
         \A i \in Logins : login[i].at = "expire" =>
           login'[i].at = "expire" /\ login'[i].from = login[i].from
  PROVE  CountsExpire' /\ WindowOfCount'
BY DEF CountsExpire, WindowOfCount

\* One lemma for each kind of step.

LEMMA StartKeeps ==
  ASSUME LoginInv, NEW l \in Logins, NEW u \in Accounts, NEW a \in Addresses, LoginStart(l, u, a)
  PROVE  LoginInv'
<1> USE DEF LoginInv
<1>1. /\ login[l].at = "idle"
      /\ login' = [login EXCEPT ![l] = [at |-> "find", user |-> u, from |-> a]]
      /\ UNCHANGED <<attempts, locked, excused, lockouts, expiring, blocked, unblocking, orphaned>>
  BY DEF LoginStart, NoLogin, addressVars
<1>2. [at |-> "find", user |-> u, from |-> a] \in LoginRows
  BY DEF LoginRows, Steps
<1>3. LoginTypeOK'
  BY <1>1, <1>2 DEF LoginTypeOK
<1>4. \A i \in Logins : i # l => login'[i] = login[i]
  BY <1>1 DEF LoginTypeOK
<1>5. LockMatchesCount'
  BY <1>1, <1>4, LockKept
<1>6. CountsExpire' /\ WindowOfCount'
  BY <1>1, <1>4, CountKept
<1> QED
  BY <1>3, <1>5, <1>6

LEMMA FindKeeps == ASSUME LoginInv, NEW l \in Logins, LoginFind(l) PROVE LoginInv'
<1> USE DEF LoginInv
<1>1. /\ login[l].at = "find"
      /\ UNCHANGED <<attempts, locked, excused, lockouts, expiring, blocked, unblocking, orphaned>>
      /\ Ends(l) \/ \E step \in {"fail", "succeed"} : Goto(l, step)
  BY DEF LoginFind, addressVars
<1>2. login' \in [Logins -> LoginRows] /\ \A i \in Logins : i # l => login'[i] = login[i]
  BY <1>1, Leaves, Moves DEF Steps
<1>3. LoginTypeOK'
  BY <1>1, <1>2 DEF LoginTypeOK
<1>4. LockMatchesCount'
  BY <1>1, <1>2, LockKept
<1>5. CountsExpire' /\ WindowOfCount'
  BY <1>1, <1>2, CountKept
<1> QED
  BY <1>3, <1>4, <1>5

\* A reset leaves an unlocked account whose count is below any limit.
LEMMA ResetKeepsLock ==
  ASSUME LoginTypeOK, LockMatchesCount, NEW u \in Accounts, ResetAttempts(u),
         \A i \in Logins : login[i].at = "lock" => login'[i] = login[i]
  PROVE  LockMatchesCount'
<1> SUFFICES ASSUME NEW v \in Accounts
             PROVE  \/ excused'[v]
                    \/ \E i \in Logins : login'[i].at = "lock" /\ login'[i].user = v
                    \/ locked'[v] <=> attempts'[v] >= MaxFailed
  BY DEF LockMatchesCount, About
<1>1. CASE v = u
  BY <1>1, LoginAssumption DEF ResetAttempts, LoginTypeOK
<1>2. CASE v # u
  BY <1>2 DEF ResetAttempts, LoginTypeOK, LockMatchesCount, About
<1> QED
  BY <1>1, <1>2

LEMMA ResetTypes ==
  ASSUME LoginTypeOK, NEW u \in Accounts, ResetAttempts(u), UNCHANGED addressVars,
         login' \in [Logins -> LoginRows]
  PROVE  LoginTypeOK'
BY DEF ResetAttempts, LoginTypeOK, addressVars

LEMMA SucceedKeeps == ASSUME LoginInv, NEW l \in Logins, LoginSucceeds(l) PROVE LoginInv'
<1> USE DEF LoginInv
<1>1. /\ login[l].at = "succeed" /\ ResetAttempts(login[l].user) /\ Ends(l)
      /\ UNCHANGED addressVars
  BY DEF LoginSucceeds
<1>2. login[l].user \in Accounts
  BY <1>1, Holds DEF Steps
<1>3. login' \in [Logins -> LoginRows] /\ \A i \in Logins : i # l => login'[i] = login[i]
  BY <1>1, Leaves
<1>4. LoginTypeOK'
  BY <1>1, <1>2, <1>3, ResetTypes
<1>5. LockMatchesCount'
  BY <1>1, <1>2, <1>3, ResetKeepsLock
<1>6. CountsExpire' /\ WindowOfCount'
  BY <1>1, <1>3, CountKept DEF addressVars
<1> QED
  BY <1>4, <1>5, <1>6

LEMMA UnlockKeeps == ASSUME LoginInv, NEW u \in Accounts, UnlockAccount(u) PROVE LoginInv'
<1> USE DEF LoginInv
<1>1. ResetAttempts(u) /\ login' = login /\ UNCHANGED addressVars
  BY DEF UnlockAccount
<1>2. LoginTypeOK'
  BY <1>1, ResetTypes DEF LoginTypeOK
<1>3. LockMatchesCount'
  BY <1>1, ResetKeepsLock
<1>4. CountsExpire' /\ WindowOfCount'
  BY <1>1, CountKept DEF addressVars
<1> QED
  BY <1>2, <1>3, <1>4

\* The count that reaches the limit leaves its login about to lock.
LEMMA FailureKeeps == ASSUME LoginInv, NEW l \in Logins, CountFailure(l) PROVE LoginInv'
<1> USE DEF LoginInv
<1> DEFINE u == login[l].user
<1>1. /\ login[l].at = "fail" /\ attempts' = [attempts EXCEPT ![u] = @ + 1]
      /\ UNCHANGED <<locked, excused, lockouts, expiring, blocked, unblocking, orphaned>>
      /\ IF attempts[u] + 1 >= MaxFailed THEN Goto(l, "lock") ELSE Ends(l)
  BY DEF CountFailure, addressVars
<1>2. u \in Accounts /\ attempts[u] \in Nat
  BY <1>1, Holds DEF Steps, LoginTypeOK
<1>3. /\ login' \in [Logins -> LoginRows]
      /\ \A i \in Logins : i # l => login'[i] = login[i]
      /\ attempts[u] + 1 >= MaxFailed => login'[l].at = "lock" /\ login'[l].user = u
  BY <1>1, Leaves, Moves DEF Steps
<1> HIDE DEF u
<1>4. LoginTypeOK'
  BY <1>1, <1>2, <1>3 DEF LoginTypeOK
<1>5. ASSUME NEW v \in Accounts
      PROVE  \/ excused'[v]
             \/ \E i \in Logins : login'[i].at = "lock" /\ login'[i].user = v
             \/ locked'[v] <=> attempts'[v] >= MaxFailed
  <2>1. CASE v = u /\ attempts[u] + 1 >= MaxFailed
    BY <1>3, <2>1
  <2>2. CASE v = u /\ ~ (attempts[u] + 1 >= MaxFailed)
    <3>1. attempts'[v] = attempts[v] + 1 /\ ~ (attempts'[v] >= MaxFailed) /\ ~ (attempts[v] >= MaxFailed)
      BY <1>1, <1>2, <2>2, LoginAssumption DEF LoginTypeOK
    <3> QED
      BY <1>1, <1>3, <3>1 DEF LockMatchesCount, About
  <2>3. CASE v # u
    <3>1. attempts'[v] = attempts[v]
      BY <1>1, <2>3 DEF LoginTypeOK
    <3> QED
      BY <1>1, <1>3, <3>1 DEF LockMatchesCount, About
  <2> QED
    BY <2>1, <2>2, <2>3
<1>6. LockMatchesCount'
  BY <1>5 DEF LockMatchesCount, About
<1>7. CountsExpire' /\ WindowOfCount'
  BY <1>1, <1>3, CountKept
<1> QED
  BY <1>4, <1>6, <1>7

\* The lock is excused exactly when the count was reset in the meantime.
LEMMA LockKeeps == ASSUME LoginInv, NEW l \in Logins, LockAccount(l) PROVE LoginInv'
<1> USE DEF LoginInv
<1> DEFINE u == login[l].user
<1>1. /\ login[l].at = "lock"
      /\ locked' = [locked EXCEPT ![u] = TRUE]
      /\ excused' = [excused EXCEPT ![u] = attempts[u] < MaxFailed]
      /\ Goto(l, "incr")
      /\ UNCHANGED <<attempts, lockouts, expiring, blocked, unblocking, orphaned>>
  BY DEF LockAccount, addressVars
<1>2. u \in Accounts /\ attempts[u] \in Nat
  BY <1>1, Holds DEF Steps, LoginTypeOK
<1>3. /\ login' \in [Logins -> LoginRows]
      /\ \A i \in Logins : i # l => login'[i] = login[i]
  BY <1>1, Moves DEF Steps
<1> HIDE DEF u
<1>4. LoginTypeOK'
  BY <1>1, <1>2, <1>3 DEF LoginTypeOK
<1>5. ASSUME NEW v \in Accounts
      PROVE  \/ excused'[v]
             \/ \E i \in Logins : login'[i].at = "lock" /\ login'[i].user = v
             \/ locked'[v] <=> attempts'[v] >= MaxFailed
  <2>1. CASE v = u
    <3>1. locked'[v] /\ attempts'[v] = attempts[u]
      BY <1>1, <1>2, <2>1 DEF LoginTypeOK
    <3>2. CASE attempts[u] < MaxFailed
      BY <1>1, <1>2, <2>1, <3>2 DEF LoginTypeOK
    <3>3. CASE attempts[u] >= MaxFailed
      BY <3>1, <3>3
    <3> QED
      BY <1>2, <3>2, <3>3, LoginAssumption
  <2>2. CASE v # u
    <3>1. locked'[v] = locked[v] /\ excused'[v] = excused[v] /\ attempts' = attempts
      BY <1>1, <1>2, <2>2 DEF LoginTypeOK
    <3>2. \A i \in Logins : About(i, "lock", v) => i # l
      BY <2>2 DEF About, u
    <3> QED
      BY <1>3, <3>1, <3>2 DEF LockMatchesCount, About
  <2> QED
    BY <2>1, <2>2
<1>6. LockMatchesCount'
  BY <1>5 DEF LockMatchesCount, About
<1>7. CountsExpire' /\ WindowOfCount'
  BY <1>1, <1>3, CountKept
<1> QED
  BY <1>4, <1>6, <1>7

\* The first count of an address leaves its login about to set the window.
LEMMA LockoutKeeps == ASSUME LoginInv, NEW l \in Logins, CountLockout(l) PROVE LoginInv'
<1> USE DEF LoginInv
<1> DEFINE a == login[l].from
<1>1. /\ login[l].at = "incr" /\ lockouts' = [lockouts EXCEPT ![a] = @ + 1]
      /\ UNCHANGED <<attempts, locked, excused, expiring, blocked, unblocking, orphaned>>
      /\ CASE lockouts[a] = 0 -> Goto(l, "expire")
           [] lockouts[a] + 1 >= BlockAfter -> Goto(l, "block")
           [] OTHER -> Ends(l)
  BY DEF CountLockout
<1>2. a \in Addresses /\ lockouts[a] \in Nat
  BY <1>1, Holds DEF Steps, LoginTypeOK
<1>3. \/ lockouts[a] = 0 /\ Goto(l, "expire")
      \/ lockouts[a] # 0 /\ (Goto(l, "block") \/ Ends(l))
  BY <1>1, <1>2, LoginAssumption
<1>4. /\ login' \in [Logins -> LoginRows]
      /\ \A i \in Logins : i # l => login'[i] = login[i]
      /\ lockouts[a] = 0 => login'[l].at = "expire" /\ login'[l].from = a
  BY <1>1, <1>3, Leaves, Moves DEF Steps
<1> HIDE DEF a
<1>5. LoginTypeOK'
  BY <1>1, <1>2, <1>4 DEF LoginTypeOK
<1>6. LockMatchesCount'
  BY <1>1, <1>4, LockKept
<1>7. ASSUME NEW b \in Addresses, lockouts'[b] > 0, ~ expiring'[b]
      PROVE  orphaned'[b] \/ \E i \in Logins : login'[i].at = "expire" /\ login'[i].from = b
  <2>1. CASE b = a /\ lockouts[a] = 0
    BY <1>4, <2>1
  <2>2. CASE ~ (b = a /\ lockouts[a] = 0)
    <3>1. lockouts[b] > 0
      BY <1>1, <1>2, <1>7, <2>2 DEF LoginTypeOK
    <3> QED
      BY <1>1, <1>4, <1>7, <3>1 DEF CountsExpire
  <2> QED
    BY <2>1, <2>2
<1>8. WindowOfCount'
  <2> SUFFICES ASSUME NEW b \in Addresses, expiring'[b] PROVE lockouts'[b] > 0
    BY DEF WindowOfCount
  <2>1. lockouts[b] > 0
    BY <1>1 DEF WindowOfCount
  <2> QED
    BY <1>1, <2>1 DEF LoginTypeOK
<1>9. CountsExpire'
  BY <1>7 DEF CountsExpire
<1> QED
  BY <1>5, <1>6, <1>8, <1>9

LEMMA WindowKeeps == ASSUME LoginInv, NEW l \in Logins, StartWindow(l) PROVE LoginInv'
<1> USE DEF LoginInv
<1> DEFINE a == login[l].from
<1>1. /\ login[l].at = "expire" /\ expiring' = [expiring EXCEPT ![a] = lockouts[a] > 0]
      /\ Ends(l)
      /\ UNCHANGED <<attempts, locked, excused, lockouts, blocked, unblocking, orphaned>>
  BY DEF StartWindow
<1>2. a \in Addresses
  BY <1>1, Holds DEF Steps
<1>3. /\ login' \in [Logins -> LoginRows]
      /\ \A i \in Logins : i # l => login'[i] = login[i]
  BY <1>1, Leaves
<1>4. LoginTypeOK'
  BY <1>1, <1>2, <1>3 DEF LoginTypeOK
<1>5. LockMatchesCount'
  BY <1>1, <1>3, LockKept
<1>6. ASSUME NEW b \in Addresses, lockouts'[b] > 0, ~ expiring'[b]
      PROVE  orphaned'[b] \/ \E i \in Logins : login'[i].at = "expire" /\ login'[i].from = b
  <2>1. b # a
    BY <1>1, <1>2, <1>6 DEF LoginTypeOK
  <2>2. ~ expiring[b] /\ lockouts[b] > 0
    BY <1>1, <1>6, <2>1 DEF LoginTypeOK
  <2>3. orphaned[b] \/ \E i \in Logins : login[i].at = "expire" /\ login[i].from = b
    BY <2>2 DEF CountsExpire
  <2> QED
    BY <1>1, <1>3, <2>1, <2>3
<1>7. CountsExpire'
  BY <1>6 DEF CountsExpire
<1>8. WindowOfCount'
  BY <1>1, <1>2 DEF WindowOfCount, LoginTypeOK
<1> QED
  BY <1>4, <1>5, <1>7, <1>8

LEMMA DeathKeeps == ASSUME LoginInv, NEW l \in Logins, LoginDies(l) PROVE LoginInv'
<1> USE DEF LoginInv
<1>1. /\ Ends(l)
      /\ excused' = [u \in Accounts |-> excused[u] \/ About(l, "lock", u)]
      /\ orphaned' = [a \in Addresses |->
           orphaned[a] \/ (login[l].at = "expire" /\ login[l].from = a)]
      /\ UNCHANGED <<attempts, locked, lockouts, expiring, blocked, unblocking>>
  BY DEF LoginDies
<1>2. /\ login' \in [Logins -> LoginRows]
      /\ \A i \in Logins : i # l => login'[i] = login[i]
  BY <1>1, Leaves
<1>3. LoginTypeOK'
  BY <1>1, <1>2 DEF LoginTypeOK, About
<1>4. LockMatchesCount'
  <2> SUFFICES ASSUME NEW u \in Accounts, ~ excused'[u]
               PROVE  \/ \E i \in Logins : login'[i].at = "lock" /\ login'[i].user = u
                      \/ locked'[u] <=> attempts'[u] >= MaxFailed
    BY DEF LockMatchesCount, About
  <2>1. ~ excused[u] /\ ~ About(l, "lock", u)
    BY <1>1
  <2> QED
    BY <1>1, <1>2, <2>1 DEF LockMatchesCount, About
<1>5. CountsExpire'
  BY <1>1, <1>2 DEF CountsExpire
<1>6. WindowOfCount'
  BY <1>1 DEF WindowOfCount
<1> QED
  BY <1>3, <1>4, <1>5, <1>6

LEMMA ForgetKeeps ==
  ASSUME LoginInv, NEW a \in Addresses, ForgetLockouts(a), blocked' = blocked,
         unblocking' \subseteq unblocking, UNCHANGED <<attempts, locked, excused, login>>
  PROVE  LoginInv'
<1> USE DEF LoginInv
<1>1. LoginTypeOK'
  BY DEF ForgetLockouts, LoginTypeOK
<1>2. LockMatchesCount'
  BY LockKept
<1>3. CountsExpire' /\ WindowOfCount'
  BY DEF ForgetLockouts, LoginTypeOK, CountsExpire, WindowOfCount
<1> QED
  BY <1>1, <1>2, <1>3

LEMMA RunOutKeeps == ASSUME LoginInv, NEW u \in Accounts, LockRunsOut(u) PROVE LoginInv'
<1> USE DEF LoginInv
<1>1. /\ locked' = [locked EXCEPT ![u] = FALSE] /\ excused' = [excused EXCEPT ![u] = TRUE]
      /\ UNCHANGED <<attempts, login, lockouts, expiring, blocked, unblocking, orphaned>>
  BY DEF LockRunsOut, addressVars
<1>2. LoginTypeOK'
  BY <1>1 DEF LoginTypeOK
<1>3. LockMatchesCount'
  BY <1>1 DEF LockMatchesCount, About, LoginTypeOK
<1>4. CountsExpire' /\ WindowOfCount'
  BY <1>1, CountKept
<1> QED
  BY <1>2, <1>3, <1>4

LEMMA BlockKeeps ==
  ASSUME LoginInv, blocked' \in [Addresses -> BOOLEAN], unblocking' \subseteq Addresses,
         login' \in [Logins -> LoginRows],
         \A i \in Logins : login[i].at \in {"lock", "expire"} => login'[i] = login[i],
         UNCHANGED <<attempts, locked, excused, lockouts, expiring, orphaned>>
  PROVE  LoginInv'
<1> USE DEF LoginInv
<1>1. LoginTypeOK'
  BY DEF LoginTypeOK
<1>2. LockMatchesCount'
  BY LockKept
<1>3. CountsExpire' /\ WindowOfCount'
  BY CountKept
<1> QED
  BY <1>1, <1>2, <1>3

LEMMA LoginKeeps == LoginInv /\ [LoginNext]_loginVars => LoginInv'
<1> SUFFICES ASSUME LoginInv, [LoginNext]_loginVars PROVE LoginInv'
  OBVIOUS
<1>1. ASSUME NEW l \in Logins, BlockAddress(l) PROVE LoginInv'
  <2>1. /\ login[l].at = "block" /\ Ends(l)
        /\ blocked' = [blocked EXCEPT ![login[l].from] = TRUE]
        /\ UNCHANGED <<attempts, locked, excused, lockouts, expiring, unblocking, orphaned>>
    BY <1>1 DEF BlockAddress
  <2>2. login' \in [Logins -> LoginRows] /\ \A i \in Logins : i # l => login'[i] = login[i]
    BY <2>1, Leaves DEF LoginInv
  <2> QED
    BY <2>1, <2>2, BlockKeeps DEF LoginInv, LoginTypeOK
<1>2. ASSUME NEW a \in Addresses, UnblockIp(a) \/ BlockRunsOut(a) PROVE LoginInv'
  BY <1>2, BlockKeeps DEF LoginInv, LoginTypeOK, UnblockIp, BlockRunsOut
<1>3. ASSUME NEW a \in Addresses, UnblockIpCount(a) \/ WindowRunsOut(a) PROVE LoginInv'
  BY <1>3, ForgetKeeps DEF UnblockIpCount, WindowRunsOut
<1>4. CASE UNCHANGED loginVars
  <2>1. login' \in [Logins -> LoginRows] /\ blocked' \in [Addresses -> BOOLEAN]
        /\ unblocking' \subseteq Addresses
    BY <1>4 DEF loginVars, LoginInv, LoginTypeOK
  <2> QED
    BY <1>4, <2>1, BlockKeeps DEF loginVars
<1> QED
  BY <1>1, <1>2, <1>3, <1>4, StartKeeps, FindKeeps, SucceedKeeps, FailureKeeps, LockKeeps,
     LockoutKeeps, WindowKeeps, DeathKeeps, UnlockKeeps, RunOutKeeps DEF LoginNext

\* However logins of an account overlap, fail, succeed and die, its lock and its
\* counter tell the same story, but for the listed exceptions.
THEOREM LockAndCounterAgree == LoginSpec => []LockMatchesCount
<1>1. LoginInv => LockMatchesCount
  BY DEF LoginInv
<1> QED
  BY <1>1, LoginStarts, LoginKeeps, PTL DEF LoginSpec

\* No address carries a count for ever, unless the login that was to set the
\* time to live died before it did.
THEOREM EveryCountExpires == LoginSpec => []CountsExpire
<1>1. LoginInv => CountsExpire
  BY DEF LoginInv
<1> QED
  BY <1>1, LoginStarts, LoginKeeps, PTL DEF LoginSpec

-----------------------------------------------------------------------------
\* Passwords.  A history read is a history written: what a request holds is
\* distinct and without the new password, so putting that in front keeps it so.

\* A new password in front of a history that does not have it.
LEMMA RememberKeepsHistory ==
  ASSUME NEW v \in Values, NEW h \in Seq(Values), HistoryOf(h), ~ InHistory(v, h)
  PROVE  /\ Remember(v, h) \in Seq(Values)
         /\ HistoryOf(Remember(v, h)) /\ Remember(v, h)[1] = v
<1> DEFINE n == IF Len(h) < HistoryLimit THEN Len(h) + 1 ELSE HistoryLimit
           r == [i \in 1..n |-> IF i = 1 THEN v ELSE h[i - 1]]
<1>1. Len(h) \in Nat /\ DOMAIN h = 1..Len(h) /\ Len(h) \in 1..HistoryLimit
  BY LenProperties DEF HistoryOf
<1>2. n \in Nat /\ n \in 1..HistoryLimit /\ n - 1 <= Len(h)
  BY <1>1, PasswordsAssumption
<1> HIDE DEF n
<1>3. \A i \in 1..n : i # 1 => i - 1 \in DOMAIN h
  BY <1>1, <1>2
<1>4. \A i \in 1..n : r[i] = IF i = 1 THEN v ELSE h[i - 1]
  OBVIOUS
<1>5. \A i \in 1..n : i # 1 => h[i - 1] \in Values /\ h[i - 1] # v
  BY <1>1, <1>3, ElementOfSeq DEF InHistory
<1>6. r \in [1..n -> Values]
  BY <1>5
<1>7. r \in Seq(Values)
  BY <1>2, <1>6, SeqDef
<1>8. DOMAIN r = 1..n /\ Len(r) = n
  BY <1>2, <1>6, <1>7, LenProperties
<1>9. ASSUME NEW i \in 1..n, NEW j \in 1..n, r[i] = r[j]
      PROVE  i = j
  <2>1. CASE i = 1 \/ j = 1
    BY <1>4, <1>5, <1>9, <2>1
  <2>2. CASE i # 1 /\ j # 1
    <3>1. h[i - 1] = h[j - 1] /\ i - 1 \in DOMAIN h /\ j - 1 \in DOMAIN h
      BY <1>3, <1>4, <1>9, <2>2
    <3>2. i - 1 = j - 1
      BY <3>1 DEF HistoryOf
    <3> QED
      BY <1>2, <3>2
  <2> QED
    BY <2>1, <2>2
<1>10. r[1] = v
  BY <1>2, <1>4
<1>11. HistoryOf(r)
  BY <1>2, <1>8, <1>9 DEF HistoryOf
<1>12. Remember(v, h) = r
  BY DEF Remember, n
<1> HIDE DEF r
<1> QED
  BY <1>7, <1>10, <1>11, <1>12

LEMMA PasswordsStarts == PasswordsInit => PasswordsInv
<1> SUFFICES ASSUME PasswordsInit PROVE PasswordsInv
  OBVIOUS
<1>1. recent \in Seq(Values) /\ Len(recent) = 1 /\ DOMAIN recent = 1..1 /\ recent[1] = hash
  BY DEF PasswordsInit
<1>2. PasswordsTypeOK
  BY <1>1 DEF PasswordsInit, PasswordsTypeOK, ChangerRows, TokenStates
<1>3. \A c \in Changers : changer[c].at = "idle"
  BY DEF PasswordsInit, NoChange
<1>4. HistoryOf(recent)
  BY <1>1, PasswordsAssumption DEF HistoryOf
<1>5. RecentIsDistinct /\ SpentTokenIsClosed /\ IssuedBeforeUse
  BY <1>1, <1>3, <1>4 DEF PasswordsInit, RecentIsDistinct, SpentTokenIsClosed, IssuedBeforeUse
<1> QED
  BY <1>2, <1>5 DEF PasswordsInv

\* What a request holds, by the step it is at.
LEMMA ChangerFields ==
  ASSUME PasswordsTypeOK, NEW c \in Changers
  PROVE  /\ changer[c].at \in {"change", "write", "mark", "others"} =>
              changer[c].new \in Values /\ changer[c].had \in Seq(Values)
         /\ changer[c].at \in {"user", "write", "mark", "others"} => changer[c].token \in Tokens
         /\ changer[c].at = "change" => changer[c] \in [at : {"change"}, new : Values, had : Seq(Values)]
         /\ changer[c].at = "user" => changer[c] \in [at : {"user"}, token : Tokens]
         /\ changer[c].at \in {"write", "mark", "others"} =>
              changer[c] \in [at : {"write", "mark", "others"}, token : Tokens,
                              new : Values, had : Seq(Values)]
<1>1. changer[c] \in ChangerRows
  BY DEF PasswordsTypeOK
<1> QED
  BY <1>1 DEF ChangerRows, NoChange

\* The three facts about requests and tokens, when one request becomes `row` and
\* nothing is written.
LEMMA ReadKeeps ==
  ASSUME PasswordsInv, NEW c \in Changers, NEW row \in ChangerRows,
         changer' = [changer EXCEPT ![c] = row],
         UNCHANGED <<hash, recent, token, spent, undone>>,
         changer[c].at # "mark", row.at # "mark",
         row.at \in {"change", "write"} => HistoryOf(row.had) /\ ~ InHistory(row.new, row.had),
         row.at \in {"user", "write", "others"} => token[row.token] # "none"
  PROVE  PasswordsInv'
<1> USE DEF PasswordsInv
<1>1. PasswordsTypeOK'
  BY DEF PasswordsTypeOK
<1>2. \A d \in Changers : changer'[d] = IF d = c THEN row ELSE changer[d]
  BY DEF PasswordsTypeOK
<1>3. RecentIsDistinct'
  BY <1>2 DEF RecentIsDistinct
<1>4. SpentTokenIsClosed'
  BY <1>2 DEF SpentTokenIsClosed
<1>5. IssuedBeforeUse'
  BY <1>2 DEF IssuedBeforeUse
<1> QED
  BY <1>1, <1>3, <1>4, <1>5

LEMMA WritePasswordKeeps ==
  ASSUME PasswordsInv, NEW c \in Changers, changer[c].at \in {"change", "write"}, WritePassword(c)
  PROVE  /\ hash' \in Values /\ recent' \in Seq(Values)
         /\ HistoryOf(recent') /\ recent'[1] = hash'
<1>1. changer[c].new \in Values /\ changer[c].had \in Seq(Values)
  BY ChangerFields DEF PasswordsInv
<1>2. HistoryOf(changer[c].had) /\ ~ InHistory(changer[c].new, changer[c].had)
  BY DEF PasswordsInv, RecentIsDistinct
<1> QED
  BY <1>1, <1>2, RememberKeepsHistory DEF WritePassword

LEMMA ChangeWriteKeeps ==
  ASSUME PasswordsInv, NEW c \in Changers, ChangeWrite(c)
  PROVE  PasswordsInv'
<1> USE DEF PasswordsInv
<1>1. /\ changer[c].at = "change" /\ WritePassword(c)
      /\ changer' = [changer EXCEPT ![c] = NoChange]
      /\ UNCHANGED <<token, spent, undone>>
  BY DEF ChangeWrite
<1>2. /\ hash' \in Values /\ recent' \in Seq(Values)
      /\ HistoryOf(recent') /\ recent'[1] = hash'
  BY <1>1, WritePasswordKeeps
<1>3. PasswordsTypeOK'
  BY <1>1, <1>2 DEF PasswordsTypeOK, ChangerRows
<1>4. \A d \in Changers : changer'[d] = IF d = c THEN NoChange ELSE changer[d]
  BY <1>1 DEF PasswordsTypeOK
<1>5. RecentIsDistinct'
  BY <1>2, <1>4 DEF RecentIsDistinct, NoChange
<1>6. SpentTokenIsClosed' /\ IssuedBeforeUse'
  BY <1>1, <1>4 DEF SpentTokenIsClosed, IssuedBeforeUse, NoChange
<1> QED
  BY <1>3, <1>5, <1>6

LEMMA ResetWriteKeeps ==
  ASSUME PasswordsInv, NEW c \in Changers, ResetWrite(c)
  PROVE  PasswordsInv'
<1> USE DEF PasswordsInv
<1> DEFINE row == [changer[c] EXCEPT !.at = "mark"]
<1>1. /\ changer[c].at = "write" /\ WritePassword(c)
      /\ spent' = spent \cup {changer[c].token}
      /\ changer' = [changer EXCEPT ![c] = row]
      /\ UNCHANGED <<token, undone>>
  BY DEF ResetWrite, Continue
<1>2. /\ hash' \in Values /\ recent' \in Seq(Values)
      /\ HistoryOf(recent') /\ recent'[1] = hash'
  BY <1>1, WritePasswordKeeps
<1>3. row \in ChangerRows /\ row.at = "mark" /\ row.token = changer[c].token
      /\ changer[c].token \in Tokens
  BY <1>1, ChangerFields DEF ChangerRows
<1> HIDE DEF row
<1>4. PasswordsTypeOK'
  BY <1>1, <1>2, <1>3 DEF PasswordsTypeOK
<1>5. \A d \in Changers : changer'[d] = IF d = c THEN row ELSE changer[d]
  BY <1>1 DEF PasswordsTypeOK
<1>6. RecentIsDistinct'
  BY <1>2, <1>3, <1>5 DEF RecentIsDistinct
<1>7. SpentTokenIsClosed' /\ IssuedBeforeUse'
  BY <1>1, <1>3, <1>5 DEF SpentTokenIsClosed, IssuedBeforeUse
<1> QED
  BY <1>4, <1>6, <1>7

LEMMA ResetMarkKeeps ==
  ASSUME PasswordsInv, NEW c \in Changers, ResetMark(c)
  PROVE  PasswordsInv'
<1> USE DEF PasswordsInv
<1> DEFINE row == [changer[c] EXCEPT !.at = "others"]
           t == changer[c].token
<1>1. /\ changer[c].at = "mark"
      /\ token' = [token EXCEPT ![t] = "used"]
      /\ changer' = [changer EXCEPT ![c] = row]
      /\ UNCHANGED <<hash, recent, spent, undone>>
  BY DEF ResetMark, Continue
<1>2. row \in ChangerRows /\ row.at = "others" /\ row.token = t /\ t \in Tokens
  BY <1>1, ChangerFields DEF ChangerRows
<1>3. \A d \in Changers : changer[d].at = "mark" /\ changer[d].token # t => d # c
  OBVIOUS
<1> HIDE DEF row, t
<1>4. PasswordsTypeOK'
  BY <1>1, <1>2 DEF PasswordsTypeOK, TokenStates
<1>5. \A d \in Changers : changer'[d] = IF d = c THEN row ELSE changer[d]
  BY <1>1 DEF PasswordsTypeOK
<1>6. \A x \in Tokens : token'[x] = IF x = t THEN "used" ELSE token[x]
  BY <1>1, <1>2 DEF PasswordsTypeOK
<1>7. RecentIsDistinct'
  BY <1>1, <1>2, <1>5 DEF RecentIsDistinct
<1>8. SpentTokenIsClosed'
  BY <1>1, <1>3, <1>5, <1>6 DEF SpentTokenIsClosed, PasswordsTypeOK
<1>9. IssuedBeforeUse'
  BY <1>1, <1>2, <1>5, <1>6, ChangerFields DEF IssuedBeforeUse, PasswordsTypeOK
<1> QED
  BY <1>4, <1>7, <1>8, <1>9

\* A step that closes tokens, ends a request that is not about to close one, or
\* issues a token that was not there.
LEMMA TokensKeep ==
  ASSUME PasswordsInv, token' \in [Tokens -> TokenStates],
         \A t \in Tokens : /\ token[t] # "none" => token'[t] # "none"
                           /\ token'[t] = "live" => token[t] \in {"none", "live"},
         changer' \in [Changers -> ChangerRows],
         \A c \in Changers : changer'[c] = changer[c] \/ changer'[c] = NoChange,
         \A c \in Changers : changer[c].at = "mark" => changer'[c] = changer[c],
         UNCHANGED <<hash, recent, spent, undone>>
  PROVE  PasswordsInv'
<1> USE DEF PasswordsInv
<1>1. PasswordsTypeOK'
  BY DEF PasswordsTypeOK
<1>2. RecentIsDistinct'
  BY DEF RecentIsDistinct, NoChange
<1>3. SpentTokenIsClosed'
  BY DEF SpentTokenIsClosed, IssuedBeforeUse, PasswordsTypeOK
<1>4. IssuedBeforeUse'
  BY ChangerFields DEF IssuedBeforeUse, NoChange, PasswordsTypeOK
<1> QED
  BY <1>1, <1>2, <1>3, <1>4

LEMMA ChangerDiesKeeps ==
  ASSUME PasswordsInv, NEW c \in Changers, ChangerDies(c)
  PROVE  PasswordsInv'
<1> USE DEF PasswordsInv
<1>1. /\ undone' = IF changer[c].at = "mark" THEN undone \cup {changer[c].token} ELSE undone
      /\ changer' = [changer EXCEPT ![c] = NoChange]
      /\ UNCHANGED <<hash, recent, token, spent>>
  BY DEF ChangerDies
<1>2. changer[c].at = "mark" => changer[c].token \in Tokens
  BY ChangerFields
<1>3. PasswordsTypeOK'
  BY <1>1, <1>2 DEF PasswordsTypeOK, ChangerRows
<1>4. \A d \in Changers : changer'[d] = IF d = c THEN NoChange ELSE changer[d]
  BY <1>1 DEF PasswordsTypeOK
<1>5. RecentIsDistinct'
  BY <1>1, <1>4 DEF RecentIsDistinct, NoChange
<1>6. SpentTokenIsClosed' /\ IssuedBeforeUse'
  BY <1>1, <1>4 DEF SpentTokenIsClosed, IssuedBeforeUse, NoChange
<1> QED
  BY <1>3, <1>5, <1>6

LEMMA PasswordsKeeps == PasswordsInv /\ [PasswordsNext]_passwordVars => PasswordsInv'
<1> SUFFICES ASSUME PasswordsInv, [PasswordsNext]_passwordVars PROVE PasswordsInv'
  OBVIOUS
<1> USE DEF PasswordsInv
<1>1. ASSUME NEW c \in Changers, NEW v \in Values, ChangeRead(c, v) PROVE PasswordsInv'
  <2> DEFINE row == [at |-> "change", new |-> v, had |-> recent]
  <2>1. /\ changer[c].at = "idle" /\ ~ InHistory(v, recent)
        /\ changer' = [changer EXCEPT ![c] = row]
        /\ UNCHANGED <<hash, recent, token, spent, undone>>
    BY <1>1 DEF ChangeRead, NoChange
  <2>2. row \in ChangerRows /\ row.at = "change" /\ row.had = recent /\ row.new = v
    BY DEF ChangerRows, PasswordsTypeOK
  <2>3. HistoryOf(recent)
    BY DEF RecentIsDistinct
  <2> HIDE DEF row
  <2> QED
    BY <2>1, <2>2, <2>3, ReadKeeps
<1>2. ASSUME NEW c \in Changers, NEW v \in Values, ResetRead(c, v) PROVE PasswordsInv'
  <2> DEFINE t == changer[c].token
             row == [at |-> "write", token |-> t, new |-> v, had |-> recent]
  <2>1. /\ changer[c].at = "user" /\ ~ InHistory(v, recent)
        /\ changer' = [changer EXCEPT ![c] = row]
        /\ UNCHANGED <<hash, recent, token, spent, undone>>
    BY <1>2 DEF ResetRead
  <2>2. t \in Tokens /\ token[t] # "none"
    BY <2>1, ChangerFields DEF IssuedBeforeUse
  <2>3. row \in ChangerRows /\ row.at = "write" /\ row.had = recent /\ row.new = v /\ row.token = t
    BY <2>2 DEF ChangerRows, PasswordsTypeOK
  <2>4. HistoryOf(recent)
    BY DEF RecentIsDistinct
  <2> HIDE DEF row, t
  <2> QED
    BY <2>1, <2>2, <2>3, <2>4, ReadKeeps
<1>3. ASSUME NEW c \in Changers, NEW t \in Tokens, ResetFind(c, t) PROVE PasswordsInv'
  <2> DEFINE row == [at |-> "user", token |-> t]
  <2>1. /\ changer[c].at = "idle" /\ token[t] # "none"
        /\ changer' = [changer EXCEPT ![c] = row]
        /\ UNCHANGED <<hash, recent, token, spent, undone>>
    BY <1>3 DEF ResetFind, NoChange
  <2>2. row \in ChangerRows /\ row.at = "user" /\ row.token = t
    BY DEF ChangerRows
  <2> HIDE DEF row
  <2> QED
    BY <2>1, <2>2, ReadKeeps
<1>4. ASSUME NEW c \in Changers, ResetCloseOthers(c) PROVE PasswordsInv'
  <2>1. /\ changer[c].at = "others"
        /\ token' = [t \in Tokens |->
             IF token[t] \in {"live", "expired"} /\ t # changer[c].token THEN "used" ELSE token[t]]
        /\ changer' = [changer EXCEPT ![c] = NoChange]
        /\ UNCHANGED <<hash, recent, spent, undone>>
    BY <1>4 DEF ResetCloseOthers
  <2>2. token' \in [Tokens -> TokenStates] /\ changer' \in [Changers -> ChangerRows]
    BY <2>1 DEF PasswordsTypeOK, TokenStates, ChangerRows
  <2>3. \A d \in Changers : changer'[d] = IF d = c THEN NoChange ELSE changer[d]
    BY <2>1 DEF PasswordsTypeOK
  <2>4. \A t \in Tokens : /\ token[t] # "none" => token'[t] # "none"
                          /\ token'[t] = "live" => token[t] \in {"none", "live"}
    BY <2>1
  <2> QED
    BY <2>1, <2>2, <2>3, <2>4, TokensKeep
<1>5. ASSUME NEW t \in Tokens, RequestPasswordReset(t) \/ TokenExpires(t) PROVE PasswordsInv'
  <2>1. /\ \/ token[t] = "none" /\ token' = [token EXCEPT ![t] = "live"]
           \/ token[t] = "live" /\ token' = [token EXCEPT ![t] = "expired"]
        /\ UNCHANGED <<hash, recent, changer, spent, undone>>
    BY <1>5 DEF RequestPasswordReset, TokenExpires
  <2>2. token' \in [Tokens -> TokenStates] /\ changer' \in [Changers -> ChangerRows]
    BY <2>1 DEF PasswordsTypeOK, TokenStates
  <2>3. \A x \in Tokens : /\ token[x] # "none" => token'[x] # "none"
                          /\ token'[x] = "live" => token[x] \in {"none", "live"}
    BY <2>1 DEF PasswordsTypeOK
  <2> QED
    BY <2>1, <2>2, <2>3, TokensKeep
<1>6. CASE UNCHANGED passwordVars
  <2>1. token' \in [Tokens -> TokenStates] /\ changer' \in [Changers -> ChangerRows]
    BY <1>6 DEF passwordVars, PasswordsTypeOK
  <2> QED
    BY <1>6, <2>1, TokensKeep DEF passwordVars
<1> QED
  BY <1>1, <1>2, <1>3, <1>4, <1>5, <1>6, ChangeWriteKeeps, ResetWriteKeeps, ResetMarkKeeps,
     ChangerDiesKeeps DEF PasswordsNext

\* However changes and resets of a password overlap, the history stays distinct
\* and headed by the password in use.
THEOREM HistoryStaysDistinct == PasswordsSpec => []RecentIsDistinct
<1>1. PasswordsInv => RecentIsDistinct
  BY DEF PasswordsInv
<1> QED
  BY <1>1, PasswordsStarts, PasswordsKeeps, PTL DEF PasswordsSpec

\* A token that changed the password is closed, but for the reset that stands
\* or died between its two statements.
THEOREM TokensCloseBehindThem == PasswordsSpec => []SpentTokenIsClosed
<1>1. PasswordsInv => SpentTokenIsClosed
  BY DEF PasswordsInv
<1> QED
  BY <1>1, PasswordsStarts, PasswordsKeeps, PTL DEF PasswordsSpec
-----------------------------------------------------------------------------
\* Access.  A page asks for routes its own table names; so it is enough that
\* every page's table fits every role its links are shown to.

Served(q, role, route) ==
  \/ role \in route \/ route = AnySession
  \/ q \in {"billing", "new-order"} /\ q \notin Linked(role)

LEMMA ThePages ==
  StaffPages = {"dashboard", "users", "audit", "tables", "menu", "orders", "billing",
                "inventory", "refunds", "reports", "kitchen", "profile", "new-order"}
BY DEF StaffPages, NAV_ITEMS

\* What the pages read, by the roles that may read it.
LEMMA RoutesRead ==
  /\ ordersApi.getAll = Roles
  /\ usersApi.getAll = {"ADMIN"}
  /\ auditApi.getLogs = {"ADMIN"} /\ auditApi.getActions = {"ADMIN"}
  /\ tablesApi.getAll = Management \cup {"CASHIER", "WAITER"}
  /\ tablesApi.getAvailable = Management \cup {"CASHIER", "WAITER"}
  /\ billingApi.getInvoices = Management \cup {"CASHIER"}
  /\ billingApi.getPendingRefunds = Management /\ billingApi.getDecidedRefunds = Management
  /\ profileApi.get = AnySession
BY DEF ordersApi, OrdersController, usersApi, UsersController, auditApi, AuditController,
   tablesApi, TablesController, billingApi, BillingController, profileApi

LEMMA MenuRoutesRead ==
  /\ menuApi.getCategories = Roles /\ menuApi.getItems = Roles
  /\ menuApi.getAvailableItems = Roles
BY DEF menuApi, MenuController

LEMMA ManagementRoutesRead ==
  /\ inventoryApi.getIngredients = Management /\ inventoryApi.getLowStock = Management
  /\ inventoryApi.getSuppliers = Management
  /\ reportsApi.getSales = Management /\ reportsApi.getInventory = Management
  /\ reportsApi.getStaff = Management /\ reportsApi.getRefunds = Management
BY DEF inventoryApi, InventoryController, reportsApi, ReportsController

LEMMA PagesAreServed ==
  ASSUME NEW q \in StaffPages, NEW role \in Roles, NEW route \in PageReads(q, role)
  PROVE  Served(q, role, route)
<1> USE RoutesRead, MenuRoutesRead, ManagementRoutesRead
<1>1. role \in {"ADMIN", "MANAGER", "CASHIER", "WAITER", "KITCHEN"}
  BY DEF Roles
<1>2. CASE q = "dashboard"
  BY <1>1, <1>2 DEF PageReads, DashboardReads, Served, Management
<1>3. CASE q \in {"users", "audit", "tables", "orders"}
  BY <1>1, <1>3 DEF PageReads, UsersReads, AuditReads, TablesReads, OrdersReads, For, Served, Management, Roles
<1>4. CASE q \in {"menu", "kitchen", "profile"}
  BY <1>1, <1>4 DEF PageReads, MenuReads, KitchenReads, ProfileReads, Served
<1>5. CASE q \in {"inventory", "refunds", "reports"}
  BY <1>1, <1>5 DEF PageReads, InventoryReads, RefundsReads, ReportsReads, For, Served
<1>6. CASE q = "billing"
  <2>1. CASE role \in {"ADMIN", "MANAGER", "CASHIER"}
    BY <1>1, <1>6, <2>1 DEF PageReads, BillingReads, Served, Management
  <2>2. CASE role \in {"WAITER", "KITCHEN"}
    BY <1>6, <2>2 DEF Served, Linked, ROLE_SECTIONS, NAV_ITEMS, Roles, Management
  <2> QED
    BY <1>1, <2>1, <2>2
<1>7. CASE q = "new-order"
  <2>1. CASE role = "WAITER"
    BY <1>7, <2>1 DEF PageReads, NewOrderReads, Served, Management, Roles
  <2>2. CASE role # "WAITER"
    BY <1>1, <1>7, <2>2 DEF Served, Linked, ROLE_SECTIONS, NAV_ITEMS, Roles, Management
  <2> QED
    BY <2>1, <2>2
<1> QED
  BY <1>2, <1>3, <1>4, <1>5, <1>6, <1>7, ThePages

\* Where a browser lands is a page, and not the login once it knows its user.
LEMMA LandsOnAPage ==
  ASSUME NEW p \in Pages, NEW m \in [role : Roles, aged : BOOLEAN] \cup {Nobody}
  PROVE  /\ Land(p, m) \in Pages
         /\ m # Nobody /\ p \in StaffPages => Land(p, m) # "login"
<1>1. Redirect(p, m.role) \in {p, "kitchen", "dashboard"}
  BY DEF Redirect
<1>2. CASE m = Nobody
  BY <1>2 DEF Land, Pages, Nobody, GuardedPages, SKIP_ME_CHECK_PATHS
<1>3. CASE m # Nobody
  <2>1. m.aged \in BOOLEAN
    BY <1>3
  <2>2. Land(p, m) \in {"password-expired", "dashboard", p, Redirect(p, m.role)}
    BY <1>3, <2>1 DEF Land
  <2> QED
    BY <1>1, <2>2, ThePages DEF Pages, SKIP_ME_CHECK_PATHS
<1> QED
  BY <1>2, <1>3

LEMMA AskedIsOfPages ==
  ASSUME NEW p, NEW m \in [role : Roles, aged : BOOLEAN] \cup {Nobody}, NEW r \in Asked(p, m)
  PROVE  /\ r = [on |-> r.on, as |-> r.as, route |-> r.route, ans |-> r.ans]
         /\ r.on \in StaffPages /\ r.as \in Roles /\ r.route \in PageReads(r.on, r.as)
<1>1. m \in [role : Roles, aged : BOOLEAN] /\ ~ m.aged
  BY DEF Asked
<1>2. PICK q \in {p, Land(p, m)} \cap StaffPages :
        r \in {[on |-> q, as |-> m.role, route |-> x, ans |-> "none"] : x \in PageReads(q, m.role)}
  BY <1>1 DEF Asked
<1>3. PICK x \in PageReads(q, m.role) : r = [on |-> q, as |-> m.role, route |-> x, ans |-> "none"]
  BY <1>2
<1> QED
  BY <1>1, <1>2, <1>3

\* Reads that stay stay reads of pages.
LEMMA ReadsShrink ==
  ASSUME ReadsAreOfPages, reads' \subseteq reads
  PROVE  ReadsAreOfPages'
BY DEF ReadsAreOfPages

\* The part of the state that is the client's.
ClientOK ==
  /\ page' \in Pages
  /\ me' \in [role : Roles, aged : BOOLEAN] \cup {Nobody}
  /\ loading' \in BOOLEAN
  /\ fetching' \in Fetches
  /\ ReadsAreOfPages'

LEMMA LoadKeeps ==
  ASSUME NEW p \in Pages, Load(p)
  PROVE  ClientOK /\ page' = p
BY DEF Load, ClientOK, ReadsAreOfPages, Fetches

LEMMA RefusedKeeps ==
  ASSUME AccessInv, Refused401
  PROVE  ClientOK
<1>1. CASE page \in SKIP_ME_CHECK_PATHS
  BY <1>1, ReadsShrink DEF Refused401, AccessInv, AccessTypeOK, ClientOK, Fetches
<1>2. CASE page \notin SKIP_ME_CHECK_PATHS
  <2>1. "login" \in Pages
    BY DEF Pages, SKIP_ME_CHECK_PATHS
  <2> QED
    BY <1>2, <2>1, LoadKeeps DEF Refused401
<1> QED
  BY <1>1, <1>2

LEMMA ShowKeeps ==
  ASSUME AccessInv, NEW p \in Pages, NEW m \in [role : Roles, aged : BOOLEAN] \cup {Nobody},
         NEW left \in SUBSET reads, Show(p, m, left)
  PROVE  /\ page' \in Pages /\ me' = m /\ ReadsAreOfPages'
         /\ m # Nobody /\ p \in StaffPages => page' # "login"
<1>1. ASSUME NEW r \in reads'
      PROVE  /\ r = [on |-> r.on, as |-> r.as, route |-> r.route, ans |-> r.ans]
             /\ r.on \in StaffPages /\ r.as \in Roles /\ r.route \in PageReads(r.on, r.as)
  <2>1. r \in reads \/ r \in Asked(p, m)
    BY DEF Show
  <2> QED
    BY <2>1, AskedIsOfPages DEF AccessInv, ReadsAreOfPages
<1> QED
  BY <1>1, LandsOnAPage DEF Show, ReadsAreOfPages

LEMMA AccessStarts == AccessInit => AccessInv
<1> SUFFICES ASSUME AccessInit PROVE AccessInv
  OBVIOUS
<1>1. staff \in [role : Roles, active : BOOLEAN, mfa : BOOLEAN, aged : BOOLEAN]
  BY DEF AccessInit
<1>2. page \in Pages
  BY DEF AccessInit, Pages, SKIP_ME_CHECK_PATHS
<1>3. ReadsAreOfPages
  BY DEF AccessInit, ReadsAreOfPages
<1> QED
  BY <1>1, <1>2, <1>3 DEF AccessInit, AccessInv, AccessTypeOK, Fetches

\* The steps of the user, and the answers to /auth/me.
LEMMA MfaPageKeeps ==
  ASSUME AccessInv, LeaveMfaPage
  PROVE  page' \in Pages
<1>1. "login" \in Pages
  BY DEF Pages, SKIP_ME_CHECK_PATHS
<1>2. Land("login", me) \in Pages
  BY <1>1, LandsOnAPage DEF AccessInv, AccessTypeOK
<1> QED
  BY <1>2 DEF LeaveMfaPage, AccessInv, AccessTypeOK

LEMMA SignInKeeps ==
  ASSUME AccessInv, SignIn \/ VerifyMfa
  PROVE  AccessInv'
<1>1. "mfa-verify" \in Pages
  BY DEF Pages, SKIP_ME_CHECK_PATHS
<1>2. Land("mfa-verify", me) \in Pages
  BY <1>1, LandsOnAPage DEF AccessInv, AccessTypeOK
<1>3. UNCHANGED <<staff, me, loading, reads, meddled>> /\ page' \in Pages
  BY <1>2, MfaPageKeeps DEF SignIn, VerifyMfa, AccessInv, AccessTypeOK
<1>4. sess' \in {"none", "half", "full"} /\ fetching' \in Fetches
  BY DEF SignIn, VerifyMfa, AccessInv, AccessTypeOK, Fetches
<1> QED
  BY <1>3, <1>4, ReadsShrink DEF AccessInv, AccessTypeOK

\* The four answers of /auth/me: a user, a refusal, a failure taken for nobody,
\* and a failure that a form shows.
LEMMA MeKeeps ==
  ASSUME AccessInv, ReceiveMe
  PROVE  AccessInv'
<1>1. UNCHANGED <<staff, sess, meddled>>
  BY DEF ReceiveMe
<1>2. ClientOK
  <2>1. CASE fetching \in {"load", "dashboard"} /\ SessionGuard(TRUE) = "ok"
    <3> DEFINE p == IF fetching = "load" THEN page ELSE fetching
               m == [role |-> staff.role, aged |-> staff.aged]
    <3>1. Show(p, m, reads) /\ fetching' = "no" /\ loading' = FALSE
      BY <2>1 DEF ReceiveMe
    <3>2. p \in Pages
      BY <2>1, ThePages DEF AccessInv, AccessTypeOK, Pages
    <3>3. m \in [role : Roles, aged : BOOLEAN]
      BY DEF AccessInv, AccessTypeOK
    <3> HIDE DEF p, m
    <3>4. page' \in Pages /\ me' = m /\ ReadsAreOfPages'
      BY <3>1, <3>2, <3>3, ShowKeeps
    <3> QED
      BY <3>1, <3>3, <3>4 DEF ClientOK, Fetches
  <2>2. CASE fetching \in {"load", "dashboard"} /\ SessionGuard(TRUE) # "ok"
    <3>1. CASE page = "mfa-verify"
      <4>1. LeaveMfaPage /\ fetching' = "no" /\ UNCHANGED <<me, loading, reads>>
        BY <2>2, <3>1 DEF ReceiveMe
      <4> QED
        BY <4>1, MfaPageKeeps, ReadsShrink DEF AccessInv, AccessTypeOK, ClientOK, Fetches
    <3>2. CASE page # "mfa-verify"
      BY <2>2, <3>2, RefusedKeeps DEF ReceiveMe
    <3> QED
      BY <3>1, <3>2
  <2>3. CASE fetching = "load-failed"
    <3>1. Show(page, Nobody, reads) /\ fetching' = "no" /\ loading' = FALSE
      BY <2>3 DEF ReceiveMe
    <3>2. page' \in Pages /\ me' = Nobody /\ ReadsAreOfPages'
      BY <3>1, ShowKeeps DEF AccessInv, AccessTypeOK
    <3> QED
      BY <3>1, <3>2 DEF ClientOK, Fetches
  <2>4. CASE fetching = "form-failed"
    BY <2>4, ReadsShrink DEF ReceiveMe, AccessInv, AccessTypeOK, ClientOK, Fetches
  <2> QED
    BY <2>1, <2>2, <2>3, <2>4 DEF ReceiveMe
<1> QED
  BY <1>1, <1>2 DEF AccessInv, AccessTypeOK, ClientOK

LEMMA LogoutKeeps ==
  ASSUME AccessInv, Logout
  PROVE  AccessInv'
<1>1. UNCHANGED staff /\ meddled' \in Nat
  BY DEF Logout, AccessInv, AccessTypeOK
<1>2. ClientOK /\ sess' \in {"none", "half", "full"}
  <2>1. CASE SessionGuard(TRUE) = "ok"
    <3>1. sess' = "none" /\ Show("login", Nobody, reads) /\ UNCHANGED <<loading, fetching>>
      BY <2>1 DEF Logout
    <3>2. "login" \in Pages
      BY DEF Pages, SKIP_ME_CHECK_PATHS
    <3>3. page' \in Pages /\ me' = Nobody /\ ReadsAreOfPages'
      BY <3>1, <3>2, ShowKeeps
    <3> QED
      BY <3>1, <3>3 DEF ClientOK, AccessInv, AccessTypeOK, Fetches
  <2>2. CASE SessionGuard(TRUE) # "ok"
    BY <2>2, RefusedKeeps DEF Logout, AccessInv, AccessTypeOK
  <2> QED
    BY <2>1, <2>2
<1> QED
  BY <1>1, <1>2 DEF AccessInv, AccessTypeOK, ClientOK

LEMMA ChangeKeepsAccess ==
  ASSUME AccessInv, ChangePassword
  PROVE  AccessInv'
<1>1. UNCHANGED <<sess, meddled>>
  BY DEF ChangePassword
<1>2. staff' \in [role : Roles, active : BOOLEAN, mfa : BOOLEAN, aged : BOOLEAN]
  BY DEF ChangePassword, AccessInv, AccessTypeOK
<1>3. ClientOK
  BY RefusedKeeps, ReadsShrink DEF ChangePassword, ClientOK, AccessInv, AccessTypeOK, Fetches
<1> QED
  BY <1>1, <1>2, <1>3 DEF AccessInv, AccessTypeOK, ClientOK

LEMMA LinkKeeps ==
  ASSUME AccessInv, NEW p \in StaffPages, FollowLink(p)
  PROVE  AccessInv' /\ page' # "login"
<1>1. Show(p, me, reads) /\ me # Nobody /\ UNCHANGED <<staff, sess, loading, fetching, meddled>>
  BY DEF FollowLink
<1>2. p \in Pages /\ me \in [role : Roles, aged : BOOLEAN] \cup {Nobody}
  BY DEF Pages, AccessInv, AccessTypeOK
<1>3. page' \in Pages /\ me' = me /\ ReadsAreOfPages' /\ page' # "login"
  BY <1>1, <1>2, ShowKeeps
<1> QED
  BY <1>1, <1>3 DEF AccessInv, AccessTypeOK

\* The answers to reads.
LEMMA AnswerKeeps ==
  ASSUME AccessInv, NEW r \in reads, AnswerRead(r)
  PROVE  AccessInv' /\ page' = page
<1>1. UNCHANGED <<staff, sess, page, me, loading, fetching, meddled>>
  BY DEF AnswerRead
<1>2. r = [on |-> r.on, as |-> r.as, route |-> r.route, ans |-> r.ans]
  BY DEF AccessInv, ReadsAreOfPages
<1>3. PICK a : reads' \subseteq reads \cup {[r EXCEPT !.ans = a]}
  BY DEF AnswerRead
<1>4. [r EXCEPT !.ans = a] = [on |-> r.on, as |-> r.as, route |-> r.route, ans |-> a]
  BY <1>2
<1>5. ReadsAreOfPages'
  BY <1>3, <1>4 DEF AccessInv, ReadsAreOfPages
<1> QED
  BY <1>1, <1>5 DEF AccessInv, AccessTypeOK

LEMMA RefusalKeeps ==
  ASSUME AccessInv, NEW r \in reads, ReceiveRefusal(r)
  PROVE  AccessInv' /\ (page' = "login" => page = "login" \/ r.ans = "401")
<1>1. UNCHANGED <<staff, sess, meddled>>
  BY DEF ReceiveRefusal
<1>2. {"login", "password-expired"} \subseteq Pages
  BY DEF Pages, SKIP_ME_CHECK_PATHS
<1>3. CASE r.ans = "expired" /\ page # "password-expired"
  BY <1>1, <1>2, <1>3, LoadKeeps DEF ReceiveRefusal, AccessInv, AccessTypeOK, ClientOK
<1>4. CASE r.ans = "401" /\ page \notin SKIP_ME_CHECK_PATHS
  BY <1>1, <1>2, <1>4, LoadKeeps DEF ReceiveRefusal, AccessInv, AccessTypeOK, ClientOK
<1>5. CASE /\ ~ (r.ans = "expired" /\ page # "password-expired")
           /\ ~ (r.ans = "401" /\ page \notin SKIP_ME_CHECK_PATHS)
  BY <1>1, <1>5, ReadsShrink DEF ReceiveRefusal, AccessInv, AccessTypeOK
<1> QED
  BY <1>3, <1>4, <1>5

\* The world around the browser.
LEMMA MeddleKeeps ==
  ASSUME AccessInv, Meddle
  PROVE  AccessInv' /\ meddled' # meddled
<1>1. meddled' \in Nat /\ meddled' # meddled
  BY DEF Meddle, AccessInv, AccessTypeOK
<1>2. CASE StaffChanges
  <2>1. UNCHANGED <<sess, page, me, loading, fetching, reads>>
    BY <1>2 DEF StaffChanges
  <2>2. staff' \in [role : Roles, active : BOOLEAN, mfa : BOOLEAN, aged : BOOLEAN]
    BY <1>2 DEF StaffChanges, SetupMfa, AccessInv, AccessTypeOK
  <2> QED
    BY <1>1, <2>1, <2>2, ReadsShrink DEF AccessInv, AccessTypeOK
<1>3. CASE SessionRunsOut
  BY <1>1, <1>3, ReadsShrink DEF SessionRunsOut, AccessInv, AccessTypeOK
<1>4. CASE MeFails
  BY <1>1, <1>4, ReadsShrink DEF MeFails, AccessInv, AccessTypeOK, Fetches
<1>5. CASE TypeAddress
  BY <1>1, <1>5, LoadKeeps DEF TypeAddress, AccessInv, AccessTypeOK, ClientOK
<1> QED
  BY <1>2, <1>3, <1>4, <1>5 DEF Meddle

LEMMA AccessKeeps == AccessInv /\ [AccessNext]_accessVars => AccessInv'
<1> SUFFICES ASSUME AccessInv, [AccessNext]_accessVars PROVE AccessInv'
  OBVIOUS
<1>1. CASE UNCHANGED accessVars
  BY <1>1, ReadsShrink DEF accessVars, AccessInv, AccessTypeOK
<1> QED
  BY <1>1, SignInKeeps, MeKeeps, LogoutKeeps, ChangeKeepsAccess, LinkKeeps, AnswerKeeps,
     RefusalKeeps, MeddleKeeps DEF AccessNext

\* Session, page and the client's copy of the user keep their values, and every
\* request under way is one its page makes for the role it was loaded with.
THEOREM AccessInvariance == AccessSpec => []AccessInv
<1> QED
  BY AccessStarts, AccessKeeps, PTL DEF AccessSpec

\* Whatever roles are taken away and whichever addresses are typed, a page
\* that is linked for a role asks for nothing that role is refused.
THEOREM LinksAreServed == AccessSpec => []LinkedIsServed
<1>1. AccessInv => LinkedIsServed
  BY PagesAreServed DEF AccessInv, ReadsAreOfPages, LinkedIsServed, Served
<1> QED
  BY <1>1, AccessInvariance, PTL

\* The steps that can lead to the login.
LEMMA ThrownOutStep ==
  ASSUME AccessInv, [AccessNext]_accessVars, page' = "login", page \in StaffPages,
         meddled' = meddled, sess = "full", fetching # "load-failed"
  PROVE  \E r \in reads : r.ans = "401"
<1>1. page # "login" /\ page \notin SKIP_ME_CHECK_PATHS /\ page # "password-expired"
  BY ThePages DEF SKIP_ME_CHECK_PATHS
<1>2. ~ SignIn /\ ~ VerifyMfa /\ ~ ChangePassword
  BY <1>1 DEF SignIn, VerifyMfa, ChangePassword, SKIP_ME_CHECK_PATHS
<1>3. ~ Logout /\ ~ Meddle
  <2>1. ASSUME Logout PROVE FALSE
    <3>1. meddled' = meddled + 1 /\ meddled \in Nat
      BY <2>1 DEF Logout, AccessInv, AccessTypeOK
    <3> QED
      BY <3>1
  <2>2. ASSUME Meddle PROVE FALSE
    BY <2>2, MeddleKeeps
  <2> QED
    BY <2>1, <2>2
<1>4. ~ ReceiveMe
  <2> SUFFICES ASSUME ReceiveMe PROVE FALSE
    OBVIOUS
  <2> DEFINE p == IF fetching = "load" THEN page ELSE fetching
             m == [role |-> staff.role, aged |-> staff.aged]
  <2>1. SessionGuard(TRUE) = "ok"
    BY DEF SessionGuard
  <2>2. fetching \in {"load", "dashboard"} /\ Show(p, m, reads)
    BY <1>1, <2>1 DEF ReceiveMe
  <2>3. p \in StaffPages /\ p \in Pages
    BY <2>2, ThePages DEF AccessInv, AccessTypeOK, Pages
  <2>4. m \in [role : Roles, aged : BOOLEAN] /\ m # Nobody
    BY DEF AccessInv, AccessTypeOK, Nobody, Roles
  <2> HIDE DEF p, m
  <2> QED
    BY <2>2, <2>3, <2>4, ShowKeeps
<1>5. page' # page
  BY <1>1
<1> QED
  BY <1>1, <1>2, <1>3, <1>4, <1>5, LinkKeeps, AnswerKeeps, RefusalKeeps DEF AccessNext, accessVars

\* With a session that is whole, the login comes up for a refusal on its way or
\* a failure at the load of a page only, whatever page, role or password the
\* client believes in; no failure of a page in use does it.
THEOREM NobodyIsThrownOut == AccessSpec => ThrownOutRightly
<1>1. AccessInv /\ [AccessNext]_accessVars
        => [page' = "login" /\ page \in StaffPages /\ meddled' = meddled
              => \/ sess # "full" \/ fetching = "load-failed"
                 \/ \E r \in reads : r.ans = "401"]_accessVars
  BY ThrownOutStep
<1> QED
  BY <1>1, AccessInvariance, PTL DEF AccessSpec, ThrownOutRightly
=============================================================================
