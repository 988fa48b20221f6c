-------------------------------- MODULE Login --------------------------------
(***************************************************************************)
(* AuthService.login with handleFailedLogin, the IpBlockService it calls,  *)
(* and an administrator's unlockAccount and unblockIp.  A login is a chain *)
(* of awaits; between two of them any other login of the same account or   *)
(* the same address may act, and the process may die.  Clock times appear  *)
(* only as "still running" or "run out".                                   *)
(***************************************************************************)
EXTENDS Naturals

CONSTANTS
  Accounts,      \* users who may sign in
  Addresses,     \* client addresses other than ::1
  Logins,        \* slots for logins in flight
  MaxFailed,     \* MAX_FAILED_ATTEMPTS
  BlockAfter,    \* IP_LOCKOUT_TRIGGER_THRESHOLD
  CountBound     \* bound: no counter grows beyond it

ASSUME LoginAssumption ==
  MaxFailed \in Nat \ {0} /\ BlockAfter \in Nat \ {0, 1} /\ CountBound \in Nat

VARIABLES
  attempts,      \* User.failedLoginAttempts
  locked,        \* User.lockedUntil lies in the future
  lockouts,      \* ip-lockout-count of an address, 0 when there is no key
  expiring,      \* that key has a time to live
  blocked,       \* ip-blocked of an address
  unblocking,    \* addresses whose block is deleted and whose count is not yet
  login,         \* what each login in flight is about to do
  excused,       \* history: why lock and counter of an account may differ
  orphaned       \* history: a login died between INCR and EXPIRE of an address

loginVars == <<attempts, locked, lockouts, expiring, blocked, unblocking, login,
               excused, orphaned>>
addressVars == <<lockouts, expiring, blocked, unblocking, orphaned>>

NoLogin == [at |-> "idle"]
Steps == {"find", "fail", "lock", "incr", "expire", "block", "succeed"}
LoginRows == {NoLogin} \cup [at : Steps, user : Accounts, from : Addresses]

LoginInit ==
  /\ attempts = [u \in Accounts |-> 0]
  /\ locked = [u \in Accounts |-> FALSE]
  /\ lockouts = [a \in Addresses |-> 0]
  /\ expiring = [a \in Addresses |-> FALSE]
  /\ blocked = [a \in Addresses |-> FALSE]
  /\ unblocking = {}
  /\ login = [l \in Logins |-> NoLogin]
  /\ excused = [u \in Accounts |-> FALSE]
  /\ orphaned = [a \in Addresses |-> FALSE]

Goto(l, step) == login' = [login EXCEPT ![l].at = step]
Ends(l) == login' = [login EXCEPT ![l] = NoLogin]
About(l, step, u) == login[l].at = step /\ login[l].user = u

-----------------------------------------------------------------------------
\* login: the address first, then the row, then the password

LoginStart(l, u, a) ==
  /\ login[l] = NoLogin
  /\ ~ blocked[a]
  /\ login' = [login EXCEPT ![l] = [at |-> "find", user |-> u, from |-> a]]
  /\ UNCHANGED <<attempts, locked, excused, addressVars>>

\* A running lock ends the login before the password is looked at.
LoginFind(l) ==
  /\ login[l].at = "find"
  /\ IF locked[login[l].user] THEN Ends(l)
     ELSE \E step \in {"fail", "succeed"} : Goto(l, step)
  /\ UNCHANGED <<attempts, locked, excused, addressVars>>

\* Both columns go back at once; the row may have changed since it was read.
ResetAttempts(u) ==
  /\ attempts' = [attempts EXCEPT ![u] = 0]
  /\ locked' = [locked EXCEPT ![u] = FALSE]
  /\ excused' = [excused EXCEPT ![u] = \E l \in Logins : About(l, "lock", u)]

LoginSucceeds(l) ==
  /\ login[l].at = "succeed"
  /\ ResetAttempts(login[l].user)
  /\ Ends(l)
  /\ UNCHANGED addressVars

-----------------------------------------------------------------------------
\* handleFailedLogin: an atomic increment, the lock, then the address

\* Mutant: the account locks one failure late.
CountFailureLate(l) ==
  LET u == login[l].user IN
  /\ login[l].at = "fail" /\ attempts[u] < CountBound
  /\ attempts' = [attempts EXCEPT ![u] = @ + 1]
  /\ IF attempts[u] + 1 > MaxFailed THEN Goto(l, "lock") ELSE Ends(l)
  /\ UNCHANGED <<locked, excused, addressVars>>

CountFailure(l) ==
  LET u == login[l].user IN
  /\ login[l].at = "fail" /\ attempts[u] < CountBound
  /\ attempts' = [attempts EXCEPT ![u] = @ + 1]
  /\ IF attempts[u] + 1 >= MaxFailed THEN Goto(l, "lock") ELSE Ends(l)
  /\ UNCHANGED <<locked, excused, addressVars>>

LockAccount(l) ==
  LET u == login[l].user IN
  /\ login[l].at = "lock"
  /\ locked' = [locked EXCEPT ![u] = TRUE]
  /\ excused' = [excused EXCEPT ![u] = attempts[u] < MaxFailed]
  /\ Goto(l, "incr")
  /\ UNCHANGED <<attempts, addressVars>>

\* Mutant: only the count that blocks sets the time to live.
CountLockoutAtBlock(l) ==
  LET a == login[l].from IN
  /\ login[l].at = "incr" /\ lockouts[a] < CountBound
  /\ lockouts' = [lockouts EXCEPT ![a] = @ + 1]
  /\ IF lockouts[a] + 1 >= BlockAfter THEN Goto(l, "expire") ELSE Ends(l)
  /\ UNCHANGED <<attempts, locked, excused, expiring, blocked, unblocking, orphaned>>

CountLockout(l) ==
  LET a == login[l].from IN
  /\ login[l].at = "incr" /\ lockouts[a] < CountBound
  /\ lockouts' = [lockouts EXCEPT ![a] = @ + 1]
  /\ CASE lockouts[a] = 0 -> Goto(l, "expire")
       [] lockouts[a] + 1 >= BlockAfter -> Goto(l, "block")
       [] OTHER -> Ends(l)
  /\ UNCHANGED <<attempts, locked, excused, expiring, blocked, unblocking, orphaned>>

\* EXPIRE of a key that is gone does nothing.
StartWindow(l) ==
  LET a == login[l].from IN
  /\ login[l].at = "expire"
  /\ expiring' = [expiring EXCEPT ![a] = lockouts[a] > 0]
  /\ Ends(l)
  /\ UNCHANGED <<attempts, locked, excused, lockouts, blocked, unblocking, orphaned>>

BlockAddress(l) ==
  /\ login[l].at = "block"
  /\ blocked' = [blocked EXCEPT ![login[l].from] = TRUE]
  /\ Ends(l)
  /\ UNCHANGED <<attempts, locked, excused, lockouts, expiring, unblocking, orphaned>>

-----------------------------------------------------------------------------
\* Administrators, time, and the death of the process

UnlockAccount(u) ==
  /\ ResetAttempts(u)
  /\ UNCHANGED <<login, addressVars>>

ForgetLockouts(a) ==
  /\ lockouts' = [lockouts EXCEPT ![a] = 0]
  /\ expiring' = [expiring EXCEPT ![a] = FALSE]
  /\ orphaned' = [orphaned EXCEPT ![a] = FALSE]

\* Two deletions, with an await between them.
UnblockIp(a) ==
  /\ a \notin unblocking
  /\ blocked' = [blocked EXCEPT ![a] = FALSE]
  /\ unblocking' = unblocking \cup {a}
  /\ UNCHANGED <<attempts, locked, excused, login, lockouts, expiring, orphaned>>

UnblockIpCount(a) ==
  /\ a \in unblocking
  /\ ForgetLockouts(a)
  /\ unblocking' = unblocking \ {a}
  /\ UNCHANGED <<attempts, locked, excused, login, blocked>>

\* The time of a lock runs out; the counter stays where it is.
LockRunsOut(u) ==
  /\ locked[u]
  /\ locked' = [locked EXCEPT ![u] = FALSE]
  /\ excused' = [excused EXCEPT ![u] = TRUE]
  /\ UNCHANGED <<attempts, login, addressVars>>

WindowRunsOut(a) ==
  /\ expiring[a]
  /\ ForgetLockouts(a)
  /\ UNCHANGED <<attempts, locked, excused, login, blocked, unblocking>>

BlockRunsOut(a) ==
  /\ blocked[a]
  /\ blocked' = [blocked EXCEPT ![a] = FALSE]
  /\ UNCHANGED <<attempts, locked, excused, login, lockouts, expiring, unblocking, orphaned>>

LoginDies(l) ==
  /\ login[l] # NoLogin
  /\ Ends(l)
  /\ excused' = [u \in Accounts |-> excused[u] \/ About(l, "lock", u)]
  /\ orphaned' = [a \in Addresses |->
       orphaned[a] \/ (login[l].at = "expire" /\ login[l].from = a)]
  /\ UNCHANGED <<attempts, locked, lockouts, expiring, blocked, unblocking>>

LoginNext ==
  \/ \E l \in Logins :
       \/ \E u \in Accounts, a \in Addresses : LoginStart(l, u, a)
       \/ LoginFind(l)
       \/ LoginSucceeds(l)
       \/ CountFailure(l)
       \/ LockAccount(l)
       \/ CountLockout(l)
       \/ StartWindow(l)
       \/ BlockAddress(l)
       \/ LoginDies(l)
  \/ \E u \in Accounts : UnlockAccount(u) \/ LockRunsOut(u)
  \/ \E a \in Addresses : UnblockIp(a) \/ UnblockIpCount(a) \/ WindowRunsOut(a) \/ BlockRunsOut(a)

LoginSpec == LoginInit /\ [][LoginNext]_loginVars

-----------------------------------------------------------------------------
\* The variables hold what their columns, keys and steps can hold.
LoginTypeOK ==
  /\ attempts \in [Accounts -> Nat]
  /\ locked \in [Accounts -> BOOLEAN]
  /\ lockouts \in [Addresses -> Nat]
  /\ expiring \in [Addresses -> BOOLEAN]
  /\ blocked \in [Addresses -> BOOLEAN]
  /\ unblocking \subseteq Addresses
  /\ login \in [Logins -> LoginRows]
  /\ excused \in [Accounts -> BOOLEAN]
  /\ orphaned \in [Addresses -> BOOLEAN]

\* Lock and counter of an account agree: it is locked exactly when the counter
\* stands at the limit.  The exceptions are all: a login is about to lock it;
\* the lock has run out, or a login died on its way to it, since which nobody
\* locked or reset it; or a reset overtook a login that was about to lock.
LockMatchesCount ==
  \A u \in Accounts :
    \/ excused[u]
    \/ \E l \in Logins : About(l, "lock", u)
    \/ locked[u] <=> attempts[u] >= MaxFailed

\* A count of lockouts that nothing will ever expire is the trace of a login
\* that is about to set its time to live, or that died before it did.
CountsExpire ==
  \A a \in Addresses :
    lockouts[a] > 0 /\ ~ expiring[a] =>
      \/ orphaned[a]
      \/ \E l \in Logins : login[l].at = "expire" /\ login[l].from = a

\* What CountsExpire needs to survive a step: a window belongs to a count.
WindowOfCount == \A a \in Addresses : expiring[a] => lockouts[a] > 0

LoginInv == LoginTypeOK /\ LockMatchesCount /\ CountsExpire /\ WindowOfCount
=============================================================================
