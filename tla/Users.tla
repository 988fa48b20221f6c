-------------------------------- MODULE Users --------------------------------
(***************************************************************************)
(* UsersService behind its guards, as the administrators' page calls it.   *)
(* The guard reads who asks; the change is written some awaits later, when *)
(* the account that asked may itself have been changed.                    *)
(***************************************************************************)
EXTENDS OrderStatus

CONSTANTS
  People,    \* persons, whether or not they have an account
  Jobs       \* slots for administrators' requests in flight

VARIABLES
  account,   \* User row of a person: role and isActive
  job,       \* requests that have passed RolesGuard
  crossed    \* history: a change was written for somebody no longer admin

userVars == <<account, job, crossed>>

NoAccount == [role |-> "none", active |-> FALSE]
NoJob == [at |-> "idle"]
ASSIGNABLE_ROLES == Roles \ {"ADMIN"}
Keep == "keep"          \* a field the request leaves out

\* What the page sends: the edit form both fields, Activate and Deactivate one.
EditFields == [role : ASSIGNABLE_ROLES, active : BOOLEAN]
SwitchFields == [role : {Keep}, active : BOOLEAN]
UpdateFields == EditFields \cup SwitchFields

AccountRows == {NoAccount} \cup [role : Roles, active : BOOLEAN]
JobRows == {NoJob}
  \cup [at : {"update"}, by : People, on : People, fields : UpdateFields]
  \cup [at : {"create"}, by : People, on : People, role : ASSIGNABLE_ROLES]

IsAdmin(p) == account[p].role = "ADMIN" /\ account[p].active

\* The seed opens the first administrator's account.
UsersInit ==
  /\ account \in [People -> AccountRows]
  /\ \E p \in People : IsAdmin(p)
  /\ job = [j \in Jobs |-> NoJob]
  /\ crossed = FALSE

Begin(j, request) ==
  /\ job[j] = NoJob
  /\ IsAdmin(request.by)
  /\ job' = [job EXCEPT ![j] = request]
  /\ UNCHANGED <<account, crossed>>

\* Mutant: administrators may change their own accounts.
UpdateBeginAny(j, by, on, fields) ==
  /\ account[on] # NoAccount
  /\ Begin(j, [at |-> "update", by |-> by, on |-> on, fields |-> fields])

\* update, and deactivate, which sends the one field itself.
UpdateBegin(j, by, on, fields) ==
  /\ on # by
  /\ account[on] # NoAccount
  /\ Begin(j, [at |-> "update", by |-> by, on |-> on, fields |-> fields])

CreateBegin(j, by, on, role) ==
  /\ account[on] = NoAccount
  /\ Begin(j, [at |-> "create", by |-> by, on |-> on, role |-> role])

Ended(j) ==
  /\ job' = [job EXCEPT ![j] = NoJob]
  /\ crossed' = (crossed \/ ~ IsAdmin(job[j].by))

UpdateWrite(j) ==
  /\ job[j].at = "update"
  /\ LET new == job[j].fields IN
       account' = [account EXCEPT ![job[j].on] =
         [role |-> IF new.role = Keep THEN @.role ELSE new.role, active |-> new.active]]
  /\ Ended(j)

\* The e-mail address is unique: the second of two insertions fails.
CreateWrite(j) ==
  /\ job[j].at = "create"
  /\ IF account[job[j].on] = NoAccount
     THEN account' = [account EXCEPT ![job[j].on] = [role |-> job[j].role, active |-> TRUE]]
     ELSE UNCHANGED account
  /\ Ended(j)

UsersNext ==
  \E j \in Jobs :
    \/ \E by \in People, on \in People :
         \/ \E fields \in UpdateFields : UpdateBegin(j, by, on, fields)
         \/ \E role \in ASSIGNABLE_ROLES : CreateBegin(j, by, on, role)
    \/ UpdateWrite(j)
    \/ CreateWrite(j)

UsersSpec == UsersInit /\ [][UsersNext]_userVars

-----------------------------------------------------------------------------
\* There is always an administrator who can sign in: the house is locked out of
\* its own user management only if a change was written in the name of somebody
\* who had stopped being one after the guard let the request through.
AdminsRemain == crossed \/ \E p \in People : IsAdmin(p)

\* The variables hold rows and requests, and no request is about its author.
UsersTypeOK ==
  /\ account \in [People -> AccountRows]
  /\ job \in [Jobs -> JobRows]
  /\ crossed \in BOOLEAN
  /\ \A j \in Jobs :
       /\ job[j] # NoJob => job[j].on # job[j].by
       /\ job[j].at = "update" => account[job[j].on] # NoAccount

UsersInv == UsersTypeOK /\ AdminsRemain
=============================================================================
