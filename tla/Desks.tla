-------------------------------- MODULE Desks --------------------------------
(***************************************************************************)
(* Accounts and screens: signing in, passwords, users, and the pages whose *)
(* own state matters.  No two of them share a column or a key (the row of  *)
(* a user is split between the first three; what a page gets from the API  *)
(* appears in its part as an environment that may do anything the API      *)
(* does).  So a behaviour lets one part move: the states of the parts add  *)
(* up instead of multiplying, and no behaviour of any part is lost.        *)
(***************************************************************************)
EXTENDS Login, Passwords, Users, Till, Cart, AuditPage, Reports

VARIABLE desk      \* the part that moves in this behaviour

accountVars == <<loginVars, passwordVars, userVars>>
listVars == <<auditPageVars, reportVars>>
moneyVars == <<tillVars, cartVars>>
desksVars == <<desk, accountVars, listVars, moneyVars>>

\* Parts that may start in several states start in one when they do not move.
Resting ==
  /\ desk # "passwords" => hash = CHOOSE v \in Values : TRUE
  /\ desk # "users" => account = [p \in People |-> [role |-> "ADMIN", active |-> TRUE]]
  /\ desk # "audit" => view.filter = CHOOSE f \in Filters : TRUE
  /\ desk # "reports" => zone = CHOOSE z \in Zones : TRUE

DesksInit ==
  /\ desk \in {"login", "passwords", "users", "audit", "reports", "till", "cart"}
  /\ LoginInit /\ PasswordsInit /\ UsersInit
  /\ AuditPageInit /\ ReportsInit
  /\ TillInit /\ CartInit
  /\ Resting

DesksNext ==
  /\ UNCHANGED desk
  /\ \/ /\ UNCHANGED <<listVars, moneyVars>>
        /\ \/ desk = "login" /\ LoginNext /\ UNCHANGED <<passwordVars, userVars>>
           \/ desk = "passwords" /\ PasswordsNext /\ UNCHANGED <<loginVars, userVars>>
           \/ desk = "users" /\ UsersNext /\ UNCHANGED <<loginVars, passwordVars>>
     \/ /\ UNCHANGED <<accountVars, moneyVars>>
        /\ \/ desk = "audit" /\ AuditPageNext /\ UNCHANGED reportVars
           \/ desk = "reports" /\ ReportsNext /\ UNCHANGED auditPageVars
     \/ /\ UNCHANGED <<accountVars, listVars>>
        /\ \/ desk = "till" /\ TillNext /\ UNCHANGED cartVars
           \/ desk = "cart" /\ CartNext /\ UNCHANGED tillVars

DesksSpec == DesksInit /\ [][DesksNext]_desksVars
=============================================================================
