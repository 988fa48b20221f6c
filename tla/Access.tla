------------------------------- MODULE Access -------------------------------
(***************************************************************************)
(* One browser of one staff member: the session behind its cookie, the     *)
(* guards every call passes, the copy of the user the web client keeps,    *)
(* and the redirects of its pages.  An administrator, the calendar and the *)
(* session store change what the copy says while the browser is at work.   *)
(***************************************************************************)
EXTENDS Routes, Naturals, FiniteSets

CONSTANTS
  MaxMeddling,    \* bound: changes from outside, and addresses typed by hand
  MaxReads        \* bound: reads under way when a link is followed

VARIABLES
  staff,      \* the User row: role, isActive, mfaEnabled, password aged 90 days
  sess,       \* the session of the cookie: none, half (MFA pending), full
  page,       \* window.location
  me,         \* AuthContext.user: role and passwordExpired as last fetched
  loading,    \* AuthContext.isLoading
  fetching,   \* a call to /auth/me is under way or has failed, and what follows it
  reads,      \* data requests of pages, with the answer still under way
  meddled     \* how much of MaxMeddling is used

accessVars == <<staff, sess, page, me, loading, fetching, reads, meddled>>

Nobody == [role |-> "nobody", aged |-> FALSE]
SKIP_ME_CHECK_PATHS == {"login", "mfa-verify"}
Pages == SKIP_ME_CHECK_PATHS \cup {"password-expired"} \cup StaffPages
GuardedPages == Pages \ SKIP_ME_CHECK_PATHS

AccessInit ==
  /\ staff \in [role : Roles, active : {TRUE}, mfa : BOOLEAN, aged : BOOLEAN]
  /\ sess = "none" /\ page = "login" /\ me = Nobody
  /\ loading = FALSE /\ fetching = "no" /\ reads = {} /\ meddled = 0

-----------------------------------------------------------------------------
\* The guards of the API

SessionGuard(exempt) ==
  CASE sess # "full" -> "401"
    [] sess = "full" /\ staff.aged /\ ~ exempt -> "expired"
    [] OTHER -> "ok"

RolesGuard(route) == route = AnySession \/ (staff.active /\ staff.role \in route)

Answer(route) ==
  IF SessionGuard(FALSE) # "ok" THEN SessionGuard(FALSE)
  ELSE IF RolesGuard(route) THEN "ok" ELSE "403"

-----------------------------------------------------------------------------
\* Moving between pages

\* Where the effects of AuthContext, the layouts and the page leave a browser
\* that is at p with user m.
Land(p, m) ==
  CASE m = Nobody /\ p \in GuardedPages -> "login"
    [] m # Nobody /\ m.aged -> "password-expired"
    [] m # Nobody /\ ~ m.aged /\ p = "password-expired" -> "dashboard"
    [] m # Nobody /\ ~ m.aged /\ p \in StaffPages -> Redirect(p, m.role)
    [] OTHER -> p

\* A page asks as it appears, even one that redirects as it appears.
Asked(p, m) ==
  IF m = Nobody \/ m.aged THEN {}
  ELSE UNION {{[on |-> q, as |-> m.role, route |-> r, ans |-> "none"] : r \in PageReads(q, m.role)}
              : q \in {p, Land(p, m)} \cap StaffPages}

\* router.push: the client keeps its user and the reads under way.
Show(p, m, left) ==
  /\ me' = m /\ page' = Land(p, m) /\ reads' = left \cup Asked(p, m)

\* window.location: the client starts afresh and asks who it is.
Load(p) ==
  /\ me' = Nobody /\ page' = p /\ reads' = {}
  /\ loading' = (p \notin SKIP_ME_CHECK_PATHS)
  /\ fetching' = IF p \in SKIP_ME_CHECK_PATHS THEN "no" ELSE "load"

\* An answer 401 takes every page but the public ones to the login.
Refused401 ==
  IF page \in SKIP_ME_CHECK_PATHS
  THEN fetching' = "no" /\ UNCHANGED <<page, me, loading, reads>>
  ELSE Load("login")

-----------------------------------------------------------------------------
\* Signing in and out

\* AuthService.login refuses inactive users; the session is regenerated.
SignIn ==
  /\ page = "login" /\ fetching = "no" /\ staff.active
  /\ IF staff.mfa
     THEN /\ sess' = "half"
          /\ page' = Land("mfa-verify", me)
          /\ UNCHANGED fetching
     ELSE /\ sess' = "full" /\ fetching' = "dashboard"
          /\ UNCHANGED page
  /\ UNCHANGED <<staff, me, loading, reads, meddled>>

\* The page for the code stays where it is, unless there is no session at all.
LeaveMfaPage == page' = IF sess = "none" THEN Land("login", me) ELSE page

\* /auth/mfa/verify looks for a session and the user's secret, and takes a code
\* anew; who never set MFA up has no code to give.
MfaRefused == sess = "none" \/ ~ staff.mfa

\* The code is right, if there is one.
VerifyMfa ==
  /\ page = "mfa-verify" /\ fetching = "no"
  /\ IF MfaRefused THEN LeaveMfaPage /\ UNCHANGED <<sess, fetching>>
     ELSE sess' = "full" /\ fetching' = "dashboard" /\ UNCHANGED page
  /\ UNCHANGED <<staff, me, loading, reads, meddled>>

\* The answer of /auth/me, which asks for a session and nothing else.  A page
\* that loads takes any failure for nobody; a form shows it and stays.
ReceiveMe ==
  /\ \/ /\ fetching \in {"load", "dashboard"} /\ SessionGuard(TRUE) = "ok"
        /\ Show(IF fetching = "load" THEN page ELSE fetching,
                [role |-> staff.role, aged |-> staff.aged], reads)
        /\ fetching' = "no" /\ loading' = FALSE
     \/ /\ fetching \in {"load", "dashboard"} /\ SessionGuard(TRUE) # "ok"
        /\ IF page = "mfa-verify"
           THEN LeaveMfaPage /\ fetching' = "no" /\ UNCHANGED <<me, loading, reads>>
           ELSE Refused401
     \/ /\ fetching = "load-failed"
        /\ Show(page, Nobody, reads) /\ fetching' = "no" /\ loading' = FALSE
     \/ /\ fetching = "form-failed"
        /\ fetching' = "no" /\ UNCHANGED <<page, me, loading, reads>>
  /\ UNCHANGED <<staff, sess, meddled>>

Logout ==
  /\ page \in StaffPages /\ ~ loading /\ fetching = "no" /\ meddled < MaxMeddling
  /\ meddled' = meddled + 1
  /\ IF SessionGuard(TRUE) = "ok"
     THEN /\ sess' = "none" /\ Show("login", Nobody, reads)
          /\ UNCHANGED <<loading, fetching>>
     ELSE Refused401 /\ UNCHANGED sess
  /\ UNCHANGED staff

\* The forced change: then /auth/me again, then the dashboard.
ChangePassword ==
  /\ page = "password-expired" /\ me # Nobody /\ fetching = "no"
  /\ IF SessionGuard(TRUE) = "ok"
     THEN /\ staff' = [staff EXCEPT !.aged = FALSE] /\ fetching' = "dashboard"
          /\ UNCHANGED <<page, me, loading, reads>>
     ELSE Refused401 /\ UNCHANGED staff
  /\ UNCHANGED <<sess, meddled>>

-----------------------------------------------------------------------------
\* At work

FollowLink(p) ==
  /\ page \in StaffPages /\ me # Nobody /\ ~ loading /\ fetching = "no"
  /\ Cardinality(reads) < MaxReads
  /\ p \in Linked(me.role)
  /\ Show(p, me, reads)
  /\ UNCHANGED <<staff, sess, loading, fetching, meddled>>

\* The API answers; what changes nothing at the client is dropped here.
AnswerRead(r) ==
  /\ r.ans = "none"
  /\ reads' = (reads \ {r}) \cup
       (IF Answer(r.route) \in {"401", "expired"}
        THEN {[r EXCEPT !.ans = Answer(r.route)]} ELSE {})
  /\ UNCHANGED <<staff, sess, page, me, loading, fetching, meddled>>

\* Mutant: the client reacts to any 4xx by going to the login.
ReceiveRefusalLogin(r) ==
  /\ r.ans # "none"
  /\ IF page \in SKIP_ME_CHECK_PATHS
     THEN reads' = reads \ {r} /\ UNCHANGED <<page, me, loading, fetching>>
     ELSE Load("login")
  /\ UNCHANGED <<staff, sess, meddled>>

\* Mutant: the expired page is pushed, not loaded, and the old user stays.
ReceiveRefusalPush(r) ==
  /\ r.ans # "none"
  /\ IF r.ans = "401" /\ page \notin SKIP_ME_CHECK_PATHS THEN Load("login")
     ELSE /\ IF r.ans = "expired" THEN Show("password-expired", me, reads \ {r})
             ELSE reads' = reads \ {r} /\ UNCHANGED <<page, me>>
          /\ UNCHANGED <<loading, fetching>>
  /\ UNCHANGED <<staff, sess, meddled>>

\* The response interceptor.
ReceiveRefusal(r) ==
  /\ r.ans # "none"
  /\ CASE r.ans = "expired" /\ page # "password-expired" -> Load("password-expired")
       [] r.ans = "401" /\ page \notin SKIP_ME_CHECK_PATHS -> Load("login")
       [] OTHER -> reads' = reads \ {r} /\ UNCHANGED <<page, me, loading, fetching>>
  /\ UNCHANGED <<staff, sess, meddled>>

-----------------------------------------------------------------------------
\* What goes on around the browser

\* MFA is set up in this session, which stays as it is.
SetupMfa ==
  ~ staff.mfa /\ SessionGuard(FALSE) = "ok" /\ staff' = [staff EXCEPT !.mfa = TRUE]

\* UsersService.update and deactivate; 90 days.
StaffChanges ==
  /\ \/ \E r \in Roles \ {staff.role} : staff' = [staff EXCEPT !.role = r]
     \/ staff' = [staff EXCEPT !.active = ~ @]
     \/ ~ staff.aged /\ staff' = [staff EXCEPT !.aged = TRUE]
     \/ SetupMfa
  /\ UNCHANGED <<sess, page, me, loading, fetching, reads>>

SessionRunsOut ==
  /\ sess' = "none" /\ sess # "none"
  /\ UNCHANGED <<staff, page, me, loading, fetching, reads>>

\* /auth/me comes to nothing: no connection, 429, 500.
MeFails ==
  /\ \/ fetching = "load" /\ fetching' = "load-failed"
     \/ fetching = "dashboard" /\ fetching' = "form-failed"
  /\ UNCHANGED <<staff, sess, page, me, loading, reads>>

TypeAddress ==
  /\ \E p \in Pages : Load(p)
  /\ UNCHANGED <<staff, sess>>

Meddle ==
  /\ meddled < MaxMeddling /\ meddled' = meddled + 1
  /\ StaffChanges \/ SessionRunsOut \/ MeFails \/ TypeAddress

AccessNext ==
  \/ SignIn \/ VerifyMfa \/ ReceiveMe \/ Logout \/ ChangePassword
  \/ \E p \in StaffPages : FollowLink(p)
  \/ \E r \in reads : AnswerRead(r) \/ ReceiveRefusal(r)
  \/ Meddle

\* The API and the browser answer; the user signs in, changes an expired
\* password and keeps following links.
AccessFairness ==
  /\ WF_accessVars(SignIn) /\ WF_accessVars(VerifyMfa)
  /\ WF_accessVars(ReceiveMe) /\ WF_accessVars(ChangePassword)
  /\ WF_accessVars(\E p \in StaffPages : FollowLink(p))
  /\ WF_accessVars(\E r \in reads : AnswerRead(r))
  /\ WF_accessVars(\E r \in reads : ReceiveRefusal(r))

AccessSpec == AccessInit /\ [][AccessNext]_accessVars /\ AccessFairness

-----------------------------------------------------------------------------
\* A page the navigation offers a role never asks for what the API refuses
\* that role; of the pages typed by hand only billing and the order screen do.
LinkedIsServed ==
  \A r \in reads :
    \/ r.as \in r.route \/ r.route = AnySession
    \/ r.on \in {"billing", "new-order"} /\ r.on \notin Linked(r.as)

\* The values the client and the session can have, and where the requests
\* under way come from: with these LinkedIsServed and ThrownOutRightly follow
\* (AccountsProofs).
Fetches == {"no", "load", "dashboard", "load-failed", "form-failed"}
AccessTypeOK ==
  /\ staff \in [role : Roles, active : BOOLEAN, mfa : BOOLEAN, aged : BOOLEAN]
  /\ sess \in {"none", "half", "full"}
  /\ page \in Pages
  /\ me \in [role : Roles, aged : BOOLEAN] \cup {Nobody}
  /\ loading \in BOOLEAN
  /\ fetching \in Fetches
  /\ meddled \in Nat

ReadsAreOfPages ==
  \A r \in reads :
    /\ r = [on |-> r.on, as |-> r.as, route |-> r.route, ans |-> r.ans]
    /\ r.on \in StaffPages /\ r.as \in Roles /\ r.route \in PageReads(r.on, r.as)

AccessInv == AccessTypeOK /\ ReadsAreOfPages

\* Somebody whose session is whole is not thrown out: a page of theirs gives
\* way to the login only after a logout or an address typed by hand, by a refusal
\* that was on its way since before they signed in again, or when a page loads
\* and the question who is signed in comes to nothing.
ThrownOutRightly ==
  [][page' = "login" /\ page \in StaffPages /\ meddled' = meddled
      => sess # "full" \/ fetching = "load-failed" \/ \E r \in reads : r.ans = "401"]_accessVars

\* Working: on a page, known to it, with a session the guards let through.
AtWork ==
  page \in StaffPages /\ me # Nobody /\ sess = "full" /\ ~ staff.aged

\* At the page that asks for a code, with a session and no code to give: only an
\* address typed by hand leads there, and only another one leads away.
AskedForNoCode == page = "mfa-verify" /\ sess # "none" /\ ~ staff.mfa

\* Whatever has ended the session, aged the password, asked for a code, failed or
\* moved the browser, an active user gets back to work, again and again, unless
\* they went to the page for a code they have not got.
GetsToWork == <>[](staff.active) => []<>(AtWork \/ AskedForNoCode)
=============================================================================
