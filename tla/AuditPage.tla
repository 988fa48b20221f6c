------------------------------ MODULE AuditPage ------------------------------
(***************************************************************************)
(* The audit log page and the listing behind it.  Filter and page number   *)
(* are sent with every change of either; answers come in any order, and    *)
(* the last to come is shown.  The log only grows, so a listing may be     *)
(* older than its answer and never newer.                                  *)
(***************************************************************************)
EXTENDS Naturals, Sequences

CONSTANTS
  Filters,       \* an action and two dates
  MaxPages,      \* bound: pages the log may fill under one filter
  MaxLoads,      \* bound: listings asked for and not yet answered
  NoLogs         \* null

VARIABLES
  pagesOf,       \* the pages the log fills under each filter, now
  view,          \* filter and page in the state of the page
  logs,          \* filter and page of the rows shown
  totalPages,    \* as the last answer had it
  loads,         \* loadLogs in flight, in the order they were asked for
  loadError,     \* an error is shown
  hasty,         \* history: Next was pressed by the page count of another filter
  outrun        \* history: the rows shown came after those of a later request

auditPageVars == <<pagesOf, view, logs, totalPages, loads, loadError, hasty, outrun>>

AtLeastOne(n) == IF n = 0 THEN 1 ELSE n

Asking(v) == [view |-> v, pages |-> pagesOf[v.filter], overtaken |-> FALSE]

\* The effect that depends on filter and page.
LoadLogs(v) ==
  /\ Len(loads) < MaxLoads
  /\ view' = v
  /\ loads' = Append(loads, Asking(v))
  /\ loadError' = FALSE

AuditPageInit ==
  /\ pagesOf = [f \in Filters |-> 0]
  /\ view \in [filter : Filters, page : {1}]
  /\ loads = <<Asking(view)>>
  /\ logs = NoLogs /\ totalPages = 1
  /\ loadError = FALSE /\ hasty = FALSE /\ outrun = FALSE

\* AuditLogService.write, of any service.
WriteLog(f) ==
  /\ pagesOf[f] < MaxPages
  /\ pagesOf' = [pagesOf EXCEPT ![f] = @ + 1]
  /\ UNCHANGED <<view, logs, totalPages, loads, loadError, hasty, outrun>>

\* Mutant: the filter changes and the page number stays.
ChangeFilterOnly(f) ==
  /\ f # view.filter
  /\ LoadLogs([filter |-> f, page |-> view.page])
  /\ UNCHANGED <<pagesOf, logs, totalPages, hasty, outrun>>

ChangeFilter(f) ==
  /\ f # view.filter
  /\ LoadLogs([filter |-> f, page |-> 1])
  /\ hasty' = FALSE
  /\ UNCHANGED <<pagesOf, logs, totalPages, outrun>>

\* The buttons come with the first rows; Next goes by the pages last heard of.
NextPage ==
  /\ logs # NoLogs /\ view.page < totalPages
  /\ LoadLogs([view EXCEPT !.page = @ + 1])
  /\ hasty' = (hasty \/ logs.filter # view.filter)
  /\ UNCHANGED <<pagesOf, logs, totalPages, outrun>>

PreviousPage ==
  /\ logs # NoLogs /\ view.page > 1
  /\ LoadLogs([view EXCEPT !.page = @ - 1])
  /\ hasty' = (hasty /\ view.page > 2)
  /\ UNCHANGED <<pagesOf, logs, totalPages, outrun>>

\* The requests asked for before the answered one are overtaken.
Without(i) ==
  [k \in 1 .. Len(loads) - 1 |->
     IF k < i THEN [loads[k] EXCEPT !.overtaken = TRUE] ELSE loads[k + 1]]

\* findLogs answers with the rows of the view and the number of pages there
\* were at some time since.
ShowLogs(i) ==
  /\ logs' = loads[i].view
  /\ totalPages' \in loads[i].pages .. pagesOf[loads[i].view.filter]
  /\ outrun' = loads[i].overtaken
  /\ loads' = Without(i)
  /\ UNCHANGED <<pagesOf, view, loadError, hasty>>

LoadFails(i) ==
  /\ loadError' = TRUE
  /\ loads' = SubSeq(loads, 1, i - 1) \o SubSeq(loads, i + 1, Len(loads))
  /\ UNCHANGED <<pagesOf, view, logs, totalPages, hasty, outrun>>

AuditPageNext ==
  \/ \E f \in Filters : WriteLog(f) \/ ChangeFilter(f)
  \/ NextPage \/ PreviousPage
  \/ \E i \in 1 .. Len(loads) : ShowLogs(i) \/ LoadFails(i)

AuditPageSpec == AuditPageInit /\ [][AuditPageNext]_auditPageVars

-----------------------------------------------------------------------------
\* Once all is answered, and unless an error says otherwise, the rows are those
\* of the filter and page the controls show, and there is such a page; except
\* that the answer shown may have crossed a later one, and that Next pressed
\* by the page count of the filter before may have gone too far.
ListIsCurrent ==
  loads = <<>> /\ ~ loadError /\ ~ outrun =>
    /\ logs = view
    /\ view.page <= AtLeastOne(totalPages) \/ hasty

\* The variables hold views, requests in order and page counts.
Views == [filter : Filters, page : Nat \ {0}]
Requests == [view : Views, pages : Nat, overtaken : BOOLEAN]
AuditPageTypeOK ==
  /\ pagesOf \in [Filters -> Nat]
  /\ view \in Views /\ logs \in Views \cup {NoLogs}
  /\ totalPages \in Nat /\ loads \in Seq(Requests)
  /\ loadError \in BOOLEAN /\ hasty \in BOOLEAN /\ outrun \in BOOLEAN

\* What ListIsCurrent needs to survive a step.  The view is a page there is, or
\* was reached in haste; and unless there is an error, either the last request
\* is the one for the view, or that was answered and the rest is overtaken.
InRange(pages) == view.page <= AtLeastOne(pages) \/ hasty
Pending ==
  /\ loads # <<>>
  /\ LET last == loads[Len(loads)] IN
       last.view = view /\ ~ last.overtaken /\ InRange(last.pages)
Answered ==
  /\ \A i \in 1 .. Len(loads) : loads[i].overtaken
  /\ outrun \/ (logs = view /\ InRange(totalPages))
ViewIsAskedFor ==
  /\ logs # NoLogs => totalPages <= pagesOf[logs.filter]
  /\ InRange(pagesOf[view.filter])
  /\ loadError \/ Pending \/ Answered
AuditPageInv == AuditPageTypeOK /\ ViewIsAskedFor
=============================================================================
