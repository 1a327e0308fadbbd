---------------------------- MODULE ChildReports ----------------------------
(***************************************************************************)
(* The tools that join a parent to its child tasks: task_report in the     *)
(* child, delegate_task, task_list, task_read and task_control in the      *)
(* parent, and the receipts the parent's Session keeps.  The child is that *)
(* of ChildTasks; a report is one more record of its log, and the cursor   *)
(* of a report is its place in the log.                                    *)
(*                                                                         *)
(* The tools of the parent and the Gateway that carries out what they ask  *)
(* for see files written by others in the meantime.  The byte limit of a   *)
(* page may close it early, but never before its first report.             *)
(***************************************************************************)
EXTENDS ChildTasks, SequencesExt

CONSTANTS
  Keys,         \* child keys the parent delegates with
  MaxPage,      \* MAX_REPORT_PAGE and MAX_TASK_LIST_PAGE
  MaxReceipts,  \* MAX_CHILD_REPORT_RECEIPTS
  MaxIntents,   \* bound: task_control calls
  Controls      \* bound: requests and faults where reports are made

ASSUME ReportsAssumption ==
  /\ MaxPage \in Nat \ {0} /\ MaxReceipts \in Nat /\ MaxIntents \in Nat
  /\ Controls \in 0..MaxEvents

VARIABLES
  scenario,  \* what this behaviour is about: "control", "reports" or "list"
  reports,   \* results of task_report: the attempt each report names, 0 if none
  author,    \* history: the attempt whose Turn made a report, 0 if not known
  parent,    \* the parent's reading of its child
  intent,    \* the task_control result the Gateway has to carry out
  index,     \* thread_index.json: what is known of each Thread
  hash,      \* scoped_child_thread_id: the ids of parents' keys
  listing    \* a walk of the parent through task_list

childVars == vars
reportVars == <<reports, author, parent, intent>>
listVars == <<index, hash, listing>>
allVars == <<vars, scenario, reportVars, listVars>>

Upto(n) == INSTANCE ChildTasks WITH log <- SubSeq(log, 1, n)

-----------------------------------------------------------------------------
(* State *)

NoIntent == [act |-> "none", attempt |-> 0]

Threads == {"mine", "theirs"} \X Keys
Ids == 1..Cardinality(Threads)
Entries == {"absent", "indexed", "task", "foreign"}

\* SHA-256 of parent and key: any order of the ids, never the same one twice.
ScopedChildThreadId == {h \in [Threads -> Ids] : \A s, t \in Threads : h[s] = h[t] => s = t}

\* The parent has read nothing yet, another parent has children in the index, and a
\* scenario says which bounds are used up.
ReportsInit ==
  /\ ChildInit
  /\ scenario \in {"control", "reports", "list"}
  /\ used = [b \in DOMAIN Bounds |-> CASE scenario = "list" -> Bounds[b]
                                       [] scenario = "reports" /\ b = "events" -> MaxEvents - Controls
                                       [] OTHER -> 0]
  /\ reports = [r \in Requests |-> 0] /\ author = [r \in Requests |-> 0]
  /\ parent = [cursor |-> 0, shown |-> <<>>, receipts |-> <<>>, known |-> 0, intents |-> 0]
  /\ intent = NoIntent
  /\ hash \in IF scenario = "list" THEN ScopedChildThreadId
              ELSE {CHOOSE h \in ScopedChildThreadId : TRUE}
  /\ index = [i \in Ids |-> IF \E k \in Keys : hash[<<"theirs", k>>] = i THEN "foreign" ELSE "absent"]
  /\ listing = [pc |-> "none", after |-> 0, due |-> {}, shown |-> <<>>]

-----------------------------------------------------------------------------
(* task_report in the child, and the Gateway that delivers it *)

\* The attempt the Turn that runs now was started for; not known to the log if
\* the Turn belongs to no attempt or its start could not be recorded.
RunningAttempt == IF worker.recorded THEN worker.attempt ELSE 0

\* current_child_attempt
CurrentChildAttempt == Operation.attempt

TaskReport(r) ==
  /\ scenario = "reports"
  /\ worker.pc = "running" /\ execution = FirstCheckpoint
  /\ reports[r] = 0
  /\ reports' = [reports EXCEPT ![r] = CurrentChildAttempt]
  /\ author' = [author EXCEPT ![r] = RunningAttempt]
  /\ UNCHANGED <<childVars, scenario, parent, intent, listVars>>

ReportRecorded(r, attempt) ==
  \E i \in DOMAIN log : log[i].kind = "report" /\ log[i].attempt = attempt /\ log[i].req = r

\* record_child_report.  A report needs neither the steer lock nor an attempt
\* that is still current, and a repeated id of the same attempt changes nothing.
RecordReport(r) ==
  /\ reports[r] # 0 /\ Mutable
  /\ OperationOf(reports[r]) # NoRecord
  /\ ~ReportRecorded(r, reports[r])
  /\ log' = Append(log, [OperationOf(reports[r]) EXCEPT
                           !.kind = "report", !.req = r, !.status = "none", !.act = "none",
                           !.at = Now])
  /\ UNCHANGED <<execution, worker, cancel, queued, steer, nextTurn, submitted, used>>
  /\ UNCHANGED <<scenario, reportVars, listVars>>

-----------------------------------------------------------------------------
(* task_read in the parent *)

\* The cursors of the reports after the one the parent has read.
Unread == {i \in DOMAIN log : log[i].kind = "report" /\ i > parent.cursor}

\* The first n of them.
Page(n) == {i \in Unread : Cardinality({j \in Unread : j <= i}) <= n}

\* read_child_task leaves its loop at the first report a page has no room for,
\* and never sees what follows in the log.
Horizon(n) == IF Page(n) = Unread THEN Len(log) ELSE Min(Unread \ Page(n)) - 1

\* Fault: the cursor moves on to the report that did not fit.
NextCursorPast(n) ==
  IF Page(n) = Unread THEN Max(Page(n) \cup {parent.cursor}) ELSE Min(Unread \ Page(n))

NextCursor(n) == Max(Page(n) \cup {parent.cursor})

AttemptsOf(page) == {log[i].attempt : i \in page}

\* record_child_report_receipt for every attempt of the page: its highest cursor.
RecordReceipts(page) ==
  [a \in DOMAIN parent.receipts \cup AttemptsOf(page) |->
     LET known == IF a \in DOMAIN parent.receipts THEN {parent.receipts[a]} ELSE {}
     IN Max(known \cup {i \in page : log[i].attempt = a})]

HasRoom(a) == a \in DOMAIN parent.receipts \/ Cardinality(DOMAIN parent.receipts) < MaxReceipts

\* The result shows the page and the operation as of the horizon.
TaskRead(n) ==
  /\ scenario = "reports"
  /\ \A a \in AttemptsOf(Page(n)) : HasRoom(a)
  /\ parent' = [parent EXCEPT !.cursor = NextCursor(n),
                              !.shown = @ \o SetToSortSeq(Page(n), <),
                              !.receipts = RecordReceipts(Page(n)),
                              !.known = Upto(Horizon(n))!Operation.attempt]
  /\ UNCHANGED <<childVars, scenario, reports, author, intent, listVars>>

\* The receipt of an attempt cannot be written, or the result is lost in a
\* crash: those of the attempts before it stay recorded, and nothing is shown.
TaskReadFails(n, attempt) ==
  LET noted == {i \in Page(n) : log[i].attempt < attempt}
  IN /\ scenario = "reports" /\ Page(n) # {}
     /\ Spend({"events", "faults"})
     /\ parent' = [parent EXCEPT !.receipts = RecordReceipts(noted)]
     /\ UNCHANGED <<log, execution, worker, cancel, queued, steer, nextTurn, submitted>>
     /\ UNCHANGED <<scenario, reports, author, intent, listVars>>

-----------------------------------------------------------------------------
(* task_control in the parent, and the Gateway that carries it out *)

\* The tool itself changes nothing: its result names the attempt that was read.
TaskControl(action) ==
  /\ scenario = "reports" /\ intent = NoIntent
  /\ parent.known # 0 /\ parent.intents < MaxIntents
  /\ intent' = [act |-> action, attempt |-> parent.known]
  /\ parent' = [parent EXCEPT !.intents = @ + 1]
  /\ UNCHANGED <<childVars, scenario, reports, author, listVars>>

\* validate_child_operation refuses an attempt that is over.
GatewayControls(r) ==
  /\ intent.attempt = Operation.attempt
  /\ \/ intent.act = "pause" /\ Pause(r)
     \/ intent.act = "cancel" /\ (CancelActive(r) \/ CancelQueued(r))
     \/ intent.act = "retry" /\ Retry(r)
     \/ intent.act = "assign" /\ (SteerReserve(r) \/ FollowUp(r, intent.attempt))
  /\ intent' = NoIntent
  /\ UNCHANGED <<scenario, reports, author, parent, listVars>>

GatewayGivesUp ==
  /\ intent # NoIntent
  /\ intent' = NoIntent
  /\ UNCHANGED <<childVars, scenario, reports, author, parent, listVars>>

-----------------------------------------------------------------------------
(* delegate_task and task_list *)

\* The Gateway forks the child: the index names it before the operation is
\* recorded in its Session.
Delegate(k) ==
  LET id == hash[<<"mine", k>>]
  IN /\ scenario = "list" /\ index[id] = "absent"
     /\ index' = [index EXCEPT ![id] = "indexed"]
     /\ UNCHANGED <<childVars, scenario, reportVars, hash, listing>>

RecordDelegated(k) ==
  LET id == hash[<<"mine", k>>]
  IN /\ index[id] = "indexed"
     /\ index' = [index EXCEPT ![id] = "task"]
     /\ UNCHANGED <<childVars, scenario, reportVars, hash, listing>>

Mine == {i \in Ids : index[i] = "task"}

\* A walk starts without a cursor; due are the children it has to show.
BeginWalk ==
  /\ scenario = "list" /\ listing.pc # "walking"
  /\ listing' = [pc |-> "walking", after |-> 0, due |-> Mine, shown |-> <<>>]
  /\ UNCHANGED <<childVars, scenario, reportVars, index, hash>>

\* Entries of another parent and entries without an operation are passed over
\* and take no room.
TaskListPage(limit) ==
  {i \in Mine : i > listing.after /\ Cardinality({j \in Mine : listing.after < j /\ j <= i}) <= limit}

\* next_cursor is the last child shown if there is one more to show.
TaskList(limit) ==
  LET page == TaskListPage(limit)
      more == \E i \in Mine \ page : i > listing.after
  IN /\ listing.pc = "walking"
     /\ listing' = [listing EXCEPT !.pc = IF more THEN "walking" ELSE "done",
                                   !.after = IF more THEN Max(page) ELSE @,
                                   !.shown = @ \o SetToSortSeq(page, <)]
     /\ UNCHANGED <<childVars, scenario, reportVars, index, hash>>

-----------------------------------------------------------------------------
\* Where reports are made, every control request is one of the parent's.
Child ==
  /\ \/ scenario = "control" /\ ControlRequest
     \/ TurnRequest \/ SteerHandler \/ Turn \/ Settlement \/ Crash \/ Restart
  /\ UNCHANGED <<scenario, reportVars, listVars>>

Tools ==
  \/ \E r \in Requests : TaskReport(r) \/ RecordReport(r) \/ GatewayControls(r)
  \/ \E n \in 1..MaxPage : TaskRead(n) \/ TaskList(n)
  \/ \E n \in 1..MaxPage, attempt \in Attempts \cup {nextTurn + 1} : TaskReadFails(n, attempt)
  \/ \E action \in {"pause", "cancel", "retry", "assign"} : TaskControl(action)
  \/ \E k \in Keys : Delegate(k) \/ RecordDelegated(k)
  \/ GatewayGivesUp \/ BeginWalk

ReportsSpec == ReportsInit /\ [][Child \/ Tools]_allVars

-----------------------------------------------------------------------------
(* Properties *)

ReportsUpTo(n) == {i \in DOMAIN log : log[i].kind = "report" /\ i <= n}

\* A parent that follows next_cursor is shown every report once and in order,
\* however the child's records, other requests and failed reads come between
\* its pages.  What it was shown is marked as received, no receipt names what
\* is no report of its attempt, and a report is recorded once, under the
\* attempt whose Turn made it.
ReportsFaithful ==
  /\ parent.shown = SetToSortSeq(ReportsUpTo(parent.cursor), <)
  /\ \A i \in ToSet(parent.shown) : parent.receipts[log[i].attempt] >= i
  /\ \A a \in DOMAIN parent.receipts :
       LET i == parent.receipts[a]
       IN i \in DOMAIN log /\ log[i].kind = "report" /\ log[i].attempt = a
  /\ \A i \in ReportsUpTo(Len(log)) :
       /\ author[log[i].req] \in {0, log[i].attempt}
       /\ \A j \in ReportsUpTo(i - 1) : log[j].req # log[i].req

\* A walk through task_list shows each child the parent had when it began once,
\* and no Thread of another parent, while children are delegated meanwhile.
ListComplete ==
  listing.pc = "done" =>
    /\ listing.due \subseteq ToSet(listing.shown)
    /\ ToSet(listing.shown) \subseteq Mine
    /\ Len(listing.shown) = Cardinality(ToSet(listing.shown))

\* What task_read and task_list let a parent see page by page is complete, in
\* order and its own, while children report and are delegated meanwhile.
ParentSeesAll == ReportsFaithful /\ ListComplete
=============================================================================
