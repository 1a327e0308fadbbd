----------------------------- MODULE ChildTasks -----------------------------
(***************************************************************************)
(* A delegated child task: the operation records that its Session log      *)
(* keeps, the control requests a Gateway sends (follow-up, pause, cancel,  *)
(* resume, retry, steer), the worker that runs the attempts as Turns, and  *)
(* the projection task_read computes from the log.                         *)
(*                                                                         *)
(* The log holds every record; each decision of the code is a search of    *)
(* it from the end.  A prompt is the id of the request that carried it.    *)
(* A timestamp is the length of the log when the clock was read.           *)
(***************************************************************************)
EXTENDS Naturals, Sequences, FiniteSetsExt

CONSTANTS
  Requests,       \* request ids of the clients
  Initial,        \* the prompt the child task was delegated with
  StaleAttempts,  \* a follow-up may name an attempt that is over
  MaxEvents,      \* bound: requests that change the log, and faults
  MaxTurns,       \* bound: Turns started or resumed
  MaxFaults       \* bound: crashes, failed writes and refused queue entries

ASSUME ConstantsAssumption ==
  /\ Initial \notin Requests
  /\ StaleAttempts \in BOOLEAN
  /\ MaxEvents \in Nat /\ MaxTurns \in Nat /\ MaxFaults \in Nat

VARIABLES
  log,        \* operation, request and Turn records of the child Session
  execution,  \* the execution journal: status, Turn and input
  worker,     \* the Turn the worker runs and how far its end has got
  cancel,     \* RunControl.cancel_requested
  queued,     \* steers in RunControl's queue
  steer,      \* the turn/steer handler that holds lock_child_steer_request
  nextTurn,   \* Thread.next_turn_number
  submitted,  \* history: how often a steer was put in a Turn's queue
  used        \* how much of each bound is used up

vars == <<log, execution, worker, cancel, queued, steer, nextTurn, submitted, used>>

Bounds == [events |-> MaxEvents, turns |-> MaxTurns, faults |-> MaxFaults]

Spend(bounds) ==
  /\ \A b \in bounds : used[b] < Bounds[b]
  /\ used' = [b \in DOMAIN used |-> IF b \in bounds THEN used[b] + 1 ELSE used[b]]

\* A write that may fail: Good holds if it succeeds, Bad if it does not.
Write(Good, Bad) == \/ Good /\ UNCHANGED used
                    \/ Bad /\ Spend({"events", "faults"})

-----------------------------------------------------------------------------
(* Records *)

Prompts == Requests \cup {Initial}

NoRecord == [kind |-> "none", status |-> "none", turn |-> 0, attempt |-> 0,
             akind |-> "none", req |-> Initial, act |-> "none",
             prompt |-> Initial, at |-> 0]

OperationStatuses == {"queued", "running", "pausing", "paused", "cancelling",
                      "completed", "failed", "cancelled"}
RequestStatuses == {"pending", "accepted", "not_accepted", "started", "blocked", "cancelled"}
Outcomes == {"completed", "cancelled", "failed"}

Records ==
  [kind: {"none", "operation", "request", "turn", "report"},
   status: {"none"} \cup OperationStatuses \cup RequestStatuses,
   turn: Nat, attempt: Nat, akind: {"none", "initial", "retry", "follow_up"},
   req: Prompts,
   act: {"none", "queue_follow_up", "pause", "cancel_active", "resume", "retry",
         "start_failure", "update_queued", "cancel_queued", "steer"},
   prompt: Prompts, at: Nat]

Now == Len(log) + 1

\* The record the code's reverse searches of the Session log return.
LastWhere(Test(_)) ==
  LET hits == {i \in DOMAIN log : Test(log[i])}
  IN IF hits = {} THEN NoRecord ELSE log[Max(hits)]

Operation == LastWhere(LAMBDA e : e.kind = "operation")
OperationOf(attempt) == LastWhere(LAMBDA e : e.kind = "operation" /\ e.attempt = attempt)
OperationForTurn(turn) == LastWhere(LAMBDA e : e.kind = "operation" /\ e.turn = turn)

FollowUpRequest(r) ==
  LastWhere(LAMBDA e : e.kind = "request" /\ e.act = "queue_follow_up" /\ e.req = r)

\* latest_pending_follow_up; NoRecord if the latest follow-up is not pending.
PendingFollowUp ==
  LET last == LastWhere(LAMBDA e : e.kind = "request" /\ e.act = "queue_follow_up")
  IN IF last.status \in {"accepted", "blocked"} THEN last ELSE NoRecord

\* child_control_replay finds the operation record the request has left.
Replayed(r, action) ==
  \E i \in DOMAIN log : log[i].kind = "operation" /\ log[i].req = r /\ log[i].act = action

\* Fault: an id that is only reserved may be sent again.
SteerRequestSettled(r) ==
  LET last == LastWhere(LAMBDA e : e.kind = "request" /\ e.act = "steer" /\ e.req = r)
  IN IF last.status = "accepted" THEN last ELSE NoRecord

\* child_steer_request: what a repeated steer id would be answered with.
SteerRequest(r) ==
  LET last == LastWhere(LAMBDA e :
                \/ e.kind = "request" /\ e.act = "steer" /\ e.req = r
                \/ e.kind = "operation" /\ e.act = "queue_follow_up" /\ e.req = r)
  IN IF last.status = "not_accepted" THEN NoRecord ELSE last

Transition(request, status) == [request EXCEPT !.status = status, !.at = Now]

FollowUpAttempt(operation, request) ==
  [operation EXCEPT !.attempt = @ + 1, !.status = "queued", !.turn = 0,
                    !.prompt = request.prompt, !.akind = "follow_up",
                    !.req = request.req, !.act = "queue_follow_up", !.at = Now]

\* The operation record record_operation appends for a worker's status.
Recorded(status, w) ==
  LET previous == Operation
      paused == /\ status = "cancelled" /\ previous.status = "pausing"
                /\ previous.attempt = w.attempt /\ previous.turn = w.turn
  IN [previous EXCEPT !.kind = "operation",
                      !.status = IF paused THEN "paused" ELSE status,
                      !.turn = IF paused THEN 0 ELSE w.turn,
                      !.attempt = w.attempt, !.akind = w.akind,
                      !.prompt = w.prompt, !.at = Now]

\* record_operation: the record, and what becomes of a pending follow-up.
RecordOperation(status, w) ==
  LET operation == Recorded(status, w)
      request == PendingFollowUp
      settled == [completed |-> "started", failed |-> "blocked", cancelled |-> "cancelled"]
  IN IF operation.status \notin Outcomes \/ request = NoRecord
     THEN <<operation>>
     ELSE <<operation, Transition(request, settled[operation.status])>>
          \o IF operation.status = "completed"
             THEN <<FollowUpAttempt(operation, request)>> ELSE <<>>

-----------------------------------------------------------------------------
(* What task_read makes of the log: read_child_task *)

SettledTurn == LastWhere(LAMBDA e : e.kind = "turn")

\* Fault: the settled Turn is shown as it is.
ProjectedStatusRaw ==
  IF SettledTurn # NoRecord /\ Operation.turn = SettledTurn.turn
  THEN SettledTurn.status ELSE Operation.status

\* reconcile_with_settled_turn: the status a reader is shown.
ProjectedStatus ==
  LET operation == Operation
      turn == SettledTurn
      sameTurn == turn.turn # 0 /\ operation.turn = turn.turn
      queuedTurn == /\ operation.status = "queued" /\ operation.turn = 0
                    /\ turn # NoRecord /\ operation.prompt = turn.prompt
                    /\ operation.at <= turn.at
  IN IF \/ operation.status \notin {"queued", "running", "pausing", "cancelling"}
        \/ ~sameTurn /\ ~queuedTurn
     THEN operation.status
     ELSE IF turn.status = "cancelled" /\ operation.status = "pausing"
          THEN "paused" ELSE turn.status

-----------------------------------------------------------------------------
(* State *)

Idle == [pc |-> "idle", turn |-> 0, owned |-> FALSE, attempt |-> 0,
         akind |-> "none", prompt |-> Initial, resumed |-> FALSE,
         recorded |-> FALSE, stopping |-> FALSE, saved |-> FALSE,
         outcome |-> "none", at |-> 0]

Workers == [pc: {"down", "idle", "running", "persist", "settle", "record", "next"},
            turn: Nat, owned: BOOLEAN, attempt: Nat,
            akind: {"none", "initial", "retry", "follow_up"}, prompt: Prompts,
            resumed: BOOLEAN, recorded: BOOLEAN, stopping: BOOLEAN,
            saved: BOOLEAN, outcome: {"none"} \cup Outcomes, at: Nat]

NoSteer == [pc |-> "none", req |-> Initial, turn |-> 0]
Steers == [pc: {"none", "reserved", "accepted", "refused"}, req: Prompts, turn: Nat]

\* The Session is forked with the operation queued for its first attempt.
ChildInit ==
  /\ log = <<[NoRecord EXCEPT !.kind = "operation", !.status = "queued",
                              !.attempt = 1, !.akind = "initial", !.at = 1]>>
  /\ execution = [status |-> "settled", turn |-> 0, prompt |-> Initial]
  /\ worker = Idle /\ cancel = FALSE /\ queued = <<>> /\ steer = NoSteer /\ nextTurn = 1
  /\ submitted = [r \in Requests |-> 0]

Init == ChildInit /\ used = [b \in DOMAIN Bounds |-> 0]

-----------------------------------------------------------------------------
(* child/task requests *)

\* The worker takes the command between Turns or while one runs, and a Turn
\* that is stopping turns mutations away.
Mutable == worker.pc = "idle" \/ (worker.pc = "running" /\ ~worker.stopping)

\* handle_child_task holds the lock for the whole request, like turn/steer.
Admitted == steer.pc = "none" /\ Mutable

Control(records) ==
  /\ log' = log \o records
  /\ Spend({"events"})
  /\ UNCHANGED <<execution, worker, cancel, queued, steer, nextTurn, submitted>>

FollowUp(r, attempt) ==
  LET operation == OperationOf(attempt)
      active == operation.status \in {"running", "paused"}
      request == [operation EXCEPT
                    !.kind = "request", !.act = "queue_follow_up", !.req = r,
                    !.prompt = r, !.turn = 0, !.at = Now,
                    !.status = IF active THEN "accepted"
                               ELSE IF operation.status = "failed" THEN "blocked"
                               ELSE "started"]
  IN /\ Admitted
     /\ attempt = Operation.attempt \/ StaleAttempts
     /\ FollowUpRequest(r) = NoRecord
     /\ PendingFollowUp = NoRecord
     /\ operation.status \in {"running", "paused", "completed", "failed"}
     /\ Control(<<request>> \o IF operation.status = "completed"
                               THEN <<FollowUpAttempt(operation, request)>> ELSE <<>>)

\* An operation record written for request r.
ByRequest(operation, r, action, status) ==
  [operation EXCEPT !.req = r, !.act = action, !.status = status, !.at = Now]

\* Fault: a cancelled operation keeps its follow-up.
CancelFollowUpNever == <<>>

CancelFollowUp ==
  IF PendingFollowUp = NoRecord THEN <<>> ELSE <<Transition(PendingFollowUp, "cancelled")>>

Pause(r) ==
  /\ Admitted /\ ~Replayed(r, "pause")
  /\ Operation.status \in {"running", "pausing"} /\ Operation.turn # 0
  /\ Control(<<ByRequest(Operation, r, "pause", "pausing")>>)

CancelActive(r) ==
  /\ Admitted /\ ~Replayed(r, "cancel_active")
  /\ Operation.status \in {"running", "pausing"} /\ Operation.turn # 0
  /\ Control(<<ByRequest(Operation, r, "cancel_active", "cancelling")>> \o CancelFollowUp)

ResumeQueued(r) ==
  /\ Admitted /\ ~Replayed(r, "resume")
  /\ Operation.status = "paused"
  /\ Control(<<[ByRequest(Operation, r, "resume", "queued") EXCEPT !.turn = 0]>>)

ResumeExecution(r) ==
  /\ Admitted /\ ~Replayed(r, "resume")
  /\ execution.status = "waiting"
  /\ Operation.status \in {"paused", "queued", "running", "failed"}
  /\ Operation.turn \in {0, execution.turn}
  /\ Control(<<[ByRequest(Operation, r, "resume", "running") EXCEPT !.turn = execution.turn]>>)

Retry(r) ==
  /\ Admitted /\ ~Replayed(r, "retry")
  /\ Operation.status \in {"failed", "cancelled"}
  /\ Control(<<[ByRequest(Operation, r, "retry", "queued") EXCEPT
                  !.attempt = @ + 1, !.turn = 0, !.akind = "retry"]>>)

StartFailure(r) ==
  /\ Admitted /\ ~Replayed(r, "start_failure")
  /\ Operation.status = "queued"
  /\ Control(<<ByRequest(Operation, r, "start_failure", "queued")>>)

UpdateQueued(r) ==
  /\ Admitted /\ ~Replayed(r, "update_queued")
  /\ Operation.status = "queued"
  /\ Control(<<[ByRequest(Operation, r, "update_queued", "queued") EXCEPT !.prompt = r]>>)

CancelQueued(r) ==
  /\ Admitted /\ ~Replayed(r, "cancel_queued")
  /\ Operation.status \in {"queued", "paused"}
  /\ Control(CancelFollowUp \o <<ByRequest(Operation, r, "cancel_queued", "cancelled")>>)

-----------------------------------------------------------------------------
(* turn/steer: reserve, submit, record the outcome *)

SteerRecord(r, turn, status) ==
  [Operation EXCEPT !.kind = "request", !.act = "steer", !.req = r, !.prompt = r,
                    !.turn = turn, !.status = status, !.at = Now]

SteerReserve(r) ==
  /\ Admitted
  /\ SteerRequest(r) = NoRecord
  /\ Operation.status = "running" /\ Operation.turn # 0
  /\ log' = Append(log, SteerRecord(r, Operation.turn, "pending"))
  /\ steer' = [pc |-> "reserved", req |-> r, turn |-> Operation.turn]
  /\ Spend({"events"})
  /\ UNCHANGED <<execution, worker, cancel, queued, nextTurn, submitted>>

\* The worker's answer to a Start of mode Steer for an expected Turn.
SteerAccept ==
  /\ steer.pc = "reserved"
  /\ worker.pc = "running" /\ worker.turn = steer.turn /\ ~worker.stopping
  /\ Write(/\ queued' = Append(queued, steer.req)
           /\ submitted' = [submitted EXCEPT ![steer.req] = @ + 1]
           /\ steer' = [steer EXCEPT !.pc = "accepted"],
           steer' = NoSteer /\ UNCHANGED <<queued, submitted>>)
  /\ UNCHANGED <<log, execution, worker, cancel, nextTurn>>

\* A waiting execution and a stopping Turn refuse; a Turn that is gone is an
\* error, which leaves the reservation pending.
SteerReject ==
  /\ steer.pc = "reserved"
  /\ \/ /\ \/ worker.pc = "idle" /\ execution.status # "settled"
           \/ worker.pc = "running" /\ worker.turn = steer.turn /\ worker.stopping
        /\ steer' = [steer EXCEPT !.pc = "refused"]
     \/ /\ \/ worker.pc = "idle" /\ execution.status = "settled"
           \/ worker.pc = "running" /\ worker.turn # steer.turn
        /\ steer' = NoSteer
  /\ UNCHANGED <<log, execution, worker, cancel, queued, nextTurn, submitted, used>>

\* The record of the outcome is lost while the Turn is stopping.
SteerOutcome ==
  /\ steer.pc \in {"accepted", "refused"}
  /\ worker.pc \in {"idle", "running"}
  /\ steer' = NoSteer
  /\ LET status == IF steer.pc = "accepted" THEN "accepted" ELSE "not_accepted"
     IN \/ ~Mutable /\ UNCHANGED <<log, used>>
        \/ Mutable /\ Write(log' = Append(log, SteerRecord(steer.req, steer.turn, status)),
                            UNCHANGED log)
  /\ UNCHANGED <<execution, worker, cancel, queued, nextTurn, submitted>>

-----------------------------------------------------------------------------
(* The worker *)

\* The start of a Turn; its running record is only warned about if lost.
Begin(w) ==
  \/ /\ Spend({"turns"})
     /\ log' = IF w.owned THEN log \o RecordOperation("running", w) ELSE log
     /\ worker' = [w EXCEPT !.recorded = w.owned]
  \/ /\ w.owned /\ Spend({"turns", "events", "faults"})
     /\ worker' = w /\ UNCHANGED log

Running(turn, prompt) ==
  [Idle EXCEPT !.pc = "running", !.turn = turn, !.prompt = prompt, !.at = Len(log)]

Attempt(w, attempt, akind) ==
  [w EXCEPT !.owned = TRUE, !.attempt = attempt, !.akind = akind]

StartQueued ==
  /\ worker.pc = "idle" /\ execution.status = "settled"
  /\ Operation.status = "queued" /\ Operation.turn = 0
  /\ Begin(Attempt(Running(nextTurn, Operation.prompt), Operation.attempt, Operation.akind))
  /\ nextTurn' = nextTurn + 1
  /\ UNCHANGED <<execution, cancel, queued, steer, submitted>>

StartRetry ==
  /\ worker.pc = "idle" /\ execution.status = "settled"
  /\ Operation.status \in {"failed", "cancelled"}
  /\ Begin(Attempt(Running(nextTurn, Operation.prompt), Operation.attempt + 1, "retry"))
  /\ nextTurn' = nextTurn + 1
  /\ UNCHANGED <<execution, cancel, queued, steer, submitted>>

\* turn/resume binds the checkpoint's Turn to the operation that recorded it.
TurnResume ==
  LET operation == OperationForTurn(execution.turn)
      w == [Running(execution.turn, execution.prompt) EXCEPT !.resumed = TRUE]
  IN /\ worker.pc = "idle" /\ execution.status = "waiting"
     /\ execution' = [execution EXCEPT !.status = "running"]
     /\ Begin(IF operation = NoRecord THEN w ELSE Attempt(w, operation.attempt, operation.akind))
     /\ UNCHANGED <<cancel, queued, steer, nextTurn, submitted>>

Interrupt ==
  /\ worker.pc = "running" /\ ~worker.stopping
  /\ worker' = [worker EXCEPT !.stopping = TRUE]
  /\ cancel' = TRUE /\ queued' = <<>>
  /\ UNCHANGED <<log, execution, steer, nextTurn, submitted, used>>

\* What the execution journal holds once the Turn has begun, also when the
\* number of a Turn that a crash took from the log is given out again.
FirstCheckpoint == [status |-> "running", turn |-> worker.turn, prompt |-> worker.prompt]

Checkpoint ==
  /\ worker.pc = "running" /\ execution # FirstCheckpoint
  /\ execution' = FirstCheckpoint
  /\ UNCHANGED <<log, worker, cancel, queued, steer, nextTurn, submitted, used>>

\* A Turn of a child task takes a steer at a boundary and goes on.
ApplySteer ==
  /\ worker.pc = "running" /\ worker.owned /\ ~cancel /\ queued # <<>>
  /\ queued' = Tail(queued)
  /\ UNCHANGED <<log, execution, worker, cancel, steer, nextTurn, submitted, used>>

\* "failed" stands for every outcome that is neither of the other two.  It may
\* come before the first checkpoint, and does not take a cancel request.
EndTurn(outcome) ==
  /\ worker.pc = "running"
  /\ outcome # "failed" => execution = FirstCheckpoint
  /\ outcome = "completed" => ~cancel /\ queued = <<>>
  /\ outcome = "cancelled" => cancel
  /\ cancel' = (cancel /\ outcome # "cancelled")
  /\ worker' = [worker EXCEPT !.pc = "persist", !.outcome = outcome]
  /\ UNCHANGED <<log, execution, queued, steer, nextTurn, submitted, used>>

PersistTurn ==
  /\ worker.pc = "persist"
  /\ Write(/\ log' = Append(log, [NoRecord EXCEPT
                               !.kind = "turn", !.status = worker.outcome, !.turn = worker.turn,
                               !.prompt = worker.prompt, !.at = worker.at,
                               !.act = IF worker.resumed THEN "resume" ELSE "none"])
           /\ worker' = [worker EXCEPT !.pc = "settle", !.saved = TRUE],
           UNCHANGED log /\ worker' = [worker EXCEPT !.pc = "settle"])
  /\ UNCHANGED <<execution, cancel, queued, steer, nextTurn, submitted>>

RequiresResume == worker.owned /\ OperationForTurn(worker.turn).act = "pause"

SettleExecution ==
  /\ worker.pc = "settle"
  /\ worker' = [worker EXCEPT !.pc = "record"]
  /\ IF execution.turn # worker.turn
     THEN UNCHANGED <<execution, used>>
     ELSE LET done == /\ worker.saved
                      /\ \/ worker.outcome = "completed"
                         \/ worker.outcome = "cancelled" /\ ~RequiresResume
          IN Write(execution' = [execution EXCEPT !.status = IF done THEN "settled" ELSE "waiting"],
                   UNCHANGED execution)
  /\ UNCHANGED <<log, cancel, queued, steer, nextTurn, submitted>>

OutcomeStatus == IF worker.saved THEN worker.outcome ELSE "failed"

RecordOutcome ==
  /\ worker.pc = "record"
  /\ worker' = [worker EXCEPT !.pc = "next"]
  /\ IF worker.owned
     THEN Write(log' = log \o RecordOperation(OutcomeStatus, worker), UNCHANGED log)
     ELSE UNCHANGED <<log, used>>
  /\ UNCHANGED <<execution, cancel, queued, steer, nextTurn, submitted>>

WasCancelled == worker.stopping \/ worker.outcome = "cancelled"

GoIdle ==
  /\ worker.pc = "next" /\ (WasCancelled \/ queued = <<>>)
  /\ worker' = Idle /\ queued' = <<>>
  /\ UNCHANGED <<log, execution, cancel, steer, nextTurn, submitted, used>>

\* A steer no boundary took becomes a Turn of its own, outside the operation.
ContinueWithSteer ==
  /\ worker.pc = "next" /\ ~WasCancelled /\ queued # <<>>
  /\ Begin(Running(nextTurn, Head(queued)))
  /\ queued' = Tail(queued) /\ nextTurn' = nextTurn + 1
  /\ UNCHANGED <<execution, cancel, steer, submitted>>

Crash ==
  /\ worker.pc # "down"
  /\ Spend({"events", "faults"})
  /\ worker' = [Idle EXCEPT !.pc = "down"]
  /\ cancel' = FALSE /\ queued' = <<>> /\ steer' = NoSteer
  /\ UNCHANGED <<log, execution, nextTurn, submitted>>

\* Opening the Session turns a running execution into a waiting one, and
\* Turn numbers go on after the Turns the log counts.
Restart ==
  /\ worker.pc = "down"
  /\ worker' = Idle
  /\ execution' = [execution EXCEPT !.status = IF @ = "running" THEN "waiting" ELSE @]
  /\ nextTurn' = 1 + Cardinality({i \in DOMAIN log : log[i].kind = "turn" /\ log[i].act # "resume"})
  /\ UNCHANGED <<log, cancel, queued, steer, submitted, used>>

-----------------------------------------------------------------------------
Attempts == {log[i].attempt : i \in DOMAIN log}

ControlRequest ==
  \/ \E r \in Requests, attempt \in Attempts : FollowUp(r, attempt)
  \/ \E r \in Requests : \/ Pause(r) \/ CancelActive(r) \/ ResumeQueued(r)
                         \/ ResumeExecution(r) \/ Retry(r) \/ StartFailure(r)
                         \/ UpdateQueued(r) \/ CancelQueued(r) \/ SteerReserve(r)

TurnRequest == StartQueued \/ StartRetry \/ TurnResume \/ Interrupt

SteerHandler == SteerAccept \/ SteerReject \/ SteerOutcome

Turn ==
  \/ Checkpoint \/ ApplySteer
  \/ \E outcome \in Outcomes : EndTurn(outcome)

Settlement ==
  PersistTurn \/ SettleExecution \/ RecordOutcome \/ GoIdle \/ ContinueWithSteer

Next == ControlRequest \/ TurnRequest \/ SteerHandler \/ Turn \/ Settlement \/ Crash \/ Restart

Spec == Init /\ [][Next]_vars

-----------------------------------------------------------------------------
(* Properties *)

\* The state has the shape of the records, journal, worker and queue.
TypeOK ==
  /\ log \in Seq(Records)
  /\ execution \in [status: {"settled", "running", "waiting"}, turn: Nat, prompt: Prompts]
  /\ worker \in Workers /\ cancel \in BOOLEAN /\ queued \in Seq(Requests) /\ steer \in Steers
  /\ nextTurn \in Nat /\ submitted \in [Requests -> Nat]
  /\ used \in [DOMAIN Bounds -> Nat]

SteerRecords(r) ==
  {i \in DOMAIN log : log[i].kind = "request" /\ log[i].act = "steer" /\ log[i].req = r}

\* The log does not lie about a steer, whatever crashed, was refused or was
\* replayed in between: no id is submitted twice, an id recorded as accepted
\* was submitted, and an id whose last record is a refusal was not.
SteerLogTruthful ==
  \A r \in Requests :
    /\ submitted[r] <= 1
    /\ (\E i \in SteerRecords(r) : log[i].status = "accepted") => submitted[r] = 1
    /\ submitted[r] = 1 => log[Max(SteerRecords(r))].status \in {"pending", "accepted"}

\* A follow-up is never left behind by record_operation or a control: once the
\* operation is completed or cancelled none is pending, and one that waits for
\* a failed attempt is blocked.
FollowUpNotStranded ==
  PendingFollowUp # NoRecord =>
    /\ Operation.status \notin {"completed", "cancelled"}
    /\ Operation.status = "failed" => PendingFollowUp.status = "blocked"

\* Between the write of a Turn and the write of its operation, where a crash
\* would leave the log, task_read already shows the status that
\* record_operation is about to write, also for an attempt that still looks
\* queued because the write of its start failed.
ReadersAgree ==
  /\ worker.pc \in {"settle", "record"} /\ worker.owned /\ worker.saved
  /\ \/ worker.recorded
     \/ ~worker.resumed /\ Operation.status = "queued" /\ Operation.at <= worker.at
  => ProjectedStatus = Recorded(OutcomeStatus, worker).status

\* The slot of an operation is held as long as its Turn runs: no request makes
\* readers see it as settled, queued or paused.  (A resumed Turn, and one whose
\* number was given out before a crash, can have a settled record already.)
SlotHeld ==
  /\ worker.pc \in {"running", "persist"} /\ worker.recorded
  /\ SettledTurn.turn # worker.turn
  => ProjectedStatus \in {"running", "pausing", "cancelling"}

\* What is paused can be resumed: the two decisions at the end of a Turn look
\* at different records, but record_operation calls an attempt paused only if
\* settle_execution_checkpoint has kept the Turn's checkpoint.
PausedResumable ==
  /\ worker.pc = "record" /\ worker.owned /\ execution.turn = worker.turn
  /\ Recorded(OutcomeStatus, worker).status = "paused"
  => execution.status # "settled"

\* Readers learn that a Turn is over even if one of the three writes at its
\* end fails, or the one at its start: the operation no longer looks as if its
\* Turn were running.  (used counts failures since the child was made.)
SettlementVisible ==
  /\ worker.pc = "next" /\ worker.owned
  /\ (worker.recorded /\ worker.saved) \/ used.faults <= 1
  => ProjectedStatus \notin {"running", "pausing", "cancelling"}

\* The decisions at the end of a Turn, taken from different records at
\* different times, agree: what readers see, what record_operation writes and
\* what the execution journal keeps.  Readers see the slot of the operation held
\* exactly as long as its Turn runs, whatever the requests write and whichever
\* of the writes at its end fail.
EndOfTurnAgrees == ReadersAgree /\ PausedResumable /\ SlotHeld /\ SettlementVisible

\* The attempts allocated to r as a follow-up.
FollowUpAttempts(r) ==
  {log[i].attempt : i \in {j \in DOMAIN log : log[j].kind = "operation" /\ log[j].req = r
                                              /\ log[j].act = "queue_follow_up"}}

\* A request id becomes an instruction to the child at most once, by whichever
\* route it was sent first.
InjectedOnce ==
  \A r \in Requests : submitted[r] + Cardinality(FollowUpAttempts(r)) <= 1
=============================================================================
