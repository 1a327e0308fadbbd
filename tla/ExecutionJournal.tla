-------------------------- MODULE ExecutionJournal --------------------------
(***************************************************************************)
(* The durable execution journal of one Session and the worker that writes *)
(* it: one logical Turn at a time runs model steps and tool batches, every *)
(* boundary is appended to the Session log, and after a crash the log is   *)
(* replayed and an operator reconciles and resumes the Turn.               *)
(*                                                                         *)
(* The log itself is represented by what loading it yields.  load_records  *)
(* is a left fold over an append-only file whose torn tail is discarded,   *)
(* so `disk' is the execution state a restart would rebuild from the       *)
(* records written so far, and `mem' is the state the running SessionStore *)
(* holds.  Message contents are the subject of module CheckpointReplay;    *)
(* here a checkpoint is its Turn, its model step and its sequence number.  *)
(***************************************************************************)
EXTENDS Naturals, FiniteSets

CONSTANTS
  Requests,     \* ids clients use for turn/resume and turn/reconcile
  MaxSteps,     \* HarnessConfig.max_steps of one slice (nonzero)
  MaxCalls,     \* HarnessConfig.max_tool_calls_per_step
  MaxTurns,     \* bound: Turns begun
  MaxResumes,   \* bound: accepted turn/resume requests
  MaxCrashes,   \* bound: process crashes
  MaxFaults,    \* bound: failed writes and failed reads
  MaxInputs     \* bound: steers and follow-ups queued during a Turn

ASSUME ConstantsAssumption ==
  /\ MaxSteps \in Nat \ {0}
  /\ MaxCalls \in Nat \ {0}
  /\ MaxTurns \in Nat /\ MaxResumes \in Nat /\ MaxCrashes \in Nat
  /\ MaxFaults \in Nat /\ MaxInputs \in Nat

VARIABLES
  disk,       \* SessionExecutionState that load_records rebuilds
  turnCount,  \* turn_started records on disk that are not resumptions
  lastSeq,    \* number of the latest execution_checkpoint record
  mem,        \* SessionStore.execution_state
  writer,     \* ExecutionJournalWriterState.turn_id, 0 for None
  nextTurn,   \* Thread.next_turn_number
  w,          \* the worker and the harness run it drives
  cancel,     \* RunControl.cancel_requested
  queued,     \* kinds of input waiting in RunControl's queue
  stopping,   \* the worker has read a Cancel command for its Turn
  sent,       \* turn/reconcile requests clients sent; they may arrive again
  executed,   \* history: calls whose tool runtime was invoked
  twice,      \* history: calls that are not replay safe, invoked again
  begun,      \* history: ids of the Turns that wrote a first checkpoint
  used        \* how much of each bound is used up

journal == <<disk, lastSeq, mem, writer>>
control == <<cancel, queued, stopping>>
history == <<executed, twice, begun>>
vars == <<disk, turnCount, lastSeq, mem, writer, nextTurn, w, cancel, queued,
          stopping, sent, executed, twice, begun, used>>

Bounds == [turns |-> MaxTurns, resumes |-> MaxResumes, crashes |-> MaxCrashes,
           faults |-> MaxFaults, inputs |-> MaxInputs]

\* Use up one unit of a bound.
Spend(b) == used[b] < Bounds[b] /\ used' = [used EXCEPT ![b] = @ + 1]

-----------------------------------------------------------------------------
(* State of the journal *)

Statuses == {"Absent", "Running", "WaitingForContinue", "NeedsReconciliation", "Settled"}

\* A tool batch: the checkpoint it answers, its n calls, those whose tool is
\* replay safe, those journaled as started, and those with a durable outcome,
\* split by whether the outcome says that the tool ran.
NoBatch == [id |-> 0, turn |-> 0, step |-> 0, n |-> 0, safe |-> {},
            started |-> {}, ran |-> {}, skipped |-> {}]

Batches == [id: Nat, turn: Nat, step: Nat, n: Nat, safe: SUBSET Nat,
            started: SUBSET Nat, ran: SUBSET Nat, skipped: SUBSET Nat]

Outcomes(b) == b.ran \cup b.skipped

\* Calls that started and have no durable outcome.
Uncertain(b) == b.started \ Outcomes(b)

NoState == [turn |-> 0, step |-> 0, seq |-> 0, status |-> "Absent",
            batch |-> NoBatch, resumes |-> {}, reconciled |-> {}]

Dispositions == {"Completed", "NotExecuted"}

Decisions == [req: Requests, seq: Nat, idx: Nat, disposition: Dispositions]

ExecStates == [turn: Nat, step: Nat, seq: Nat, status: Statuses, batch: Batches,
               resumes: SUBSET (Requests \X Nat), reconciled: SUBSET Decisions]

-----------------------------------------------------------------------------
(* apply_execution_journal_entry: the reducer *)

\* A checkpoint installs a fresh Running state, whatever was there before.
Checkpoint(t, n, q) ==
  [turn |-> t, step |-> n, seq |-> q, status |-> "Running", batch |-> NoBatch,
   resumes |-> {}, reconciled |-> {}]

\* ToolBatchStarted carries no Turn test of its own in the reducer.
BatchStarted(s, b) ==
  IF s.status = "Absent" THEN s ELSE [s EXCEPT !.batch = b]

\* Entries about one call apply to the pending batch of the same Turn and step.
OnBatch(s, t, n) ==
  s.status # "Absent" /\ s.turn = t /\ s.batch.id # 0 /\ s.batch.step = n

CallStarted(s, t, n, i) ==
  IF OnBatch(s, t, n) THEN [s EXCEPT !.batch.started = @ \cup {i}] ELSE s

\* The latest outcome of a call replaces an earlier one.
WithOutcome(b, i, result) ==
  [b EXCEPT !.ran = IF result = "ran" THEN @ \cup {i} ELSE @ \ {i},
            !.skipped = IF result = "ran" THEN @ \ {i} ELSE @ \cup {i}]

CallFinished(s, t, n, i, result) ==
  IF OnBatch(s, t, n) THEN [s EXCEPT !.batch = WithOutcome(s.batch, i, result)] ELSE s

Resumed(s, t, r, q) ==
  IF s.status = "Absent" \/ s.turn # t THEN s
  ELSE [s EXCEPT !.status = "Running", !.resumes = @ \cup {<<r, q>>}]

\* WaitingForContinue and NeedsReconciliation only set the status; Settled also
\* drops the batch.
WithStatus(s, t, status) ==
  IF s.status = "Absent" \/ s.turn # t THEN s
  ELSE [s EXCEPT !.status = status,
                 !.batch = IF status = "Settled" THEN NoBatch ELSE @]

\* apply_execution_reconciliation: one operator decision about one call.
Decided(b, i, disposition) ==
  IF disposition = "Completed" THEN [b EXCEPT !.ran = @ \cup {i}]
  ELSE [b EXCEPT !.started = @ \ {i}, !.ran = @ \ {i}, !.skipped = @ \ {i}]

ReconciledHeld(s, m) ==  \* fault: the last decision does not release the Turn
  [s EXCEPT !.batch = Decided(s.batch, m.idx, m.disposition), !.reconciled = @ \cup {m}]

Reconciled(s, m) ==
  LET b == Decided(s.batch, m.idx, m.disposition)
  IN [s EXCEPT !.batch = b,
               !.reconciled = @ \cup {m},
               !.status = IF Uncertain(b) # {} THEN "NeedsReconciliation"
                          ELSE "WaitingForContinue"]

-----------------------------------------------------------------------------
(* Writing and loading the log *)

\* load_records drops the state it has built when a record other than a
\* checkpoint names another Turn, then applies the record.
LoadBase(t) == IF disk.status # "Absent" /\ disk.turn # t THEN NoState ELSE disk

\* The writer refuses an entry of another Turn unless it is a checkpoint.
WriterAccepts(t) == writer \in {0, t}

WriteCheckpoint(t, n) ==
  /\ lastSeq' = lastSeq + 1
  /\ disk' = Checkpoint(t, n, lastSeq + 1)
  /\ mem' = Checkpoint(t, n, lastSeq + 1)
  /\ writer' = t

WriteBatchStarted(b) ==
  /\ WriterAccepts(b.turn)
  /\ disk' = BatchStarted(LoadBase(b.turn), b)
  /\ mem' = BatchStarted(mem, b)
  /\ UNCHANGED <<lastSeq, writer>>

WriteCallStarted(t, n, i) ==
  /\ WriterAccepts(t)
  /\ disk' = CallStarted(LoadBase(t), t, n, i)
  /\ mem' = CallStarted(mem, t, n, i)
  /\ UNCHANGED <<lastSeq, writer>>

WriteCallFinished(t, n, i, result) ==
  /\ WriterAccepts(t)
  /\ disk' = CallFinished(LoadBase(t), t, n, i, result)
  /\ mem' = CallFinished(mem, t, n, i, result)
  /\ UNCHANGED <<lastSeq, writer>>

WriteStatus(t, status) ==
  /\ WriterAccepts(t)
  /\ disk' = WithStatus(LoadBase(t), t, status)
  /\ mem' = WithStatus(mem, t, status)
  /\ UNCHANGED <<lastSeq, writer>>

\* execution_journal(): a new writer starts from the state in memory.
NewWriter == IF mem.status = "Absent" THEN 0 ELSE mem.turn

-----------------------------------------------------------------------------
(* The worker *)

Pcs == {"down", "idle", "begin", "resume", "boundary", "model", "batch", "call",
        "called", "batchSettled", "persist", "settle", "continue"}

TurnStatuses == {"none", "Completed", "Cancelled", "Steered", "StepLimit", "Failed"}

Workers == [pc: Pcs, turn: Nat, resumed: BOOLEAN, step: Nat, limit: Nat,
            retried: BOOLEAN, run: Batches, idx: Nat, recovering: BOOLEAN,
            replan: BOOLEAN, result: {"ran", "skipped"},
            outcome: TurnStatuses, persisted: BOOLEAN]

Worker(pc) ==
  [pc |-> pc, turn |-> 0, resumed |-> FALSE, step |-> 0, limit |-> MaxSteps,
   retried |-> FALSE, run |-> NoBatch, idx |-> 0, recovering |-> FALSE,
   replan |-> FALSE, result |-> "ran", outcome |-> "none", persisted |-> FALSE]

\* A Turn occupies the worker.
Active == w.pc \notin {"down", "idle"}

Go(pc) == w' = [w EXCEPT !.pc = pc]

\* The harness returns; the worker still has to persist and settle the Turn.
Finish(status) ==
  w' = [Worker("persist") EXCEPT !.turn = w.turn, !.resumed = w.resumed,
                                 !.outcome = status]

\* Thread::begin_turn hands out the next Turn id and the worker opens a writer.
BeginTurn ==
  /\ Spend("turns")
  /\ w' = [Worker("begin") EXCEPT !.turn = nextTurn]
  /\ nextTurn' = nextTurn + 1
  /\ writer' = NewWriter
  /\ UNCHANGED <<disk, turnCount, lastSeq, mem, sent, history>>

\* Command::Start on an idle worker: refused unless the journal is settled.
Start ==
  /\ w.pc = "idle"
  /\ mem.status \in {"Absent", "Settled"}
  /\ BeginTurn
  /\ UNCHANGED control

\* The run pushes the user message and writes the first checkpoint.
Begin ==
  /\ w.pc = "begin"
  /\ WriteCheckpoint(w.turn, 1)
  /\ begun' = begun \cup {w.turn}
  /\ Go("boundary")
  /\ UNCHANGED <<turnCount, nextTurn, control, sent, executed, twice, used>>

-----------------------------------------------------------------------------
(* control_action and the model request *)

\* control_action ends the Turn: cancellation wins over steering, and a Turn in
\* SteeringMode::StopAtCheckpoint stops for a steer.
ControlFinish ==
  \/ cancel /\ cancel' = FALSE /\ UNCHANGED <<queued, stopping>> /\ Finish("Cancelled")
  \/ ~cancel /\ "steer" \in queued /\ UNCHANGED control /\ Finish("Steered")

\* A Turn in SteeringMode::ContinueSameTurn (a child task, or a resumption with
\* pending steers) adds the steer to its conversation and goes on.
ApplySteer ==
  /\ ~cancel /\ "steer" \in queued
  /\ queued' = queued \ {"steer"}
  /\ UNCHANGED <<cancel, stopping>>
  /\ Go("boundary")

Proceed == ~cancel /\ "steer" \notin queued

Boundary ==
  /\ w.pc = "boundary"
  /\ ControlFinish \/ ApplySteer
  /\ UNCHANGED <<journal, turnCount, nextTurn, sent, history, used>>

StepLimit ==
  /\ w.pc = "boundary" /\ Proceed
  /\ w.step + 1 > w.limit
  /\ Finish("StepLimit")
  /\ UNCHANGED <<journal, turnCount, nextTurn, control, sent, history, used>>

\* A checkpoint precedes every model request.
RequestModel ==
  /\ w.pc = "boundary" /\ Proceed
  /\ w.step + 1 <= w.limit
  /\ WriteCheckpoint(w.turn, w.step + 1)
  /\ w' = [w EXCEPT !.pc = "model", !.step = @ + 1, !.retried = FALSE]
  /\ UNCHANGED <<turnCount, nextTurn, control, sent, history, used>>

CompactAndRetryAdvanced ==  \* fault: the new checkpoint names the next step
  /\ w.pc = "model" /\ ~w.retried
  /\ WriteCheckpoint(w.turn, w.step + 1)
  /\ w' = [w EXCEPT !.retried = TRUE]
  /\ UNCHANGED <<turnCount, nextTurn, control, sent, history, used>>

\* The provider reports a context-window error, compaction shrinks the history,
\* and the same request is retried once after a new checkpoint.
CompactAndRetry ==
  /\ w.pc = "model" /\ ~w.retried
  /\ WriteCheckpoint(w.turn, w.step)
  /\ w' = [w EXCEPT !.retried = TRUE]
  /\ UNCHANGED <<turnCount, nextTurn, control, sent, history, used>>

\* until_cancelled drops the pending model request.
ModelCancelled ==
  /\ w.pc = "model" /\ cancel
  /\ cancel' = FALSE
  /\ Finish("Cancelled")
  /\ UNCHANGED <<journal, turnCount, nextTurn, queued, stopping, sent, history, used>>

\* A response without tool calls ends the Turn.
RespondText ==
  /\ w.pc = "model"
  /\ \/ ControlFinish
     \/ ApplySteer
     \/ Proceed /\ UNCHANGED control /\ Finish("Completed")
  /\ UNCHANGED <<journal, turnCount, nextTurn, sent, history, used>>

\* A response with tool calls is journaled as a batch before any call starts.
RespondTools(n, safe) ==
  LET b == [NoBatch EXCEPT !.id = lastSeq, !.turn = w.turn, !.step = w.step,
                           !.n = n, !.safe = safe]
  IN /\ w.pc = "model"
     /\ WriteBatchStarted(b)
     /\ w' = [w EXCEPT !.pc = "batch", !.run = b, !.idx = 1]
     /\ UNCHANGED <<turnCount, nextTurn, control, sent, history, used>>

\* A provider error, an exceeded limit or a failed skill preflight.
TurnError ==
  /\ w.pc \in {"begin", "resume", "boundary", "model"}
  /\ Finish("Failed")
  /\ UNCHANGED <<journal, turnCount, nextTurn, control, sent, history, used>>

-----------------------------------------------------------------------------
(* Tool batches: execute_tool_batch and recover_tool_batch *)

NextCall == w' = [w EXCEPT !.pc = "batch", !.idx = @ + 1]

\* Recovery writes a call's saved outcome again and moves on.
KeepOutcome ==
  /\ w.pc = "batch" /\ w.idx <= w.run.n /\ w.idx \in Outcomes(w.run)
  /\ WriteCallFinished(w.run.turn, w.run.step, w.idx,
                       IF w.idx \in w.run.ran THEN "ran" ELSE "skipped")
  /\ NextCall
  /\ UNCHANGED <<turnCount, nextTurn, control, sent, history, used>>

\* A cancelled Turn gives the remaining calls an outcome without starting them;
\* recovery does not look at the cancellation flag.
SkipCall ==
  /\ w.pc = "batch" /\ w.idx <= w.run.n /\ ~w.recovering
  /\ cancel
  /\ WriteCallFinished(w.run.turn, w.run.step, w.idx, "skipped")
  /\ NextCall
  /\ UNCHANGED <<turnCount, nextTurn, control, sent, history, used>>

StartCall ==
  /\ w.pc = "batch" /\ w.idx <= w.run.n /\ w.idx \notin Outcomes(w.run)
  /\ ~cancel \/ w.recovering
  /\ WriteCallStarted(w.run.turn, w.run.step, w.idx)
  /\ Go("call")
  /\ UNCHANGED <<turnCount, nextTurn, control, sent, history, used>>

CallId == <<w.run.id, w.idx>>

\* The tool runtime is invoked: the only step with an external effect.  A tool
\* may add workspace instructions, after which the rest of the batch is deferred.
ExecuteCall ==
  /\ w.pc = "call"
  /\ w.recovering \/ (~cancel /\ ~w.replan)
  /\ executed' = executed \cup {CallId}
  /\ twice' = IF CallId \in executed /\ w.idx \notin w.run.safe
              THEN twice \cup {CallId} ELSE twice
  /\ \E injects \in {FALSE, ~w.recovering} :
       w' = [w EXCEPT !.pc = "called", !.result = "ran", !.replan = injects]
  /\ UNCHANGED <<journal, turnCount, nextTurn, control, sent, begun, used>>

DeferCallAsRun ==  \* fault: the outcome does not say that the call was deferred
  /\ w.pc = "call" /\ ~w.recovering
  /\ cancel \/ w.replan
  /\ w' = [w EXCEPT !.pc = "called", !.result = "ran"]
  /\ UNCHANGED <<journal, turnCount, nextTurn, control, sent, history, used>>

\* Cancelled between the journal entry and the tool, or deferred: the call gets
\* an outcome but does not run.
DeferCall ==
  /\ w.pc = "call" /\ ~w.recovering
  /\ cancel \/ w.replan
  /\ w' = [w EXCEPT !.pc = "called", !.result = "skipped"]
  /\ UNCHANGED <<journal, turnCount, nextTurn, control, sent, history, used>>

FinishCall ==
  /\ w.pc = "called"
  /\ WriteCallFinished(w.run.turn, w.run.step, w.idx, w.result)
  /\ NextCall
  /\ UNCHANGED <<turnCount, nextTurn, control, sent, history, used>>

\* ToolBatchSettled leaves the reduced state alone: the batch stays pending
\* until the next checkpoint is durable.
SettleBatch ==
  /\ w.pc = "batch" /\ w.idx > w.run.n
  /\ WriterAccepts(w.turn)
  /\ disk' = LoadBase(w.turn)
  /\ Go("batchSettled")
  /\ UNCHANGED <<mem, lastSeq, writer, turnCount, nextTurn, control, sent, history, used>>

\* The checkpoint after a complete batch; only then is the batch forgotten.
CheckpointBatch ==
  /\ w.pc = "batchSettled"
  /\ WriteCheckpoint(w.turn, w.run.step + 1)
  /\ w' = [w EXCEPT !.pc = "boundary", !.step = w.run.step, !.run = NoBatch,
                    !.idx = 0, !.recovering = FALSE, !.replan = FALSE]
  /\ UNCHANGED <<turnCount, nextTurn, control, sent, history, used>>

\* A failed append is rolled back and stops the run before its next step.
JournalFailure ==
  /\ w.pc \in {"begin", "boundary", "model", "batch", "called", "batchSettled"}
  /\ Spend("faults")
  /\ Finish("Failed")
  /\ UNCHANGED <<journal, turnCount, nextTurn, control, sent, history>>

-----------------------------------------------------------------------------
(* The worker settles a Turn and looks for queued input *)

\* record_turn: turn_started, items, turn_settled and the Session checkpoint go
\* to the log in one append; a resumption is not counted as a new Turn.
Persist ==
  /\ w.pc = "persist"
  /\ \/ /\ turnCount' = IF w.resumed THEN turnCount ELSE turnCount + 1
        /\ w' = [w EXCEPT !.pc = "settle", !.persisted = TRUE]
        /\ UNCHANGED used
     \/ /\ Spend("faults")
        /\ Go("settle")
        /\ UNCHANGED turnCount
  /\ UNCHANGED <<journal, nextTurn, control, sent, history>>

FinalStatusAlways(paused) ==  \* fault: a failed Turn is settled too
  IF w.persisted /\ (w.outcome # "Cancelled" \/ ~paused) THEN "Settled" ELSE "WaitingForContinue"

\* A cancelled Turn of a paused operation or frozen Session must be resumable.
FinalStatus(paused) ==
  IF w.persisted /\ (w.outcome = "Completed" \/ (w.outcome = "Cancelled" /\ ~paused))
  THEN "Settled" ELSE "WaitingForContinue"

SettleCompleted ==  \* fault: only a completed Turn gets an entry
  /\ w.pc = "settle"
  /\ IF mem.status # "Running" \/ mem.turn # w.turn \/ w.outcome # "Completed"
     THEN UNCHANGED <<journal, used>>
     ELSE WriteStatus(w.turn, "Settled") /\ UNCHANGED used
  /\ Go("continue")
  /\ UNCHANGED <<turnCount, nextTurn, control, sent, history>>

\* settle_execution_checkpoint: a failed append is only a warning.
Settle ==
  /\ w.pc = "settle"
  /\ IF mem.status \in {"Absent", "NeedsReconciliation"} \/ mem.turn # w.turn
     THEN UNCHANGED <<journal, used>>
     ELSE \/ \E paused \in BOOLEAN : WriteStatus(w.turn, FinalStatus(paused)) /\ UNCHANGED used
          \/ Spend("faults") /\ UNCHANGED journal
  /\ Go("continue")
  /\ UNCHANGED <<turnCount, nextTurn, control, sent, history>>

\* Steers that reached no boundary of a stopped Turn are discarded.
Pending == IF w.outcome = "Cancelled" \/ stopping THEN queued \ {"steer"} ELSE queued

NextInput == IF "steer" \in Pending THEN "steer" ELSE "follow_up"

\* A queued input starts the next Turn at once; the gates of Start are not
\* evaluated here.
ContinueWithInput ==
  /\ w.pc = "continue" /\ Pending # {}
  /\ BeginTurn
  /\ queued' = Pending \ {NextInput}
  /\ stopping' = FALSE
  /\ UNCHANGED cancel

\* Nothing is queued, or the Session was frozen and the taken input is dropped.
GoIdle ==
  /\ w.pc = "continue"
  /\ queued' = Pending \ {NextInput}
  /\ stopping' = FALSE
  /\ w' = Worker("idle")
  /\ UNCHANGED <<journal, turnCount, nextTurn, cancel, sent, history, used>>

-----------------------------------------------------------------------------
(* Clients *)

\* The worker reads commands while its Turn is about to run or awaits the model.
Listening == w.pc \in {"begin", "resume", "model"}

\* A steer reaches the queue of a running Turn directly; a follow-up is a command
\* that the worker reads, and refuses once the Turn is stopping.
QueueInput(kind) ==
  /\ Active /\ kind \notin queued
  /\ kind = "follow_up" => Listening /\ ~stopping
  /\ Spend("inputs")
  /\ queued' = queued \cup {kind}
  /\ UNCHANGED <<journal, turnCount, nextTurn, w, cancel, stopping, sent, history>>

\* The client sets the shared flag itself.  The Cancel command that follows marks
\* the Turn as stopping and discards pending steers, if the worker reads it
\* before the Turn ends.
RequestCancel ==
  /\ Active
  /\ cancel' = TRUE
  /\ \/ UNCHANGED <<queued, stopping>>
     \/ Listening /\ queued' = queued \ {"steer"} /\ stopping' = TRUE
  /\ UNCHANGED <<journal, turnCount, nextTurn, w, sent, history, used>>

\* reserve_execution_resume for the current checkpoint.  A request id that was
\* accepted for it may be used again if the worker is waiting again.
AcceptResume(r) ==
  /\ w.pc = "idle"
  /\ mem.status = "WaitingForContinue"
  /\ \A p \in mem.resumes : p[1] = r => p[2] = mem.seq
  /\ disk' = Resumed(LoadBase(mem.turn), mem.turn, r, mem.seq)
  /\ mem' = Resumed(mem, mem.turn, r, mem.seq)
  /\ writer' = NewWriter

\* Core continues after the step before the checkpoint's next model step.
ResumeStep(next) == next - 1

\* A resumption beyond the step limit gets one more slice of MaxSteps.
SliceLimit(next) == IF next > MaxSteps THEN next + MaxSteps - 1 ELSE MaxSteps

\* The resumed run works on the checkpoint and the batch it was accepted with.
Resume(r) ==
  /\ AcceptResume(r)
  /\ Spend("resumes")
  /\ w' = [Worker("resume") EXCEPT !.turn = mem.turn, !.resumed = TRUE,
                                   !.step = ResumeStep(mem.step), !.limit = SliceLimit(mem.step),
                                   !.run = mem.batch]
  /\ UNCHANGED <<turnCount, lastSeq, nextTurn, control, sent, history>>

\* After the reservation is durable, requeueing the steers or reading the
\* operation fails: the command returns and no run starts.
AbandonResume(r) ==
  /\ AcceptResume(r)
  /\ Spend("faults")
  /\ UNCHANGED <<turnCount, lastSeq, nextTurn, w, control, sent, history>>

RecoverableAny(b) == b \in Batches  \* fault: uncertain calls are simply run again

\* validate_tool_batch_recovery: every uncertain call must be replay safe.
Recoverable(b) == Uncertain(b) \subseteq b.safe

\* The resumed run starts: at the model boundary, or in the pending batch.
ResumeRun ==
  /\ w.pc = "resume"
  /\ \/ /\ w.run.id = 0
        /\ Go("boundary")
        /\ UNCHANGED journal
     \/ /\ w.run.id # 0 /\ (w.run.turn # w.turn \/ w.run.step # w.step + 1)
        /\ Finish("Failed")
        /\ UNCHANGED journal
     \/ /\ w.run.id # 0 /\ w.run.turn = w.turn /\ w.run.step = w.step + 1
        /\ ~Recoverable(w.run)
        /\ WriteStatus(w.turn, "NeedsReconciliation")
        /\ Finish("Failed")
     \/ /\ w.run.id # 0 /\ w.run.turn = w.turn /\ w.run.step = w.step + 1
        /\ Recoverable(w.run)
        /\ w' = [w EXCEPT !.pc = "batch", !.step = w.run.step, !.idx = 1,
                          !.recovering = TRUE]
        /\ UNCHANGED journal
  /\ UNCHANGED <<turnCount, nextTurn, control, sent, history, used>>

\* An operator looks up whether an uncertain call took effect and sends what
\* happened under a fresh request id.  No second decision about a call is sent
\* while an earlier one is unanswered.
SendDecision(r, i, disposition) ==
  /\ mem.status = "NeedsReconciliation" /\ i \in Uncertain(mem.batch)
  /\ \A m \in sent : m.req # r
  /\ \A m \in sent : m.seq = mem.seq /\ m.idx = i => m \in mem.reconciled
  /\ disposition = IF <<mem.batch.id, i>> \in executed THEN "Completed" ELSE "NotExecuted"
  /\ sent' = sent \cup {[req |-> r, seq |-> mem.seq, idx |-> i, disposition |-> disposition]}
  /\ UNCHANGED <<journal, turnCount, nextTurn, w, control, history, used>>

UndecidedAny(m) == m \in sent  \* fault: a resent request is taken for a new one

\* reconciliation_requests holds no decision under this request id.
Undecided(m) == \A d \in mem.reconciled : d.req # m.req

\* reconcile_tool_call for one arrival of a request.  Requests are resent and
\* delayed, so an arrival may be any that was ever sent; a repeated id, another
\* checkpoint or a call that is not uncertain is refused.
Reconcile(m) ==
  /\ w.pc = "idle"
  /\ Undecided(m)
  /\ m.seq = mem.seq
  /\ mem.status = "NeedsReconciliation"
  /\ m.idx \in Uncertain(mem.batch)
  /\ disk' = Reconciled(disk, m)
  /\ mem' = Reconciled(mem, m)
  /\ UNCHANGED <<lastSeq, writer, turnCount, nextTurn, w, control, sent, history, used>>

-----------------------------------------------------------------------------
(* Crash and restart *)

\* The process stops.  During the append of record_turn a prefix of its records
\* may reach the log, so the turn_started record may count without the rest.
Crash ==
  /\ w.pc # "down"
  /\ Spend("crashes")
  /\ turnCount' \in IF w.pc = "persist" /\ ~w.resumed THEN {turnCount, turnCount + 1}
                    ELSE {turnCount}
  /\ mem' = NoState /\ writer' = 0 /\ w' = Worker("down")
  /\ cancel' = FALSE /\ queued' = {} /\ stopping' = FALSE
  /\ UNCHANGED <<disk, lastSeq, nextTurn, sent, history>>

RestartStatus ==
  IF disk.status # "Running" THEN disk.status
  ELSE IF Uncertain(disk.batch) # {} THEN "NeedsReconciliation" ELSE "WaitingForContinue"

RestartUnrecorded ==  \* fault: the parked status is not journaled
  /\ w.pc = "down"
  /\ mem' = WithStatus(disk, disk.turn, RestartStatus)
  /\ writer' = 0 /\ w' = Worker("idle") /\ nextTurn' = turnCount + 1
  /\ UNCHANGED <<disk, turnCount, lastSeq, control, sent, history, used>>

\* SessionStore::resume replays the log and parks a Turn that was running; the
\* Thread numbers new Turns after the recorded ones.
Restart ==
  /\ w.pc = "down"
  /\ disk' = WithStatus(disk, disk.turn, RestartStatus)
  /\ mem' = WithStatus(disk, disk.turn, RestartStatus)
  /\ writer' = 0
  /\ w' = Worker("idle")
  /\ nextTurn' = turnCount + 1
  /\ UNCHANGED <<turnCount, lastSeq, control, sent, history, used>>

-----------------------------------------------------------------------------
(* Specification *)

Init ==
  /\ disk = NoState /\ mem = NoState /\ writer = 0
  /\ turnCount = 0 /\ lastSeq = 0 /\ nextTurn = 1
  /\ w = Worker("idle")
  /\ cancel = FALSE /\ queued = {} /\ stopping = FALSE /\ sent = {}
  /\ executed = {} /\ twice = {} /\ begun = {}
  /\ used = [b \in DOMAIN Bounds |-> 0]

\* Steps the worker takes by itself while a Turn is active.
RunStep ==
  \/ Begin \/ ResumeRun \/ Boundary \/ StepLimit \/ RequestModel
  \/ CompactAndRetry \/ ModelCancelled \/ RespondText \/ TurnError
  \/ \E n \in 1..MaxCalls : \E safe \in SUBSET (1..n) : RespondTools(n, safe)
  \/ KeepOutcome \/ SkipCall \/ StartCall \/ ExecuteCall \/ DeferCall
  \/ FinishCall \/ SettleBatch \/ CheckpointBatch \/ JournalFailure
  \/ Persist \/ Settle \/ ContinueWithInput \/ GoIdle

ClientStep ==
  \/ Start
  \/ \E kind \in {"steer", "follow_up"} : QueueInput(kind)
  \/ RequestCancel
  \/ \E r \in Requests : Resume(r) \/ AbandonResume(r)

Operate ==
  \/ \E r \in Requests, i \in 1..MaxCalls, d \in Dispositions : SendDecision(r, i, d)
  \/ \E m \in sent : Reconcile(m)

Next == RunStep \/ ClientStep \/ Operate \/ Crash \/ Restart

Spec == Init /\ [][Next]_vars

\* The worker keeps running, a stopped server is started again, and an operator
\* eventually answers for every uncertain call.
FairSpec == Spec /\ WF_vars(RunStep) /\ WF_vars(Restart) /\ WF_vars(Operate)

-----------------------------------------------------------------------------
(* Properties *)

\* Every variable keeps its type.
TypeOK ==
  /\ disk \in ExecStates /\ mem \in ExecStates
  /\ turnCount \in Nat /\ lastSeq \in Nat /\ writer \in Nat /\ nextTurn \in Nat
  /\ w \in Workers
  /\ cancel \in BOOLEAN /\ stopping \in BOOLEAN /\ queued \in SUBSET {"steer", "follow_up"}
  /\ sent \in SUBSET Decisions
  /\ executed \in SUBSET (Nat \X Nat) /\ twice \in SUBSET (Nat \X Nat)
  /\ begun \in SUBSET Nat
  /\ used \in [DOMAIN Bounds -> Nat]

\* Replaying the log at any moment rebuilds the state the store holds in memory,
\* although load_records drops state that append keeps when Turns disagree.
ReplayAgrees == w.pc # "down" => mem = disk

\* A tool that is not replay safe is never invoked twice for one call, across
\* failed writes, crashes, resumptions and resent operator decisions.
AtMostOnceUnsafe == twice = {}

\* A call of the pending batch that took effect is visible on disk, as started
\* or with an outcome: recovery cannot mistake it for one that never ran.
EffectsDurablyKnown ==
  disk.batch.id # 0 =>
    \A i \in 1..disk.batch.n :
      <<disk.batch.id, i>> \in executed =>
        i \in disk.batch.started \cup Outcomes(disk.batch)

\* Durable outcomes tell what happened: a call recorded as run has run, and one
\* recorded as cancelled or deferred has not.
OutcomesTruthful ==
  \A i \in 1..disk.batch.n :
    /\ i \in disk.batch.ran => <<disk.batch.id, i>> \in executed
    /\ i \in disk.batch.skipped => <<disk.batch.id, i>> \notin executed

\* The pending batch answers the checkpoint it is stored with, so the identity
\* test at the start of a resumed run never refuses it.
RecoveryMatches ==
  disk.batch.id # 0 => disk.batch.turn = disk.turn /\ disk.batch.step = disk.step

\* A Turn that needs reconciliation has a call to reconcile: otherwise neither
\* turn/reconcile, turn/resume nor turn/start could ever be accepted again.
ReconciliationHasWork ==
  disk.status = "NeedsReconciliation" => Uncertain(disk.batch) # {}

\* Calls run one after another and recovery settles the earlier ones first, so
\* at most one call of a batch is ever in doubt.
AtMostOneUncertain ==
  \A i, j \in Uncertain(disk.batch) : i = j

\* A batch leaves the journal when each of its calls has an outcome, or when a
\* new Turn's first checkpoint replaces it; never by settling or compacting.
BatchKeptUntilComplete ==
  [][disk.batch.id # 0 /\ disk'.batch.id # disk.batch.id
     => w.pc = "begin" \/ 1..disk.batch.n \subseteq Outcomes(disk.batch)]_vars

\* Checkpoints of one logical Turn never go back to an earlier model step.
StepsNeverGoBack ==
  [][disk.status # "Absent" /\ disk'.seq # disk.seq /\ w.pc # "begin"
     => disk'.turn = disk.turn /\ disk'.step >= disk.step]_vars

\* Every Turn comes to rest: the worker becomes idle with the Turn settled or
\* parked, unless the process stops.
TurnsComeToRest ==
  Active ~> (w.pc = "down" \/ (w.pc = "idle" /\ mem.status # "Running"))

\* An operator who answers for each uncertain call always gets the Turn out of
\* reconciliation.
ReconciliationEnds ==
  mem.status = "NeedsReconciliation" ~> mem.status # "NeedsReconciliation"

\* No Turn stays running or in doubt for ever: worker_loop brings every run to
\* an end, and turn/reconcile every Turn out of reconciliation.
TurnsSettle == TurnsComeToRest /\ ReconciliationEnds

\* docs/app-server.md: new Turn ids are unique.  Violated after a crash: a Turn
\* is numbered from the turn_started records, which are written when it settles.
TurnIdsUnique ==
  [][w'.pc = "begin" /\ w.pc # "begin" => w'.turn \notin begun]_vars

\* docs/app-server.md: each uncertain call is resolved by turn/reconcile before a
\* new Turn is admitted.  Violated by a queued input, which no gate examines.
UncertainResolvedFirst ==
  [][w'.pc = "begin" /\ w.pc # "begin" => Uncertain(mem.batch) = {}]_vars

-----------------------------------------------------------------------------
(* The inductive invariant behind the theorems of ExecutionJournalProofs *)

RunPcs == {"resume", "boundary", "model", "batch", "call", "called", "batchSettled"}

BatchPcs == {"batch", "call", "called", "batchSettled"}

\* The state on disk is numbered consistently, and a pending batch belongs to it.
DiskInv ==
  /\ disk.status = "Absent" => disk = NoState
  /\ disk.status # "Absent" => disk.step >= 1 /\ disk.seq >= 1
  /\ disk.seq <= lastSeq
  /\ disk.batch.id = 0 \/ disk.status = "Settled" => disk.batch = NoBatch
  /\ disk.batch.id # 0 => disk.batch.id = disk.seq
  /\ RecoveryMatches

\* Memory follows the disk, and a running Turn's writer belongs to its state.
MemoryInv ==
  /\ ReplayAgrees
  /\ w.pc = "down" => mem = NoState
  /\ Active => writer = NewWriter

\* Where the run stands, compared with what it has written.
PhaseInv ==
  /\ w.pc \in RunPcs => disk.status = "Running" /\ disk.turn = w.turn
  /\ w.pc \in {"boundary", "model"} => disk.batch = NoBatch
  /\ w.pc = "boundary" => disk.step <= w.step + 1
  /\ w.pc = "model" => disk.step = w.step /\ disk.seq = lastSeq
  /\ w.pc = "resume" => w.run = disk.batch /\ disk.step = w.step + 1
  /\ w.pc \in {"persist", "settle"} /\ w.outcome \in {"Completed", "Cancelled"}
       => disk.batch = NoBatch
  /\ w.pc \in BatchPcs =>
       /\ w.run.id # 0 /\ w.run.turn = w.turn /\ w.run.step = disk.step
       /\ disk.batch.id = w.run.id /\ disk.batch.n = w.run.n /\ disk.batch.safe = w.run.safe
       /\ w.idx >= 1
  /\ w.pc \in {"call", "called"} => w.idx <= w.run.n

\* The calls from the current one on are as they were when the batch was taken
\* up, and those that must not run again have not run.
RemainingInv ==
  w.pc \in {"batch", "call", "called"} =>
    /\ ~w.recovering => Outcomes(w.run) = {}
    /\ \A j \in 1..w.run.n :
         IF j < w.idx THEN j \in Outcomes(disk.batch)
         ELSE /\ j \in disk.batch.ran <=> j \in w.run.ran
              /\ j \in disk.batch.skipped <=> j \in w.run.skipped
              /\ \/ j \in Outcomes(w.run)
                 \/ w.pc = "called" /\ j = w.idx
                 \/ w.recovering /\ j \in w.run.safe
                 \/ <<w.run.id, j>> \notin executed

\* The call being run is journaled as started.
CurrentInv ==
  /\ w.pc \in {"call", "called"} =>
       w.idx \in disk.batch.started /\ w.idx \notin Outcomes(w.run)
  /\ w.pc = "called" => (w.result = "ran" <=> CallId \in executed)
  /\ w.pc = "batchSettled" => 1..w.run.n \subseteq Outcomes(disk.batch)

\* Batches are named by their checkpoint, so a new one has no calls that ran.
FreshInv ==
  /\ \A c \in executed : c[1] >= 1 /\ c[1] <= lastSeq
  /\ w.pc = "model" => \A c \in executed : c[1] # lastSeq

EffectInv == EffectsDurablyKnown /\ OutcomesTruthful /\ AtMostOnceUnsafe

\* A decision that was sent and not yet applied is about a call that is still
\* uncertain, and still tells the truth about it.
DecisionInv ==
  /\ disk.reconciled \subseteq sent
  /\ \A m \in sent :
       /\ m.seq <= lastSeq
       /\ m.seq = disk.seq /\ m \notin disk.reconciled =>
            /\ disk.status = "NeedsReconciliation"
            /\ m.idx \in Uncertain(disk.batch)
            /\ m.disposition = "Completed" <=> <<disk.batch.id, m.idx>> \in executed
       /\ \A d \in sent :
            \/ d = m \/ d.seq # m.seq \/ d.idx # m.idx
            \/ m.seq = disk.seq => d \in disk.reconciled \/ m \in disk.reconciled

Inv ==
  /\ TypeOK /\ DiskInv /\ MemoryInv /\ PhaseInv
  /\ RemainingInv /\ CurrentInv /\ FreshInv /\ EffectInv
  /\ DecisionInv /\ ReconciliationHasWork
=============================================================================
