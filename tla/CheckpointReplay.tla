-------------------------- MODULE CheckpointReplay --------------------------
(***************************************************************************)
(* The conversation of a Session: Core's message history, the execution    *)
(* checkpoints that save it as deltas against the writer's latest list,    *)
(* the settled checkpoint record_turn writes, and their replay.            *)
(*                                                                         *)
(* Where ExecutionJournal treats a checkpoint as a number, this module     *)
(* keeps its messages.  `disk' and `settled' are what load_records yields  *)
(* from the log written so far.  Reconciliation is folded into `Waiting',  *)
(* and Turn ids are taken to be unique; both are subjects of that module.  *)
(***************************************************************************)
EXTENDS Conversation

CONSTANTS
  MaxSteps,     \* model requests in one slice of a Turn
  MaxCalls,     \* HarnessConfig.max_tool_calls_per_step
  MaxTurns,     \* bound: Turns begun
  MaxResumes,   \* bound: resumptions
  MaxCrashes,   \* bound: crashes
  MaxFaults,    \* bound: failed runs and failed writes
  MaxInputs,    \* bound: steers and injected contexts
  MaxCompacts,  \* bound: compactions
  MaxEvents     \* bound: all of these but Turns, together

ASSUME BoundsAssumption ==
  /\ MaxSteps \in Nat \ {0} /\ MaxCalls \in Nat \ {0}
  /\ MaxTurns \in Nat /\ MaxResumes \in Nat /\ MaxCrashes \in Nat
  /\ MaxFaults \in Nat /\ MaxInputs \in Nat /\ MaxCompacts \in Nat
  /\ MaxEvents \in Nat

VARIABLES
  session,     \* SessionState.messages of the harness
  settled,     \* messages of the latest checkpoint record
  disk,        \* execution state load_records rebuilds
  mem,         \* SessionStore.execution_state
  writer,      \* ExecutionJournalWriterState.messages
  run,         \* the worker and the harness run
  lastId,      \* messages and calls made so far; the next id follows
  unrecorded,  \* history: some Turn was not recorded
  used         \* how much of each bound is used up

historyVars == <<session, settled, disk, mem, writer, run, lastId, unrecorded, used>>

Bounds == [turns |-> MaxTurns, resumes |-> MaxResumes, crashes |-> MaxCrashes,
           faults |-> MaxFaults, inputs |-> MaxInputs, compacts |-> MaxCompacts]

Events == used.resumes + used.crashes + used.faults + used.inputs + used.compacts

Spend(b) ==
  /\ used[b] < Bounds[b] /\ (b = "turns" \/ Events < MaxEvents)
  /\ used' = [used EXCEPT ![b] = @ + 1]

NoMessage == Message("none", 0, {})

NoState == [turn |-> 0, status |-> "Absent", msgs |-> <<>>, batch |-> NoMessage]

Idle == [pc |-> "idle", turn |-> 0, step |-> 0, retried |-> FALSE, left |-> {},
         outcome |-> "none", persisted |-> FALSE]

Go(pc) == run' = [run EXCEPT !.pc = pc]

Finish(outcome) == run' = [run EXCEPT !.pc = "persist", !.outcome = outcome]

NewMessage(role) == Message(role, lastId + 1, {})

-----------------------------------------------------------------------------
(* Checkpoints as deltas *)

\* load_records appends a delta to the Turn's own checkpoint, or, when the
\* latest execution state is of another Turn, to the settled checkpoint.
ReplayBase(t) ==
  IF disk.status # "Absent" /\ disk.turn = t THEN disk.msgs ELSE settled

\* append compares the new list with the writer's and stores what is added.
Replayed(t, msgs) ==
  IF IsPrefix(writer, msgs)
  THEN ReplayBase(t) \o SubSeq(msgs, Len(writer) + 1, Len(msgs))
  ELSE msgs

Running(t, msgs) ==
  [turn |-> t, status |-> "Running", msgs |-> msgs, batch |-> NoMessage]

WriteCheckpointStale(t, msgs) ==  \* fault: the writer keeps its first list
  /\ disk' = Running(t, Replayed(t, msgs))
  /\ mem' = Running(t, msgs)
  /\ UNCHANGED writer

WriteCheckpoint(t, msgs) ==
  /\ disk' = Running(t, Replayed(t, msgs))
  /\ mem' = Running(t, msgs)
  /\ writer' = msgs

WriteBatch(m) ==
  /\ disk' = [disk EXCEPT !.batch = m]
  /\ mem' = [mem EXCEPT !.batch = m]
  /\ UNCHANGED writer

WriteStatus(status) ==
  /\ disk' = [disk EXCEPT !.status = status]
  /\ mem' = [mem EXCEPT !.status = status]
  /\ UNCHANGED writer

\* execution_journal: a new writer starts from the latest checkpoint's list.
NewWriter == IF mem.status = "Absent" THEN session ELSE mem.msgs

-----------------------------------------------------------------------------
(* A Turn *)

BeginTurn ==
  /\ Spend("turns")
  /\ run' = [Idle EXCEPT !.pc = "begin", !.turn = used.turns + 1]
  /\ writer' = NewWriter
  /\ UNCHANGED <<session, settled, disk, mem, lastId, unrecorded>>

Start ==
  /\ run.pc = "idle" /\ mem.status \in {"Absent", "Settled"}
  /\ BeginTurn

\* The run repairs the history, adds the user message and checkpoints it.
Begin ==
  /\ run.pc = "begin"
  /\ session' = Append(Repair(session), NewMessage("user"))
  /\ WriteCheckpoint(run.turn, session')
  /\ lastId' = lastId + 1
  /\ Go("boundary")
  /\ UNCHANGED <<settled, unrecorded, used>>

\* The first checkpoint could not be written: the user message stays behind.
BeginFails ==
  /\ run.pc = "begin"
  /\ Spend("faults")
  /\ session' = Append(Repair(session), NewMessage("user"))
  /\ lastId' = lastId + 1
  /\ Finish("Failed")
  /\ UNCHANGED <<settled, disk, mem, writer, unrecorded>>

RequestModel ==
  /\ run.pc = "boundary" /\ run.step < MaxSteps
  /\ WriteCheckpoint(run.turn, session)
  /\ run' = [run EXCEPT !.pc = "model", !.step = @ + 1, !.retried = FALSE]
  /\ UNCHANGED <<session, settled, lastId, unrecorded, used>>

\* A steer joins the conversation of the same Turn.
ApplySteer ==
  /\ run.pc = "boundary"
  /\ Spend("inputs")
  /\ session' = Append(session, NewMessage("user"))
  /\ lastId' = lastId + 1
  /\ UNCHANGED <<settled, disk, mem, writer, run, unrecorded>>

\* A context-window error: compact, checkpoint, and ask again, once.
CompactAndRetry ==
  /\ run.pc = "model" /\ ~run.retried
  /\ Spend("compacts")
  /\ session' \in Compacted(session, NewMessage("user"))
  /\ WriteCheckpoint(run.turn, session')
  /\ lastId' = lastId + 1
  /\ run' = [run EXCEPT !.retried = TRUE]
  /\ UNCHANGED <<settled, unrecorded>>

\* The answer joins the history, which is compacted at once when the reported
\* usage reaches the waterline; the summary gets an id of its own.
Respond(m, last) ==
  LET answered == Append(session, m)
      summary == Message("user", last + 1, {})
  IN /\ run.pc = "model"
     /\ \/ session' = answered /\ lastId' = last /\ UNCHANGED used
        \/ /\ Spend("compacts")
           /\ session' \in Compacted(answered, summary)
           /\ lastId' = last + 1
     /\ UNCHANGED <<settled, unrecorded>>

RespondText ==
  /\ Respond(NewMessage("assistant"), lastId + 1)
  /\ Finish("Completed")
  /\ UNCHANGED <<disk, mem, writer>>

\* Tool calls: the intent is journaled, without a checkpoint.
RespondTools(n) ==
  LET m == Message("assistant", lastId + 1, lastId + 2 .. lastId + 1 + n)
  IN /\ Respond(m, lastId + 1 + n)
     /\ WriteBatch(m)
     /\ run' = [run EXCEPT !.pc = "batch", !.left = m.calls]

\* The answer has joined the history when compaction fails or the intent cannot
\* be written: the run ends with calls in the history that no journal knows.
RespondFails(n) ==
  /\ run.pc = "model"
  /\ Spend("faults")
  /\ session' = Append(session, Message("assistant", lastId + 1, lastId + 2 .. lastId + 1 + n))
  /\ lastId' = lastId + 1 + n
  /\ Finish("Failed")
  /\ UNCHANGED <<settled, disk, mem, writer, unrecorded>>

\* The calls run in order; each result joins the history.
FinishCall ==
  LET c == Min(run.left)
  IN /\ run.pc = "batch" /\ run.left # {}
     /\ session' = Append(session, Message("tool", c, {}))
     /\ run' = [run EXCEPT !.left = @ \ {c}]
     /\ UNCHANGED <<settled, disk, mem, writer, lastId, unrecorded, used>>

\* After the last call the instructions the tools asked for join the history.
CheckpointBatch ==
  /\ run.pc = "batch" /\ run.left = {}
  /\ \/ session' = session /\ UNCHANGED <<lastId, used>>
     \/ /\ Spend("inputs")
        /\ session' = Append(session, NewMessage("context"))
        /\ lastId' = lastId + 1
  /\ WriteCheckpoint(run.turn, session')
  /\ Go("boundary")
  /\ UNCHANGED <<settled, unrecorded>>

\* Cancelled, steered or at the step limit: the Turn ends at a boundary.
Stop ==
  /\ run.pc = "boundary"
  /\ \E outcome \in {"Cancelled", "Stopped"} : Finish(outcome)
  /\ UNCHANGED <<session, settled, disk, mem, writer, lastId, unrecorded, used>>

\* An error ends the run anywhere, in the middle of a batch too.
TurnError ==
  /\ run.pc \in {"begin", "boundary", "model", "batch"}
  /\ Spend("faults")
  /\ Finish("Failed")
  /\ UNCHANGED <<session, settled, disk, mem, writer, lastId, unrecorded>>

-----------------------------------------------------------------------------
(* Settling *)

\* record_turn: the harness history becomes the settled checkpoint.
Persist ==
  /\ run.pc = "persist"
  /\ \/ /\ settled' = session
        /\ run' = [run EXCEPT !.pc = "settle", !.persisted = TRUE]
        /\ UNCHANGED <<unrecorded, used>>
     \/ /\ Spend("faults")
        /\ Go("settle")
        /\ unrecorded' = TRUE
        /\ UNCHANGED settled
  /\ UNCHANGED <<session, disk, mem, writer, lastId>>

Settle ==
  /\ run.pc = "settle"
  /\ IF mem.status = "Absent" \/ mem.turn # run.turn
     THEN UNCHANGED <<disk, mem, writer>>
     ELSE WriteStatus(IF run.persisted /\ run.outcome \in {"Completed", "Cancelled"}
                      THEN "Settled" ELSE "Waiting")
  /\ Go("continue")
  /\ UNCHANGED <<session, settled, lastId, unrecorded, used>>

\* A queued input begins the next Turn whatever the status is.
ContinueWithInput ==
  /\ run.pc = "continue"
  /\ BeginTurn

GoIdle ==
  /\ run.pc = "continue"
  /\ run' = Idle
  /\ UNCHANGED <<session, settled, disk, mem, writer, lastId, unrecorded, used>>

-----------------------------------------------------------------------------
(* Recovery *)

\* restore_history replaces the history by the checkpoint; a pending batch is
\* taken up again: its assistant message, then a result for each call.
Resume ==
  /\ run.pc = "idle" /\ mem.status = "Waiting"
  /\ Spend("resumes")
  /\ writer' = NewWriter
  /\ disk' = [disk EXCEPT !.status = "Running"]
  /\ mem' = [mem EXCEPT !.status = "Running"]
  /\ IF mem.batch = NoMessage
     THEN /\ session' = Repair(mem.msgs)
          /\ run' = [Idle EXCEPT !.pc = "boundary", !.turn = mem.turn]
     ELSE /\ session' = Append(Repair(mem.msgs), mem.batch)
          /\ run' = [Idle EXCEPT !.pc = "batch", !.turn = mem.turn, !.left = mem.batch.calls]
  /\ UNCHANGED <<settled, lastId, unrecorded>>

Crash ==
  /\ run.pc # "down"
  /\ Spend("crashes")
  /\ run' = [Idle EXCEPT !.pc = "down"]
  /\ session' = <<>> /\ mem' = NoState /\ writer' = <<>>
  /\ UNCHANGED <<settled, disk, lastId, unrecorded>>

\* The store replays the log; the harness restores the settled checkpoint.
Restart ==
  /\ run.pc = "down"
  /\ disk' = [disk EXCEPT !.status = IF @ = "Running" THEN "Waiting" ELSE @]
  /\ mem' = disk'
  /\ session' = Repair(settled)
  /\ run' = Idle
  /\ UNCHANGED <<settled, writer, lastId, unrecorded, used>>

-----------------------------------------------------------------------------
(* Steps *)

HistoryInit ==
  /\ session = <<>> /\ settled = <<>> /\ writer = <<>>
  /\ disk = NoState /\ mem = NoState
  /\ run = Idle /\ lastId = 0 /\ unrecorded = FALSE
  /\ used = [b \in DOMAIN Bounds |-> 0]

HistoryStep ==
  \/ Start \/ Begin \/ BeginFails \/ RequestModel \/ ApplySteer \/ CompactAndRetry \/ RespondText
  \/ \E n \in 1..MaxCalls : RespondTools(n)
  \/ \E n \in 0..MaxCalls : RespondFails(n)
  \/ FinishCall \/ CheckpointBatch \/ Stop \/ TurnError
  \/ Persist \/ Settle \/ ContinueWithInput \/ GoIdle
  \/ Resume \/ Crash \/ Restart


-----------------------------------------------------------------------------
(* Properties *)

\* The provider is never asked with an unanswered tool call or a stray result in
\* the history, although runs fail in the middle of a batch and replay puts
\* histories together from two sources.
RequestsClosed == run.pc = "model" => Closed(session)

\* Repair leaves a sound history alone and makes any other sound.
RepairExact ==
  /\ Closed(Repair(session))
  /\ Closed(session) => Repair(session) = session

\* Compaction never separates a call from its result, whichever groups it drops.
CompactionKeepsGroups ==
  Closed(session) => \A c \in Compacted(session, NewMessage("user")) : Closed(c)

\* Tool calls and their results stay together on every way a history takes to
\* the provider: the runs, the repair of a replayed history, and compaction.
GroupsKept == RequestsClosed /\ RepairExact /\ CompactionKeepsGroups

Matched(s, t) ==
  FoldLeft(LAMBDA k, m : IF k < Len(s) /\ s[k + 1] = m THEN k + 1 ELSE k, 0, t)

\* Replaying the log loses no message of the conversation the running Turn was
\* checkpointed with, as long as every Turn could be recorded.
NothingLost ==
  run.pc # "down" /\ ~unrecorded => Matched(mem.msgs, disk.msgs) = Len(mem.msgs)

\* Within a Turn the replayed conversation follows the one in memory: only its
\* first checkpoint can make them differ.
AgreementKept ==
  [][run.pc # "begin" /\ run'.pc # "down" /\ run.pc # "down" /\ disk.msgs = mem.msgs
     => disk'.msgs = mem'.msgs]_historyVars

\* docs/app-server.md: the execution journal stores the model context of a Turn.
\* Violated by the first checkpoint of a Turn that follows another: its delta is
\* taken against the previous Turn's checkpoint and replayed on the settled one.
ConversationReplayed == run.pc # "down" => disk.msgs = mem.msgs
=============================================================================
