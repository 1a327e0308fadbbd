----------------------- MODULE ExecutionJournalProofs -----------------------
(***************************************************************************)
(* Theorems about the execution journal, for every set of request ids and  *)
(* every value of the limits and bounds.                                   *)
(***************************************************************************)
EXTENDS ExecutionJournal, TLAPS

-----------------------------------------------------------------------------
(* Types of the values the actions are built from *)

LEMMA NoBatchType == NoBatch \in Batches
  BY DEF NoBatch, Batches

LEMMA NoStateType == NoState \in ExecStates
  BY NoBatchType DEF NoState, ExecStates, Statuses

LEMMA WorkerType ==
  ASSUME NEW pc \in Pcs
  PROVE  Worker(pc) \in Workers
  BY ConstantsAssumption, NoBatchType DEF Worker, Workers, TurnStatuses

LEMMA CheckpointType ==
  ASSUME NEW t \in Nat, NEW n \in Nat, NEW q \in Nat
  PROVE  Checkpoint(t, n, q) \in ExecStates
  BY NoBatchType DEF Checkpoint, ExecStates, Statuses

LEMMA BatchStartedType ==
  ASSUME NEW s \in ExecStates, NEW b \in Batches
  PROVE  BatchStarted(s, b) \in ExecStates
  BY DEF BatchStarted, ExecStates

LEMMA CallStartedType ==
  ASSUME NEW s \in ExecStates, NEW t \in Nat, NEW n \in Nat, NEW i \in Nat
  PROVE  CallStarted(s, t, n, i) \in ExecStates
  BY DEF CallStarted, ExecStates, Batches

LEMMA CallFinishedType ==
  ASSUME NEW s \in ExecStates, NEW t \in Nat, NEW n \in Nat, NEW i \in Nat, NEW result
  PROVE  CallFinished(s, t, n, i, result) \in ExecStates
<1>1. WithOutcome(s.batch, i, result) \in Batches
  BY DEF WithOutcome, ExecStates, Batches
<1> QED
  BY <1>1 DEF CallFinished, ExecStates

LEMMA ResumedType ==
  ASSUME NEW s \in ExecStates, NEW t \in Nat, NEW r \in Requests, NEW q \in Nat
  PROVE  Resumed(s, t, r, q) \in ExecStates
<1>1. s.resumes \cup {<<r, q>>} \in SUBSET (Requests \X Nat)
  BY DEF ExecStates
<1> QED
  BY <1>1 DEF Resumed, ExecStates, Statuses

LEMMA WithStatusType ==
  ASSUME NEW s \in ExecStates, NEW t \in Nat, NEW status \in Statuses
  PROVE  WithStatus(s, t, status) \in ExecStates
  BY NoBatchType DEF WithStatus, ExecStates

LEMMA ReconciledType ==
  ASSUME NEW s \in ExecStates, NEW m \in Decisions
  PROVE  Reconciled(s, m) \in ExecStates
<1>1. Decided(s.batch, m.idx, m.disposition) \in Batches
  BY DEF Decided, ExecStates, Batches, Decisions
<1> QED
  BY <1>1 DEF Reconciled, ExecStates, Statuses

LEMMA LoadBaseType ==
  ASSUME disk \in ExecStates, NEW t
  PROVE  LoadBase(t) \in ExecStates
  BY NoStateType DEF LoadBase

-----------------------------------------------------------------------------
(* Type correctness *)

\* Model steps are numbered from one, so a resumed run can step back by one.
StepsPositive ==
  /\ disk.status # "Absent" => disk.step >= 1
  /\ mem.status # "Absent" => mem.step >= 1

\* The fields of the worker have their types.
LEMMA WorkerFields ==
  ASSUME w \in Workers
  PROVE  /\ w.pc \in Pcs /\ w.turn \in Nat /\ w.resumed \in BOOLEAN
         /\ w.step \in Nat /\ w.limit \in Nat /\ w.run \in Batches
         /\ w.idx \in Nat /\ w.run.id \in Nat /\ w.run.turn \in Nat
         /\ w.run.step \in Nat
  BY DEF Workers, Batches

LEMMA FinishType ==
  ASSUME w \in Workers, NEW status \in TurnStatuses, Finish(status)
  PROVE  w' \in Workers
<1>1. Worker("persist") \in Workers
  BY WorkerType DEF Pcs
<1> QED
  BY <1>1, WorkerFields DEF Finish, Workers

LEMMA GoType ==
  ASSUME w \in Workers, NEW pc \in Pcs, Go(pc)
  PROVE  w' \in Workers
  BY DEF Go, Workers

LEMMA SpendType ==
  ASSUME used \in [DOMAIN Bounds -> Nat], NEW b \in DOMAIN Bounds, Spend(b)
  PROVE  used' \in [DOMAIN Bounds -> Nat]
  BY DEF Spend

LEMMA BoundNames ==
  DOMAIN Bounds = {"turns", "resumes", "crashes", "faults", "inputs"}
  BY DEF Bounds

LEMMA BeginTurnType ==
  ASSUME TypeOK, BeginTurn
  PROVE  /\ w' \in Workers /\ writer' \in Nat /\ nextTurn' \in Nat
         /\ used' \in [DOMAIN Bounds -> Nat]
<1>1. Worker("begin") \in Workers
  BY WorkerType DEF Pcs
<1>2. w' \in Workers
  BY <1>1 DEF BeginTurn, TypeOK, Workers
<1>3. writer' \in Nat
  BY DEF BeginTurn, NewWriter, TypeOK, ExecStates
<1>4. used' \in [DOMAIN Bounds -> Nat]
  BY SpendType, BoundNames DEF BeginTurn, TypeOK
<1> QED
  BY <1>2, <1>3, <1>4 DEF BeginTurn, TypeOK

\* What the writers leave behind has the right type.
LEMMA WriteCheckpointType ==
  ASSUME TypeOK, NEW t \in Nat, NEW n \in Nat, WriteCheckpoint(t, n)
  PROVE  disk' \in ExecStates /\ mem' \in ExecStates /\ lastSeq' \in Nat /\ writer' \in Nat
  BY CheckpointType DEF WriteCheckpoint, TypeOK

LEMMA WriteCallFinishedType ==
  ASSUME TypeOK, NEW t \in Nat, NEW n \in Nat, NEW i \in Nat, NEW result,
         WriteCallFinished(t, n, i, result)
  PROVE  disk' \in ExecStates /\ mem' \in ExecStates /\ lastSeq' \in Nat /\ writer' \in Nat
  BY LoadBaseType, CallFinishedType DEF WriteCallFinished, TypeOK

LEMMA WriteStatusType ==
  ASSUME TypeOK, NEW t \in Nat, NEW status \in Statuses, WriteStatus(t, status)
  PROVE  disk' \in ExecStates /\ mem' \in ExecStates /\ lastSeq' \in Nat /\ writer' \in Nat
  BY LoadBaseType, WithStatusType DEF WriteStatus, TypeOK

LEMMA NextCallType ==
  ASSUME w \in Workers, NextCall
  PROVE  w' \in Workers
<1>1. w.idx + 1 \in Nat /\ "batch" \in Pcs
  BY WorkerFields DEF Pcs
<1> QED
  BY <1>1 DEF NextCall, Workers

LEMMA RunStepType ==
  ASSUME TypeOK, RunStep
  PROVE  TypeOK'
<1> USE WorkerFields DEF Pcs, TurnStatuses
<1>f. ASSUME NEW status \in TurnStatuses, Finish(status) PROVE w' \in Workers
  BY <1>f, FinishType DEF TypeOK
<1>g. ASSUME NEW pc \in Pcs, Go(pc) PROVE w' \in Workers
  BY <1>g, GoType DEF TypeOK
<1>1. CASE Begin
  BY <1>1, <1>g, WriteCheckpointType DEF Begin, TypeOK, control
<1>2. CASE ResumeRun
  <2>1. w' \in Workers
    <3>1. ASSUME w' = [w EXCEPT !.pc = "batch", !.step = w.run.step, !.idx = 1,
                                !.recovering = TRUE]
          PROVE  w' \in Workers
      <4>1. "batch" \in Pcs /\ w \in Workers /\ w.run.step \in Nat
        BY DEF TypeOK
      <4> QED
        BY <3>1, <4>1 DEF Workers
    <3> QED
      BY <1>2, <3>1, <1>f, <1>g DEF ResumeRun
  <2>2. disk' \in ExecStates /\ mem' \in ExecStates /\ lastSeq' \in Nat /\ writer' \in Nat
    BY <1>2, WriteStatusType DEF ResumeRun, TypeOK, journal, Statuses
  <2> QED
    BY <1>2, <2>1, <2>2 DEF ResumeRun, TypeOK, control, history
<1>3. CASE Boundary
  BY <1>3, <1>f, <1>g DEF Boundary, ControlFinish, ApplySteer, TypeOK, journal, control, history
<1>4. CASE StepLimit
  BY <1>4, <1>f DEF StepLimit, TypeOK, journal, control, history
<1>5. CASE RequestModel
  <2>1. w' \in Workers
    <3>1. "model" \in Pcs /\ w \in Workers /\ w.step + 1 \in Nat
      BY DEF TypeOK
    <3> QED
      BY <1>5, <3>1 DEF RequestModel, Workers
  <2> QED
    BY <1>5, <2>1, WriteCheckpointType DEF RequestModel, TypeOK, control, history
<1>6. CASE CompactAndRetry
  <2>1. w' \in Workers
    BY <1>6 DEF CompactAndRetry, TypeOK, Workers
  <2> QED
    BY <1>6, <2>1, WriteCheckpointType DEF CompactAndRetry, TypeOK, control, history
<1>7. CASE ModelCancelled
  BY <1>7, <1>f DEF ModelCancelled, TypeOK, journal, control, history
<1>8. CASE RespondText
  BY <1>8, <1>f, <1>g DEF RespondText, ControlFinish, ApplySteer, TypeOK, journal, control, history
<1>9. CASE TurnError
  BY <1>9, <1>f DEF TurnError, TypeOK, journal, control, history
<1>10. ASSUME NEW n \in 1..MaxCalls, NEW safe \in SUBSET (1..n), RespondTools(n, safe)
       PROVE  TypeOK'
  <2> DEFINE b == [NoBatch EXCEPT !.id = lastSeq, !.turn = w.turn, !.step = w.step,
                                  !.n = n, !.safe = safe]
  <2>1. b \in Batches
    <3>1. lastSeq \in Nat /\ w.turn \in Nat /\ w.step \in Nat /\ n \in Nat /\ safe \in SUBSET Nat
      BY DEF TypeOK
    <3> QED
      BY <3>1 DEF NoBatch, Batches
  <2>2. w' \in Workers
    BY <1>10, <2>1 DEF RespondTools, TypeOK, Workers
  <2>3. disk' \in ExecStates /\ mem' \in ExecStates /\ lastSeq' \in Nat /\ writer' \in Nat
    BY <1>10, <2>1, LoadBaseType, BatchStartedType DEF RespondTools, WriteBatchStarted, TypeOK
  <2> QED
    BY <1>10, <2>2, <2>3 DEF RespondTools, TypeOK, control, history
<1>11. CASE KeepOutcome
  BY <1>11, NextCallType, WriteCallFinishedType DEF KeepOutcome, TypeOK, control, history
<1>12. CASE SkipCall
  BY <1>12, NextCallType, WriteCallFinishedType DEF SkipCall, TypeOK, control, history
<1>13. CASE StartCall
  <2>1. disk' \in ExecStates /\ mem' \in ExecStates /\ lastSeq' \in Nat /\ writer' \in Nat
    BY <1>13, LoadBaseType, CallStartedType DEF StartCall, WriteCallStarted, TypeOK
  <2> QED
    BY <1>13, <2>1, <1>g DEF StartCall, TypeOK, control, history
<1>14. CASE ExecuteCall
  <2>1. w' \in Workers
    <3>1. PICK injects \in {FALSE, ~w.recovering} :
            w' = [w EXCEPT !.pc = "called", !.result = "ran", !.replan = injects]
      BY <1>14 DEF ExecuteCall
    <3>2. injects \in BOOLEAN
      BY DEF TypeOK, Workers
    <3> QED
      BY <3>1, <3>2 DEF TypeOK, Workers
  <2>2. CallId \in Nat \X Nat
    BY DEF CallId, TypeOK
  <2> QED
    BY <1>14, <2>1, <2>2 DEF ExecuteCall, TypeOK, journal, control
<1>15. CASE DeferCall
  <2>1. w' \in Workers
    BY <1>15 DEF DeferCall, TypeOK, Workers
  <2> QED
    BY <1>15, <2>1 DEF DeferCall, TypeOK, journal, control, history
<1>16. CASE FinishCall
  BY <1>16, NextCallType, WriteCallFinishedType DEF FinishCall, TypeOK, control, history
<1>17. CASE SettleBatch
  BY <1>17, <1>g, LoadBaseType DEF SettleBatch, TypeOK, control, history
<1>18. CASE CheckpointBatch
  <2>1. w' \in Workers
    BY <1>18, NoBatchType DEF CheckpointBatch, TypeOK, Workers
  <2> QED
    BY <1>18, <2>1, WriteCheckpointType DEF CheckpointBatch, TypeOK, control, history
<1>19. CASE JournalFailure
  <2>1. w' \in Workers
    <3>1. Finish("Failed") /\ "Failed" \in TurnStatuses
      BY <1>19 DEF JournalFailure, TurnStatuses
    <3> QED
      BY <3>1, <1>f
  <2>2. used' \in [DOMAIN Bounds -> Nat]
    <3>1. Spend("faults") /\ "faults" \in DOMAIN Bounds /\ used \in [DOMAIN Bounds -> Nat]
      BY <1>19, BoundNames DEF JournalFailure, TypeOK
    <3> QED
      BY <3>1, SpendType
  <2>3. UNCHANGED <<journal, turnCount, nextTurn, control, sent, history>>
    BY <1>19 DEF JournalFailure
  <2> QED
    BY <2>1, <2>2, <2>3, ZenonT(60) DEF TypeOK, journal, control, history
<1>20. CASE Persist
  <2>1. w' \in Workers
    <3>1. CASE Go("settle")
      BY <1>g, <3>1
    <3>2. CASE w' = [w EXCEPT !.pc = "settle", !.persisted = TRUE]
      <4>1. w \in Workers
        BY DEF TypeOK
      <4> QED
        BY <3>2, <4>1 DEF Workers
    <3> QED
      BY <1>20, <3>1, <3>2 DEF Persist
  <2>2. used' \in [DOMAIN Bounds -> Nat] /\ turnCount' \in Nat
    BY <1>20, SpendType, BoundNames DEF Persist, TypeOK
  <2> QED
    BY <1>20, <2>1, <2>2 DEF Persist, TypeOK, journal, control, history
<1>21. CASE Settle
  <2>1. \A paused \in BOOLEAN : FinalStatus(paused) \in Statuses
    BY DEF FinalStatus, Statuses
  <2>2. disk' \in ExecStates /\ mem' \in ExecStates /\ lastSeq' \in Nat /\ writer' \in Nat
    BY <1>21, <2>1, WriteStatusType DEF Settle, TypeOK, journal
  <2>3. used' \in [DOMAIN Bounds -> Nat]
    BY <1>21, SpendType, BoundNames DEF Settle, TypeOK
  <2> QED
    BY <1>21, <2>2, <2>3, <1>g DEF Settle, TypeOK, control, history
<1>22. CASE ContinueWithInput
  BY <1>22, BeginTurnType DEF ContinueWithInput, BeginTurn, Pending, TypeOK, history
<1>23. CASE GoIdle
  <2>1. w' \in Workers
    BY <1>23, WorkerType DEF GoIdle
  <2> QED
    BY <1>23, <2>1 DEF GoIdle, Pending, TypeOK, journal, history
<1> QED
  BY <1>1, <1>2, <1>3, <1>4, <1>5, <1>6, <1>7, <1>8, <1>9, <1>10, <1>11, <1>12, <1>13,
     <1>14, <1>15, <1>16, <1>17, <1>18, <1>19, <1>20, <1>21, <1>22, <1>23 DEF RunStep

LEMMA AcceptResumeType ==
  ASSUME TypeOK, NEW r \in Requests, AcceptResume(r)
  PROVE  disk' \in ExecStates /\ mem' \in ExecStates /\ writer' \in Nat
<1>1. mem.turn \in Nat /\ mem.seq \in Nat
  BY DEF TypeOK, ExecStates
<1>2. LoadBase(mem.turn) \in ExecStates
  BY LoadBaseType DEF TypeOK
<1>3. disk' \in ExecStates /\ mem' \in ExecStates
  BY <1>1, <1>2, ResumedType DEF AcceptResume, TypeOK
<1> QED
  BY <1>1, <1>3 DEF AcceptResume, NewWriter

LEMMA ClientStepType ==
  ASSUME TypeOK, StepsPositive, ClientStep
  PROVE  TypeOK'
<1>1. CASE Start
  BY <1>1, BeginTurnType DEF Start, BeginTurn, TypeOK, control, history
<1>2. ASSUME NEW kind \in {"steer", "follow_up"}, QueueInput(kind)
      PROVE  TypeOK'
  BY <1>2, SpendType, BoundNames DEF QueueInput, TypeOK, journal, history
<1>3. CASE RequestCancel
  BY <1>3 DEF RequestCancel, TypeOK, journal, history
<1>4. ASSUME NEW r \in Requests, Resume(r)
      PROVE  TypeOK'
  <2>1. disk' \in ExecStates /\ mem' \in ExecStates /\ writer' \in Nat
    BY <1>4, AcceptResumeType DEF Resume
  <2>2. mem.turn \in Nat /\ mem.step \in Nat /\ mem.step >= 1 /\ mem.batch \in Batches
    BY <1>4 DEF Resume, AcceptResume, TypeOK, ExecStates, StepsPositive
  <2>3. ResumeStep(mem.step) \in Nat /\ SliceLimit(mem.step) \in Nat
    BY <2>2, ConstantsAssumption DEF ResumeStep, SliceLimit
  <2>4. Worker("resume") \in Workers
    BY WorkerType DEF Pcs
  <2>5. w' \in Workers
    BY <1>4, <2>2, <2>3, <2>4 DEF Resume, Workers
  <2>6. used' \in [DOMAIN Bounds -> Nat]
    BY <1>4, SpendType, BoundNames DEF Resume, TypeOK
  <2> QED
    BY <1>4, <2>1, <2>5, <2>6 DEF Resume, TypeOK, control, history
<1>5. ASSUME NEW r \in Requests, AbandonResume(r)
      PROVE  TypeOK'
  BY <1>5, AcceptResumeType, SpendType, BoundNames DEF AbandonResume, TypeOK, control, history
<1> QED
  BY <1>1, <1>2, <1>3, <1>4, <1>5 DEF ClientStep

LEMMA RestType ==
  ASSUME TypeOK, Operate \/ Crash \/ Restart
  PROVE  TypeOK'
<1>1. ASSUME NEW r \in Requests, NEW i \in 1..MaxCalls, NEW d \in Dispositions,
             SendDecision(r, i, d)
      PROVE  TypeOK'
  <2>1. [req |-> r, seq |-> mem.seq, idx |-> i, disposition |-> d] \in Decisions
    BY DEF TypeOK, ExecStates, Decisions
  <2> QED
    BY <1>1, <2>1 DEF SendDecision, TypeOK, journal, control, history
<1>2. ASSUME NEW m \in sent, Reconcile(m)
      PROVE  TypeOK'
  BY <1>2, ReconciledType DEF Reconcile, TypeOK, control, history
<1>3. CASE Crash
  <2>1. w' \in Workers
    BY <1>3, WorkerType DEF Crash, Pcs
  <2>2. used' \in [DOMAIN Bounds -> Nat] /\ turnCount' \in Nat
    BY <1>3, SpendType, BoundNames DEF Crash, TypeOK
  <2> QED
    BY <1>3, <2>1, <2>2, NoStateType DEF Crash, TypeOK, history
<1>4. CASE Restart
  <2>1. RestartStatus \in Statuses /\ disk.turn \in Nat
    BY DEF RestartStatus, TypeOK, ExecStates, Statuses
  <2>2. w' \in Workers
    BY <1>4, WorkerType DEF Restart, Pcs
  <2> QED
    BY <1>4, <2>1, <2>2, WithStatusType DEF Restart, TypeOK, control, history
<1> QED
  BY <1>1, <1>2, <1>3, <1>4 DEF Operate

LEMMA TypeStep ==
  ASSUME TypeOK, StepsPositive, [Next]_vars
  PROVE  TypeOK'
<1>1. CASE UNCHANGED vars
  BY <1>1 DEF vars, TypeOK
<1> QED
  BY <1>1, RunStepType, ClientStepType, RestType DEF Next

LEMMA InitType == Init => TypeOK
<1> SUFFICES ASSUME Init PROVE TypeOK
  OBVIOUS
<1>1. w \in Workers
  BY WorkerType DEF Init, Pcs
<1>2. used \in [DOMAIN Bounds -> Nat]
  BY DEF Init
<1> QED
  BY <1>1, <1>2, NoStateType DEF Init, TypeOK

-----------------------------------------------------------------------------
(* The inductive invariant *)

LEMMA InitInv == Init => Inv
<1> SUFFICES ASSUME Init PROVE Inv
  OBVIOUS
<1>1. w.pc = "idle"
  BY DEF Init, Worker
<1>2. DiskInv /\ EffectInv /\ ReconciliationHasWork
  BY DEF Init, DiskInv, EffectInv, RecoveryMatches, EffectsDurablyKnown, OutcomesTruthful,
         AtMostOnceUnsafe, ReconciliationHasWork, NoState, NoBatch
<1>3. MemoryInv /\ PhaseInv /\ RemainingInv /\ CurrentInv
  BY <1>1 DEF Init, MemoryInv, ReplayAgrees, Active, PhaseInv, RunPcs, BatchPcs,
              RemainingInv, CurrentInv
<1>4. FreshInv /\ DecisionInv
  BY DEF Init, FreshInv, DecisionInv, NoState
<1> QED
  BY <1>2, <1>3, <1>4, InitType DEF Inv

LEMMA InvStepsPositive == Inv => StepsPositive
  BY DEF Inv, DiskInv, MemoryInv, ReplayAgrees, StepsPositive, NoState

\* A step that writes nothing and leaves the run keeps the invariant.
LEMMA QuietStep ==
  ASSUME Inv, TypeOK',
         UNCHANGED <<disk, mem, lastSeq, executed, twice, sent>>,
         w.pc # "down", w'.pc # "down", w'.pc \notin RunPcs,
         w'.pc # "idle" => writer' = NewWriter,
         w'.pc \in {"persist", "settle"} /\ w'.outcome \in {"Completed", "Cancelled"}
           => disk.batch = NoBatch
  PROVE  Inv'
<1>1. DiskInv' /\ EffectInv' /\ ReconciliationHasWork' /\ DecisionInv'
  BY DEF Inv, DiskInv, EffectInv, RecoveryMatches, EffectsDurablyKnown, OutcomesTruthful,
         AtMostOnceUnsafe, ReconciliationHasWork, DecisionInv, Uncertain, Outcomes
<1>2. MemoryInv'
  BY DEF Inv, MemoryInv, ReplayAgrees, Active, NewWriter
<1>3. PhaseInv' /\ RemainingInv' /\ CurrentInv' /\ FreshInv'
  BY DEF Inv, PhaseInv, RemainingInv, CurrentInv, FreshInv, RunPcs, BatchPcs
<1> QED
  BY <1>1, <1>2, <1>3 DEF Inv

\* A step that touches no variable the invariant mentions, except through types.
LEMMA IdleStep ==
  ASSUME Inv, TypeOK', UNCHANGED <<journal, w, executed, twice, sent>>
  PROVE  Inv'
<1>1. DiskInv' /\ EffectInv' /\ ReconciliationHasWork' /\ DecisionInv'
  BY DEF journal, Inv, DiskInv, EffectInv, RecoveryMatches, EffectsDurablyKnown,
         OutcomesTruthful, AtMostOnceUnsafe, ReconciliationHasWork, DecisionInv,
         Uncertain, Outcomes
<1>2. MemoryInv' /\ PhaseInv' /\ FreshInv'
  BY DEF journal, Inv, MemoryInv, ReplayAgrees, Active, NewWriter, PhaseInv, FreshInv
<1>3. RemainingInv' /\ CurrentInv'
  BY DEF journal, Inv, RemainingInv, CurrentInv, CallId, Outcomes
<1> QED
  BY <1>1, <1>2, <1>3 DEF Inv

\* Writing a checkpoint and arriving at the model boundary or at the model.
LEMMA CheckpointStep ==
  ASSUME Inv, TypeOK', NEW t \in Nat, NEW n \in Nat, n >= 1, WriteCheckpoint(t, n),
         UNCHANGED <<executed, twice, sent>>,
         w'.turn = t,
         \/ w'.pc = "boundary" /\ n <= w'.step + 1
         \/ w'.pc = "model" /\ n = w'.step
  PROVE  Inv'
<1> DEFINE s == Checkpoint(t, n, lastSeq + 1)
<1>1. /\ disk' = s /\ mem' = s /\ lastSeq' = lastSeq + 1 /\ writer' = t
      /\ s.turn = t /\ s.step = n /\ s.seq = lastSeq + 1 /\ s.status = "Running"
      /\ s.batch = NoBatch /\ s.reconciled = {} /\ NoBatch.id = 0 /\ NoBatch.n = 0
  BY DEF WriteCheckpoint, Checkpoint, NoBatch
<1>2. lastSeq \in Nat
  BY DEF Inv, TypeOK
<1> HIDE DEF s
<1>3. DiskInv' /\ EffectInv' /\ ReconciliationHasWork'
  BY <1>1, <1>2 DEF Inv, DiskInv, EffectInv, RecoveryMatches, EffectsDurablyKnown,
         OutcomesTruthful, AtMostOnceUnsafe, ReconciliationHasWork
<1>4. MemoryInv'
  BY <1>1 DEF MemoryInv, ReplayAgrees, Active, NewWriter
<1>5. PhaseInv' /\ RemainingInv' /\ CurrentInv'
  BY <1>1 DEF PhaseInv, RemainingInv, CurrentInv, RunPcs, BatchPcs
<1>6. FreshInv'
  BY <1>1, <1>2 DEF Inv, FreshInv, TypeOK
<1>7. DecisionInv'
  <2>1. \A m \in sent : m.seq \in Nat /\ m.seq <= lastSeq
    BY DEF Inv, DecisionInv, TypeOK, Decisions
  <2> QED
    BY <1>1, <1>2, <2>1 DEF DecisionInv
<1> QED
  BY <1>3, <1>4, <1>5, <1>6, <1>7 DEF Inv

\* An entry of the running Turn is loaded on top of the state on disk.
LEMMA LoadBaseOfRun ==
  ASSUME Inv, w.pc \in RunPcs
  PROVE  LoadBase(w.turn) = disk /\ mem = disk
  BY DEF Inv, PhaseInv, MemoryInv, ReplayAgrees, LoadBase, RunPcs

-----------------------------------------------------------------------------
(* Steps that write nothing, or a checkpoint *)

LEMMA ControlSteps ==
  ASSUME Inv, TypeOK',
         Begin \/ Boundary \/ StepLimit \/ RequestModel \/ CompactAndRetry
           \/ ModelCancelled \/ RespondText \/ TurnError \/ JournalFailure
  PROVE  Inv'
<1>w. w \in Workers /\ w.turn \in Nat /\ w.step \in Nat
  BY WorkerFields DEF Inv, TypeOK
<1>f. ASSUME NEW status, Finish(status),
             UNCHANGED <<journal, executed, twice, sent>>,
             w.pc \in RunPcs \cup {"begin"},
             w.pc \in {"boundary", "model"} \/ status = "Failed"
      PROVE  Inv'
  <2>1. w'.pc = "persist" /\ w'.outcome = status
    BY <1>f DEF Finish, Worker
  <2>2. writer' = NewWriter
    BY <1>f DEF Inv, MemoryInv, Active, journal, RunPcs
  <2>3. w'.outcome \in {"Completed", "Cancelled"} => disk.batch = NoBatch
    BY <1>f, <2>1 DEF Inv, PhaseInv
  <2> QED
    BY <1>f, <2>1, <2>2, <2>3, QuietStep DEF journal, RunPcs
<1>s. ASSUME ApplySteer, UNCHANGED <<journal, executed, twice, sent>>,
             w.pc \in {"boundary", "model"}
      PROVE  Inv'
  <2>1. w' = [w EXCEPT !.pc = "boundary"]
    BY <1>s DEF ApplySteer, Go
  <2>2. /\ w'.pc = "boundary" /\ w'.turn = w.turn /\ w'.step = w.step
    BY <2>1, <1>w DEF Workers
  <2>3. DiskInv' /\ EffectInv' /\ ReconciliationHasWork' /\ DecisionInv'
    BY <1>s DEF journal, Inv, DiskInv, EffectInv, RecoveryMatches, EffectsDurablyKnown,
           OutcomesTruthful, AtMostOnceUnsafe, ReconciliationHasWork, DecisionInv,
           Uncertain, Outcomes
  <2>4. MemoryInv'
    BY <1>s, <2>2 DEF journal, Inv, MemoryInv, ReplayAgrees, Active, NewWriter
  <2>5. PhaseInv' /\ RemainingInv' /\ CurrentInv' /\ FreshInv'
    BY <1>s, <1>w, <2>2 DEF journal, Inv, PhaseInv, RemainingInv, CurrentInv, FreshInv,
                            RunPcs, BatchPcs
  <2> QED
    BY <2>3, <2>4, <2>5 DEF Inv
<1>1. CASE Begin
  <2>1. w'.pc = "boundary" /\ w'.turn = w.turn /\ w'.step \in Nat
    BY <1>1, <1>w DEF Begin, Go, Workers
  <2> QED
    BY <1>1, <1>w, <2>1, CheckpointStep DEF Begin
<1>2. CASE Boundary
  <2>1. CASE ControlFinish
    BY <1>2, <2>1, <1>f DEF Boundary, ControlFinish, history, RunPcs
  <2> QED
    BY <1>2, <2>1, <1>s DEF Boundary, history
<1>3. CASE StepLimit
  BY <1>3, <1>f DEF StepLimit, history, RunPcs
<1>4. CASE RequestModel
  <2>1. w'.pc = "model" /\ w'.turn = w.turn /\ w'.step = w.step + 1
    BY <1>4, <1>w DEF RequestModel, Workers
  <2> QED
    BY <1>4, <1>w, <2>1, CheckpointStep DEF RequestModel, history
<1>5. CASE CompactAndRetry
  <2>1. w'.pc = "model" /\ w'.turn = w.turn /\ w'.step = w.step
    BY <1>5, <1>w DEF CompactAndRetry, Workers
  <2>2. w.step >= 1
    BY <1>5 DEF CompactAndRetry, Inv, PhaseInv, DiskInv, RunPcs
  <2> QED
    BY <1>5, <1>w, <2>1, <2>2, CheckpointStep DEF CompactAndRetry, history
<1>6. CASE ModelCancelled
  BY <1>6, <1>f DEF ModelCancelled, history, RunPcs
<1>7. CASE RespondText
  <2>1. CASE ControlFinish
    BY <1>7, <2>1, <1>f DEF RespondText, ControlFinish, history, RunPcs
  <2>2. CASE ApplySteer
    BY <1>7, <2>2, <1>s DEF RespondText, history
  <2> QED
    BY <1>7, <2>1, <2>2, <1>f DEF RespondText, history, RunPcs
<1>8. CASE TurnError
  BY <1>8, <1>f DEF TurnError, history, RunPcs
<1>9. CASE JournalFailure
  BY <1>9, <1>f DEF JournalFailure, history, RunPcs
<1> QED
  BY <1>1, <1>2, <1>3, <1>4, <1>5, <1>6, <1>7, <1>8, <1>9

-----------------------------------------------------------------------------
(* Tool batches *)

\* The state of the log apart from its batch.
Frame ==
  /\ disk'.turn = disk.turn /\ disk'.step = disk.step /\ disk'.seq = disk.seq
  /\ disk'.status = disk.status /\ disk'.reconciled = disk.reconciled
  /\ mem' = disk' /\ lastSeq' = lastSeq /\ writer' = writer

\* The batch apart from what is recorded about its calls.
BatchFrame ==
  /\ disk'.batch.id = disk.batch.id /\ disk'.batch.turn = disk.batch.turn
  /\ disk'.batch.step = disk.batch.step /\ disk'.batch.n = disk.batch.n
  /\ disk'.batch.safe = disk.batch.safe

LEMMA InBatch ==
  ASSUME Inv, w.pc \in BatchPcs
  PROVE  /\ LoadBase(w.run.turn) = disk /\ mem = disk
         /\ OnBatch(disk, w.run.turn, w.run.step)
<1>1. w.pc \in RunPcs /\ w.run.turn = w.turn
  BY DEF Inv, PhaseInv, RunPcs, BatchPcs
<1>2. LoadBase(w.run.turn) = disk /\ mem = disk
  BY <1>1, LoadBaseOfRun
<1> QED
  BY <1>1, <1>2 DEF Inv, PhaseInv, DiskInv, RecoveryMatches, OnBatch

LEMMA FinishedEffect ==
  ASSUME Inv, w.pc \in BatchPcs, NEW result,
         WriteCallFinished(w.run.turn, w.run.step, w.idx, result)
  PROVE  /\ Frame /\ BatchFrame
         /\ disk'.batch.started = disk.batch.started
         /\ disk'.batch.ran = IF result = "ran" THEN disk.batch.ran \cup {w.idx}
                              ELSE disk.batch.ran \ {w.idx}
         /\ disk'.batch.skipped = IF result = "ran" THEN disk.batch.skipped \ {w.idx}
                                  ELSE disk.batch.skipped \cup {w.idx}
<1>1. disk \in ExecStates /\ disk.batch \in Batches
  BY DEF Inv, TypeOK, ExecStates
<1>2. /\ disk' = CallFinished(disk, w.run.turn, w.run.step, w.idx, result)
      /\ mem' = disk' /\ lastSeq' = lastSeq /\ writer' = writer
  BY InBatch DEF WriteCallFinished
<1>3. disk' = [disk EXCEPT !.batch = WithOutcome(disk.batch, w.idx, result)]
  BY <1>2, InBatch DEF CallFinished
<1>4. disk'.batch = WithOutcome(disk.batch, w.idx, result)
  BY <1>1, <1>3 DEF ExecStates
<1>5. Frame
  BY <1>1, <1>2, <1>3 DEF ExecStates, Frame
<1> QED
  BY <1>1, <1>4, <1>5 DEF WithOutcome, Batches, BatchFrame

LEMMA StartedEffect ==
  ASSUME Inv, w.pc \in BatchPcs, WriteCallStarted(w.run.turn, w.run.step, w.idx)
  PROVE  /\ Frame /\ BatchFrame
         /\ disk'.batch.started = disk.batch.started \cup {w.idx}
         /\ disk'.batch.ran = disk.batch.ran /\ disk'.batch.skipped = disk.batch.skipped
<1>1. disk \in ExecStates /\ disk.batch \in Batches
  BY DEF Inv, TypeOK, ExecStates
<1>2. /\ disk' = CallStarted(disk, w.run.turn, w.run.step, w.idx)
      /\ mem' = disk' /\ lastSeq' = lastSeq /\ writer' = writer
  BY InBatch DEF WriteCallStarted
<1>3. disk' = [disk EXCEPT !.batch.started = @ \cup {w.idx}]
  BY <1>2, InBatch DEF CallStarted
<1> QED
  BY <1>1, <1>2, <1>3 DEF ExecStates, Batches, Frame, BatchFrame

\* Within a batch, the parts of the invariant about the state apart from its
\* calls follow from the two frames.
LEMMA FramedStep ==
  ASSUME Inv, w.pc \in BatchPcs, w'.pc \in BatchPcs, Frame, BatchFrame,
         w'.turn = w.turn, w'.run = w.run, w'.idx \in Nat, w'.idx >= w.idx,
         w'.pc \in {"call", "called"} => w'.idx <= w.run.n,
         sent' = sent, executed' = executed \/ executed' = executed \cup {CallId}
  PROVE  /\ DiskInv' /\ MemoryInv' /\ PhaseInv' /\ FreshInv'
         /\ DecisionInv' /\ ReconciliationHasWork'
<1>1. /\ disk.status = "Running" /\ disk.turn = w.turn /\ disk.batch.id # 0
      /\ w.run.id = disk.batch.id /\ w.idx >= 1 /\ w.idx \in Nat
      /\ disk.seq \in Nat /\ lastSeq \in Nat /\ disk.seq >= 1 /\ disk.seq <= lastSeq
      /\ disk.batch.id = disk.seq
  BY WorkerFields DEF Inv, PhaseInv, DiskInv, TypeOK, ExecStates, RunPcs, BatchPcs
<1>2. DiskInv'
  BY <1>1 DEF Inv, DiskInv, RecoveryMatches, Frame, BatchFrame
<1>3. MemoryInv'
  BY <1>1 DEF Inv, MemoryInv, ReplayAgrees, Active, NewWriter, Frame, BatchPcs
<1>4. PhaseInv'
  BY <1>1 DEF Inv, PhaseInv, Frame, BatchFrame, RunPcs, BatchPcs
<1>5. FreshInv'
  <2>1. CallId[1] = disk.seq
    BY <1>1 DEF CallId
  <2> QED
    BY <1>1, <2>1 DEF Inv, FreshInv, Frame, BatchPcs
<1>6. DecisionInv'
  <2>1. \A m \in sent : m.seq = disk.seq => m \in disk.reconciled
    BY <1>1 DEF Inv, DecisionInv
  <2> QED
    BY <2>1 DEF Inv, DecisionInv, Frame
<1>7. ReconciliationHasWork'
  BY <1>1 DEF ReconciliationHasWork, Frame
<1> QED
  BY <1>2, <1>3, <1>4, <1>5, <1>6, <1>7

LEMMA BatchTypes ==
  ASSUME Inv
  PROVE  /\ w \in Workers /\ w.idx \in Nat /\ w.run.n \in Nat /\ w.run.id \in Nat
         /\ disk.batch.n \in Nat /\ disk.batch.id \in Nat
         /\ w.run.ran \in SUBSET Nat /\ w.run.skipped \in SUBSET Nat
         /\ disk.batch.started \in SUBSET Nat
         /\ disk.batch.ran \in SUBSET Nat /\ disk.batch.skipped \in SUBSET Nat
  BY DEF Inv, TypeOK, Workers, ExecStates, Batches

\* An outcome for the current call, then the next call.
LEMMA OutcomeStep ==
  ASSUME Inv, TypeOK', w.pc \in {"batch", "called"}, w.idx <= w.run.n,
         NEW result \in {"ran", "skipped"},
         WriteCallFinished(w.run.turn, w.run.step, w.idx, result), NextCall,
         UNCHANGED <<executed, twice, sent>>,
         result = "ran" <=> CallId \in executed
  PROVE  Inv'
<1> USE BatchTypes
<1>1. /\ w'.pc = "batch" /\ w'.idx = w.idx + 1 /\ w'.run = w.run /\ w'.turn = w.turn
      /\ w'.recovering = w.recovering
  BY DEF NextCall, Workers
<1>2. /\ Frame /\ BatchFrame
      /\ disk'.batch.started = disk.batch.started
      /\ disk'.batch.ran = IF result = "ran" THEN disk.batch.ran \cup {w.idx}
                           ELSE disk.batch.ran \ {w.idx}
      /\ disk'.batch.skipped = IF result = "ran" THEN disk.batch.skipped \ {w.idx}
                               ELSE disk.batch.skipped \cup {w.idx}
  BY FinishedEffect DEF BatchPcs
<1>3. /\ DiskInv' /\ MemoryInv' /\ PhaseInv' /\ FreshInv'
      /\ DecisionInv' /\ ReconciliationHasWork'
  BY <1>1, <1>2, FramedStep DEF BatchPcs
<1>4. disk.batch.id = w.run.id /\ disk.batch.n = w.run.n
  BY DEF Inv, PhaseInv, BatchPcs
<1>5. RemainingInv'
  <2>1. ASSUME NEW j \in 1..w.run.n
        PROVE  IF j < w.idx + 1 THEN j \in Outcomes(disk.batch)'
               ELSE /\ j \in disk'.batch.ran <=> j \in w.run.ran
                    /\ j \in disk'.batch.skipped <=> j \in w.run.skipped
                    /\ \/ j \in Outcomes(w.run)
                       \/ w.recovering /\ j \in w.run.safe
                       \/ <<w.run.id, j>> \notin executed
    <3>1. CASE j = w.idx
      BY <3>1, <1>2 DEF Outcomes
    <3>2. CASE j < w.idx
      BY <3>2, <1>2 DEF Inv, RemainingInv, Outcomes
    <3>3. CASE j > w.idx
      BY <3>3, <1>2 DEF Inv, RemainingInv
    <3> QED
      BY <3>1, <3>2, <3>3
  <2>2. ~w.recovering => Outcomes(w.run) = {}
    BY DEF Inv, RemainingInv
  <2> QED
    BY <1>1, <2>1, <2>2 DEF RemainingInv, Outcomes
<1>6. CurrentInv'
  BY <1>1 DEF CurrentInv
<1>7. EffectInv'
  <2>1. ASSUME NEW i \in 1..disk.batch.n
        PROVE  /\ <<disk.batch.id, i>> \in executed =>
                    i \in disk'.batch.started \cup Outcomes(disk.batch)'
               /\ i \in disk'.batch.ran => <<disk.batch.id, i>> \in executed
               /\ i \in disk'.batch.skipped => <<disk.batch.id, i>> \notin executed
    <3>1. CASE i = w.idx
      BY <3>1, <1>2, <1>4 DEF Outcomes, CallId
    <3>2. CASE i # w.idx
      <4>1. disk.batch.id # 0
        BY DEF Inv, PhaseInv, BatchPcs
      <4> QED
        BY <3>2, <1>2, <4>1 DEF Inv, EffectInv, EffectsDurablyKnown, OutcomesTruthful, Outcomes
    <3> QED
      BY <3>1, <3>2
  <2> QED
    BY <1>2, <2>1 DEF BatchFrame, Inv, EffectInv, EffectsDurablyKnown, OutcomesTruthful,
                      AtMostOnceUnsafe, Outcomes
<1> QED
  BY <1>3, <1>5, <1>6, <1>7 DEF Inv

\* The calls of a batch get their outcomes in order.
LEMMA OutcomeSteps ==
  ASSUME Inv, TypeOK', KeepOutcome \/ SkipCall \/ FinishCall
  PROVE  Inv'
<1>t. w.idx \in Nat /\ w.run.n \in Nat /\ w \in Workers
  BY BatchTypes
<1>0. w.pc \in {"batch", "called"} => disk.batch.id = w.run.id /\ disk.batch.n = w.run.n
  BY DEF Inv, PhaseInv, BatchPcs
<1>1. CASE KeepOutcome
  <2> DEFINE result == IF w.idx \in w.run.ran THEN "ran" ELSE "skipped"
  <2>1. w.idx \in 1..w.run.n /\ w.pc = "batch" /\ w.idx \in Outcomes(w.run)
    BY <1>1, <1>t DEF KeepOutcome, Inv, PhaseInv, BatchPcs
  <2>2. /\ w.idx \in disk.batch.ran <=> w.idx \in w.run.ran
        /\ w.idx \in disk.batch.skipped <=> w.idx \in w.run.skipped
    <3>1. RemainingInv /\ ~(w.idx < w.idx)
      BY <1>t DEF Inv
    <3> QED
      BY <2>1, <3>1 DEF RemainingInv
  <2>3. result = "ran" <=> CallId \in executed
    BY <2>1, <2>2, <1>0 DEF Inv, EffectInv, OutcomesTruthful, CallId, Outcomes
  <2>4. result \in {"ran", "skipped"}
    OBVIOUS
  <2> QED
    BY <1>1, <2>1, <2>3, <2>4, OutcomeStep DEF KeepOutcome, history
<1>2. CASE SkipCall
  <2>1. w.idx \in 1..w.run.n /\ w.pc = "batch" /\ ~w.recovering
    BY <1>2, <1>t DEF SkipCall, Inv, PhaseInv, BatchPcs
  <2>2. CallId \notin executed
    BY <1>t, <2>1 DEF Inv, RemainingInv, CallId
  <2> QED
    BY <1>2, <2>1, <2>2, OutcomeStep DEF SkipCall, history
<1>3. CASE FinishCall
  <2>1. w.pc = "called" /\ w.idx <= w.run.n /\ (w.result = "ran" <=> CallId \in executed)
    BY <1>3 DEF FinishCall, Inv, PhaseInv, CurrentInv
  <2>2. w.result \in {"ran", "skipped"}
    BY <1>t DEF Workers
  <2> QED
    BY <1>3, <2>1, <2>2, OutcomeStep DEF FinishCall, history
<1> QED
  BY <1>1, <1>2, <1>3

\* A new batch has no calls that ran.
LEMMA RespondToolsStep ==
  ASSUME Inv, TypeOK', NEW n \in Nat, NEW safe \in SUBSET Nat, RespondTools(n, safe)
  PROVE  Inv'
<1> DEFINE b == [NoBatch EXCEPT !.id = lastSeq, !.turn = w.turn, !.step = w.step,
                                !.n = n, !.safe = safe]
<1>1. /\ b.id = lastSeq /\ b.turn = w.turn /\ b.step = w.step /\ b.n = n /\ b.safe = safe
      /\ b.started = {} /\ b.ran = {} /\ b.skipped = {}
  BY DEF NoBatch
<1>2. /\ w.pc = "model" /\ WriteBatchStarted(b)
      /\ w' = [w EXCEPT !.pc = "batch", !.run = b, !.idx = 1]
      /\ executed' = executed /\ twice' = twice /\ sent' = sent
  BY DEF RespondTools, history
<1> HIDE DEF b
<1>3. /\ w'.pc = "batch" /\ w'.run = b /\ w'.idx = 1 /\ w'.turn = w.turn
  BY <1>2 DEF Inv, TypeOK, Workers
<1>4. /\ disk.status = "Running" /\ disk.turn = w.turn /\ disk.step = w.step
      /\ disk.seq = lastSeq /\ lastSeq >= 1 /\ lastSeq \in Nat /\ mem = disk
      /\ disk.step >= 1
  BY <1>2 DEF Inv, PhaseInv, DiskInv, MemoryInv, ReplayAgrees, TypeOK, RunPcs
<1>5. LoadBase(b.turn) = disk
  BY <1>1, <1>4 DEF LoadBase
<1>6. disk' = [disk EXCEPT !.batch = b]
  BY <1>2, <1>4, <1>5 DEF WriteBatchStarted, BatchStarted
<1>7. disk'.batch = b /\ Frame
  BY <1>2, <1>4, <1>5, <1>6 DEF Inv, TypeOK, ExecStates, Frame, WriteBatchStarted, BatchStarted
<1>8. DiskInv'
  BY <1>1, <1>4, <1>7 DEF Inv, DiskInv, RecoveryMatches, Frame
<1>9. MemoryInv'
  BY <1>2, <1>3, <1>7 DEF Inv, MemoryInv, ReplayAgrees, Active, NewWriter, Frame
<1>10. PhaseInv'
  BY <1>1, <1>3, <1>4, <1>7 DEF PhaseInv, RunPcs, BatchPcs, Frame
<1>11. \A j \in 1..n : <<b.id, j>> \notin executed
  <2>1. \A c \in executed : c[1] # lastSeq
    BY <1>2 DEF Inv, FreshInv
  <2> QED
    BY <1>1, <2>1
<1>12. RemainingInv'
  <2>1. Outcomes(b) = {}
    BY <1>1 DEF Outcomes
  <2>2. ASSUME NEW j \in 1..n
        PROVE  ~(j < 1)
    OBVIOUS
  <2> QED
    BY <1>1, <1>2, <1>3, <1>7, <1>11, <2>1, <2>2 DEF RemainingInv
<1>13. CurrentInv' /\ FreshInv'
  BY <1>2, <1>3, <1>7 DEF Inv, CurrentInv, FreshInv, Frame
<1>14. EffectInv'
  BY <1>1, <1>2, <1>7, <1>11 DEF Inv, EffectInv, EffectsDurablyKnown, OutcomesTruthful,
                                AtMostOnceUnsafe
<1>15. DecisionInv' /\ ReconciliationHasWork'
  <2>1. \A m \in sent : m.seq = disk.seq => m \in disk.reconciled
    BY <1>4 DEF Inv, DecisionInv
  <2> QED
    BY <1>2, <1>4, <1>7, <2>1 DEF Inv, DecisionInv, ReconciliationHasWork, Frame
<1> QED
  BY <1>8, <1>9, <1>10, <1>12, <1>13, <1>14, <1>15 DEF Inv

\* The current call is journaled as started before its tool is invoked.
LEMMA StartCallStep ==
  ASSUME Inv, TypeOK', StartCall
  PROVE  Inv'
<1>1. /\ w.pc = "batch" /\ w.idx <= w.run.n /\ w.idx \notin Outcomes(w.run)
      /\ w'.pc = "call" /\ w'.idx = w.idx /\ w'.run = w.run /\ w'.turn = w.turn
      /\ w'.recovering = w.recovering /\ w.idx \in Nat
      /\ executed' = executed /\ twice' = twice /\ sent' = sent
  BY BatchTypes DEF StartCall, Go, Workers, history
<1>2. /\ Frame /\ BatchFrame
      /\ disk'.batch.started = disk.batch.started \cup {w.idx}
      /\ disk'.batch.ran = disk.batch.ran /\ disk'.batch.skipped = disk.batch.skipped
  BY <1>1, StartedEffect DEF StartCall, BatchPcs
<1>3. /\ DiskInv' /\ MemoryInv' /\ PhaseInv' /\ FreshInv'
      /\ DecisionInv' /\ ReconciliationHasWork'
  BY <1>1, <1>2, FramedStep DEF BatchPcs
<1>4. RemainingInv'
  <2>1. RemainingInv
    BY DEF Inv
  <2> QED
    BY <1>1, <1>2, <2>1 DEF RemainingInv, Outcomes
<1>5. CurrentInv'
  BY <1>1, <1>2 DEF CurrentInv
<1>6. EffectInv'
  <2>1. EffectInv
    BY DEF Inv
  <2> QED
    BY <1>1, <1>2, <2>1 DEF EffectInv, EffectsDurablyKnown, OutcomesTruthful,
                            AtMostOnceUnsafe, BatchFrame, Outcomes
<1> QED
  BY <1>3, <1>4, <1>5, <1>6 DEF Inv

\* The current call runs, or gets the outcome of one that does not.
LEMMA CalledStep ==
  ASSUME Inv, TypeOK', ExecuteCall \/ DeferCall
  PROVE  Inv'
<1>t. /\ w \in Workers /\ w.idx \in Nat /\ w.run.n \in Nat
      /\ disk.batch.ran \in SUBSET Nat /\ disk.batch.skipped \in SUBSET Nat
  BY BatchTypes
<1>1. w.pc = "call"
  BY DEF ExecuteCall, DeferCall
<1>2. PICK injects \in BOOLEAN, result \in {"ran", "skipped"} :
        /\ w' = [w EXCEPT !.pc = "called", !.result = result, !.replan = injects]
        /\ result = "ran" => ExecuteCall
        /\ result = "skipped" => DeferCall
  <2>1. CASE ExecuteCall
    <3>1. PICK injects \in {FALSE, ~w.recovering} :
            w' = [w EXCEPT !.pc = "called", !.result = "ran", !.replan = injects]
      BY <2>1 DEF ExecuteCall
    <3>2. injects \in BOOLEAN
      OBVIOUS
    <3> QED
      BY <2>1, <3>1, <3>2
  <2>2. CASE DeferCall
    <3>1. w' = [w EXCEPT !.pc = "called", !.result = "skipped", !.replan = w.replan]
      BY <2>2, <1>t DEF DeferCall, Workers
    <3>2. w.replan \in BOOLEAN
      BY <1>t DEF Workers
    <3> QED
      BY <2>2, <3>1, <3>2
  <2> QED
    BY <2>1, <2>2
<1>3. /\ w'.pc = "called" /\ w'.idx = w.idx /\ w'.run = w.run /\ w'.turn = w.turn
      /\ w'.recovering = w.recovering /\ w'.result = result
  BY <1>2, <1>t DEF Workers
<1>4. /\ disk' = disk /\ mem' = mem /\ lastSeq' = lastSeq /\ writer' = writer /\ sent' = sent
  BY DEF ExecuteCall, DeferCall, journal
<1>5. mem = disk
  BY <1>1 DEF Inv, MemoryInv, ReplayAgrees
<1>6. Frame /\ BatchFrame
  BY <1>4, <1>5 DEF Frame, BatchFrame
<1>7. executed' = IF result = "ran" THEN executed \cup {CallId} ELSE executed
  BY <1>2 DEF ExecuteCall, DeferCall, history
<1>8. /\ w.idx >= 1 /\ w.idx <= w.run.n /\ w.idx \in 1..w.run.n
      /\ disk.batch.id = w.run.id /\ disk.batch.n = w.run.n /\ disk.batch.id # 0
      /\ w.idx \in disk.batch.started /\ w.idx \notin Outcomes(w.run)
  BY <1>1, <1>t DEF Inv, PhaseInv, CurrentInv, BatchPcs
<1>9. /\ DiskInv' /\ MemoryInv' /\ PhaseInv' /\ FreshInv'
      /\ DecisionInv' /\ ReconciliationHasWork'
  BY <1>1, <1>3, <1>4, <1>6, <1>7, <1>8, <1>t, FramedStep DEF BatchPcs
<1>10. /\ w.idx \in disk.batch.ran <=> w.idx \in w.run.ran
       /\ w.idx \in disk.batch.skipped <=> w.idx \in w.run.skipped
       /\ \/ w.recovering /\ w.idx \in w.run.safe
          \/ CallId \notin executed
  <2>1. RemainingInv /\ ~(w.idx < w.idx)
    BY <1>t DEF Inv
  <2> QED
    BY <1>1, <1>8, <2>1 DEF RemainingInv, CallId
<1>11. w.idx \notin disk.batch.ran /\ w.idx \notin disk.batch.skipped
  BY <1>8, <1>10 DEF Outcomes
<1>12. RemainingInv'
  <2>1. ASSUME NEW j \in 1..w.run.n
        PROVE  IF j < w.idx THEN j \in Outcomes(disk.batch)
               ELSE /\ j \in disk.batch.ran <=> j \in w.run.ran
                    /\ j \in disk.batch.skipped <=> j \in w.run.skipped
                    /\ \/ j \in Outcomes(w.run)
                       \/ j = w.idx
                       \/ w.recovering /\ j \in w.run.safe
                       \/ <<w.run.id, j>> \notin executed'
    <3>1. CASE j = w.idx
      BY <3>1, <1>t, <1>10
    <3>2. CASE j # w.idx
      <4>1. RemainingInv
        BY DEF Inv
      <4> QED
        BY <3>2, <1>1, <1>7, <4>1 DEF RemainingInv, CallId
    <3> QED
      BY <3>1, <3>2
  <2>2. ~w.recovering => Outcomes(w.run) = {}
    BY <1>1 DEF Inv, RemainingInv
  <2> QED
    BY <1>3, <1>4, <2>1, <2>2 DEF RemainingInv, Outcomes
<1>13. CurrentInv'
  <2>1. result = "skipped" => CallId \notin executed
    BY <1>2, <1>10 DEF DeferCall
  <2>2. CallId' = CallId
    BY <1>3 DEF CallId
  <2> QED
    BY <1>3, <1>4, <1>7, <1>8, <2>1, <2>2 DEF CurrentInv
<1>14. EffectInv'
  <2>1. twice' = {}
    <3>1. twice = {}
      BY DEF Inv, EffectInv, AtMostOnceUnsafe
    <3> QED
      BY <1>10, <3>1 DEF ExecuteCall, DeferCall, history
  <2>2. ASSUME NEW i \in 1..disk.batch.n
        PROVE  /\ <<disk.batch.id, i>> \in executed' =>
                    i \in disk.batch.started \cup Outcomes(disk.batch)
               /\ i \in disk.batch.ran => <<disk.batch.id, i>> \in executed'
               /\ i \in disk.batch.skipped => <<disk.batch.id, i>> \notin executed'
    <3>1. CASE i = w.idx
      BY <3>1, <1>8, <1>11
    <3>2. CASE i # w.idx
      BY <3>2, <1>7, <1>8 DEF Inv, EffectInv, EffectsDurablyKnown, OutcomesTruthful, CallId
    <3> QED
      BY <3>1, <3>2
  <2> QED
    BY <1>4, <2>1, <2>2 DEF EffectInv, EffectsDurablyKnown, OutcomesTruthful,
                            AtMostOnceUnsafe, Outcomes
<1> QED
  BY <1>9, <1>12, <1>13, <1>14 DEF Inv

\* A complete batch is marked, and forgotten by the checkpoint after it.
LEMMA BatchEndSteps ==
  ASSUME Inv, TypeOK', SettleBatch \/ CheckpointBatch
  PROVE  Inv'
<1>t. w \in Workers /\ w.idx \in Nat /\ w.run.n \in Nat /\ w.turn \in Nat
  BY BatchTypes DEF Workers
<1>1. CASE SettleBatch
  <2>1. /\ w.pc = "batch" /\ w.idx > w.run.n
        /\ w'.pc = "batchSettled" /\ w'.idx = w.idx /\ w'.run = w.run /\ w'.turn = w.turn
        /\ executed' = executed /\ twice' = twice /\ sent' = sent
    BY <1>1, <1>t DEF SettleBatch, Go, Workers, history
  <2>2. /\ disk' = disk /\ mem' = disk' /\ lastSeq' = lastSeq /\ writer' = writer
    BY <1>1, <2>1, LoadBaseOfRun DEF SettleBatch, RunPcs
  <2>3. Frame /\ BatchFrame
    BY <2>2 DEF Frame, BatchFrame
  <2>4. /\ DiskInv' /\ MemoryInv' /\ PhaseInv' /\ FreshInv'
        /\ DecisionInv' /\ ReconciliationHasWork'
    BY <1>t, <2>1, <2>3, FramedStep DEF BatchPcs
  <2>5. RemainingInv' /\ EffectInv'
    BY <2>1, <2>2 DEF Inv, RemainingInv, EffectInv, EffectsDurablyKnown, OutcomesTruthful,
                      AtMostOnceUnsafe
  <2>6. CurrentInv'
    <3>1. ASSUME NEW j \in 1..w.run.n
          PROVE  j \in Outcomes(disk.batch)
      <4>1. RemainingInv /\ j < w.idx
        BY <1>t, <2>1 DEF Inv
      <4> QED
        BY <2>1, <4>1 DEF RemainingInv
    <3> QED
      BY <2>1, <2>2, <3>1 DEF CurrentInv
  <2> QED
    BY <2>4, <2>5, <2>6 DEF Inv
<1>2. CASE CheckpointBatch
  <2>1. w.run.step \in Nat
    BY <1>t DEF Workers, Batches
  <2>2. w'.pc = "boundary" /\ w'.turn = w.turn /\ w'.step = w.run.step
    BY <1>2, <1>t DEF CheckpointBatch, Workers
  <2> QED
    BY <1>2, <1>t, <2>1, <2>2, CheckpointStep DEF CheckpointBatch, history
<1> QED
  BY <1>1, <1>2

-----------------------------------------------------------------------------
(* Steps that change the status of the Turn *)

\* While no reconciliation is under way, no decision is waiting to be applied.
LEMMA NothingUndecided ==
  ASSUME Inv, disk.status # "NeedsReconciliation"
  PROVE  \A m \in sent : m.seq = disk.seq => m \in disk.reconciled
  BY DEF Inv, DecisionInv

LEMMA StatusEffect ==
  ASSUME Inv, disk.status # "Absent", NEW status \in Statuses
  PROVE  LET s == WithStatus(disk, disk.turn, status)
         IN /\ s.turn = disk.turn /\ s.step = disk.step /\ s.seq = disk.seq
            /\ s.status = status /\ s.reconciled = disk.reconciled
            /\ s.batch = IF status = "Settled" THEN NoBatch ELSE disk.batch
  BY DEF Inv, TypeOK, ExecStates, WithStatus

\* The Turn is parked or settled, in the log alone or in the log and in memory.
LEMMA StatusStep ==
  ASSUME Inv, TypeOK', NEW status \in Statuses \ {"Absent"},
         disk.status \notin {"Absent", "NeedsReconciliation"} \/ status = disk.status,
         disk.status # "Absent",
         disk' = WithStatus(disk, disk.turn, status), mem' = disk',
         status = "NeedsReconciliation" => Uncertain(disk.batch) # {},
         UNCHANGED <<lastSeq, executed, twice, sent>>,
         w'.pc \notin RunPcs \cup {"down"},
         w'.pc # "idle" => writer' = disk.turn,
         w'.pc \in {"persist", "settle"} => w'.outcome = "Failed"
  PROVE  Inv'
<1>1. /\ disk'.turn = disk.turn /\ disk'.step = disk.step /\ disk'.seq = disk.seq
      /\ disk'.status = status /\ disk'.reconciled = disk.reconciled
      /\ disk'.batch = IF status = "Settled" THEN NoBatch ELSE disk.batch
  BY StatusEffect
<1>2. NoBatch.id = 0 /\ NoBatch.n = 0
  BY DEF NoBatch
<1>3. DiskInv'
  BY <1>1, <1>2 DEF Inv, DiskInv, RecoveryMatches
<1>4. MemoryInv'
  BY <1>1 DEF MemoryInv, ReplayAgrees, Active, NewWriter
<1>5. PhaseInv' /\ RemainingInv' /\ CurrentInv'
  BY DEF PhaseInv, RemainingInv, CurrentInv, RunPcs, BatchPcs
<1>6. FreshInv'
  BY DEF Inv, FreshInv, RunPcs
<1>7. EffectInv'
  <2>1. ASSUME NEW i \in 1..disk'.batch.n, status # "Settled"
        PROVE  disk'.batch = disk.batch
    BY <1>1, <2>1
  <2> QED
    BY <1>1, <1>2, <2>1 DEF Inv, EffectInv, EffectsDurablyKnown, OutcomesTruthful,
                       AtMostOnceUnsafe, Outcomes
<1>8. ReconciliationHasWork'
  BY <1>1 DEF ReconciliationHasWork
<1>9. DecisionInv'
  <2>1. CASE status = disk.status /\ status = "NeedsReconciliation"
    BY <1>1, <2>1 DEF Inv, DecisionInv, Uncertain, Outcomes
  <2>2. CASE disk.status # "NeedsReconciliation"
    BY <1>1, <2>2, NothingUndecided DEF Inv, DecisionInv
  <2> QED
    BY <2>1, <2>2
<1> QED
  BY <1>3, <1>4, <1>5, <1>6, <1>7, <1>8, <1>9 DEF Inv

\* The resumed run continues at the boundary, takes up the batch, or gives up.
LEMMA ResumeRunStep ==
  ASSUME Inv, TypeOK', ResumeRun
  PROVE  Inv'
<1>t. w \in Workers /\ w.turn \in Nat /\ w.step \in Nat /\ w.run.n \in Nat
  BY BatchTypes DEF Workers
<1>1. /\ w.pc = "resume" /\ executed' = executed /\ twice' = twice /\ sent' = sent
      /\ disk.status = "Running" /\ disk.turn = w.turn /\ mem = disk
      /\ w.run = disk.batch /\ disk.step = w.step + 1 /\ writer = disk.turn
  BY DEF ResumeRun, history, Inv, PhaseInv, MemoryInv, ReplayAgrees, RunPcs, Active, NewWriter
<1>b. NoBatch.id = 0
  BY DEF NoBatch
<1>c. ASSUME disk' = disk, mem' = mem, lastSeq' = lastSeq
      PROVE  DiskInv' /\ EffectInv' /\ ReconciliationHasWork' /\ DecisionInv'
  BY <1>1, <1>c DEF Inv, DiskInv, EffectInv, RecoveryMatches, EffectsDurablyKnown,
           OutcomesTruthful, AtMostOnceUnsafe, ReconciliationHasWork, DecisionInv,
           Uncertain, Outcomes
<1>2. CASE w.run.id = 0 /\ Go("boundary") /\ UNCHANGED journal
  <2>1. /\ w'.pc = "boundary" /\ w'.turn = w.turn /\ w'.step = w.step
        /\ disk' = disk /\ mem' = mem /\ lastSeq' = lastSeq /\ writer' = writer
    BY <1>2, <1>t DEF Go, Workers, journal
  <2>2. disk.batch = NoBatch
    BY <1>1, <1>2 DEF Inv, DiskInv
  <2>3. MemoryInv'
    BY <1>1, <2>1 DEF MemoryInv, ReplayAgrees, Active, NewWriter
  <2>4. PhaseInv' /\ RemainingInv' /\ CurrentInv' /\ FreshInv'
    BY <1>1, <1>t, <2>1, <2>2 DEF Inv, PhaseInv, RemainingInv, CurrentInv, FreshInv,
                                  RunPcs, BatchPcs
  <2> QED
    BY <1>c, <2>1, <2>3, <2>4 DEF Inv
<1>3. CASE Finish("Failed") /\ UNCHANGED journal
  <2>1. w'.pc = "persist" /\ w'.outcome = "Failed"
    BY <1>3 DEF Finish, Worker
  <2> QED
    BY <1>1, <1>3, <2>1, QuietStep DEF journal, RunPcs, NewWriter
<1>4. CASE /\ ~Recoverable(w.run) /\ Finish("Failed")
           /\ WriteStatus(w.turn, "NeedsReconciliation")
  <2>1. w'.pc = "persist" /\ w'.outcome = "Failed"
    BY <1>4 DEF Finish, Worker
  <2>2. /\ disk' = WithStatus(disk, disk.turn, "NeedsReconciliation") /\ mem' = disk'
        /\ lastSeq' = lastSeq /\ writer' = writer
    BY <1>1, <1>4, LoadBaseOfRun DEF WriteStatus, RunPcs
  <2>3. Uncertain(disk.batch) # {}
    BY <1>1, <1>4 DEF Recoverable
  <2> QED
    BY <1>1, <2>1, <2>2, <2>3, StatusStep DEF RunPcs, Statuses
<1>5. CASE /\ w.run.id # 0 /\ w.run.turn = w.turn /\ w.run.step = w.step + 1
           /\ Recoverable(w.run) /\ UNCHANGED journal
           /\ w' = [w EXCEPT !.pc = "batch", !.step = w.run.step, !.idx = 1,
                             !.recovering = TRUE]
  <2>1. /\ w'.pc = "batch" /\ w'.turn = w.turn /\ w'.idx = 1 /\ w'.recovering = TRUE
        /\ w'.run = w.run
        /\ disk' = disk /\ mem' = mem /\ lastSeq' = lastSeq /\ writer' = writer
    BY <1>5, <1>t DEF Workers, journal
  <2>2. MemoryInv'
    BY <1>1, <2>1 DEF MemoryInv, ReplayAgrees, Active, NewWriter
  <2>3. PhaseInv' /\ CurrentInv' /\ FreshInv'
    BY <1>1, <1>5, <1>t, <2>1 DEF Inv, PhaseInv, CurrentInv, FreshInv, RunPcs, BatchPcs
  <2>4. RemainingInv'
    <3>1. ASSUME NEW j \in 1..w.run.n
          PROVE  /\ ~(j < 1)
                 /\ \/ j \in Outcomes(w.run)
                    \/ j \in w.run.safe
                    \/ <<w.run.id, j>> \notin executed
      BY <1>1, <1>5 DEF Inv, EffectInv, EffectsDurablyKnown, Recoverable, Uncertain
    <3> QED
      BY <1>1, <2>1, <3>1 DEF RemainingInv
  <2> QED
    BY <1>c, <2>1, <2>2, <2>3, <2>4 DEF Inv
<1> QED
  BY <1>2, <1>3, <1>4, <1>5 DEF ResumeRun

\* The worker records the Turn, settles or parks it, and looks for more input.
LEMMA SettleSteps ==
  ASSUME Inv, TypeOK', Persist \/ Settle \/ GoIdle
  PROVE  Inv'
<1>t. w \in Workers
  BY BatchTypes
<1>1. CASE Persist
  <2>1. /\ w.pc = "persist" /\ w'.pc = "settle" /\ w'.outcome = w.outcome
        /\ UNCHANGED <<journal, executed, twice, sent>>
    BY <1>1, <1>t DEF Persist, Go, Workers, history
  <2>2. writer' = NewWriter
    BY <2>1 DEF Inv, MemoryInv, Active, journal
  <2>3. w'.outcome \in {"Completed", "Cancelled"} => disk.batch = NoBatch
    BY <2>1 DEF Inv, PhaseInv
  <2> QED
    BY <2>1, <2>2, <2>3, QuietStep DEF journal, RunPcs
<1>2. CASE Settle
  <2>1. /\ w.pc = "settle" /\ w'.pc = "continue"
        /\ executed' = executed /\ twice' = twice /\ sent' = sent
        /\ mem = disk /\ writer = NewWriter
    BY <1>2, <1>t DEF Settle, Go, Workers, history, Inv, MemoryInv, ReplayAgrees, Active
  <2>2. CASE UNCHANGED journal
    BY <2>1, <2>2, QuietStep DEF journal, RunPcs
  <2>3. CASE /\ mem.status \notin {"Absent", "NeedsReconciliation"} /\ mem.turn = w.turn
             /\ \E paused \in BOOLEAN : WriteStatus(w.turn, FinalStatus(paused))
    <3>1. PICK paused \in BOOLEAN : WriteStatus(w.turn, FinalStatus(paused))
      BY <2>3
    <3>2. FinalStatus(paused) \in {"Settled", "WaitingForContinue"}
      BY DEF FinalStatus
    <3>3. /\ disk' = WithStatus(disk, disk.turn, FinalStatus(paused)) /\ mem' = disk'
          /\ lastSeq' = lastSeq /\ writer' = disk.turn
      BY <2>1, <2>3, <3>1 DEF WriteStatus, LoadBase, NewWriter
    <3> QED
      BY <2>1, <2>3, <3>2, <3>3, StatusStep DEF Statuses, RunPcs
  <2> QED
    BY <1>2, <2>2, <2>3 DEF Settle
<1>3. CASE GoIdle
  <2>1. /\ w.pc = "continue" /\ w'.pc = "idle"
        /\ UNCHANGED <<journal, executed, twice, sent>>
    BY <1>3 DEF GoIdle, Worker, history
  <2> QED
    BY <2>1, QuietStep DEF journal, RunPcs
<1> QED
  BY <1>1, <1>2, <1>3

-----------------------------------------------------------------------------
(* Clients, operators, crashes *)

LEMMA ClientSteps ==
  ASSUME Inv, TypeOK', NEW kind,
         Start \/ ContinueWithInput \/ QueueInput(kind) \/ RequestCancel
  PROVE  Inv'
<1>1. CASE Start \/ ContinueWithInput
  <2>1. /\ w.pc # "down" /\ w'.pc = "begin" /\ writer' = NewWriter
        /\ UNCHANGED <<disk, mem, lastSeq, executed, twice, sent>>
    BY <1>1 DEF Start, ContinueWithInput, BeginTurn, Worker, history
  <2> QED
    BY <2>1, QuietStep DEF RunPcs
<1>2. CASE QueueInput(kind) \/ RequestCancel
  BY <1>2, IdleStep DEF QueueInput, RequestCancel, history
<1> QED
  BY <1>1, <1>2

\* An accepted resumption marks the Turn as running again.
LEMMA ResumeSteps ==
  ASSUME Inv, TypeOK', NEW r, Resume(r) \/ AbandonResume(r)
  PROVE  Inv'
<1>1. /\ AcceptResume(r) /\ w.pc = "idle" /\ lastSeq' = lastSeq
      /\ executed' = executed /\ twice' = twice /\ sent' = sent
  BY DEF Resume, AbandonResume, AcceptResume, history
<1>2. mem = disk /\ disk.status = "WaitingForContinue"
  BY <1>1 DEF AcceptResume, Inv, MemoryInv, ReplayAgrees
<1>3. /\ disk' = [disk EXCEPT !.status = "Running", !.resumes = @ \cup {<<r, disk.seq>>}]
      /\ mem' = disk' /\ writer' = disk.turn
  BY <1>1, <1>2 DEF AcceptResume, LoadBase, Resumed, NewWriter
<1>4. /\ disk'.turn = disk.turn /\ disk'.step = disk.step /\ disk'.seq = disk.seq
      /\ disk'.status = "Running" /\ disk'.reconciled = disk.reconciled
      /\ disk'.batch = disk.batch /\ disk.step \in Nat
  BY <1>3 DEF Inv, TypeOK, ExecStates
<1>5. DiskInv' /\ EffectInv' /\ ReconciliationHasWork'
  BY <1>1, <1>2, <1>4 DEF Inv, DiskInv, EffectInv, RecoveryMatches, EffectsDurablyKnown,
         OutcomesTruthful, AtMostOnceUnsafe, ReconciliationHasWork, Outcomes
<1>6. DecisionInv'
  BY <1>1, <1>2, <1>4, NothingUndecided DEF Inv, DecisionInv
<1>7. CASE Resume(r)
  <2>1. /\ w'.pc = "resume" /\ w'.turn = disk.turn /\ w'.run = disk.batch
        /\ w'.step = disk.step - 1
    BY <1>2, <1>7 DEF Resume, Worker, ResumeStep
  <2>2. disk.step = (disk.step - 1) + 1
    BY <1>4
  <2>3. MemoryInv' /\ PhaseInv'
    BY <1>3, <1>4, <2>1, <2>2 DEF MemoryInv, ReplayAgrees, Active, NewWriter, PhaseInv,
                                  RunPcs, BatchPcs
  <2>4. RemainingInv' /\ CurrentInv' /\ FreshInv'
    BY <1>1, <2>1 DEF Inv, RemainingInv, CurrentInv, FreshInv
  <2> QED
    BY <1>5, <1>6, <2>3, <2>4 DEF Inv
<1>8. CASE AbandonResume(r)
  <2>1. w'.pc = "idle"
    BY <1>1, <1>8 DEF AbandonResume
  <2>2. MemoryInv' /\ PhaseInv'
    BY <1>3, <2>1 DEF MemoryInv, ReplayAgrees, Active, PhaseInv, RunPcs, BatchPcs
  <2>3. RemainingInv' /\ CurrentInv' /\ FreshInv'
    BY <1>1, <2>1 DEF Inv, RemainingInv, CurrentInv, FreshInv
  <2> QED
    BY <1>5, <1>6, <2>2, <2>3 DEF Inv
<1> QED
  BY <1>7, <1>8

LEMMA CrashRestartSteps ==
  ASSUME Inv, TypeOK', Crash \/ Restart
  PROVE  Inv'
<1>1. CASE Crash
  <2>1. /\ w.pc # "down" /\ w'.pc = "down" /\ mem' = NoState
        /\ UNCHANGED <<disk, lastSeq, executed, twice, sent>>
    BY <1>1 DEF Crash, Worker, history
  <2>2. DiskInv' /\ EffectInv' /\ ReconciliationHasWork' /\ DecisionInv'
    BY <2>1 DEF Inv, DiskInv, EffectInv, RecoveryMatches, EffectsDurablyKnown,
           OutcomesTruthful, AtMostOnceUnsafe, ReconciliationHasWork, DecisionInv,
           Uncertain, Outcomes
  <2>3. MemoryInv' /\ PhaseInv' /\ RemainingInv' /\ CurrentInv' /\ FreshInv'
    BY <2>1 DEF Inv, MemoryInv, ReplayAgrees, Active, PhaseInv, RemainingInv, CurrentInv,
                FreshInv, RunPcs, BatchPcs
  <2> QED
    BY <2>2, <2>3 DEF Inv
<1>2. CASE Restart
  <2>1. /\ w.pc = "down" /\ w'.pc = "idle" /\ mem' = disk'
        /\ disk' = WithStatus(disk, disk.turn, RestartStatus)
        /\ UNCHANGED <<lastSeq, executed, twice, sent>>
    BY <1>2 DEF Restart, Worker, history
  <2>2. CASE disk.status = "Absent"
    <3>1. disk' = disk
      BY <2>1, <2>2 DEF WithStatus
    <3>2. DiskInv' /\ EffectInv' /\ ReconciliationHasWork' /\ DecisionInv'
      BY <2>1, <3>1 DEF Inv, DiskInv, EffectInv, RecoveryMatches, EffectsDurablyKnown,
             OutcomesTruthful, AtMostOnceUnsafe, ReconciliationHasWork, DecisionInv,
             Uncertain, Outcomes
    <3>3. MemoryInv' /\ PhaseInv' /\ RemainingInv' /\ CurrentInv' /\ FreshInv'
      BY <2>1 DEF Inv, MemoryInv, ReplayAgrees, Active, PhaseInv, RemainingInv, CurrentInv,
                  FreshInv, RunPcs, BatchPcs
    <3> QED
      BY <3>2, <3>3 DEF Inv
  <2>3. CASE disk.status # "Absent"
    <3>1. RestartStatus \in Statuses \ {"Absent"}
      BY <2>3 DEF RestartStatus, Statuses, Inv, TypeOK, ExecStates
    <3>2. RestartStatus = "NeedsReconciliation" => Uncertain(disk.batch) # {}
      BY DEF RestartStatus, Inv, ReconciliationHasWork
    <3>3. disk.status \notin {"Absent", "NeedsReconciliation"} \/ RestartStatus = disk.status
      BY <2>3 DEF RestartStatus
    <3> QED
      BY <2>1, <2>3, <3>1, <3>2, <3>3, StatusStep DEF RunPcs
  <2> QED
    BY <2>2, <2>3
<1> QED
  BY <1>1, <1>2

\* A decision is sent about a call that no pending decision is about.
LEMMA SendDecisionStep ==
  ASSUME Inv, TypeOK', NEW r, NEW i, NEW d, SendDecision(r, i, d)
  PROVE  Inv'
<1> DEFINE m0 == [req |-> r, seq |-> mem.seq, idx |-> i, disposition |-> d]
<1>1. /\ mem.status = "NeedsReconciliation" /\ i \in Uncertain(mem.batch)
      /\ \A m \in sent : m.seq = mem.seq /\ m.idx = i => m \in mem.reconciled
      /\ d = IF <<mem.batch.id, i>> \in executed THEN "Completed" ELSE "NotExecuted"
      /\ sent' = sent \cup {m0}
      /\ UNCHANGED <<journal, w, executed, twice>>
  BY DEF SendDecision, history
<1>2. w.pc # "down" /\ mem = disk
  BY <1>1 DEF Inv, MemoryInv, ReplayAgrees, NoState
<1>3. m0.seq = disk.seq /\ m0.idx = i /\ m0.disposition = d /\ disk.seq <= lastSeq
  BY <1>2 DEF Inv, DiskInv
<1> HIDE DEF m0
<1>4. DiskInv' /\ EffectInv' /\ ReconciliationHasWork' /\ MemoryInv' /\ PhaseInv' /\ FreshInv'
  BY <1>1 DEF journal, Inv, DiskInv, EffectInv, RecoveryMatches, EffectsDurablyKnown,
         OutcomesTruthful, AtMostOnceUnsafe, ReconciliationHasWork,
         Uncertain, Outcomes, MemoryInv, ReplayAgrees, Active, NewWriter, PhaseInv, FreshInv
<1>5. RemainingInv' /\ CurrentInv'
  BY <1>1 DEF journal, Inv, RemainingInv, CurrentInv, CallId, Outcomes
<1>6. DecisionInv'
  <2>1. disk' = disk /\ lastSeq' = lastSeq /\ executed' = executed
    BY <1>1 DEF journal
  <2>2. disk.reconciled \subseteq sent'
    BY <1>1 DEF Inv, DecisionInv
  <2>3. ASSUME NEW m \in sent'
        PROVE  /\ m.seq <= lastSeq
               /\ m.seq = disk.seq /\ m \notin disk.reconciled =>
                    /\ disk.status = "NeedsReconciliation"
                    /\ m.idx \in Uncertain(disk.batch)
                    /\ m.disposition = "Completed" <=> <<disk.batch.id, m.idx>> \in executed
    <3>1. CASE m = m0
      BY <1>1, <1>2, <1>3, <3>1
    <3>2. CASE m \in sent
      BY <3>2 DEF Inv, DecisionInv
    <3> QED
      BY <1>1, <3>1, <3>2
  <2>4. ASSUME NEW m \in sent', NEW n \in sent'
        PROVE  \/ n = m \/ n.seq # m.seq \/ n.idx # m.idx
               \/ m.seq = disk.seq => n \in disk.reconciled \/ m \in disk.reconciled
    <3>1. CASE m \in sent /\ n \in sent
      BY <3>1 DEF Inv, DecisionInv
    <3>2. CASE m = m0 /\ n \in sent
      BY <3>2, <1>1, <1>2, <1>3
    <3>3. CASE m \in sent /\ n = m0
      BY <3>3, <1>1, <1>2, <1>3
    <3> QED
      BY <1>1, <3>1, <3>2, <3>3
  <2> QED
    BY <2>1, <2>2, <2>3, <2>4 DEF DecisionInv, Uncertain, Outcomes
<1> QED
  BY <1>4, <1>5, <1>6 DEF Inv

\* Applying a decision: the call leaves the uncertain ones, the others stay.
LEMMA ReconcileStep ==
  ASSUME Inv, TypeOK', NEW m \in sent, Reconcile(m)
  PROVE  Inv'
<1> DEFINE b == Decided(disk.batch, m.idx, m.disposition)
<1>1. /\ w.pc = "idle" /\ UNCHANGED <<lastSeq, writer, w, executed, twice, sent>>
      /\ mem = disk
  BY DEF Reconcile, history, Inv, MemoryInv, ReplayAgrees
<1>2. /\ Undecided(m) /\ m.seq = disk.seq /\ disk.status = "NeedsReconciliation"
      /\ m.idx \in Uncertain(disk.batch)
      /\ disk' = Reconciled(disk, m) /\ mem' = disk'
  BY <1>1 DEF Reconcile
<1>3. m \notin disk.reconciled
  BY <1>1, <1>2 DEF Undecided
<1>4. m.disposition = "Completed" <=> <<disk.batch.id, m.idx>> \in executed
  BY <1>2, <1>3 DEF Inv, DecisionInv
<1>5. disk \in ExecStates /\ disk.batch \in Batches
  BY DEF Inv, TypeOK, ExecStates
<1>6. /\ b.id = disk.batch.id /\ b.turn = disk.batch.turn /\ b.step = disk.batch.step
      /\ b.n = disk.batch.n /\ b.safe = disk.batch.safe
      /\ b.started = IF m.disposition = "Completed" THEN disk.batch.started
                     ELSE disk.batch.started \ {m.idx}
      /\ b.ran = IF m.disposition = "Completed" THEN disk.batch.ran \cup {m.idx}
                 ELSE disk.batch.ran \ {m.idx}
      /\ b.skipped = IF m.disposition = "Completed" THEN disk.batch.skipped
                     ELSE disk.batch.skipped \ {m.idx}
  BY <1>5 DEF Decided, Batches
<1>7. /\ disk'.turn = disk.turn /\ disk'.step = disk.step /\ disk'.seq = disk.seq
      /\ disk'.batch = b /\ disk'.reconciled = disk.reconciled \cup {m}
      /\ disk'.status = IF Uncertain(b) # {} THEN "NeedsReconciliation" ELSE "WaitingForContinue"
  BY <1>2, <1>5 DEF Reconciled, ExecStates
<1>8. m.idx \in disk.batch.started /\ m.idx \notin disk.batch.ran /\ m.idx \notin disk.batch.skipped
  BY <1>2 DEF Uncertain, Outcomes
<1> HIDE DEF b
<1>9. Uncertain(b) = Uncertain(disk.batch) \ {m.idx}
  BY <1>6, <1>8 DEF Uncertain, Outcomes
<1>10. disk.batch.id # 0
  <2>1. NoBatch.started = {}
    BY DEF NoBatch
  <2> QED
    BY <1>8, <2>1 DEF Inv, DiskInv
<1>11. DiskInv'
  BY <1>1, <1>2, <1>6, <1>7, <1>10 DEF Inv, DiskInv, RecoveryMatches
<1>12. MemoryInv' /\ PhaseInv' /\ RemainingInv' /\ CurrentInv' /\ FreshInv'
  BY <1>1, <1>2 DEF Inv, MemoryInv, ReplayAgrees, Active, PhaseInv, RemainingInv, CurrentInv,
                    FreshInv, RunPcs, BatchPcs
<1>13. EffectInv'
  <2>1. ASSUME NEW i \in 1..disk.batch.n
        PROVE  /\ <<disk.batch.id, i>> \in executed => i \in b.started \cup Outcomes(b)
               /\ i \in b.ran => <<disk.batch.id, i>> \in executed
               /\ i \in b.skipped => <<disk.batch.id, i>> \notin executed
    <3>1. CASE i = m.idx
      BY <1>4, <1>6, <1>8, <3>1 DEF Outcomes
    <3>2. CASE i # m.idx
      BY <1>6, <1>10, <3>2 DEF Inv, EffectInv, EffectsDurablyKnown, OutcomesTruthful, Outcomes
    <3> QED
      BY <3>1, <3>2
  <2> QED
    BY <1>1, <1>6, <1>7, <2>1 DEF Inv, EffectInv, EffectsDurablyKnown, OutcomesTruthful,
                                  AtMostOnceUnsafe, Outcomes
<1>14. DecisionInv'
  <2>1. disk'.reconciled \subseteq sent
    BY <1>7 DEF Inv, DecisionInv
  <2>2. ASSUME NEW x \in sent
        PROVE  /\ x.seq <= lastSeq
               /\ x.seq = disk.seq /\ x \notin disk'.reconciled =>
                    /\ disk'.status = "NeedsReconciliation"
                    /\ x.idx \in Uncertain(b)
                    /\ x.disposition = "Completed" <=> <<disk.batch.id, x.idx>> \in executed
    <3>1. x.seq <= lastSeq
      BY DEF Inv, DecisionInv
    <3>2. ASSUME x.seq = disk.seq, x \notin disk'.reconciled
          PROVE  /\ x.idx \in Uncertain(b)
                 /\ x.disposition = "Completed" <=> <<disk.batch.id, x.idx>> \in executed
      <4>1. x \notin disk.reconciled /\ x # m
        BY <1>7, <3>2
      <4>2. x.idx # m.idx
        BY <1>2, <1>3, <3>2, <4>1 DEF Inv, DecisionInv
      <4> QED
        BY <1>9, <3>2, <4>1, <4>2 DEF Inv, DecisionInv
    <3> QED
      BY <1>7, <3>1, <3>2
  <2>3. ASSUME NEW x \in sent, NEW y \in sent
        PROVE  \/ y = x \/ y.seq # x.seq \/ y.idx # x.idx
               \/ x.seq = disk.seq => y \in disk'.reconciled \/ x \in disk'.reconciled
    BY <1>7 DEF Inv, DecisionInv
  <2> QED
    BY <1>1, <1>6, <1>7, <2>1, <2>2, <2>3 DEF DecisionInv, Uncertain, Outcomes
<1>15. ReconciliationHasWork'
  <2>1. disk'.status = "NeedsReconciliation" => Uncertain(disk'.batch) # {}
    BY <1>7
  <2> QED
    BY <2>1 DEF ReconciliationHasWork, Uncertain, Outcomes
<1> QED
  BY <1>11, <1>12, <1>13, <1>14, <1>15 DEF Inv

-----------------------------------------------------------------------------
(* The invariant of the specification *)

LEMMA InvStep == Inv /\ [Next]_vars => Inv'
<1> SUFFICES ASSUME Inv, [Next]_vars
             PROVE  Inv'
  OBVIOUS
<1>t. TypeOK'
  BY InvStepsPositive, TypeStep DEF Inv
<1>1. CASE RunStep
  <2>1. CASE \E n \in 1..MaxCalls : \E safe \in SUBSET (1..n) : RespondTools(n, safe)
    <3>0. PICK n \in 1..MaxCalls : \E safe \in SUBSET (1..n) : RespondTools(n, safe)
      BY <2>1
    <3>1. PICK safe \in SUBSET (1..n) : RespondTools(n, safe)
      BY <3>0
    <3>2. n \in Nat /\ safe \in SUBSET Nat
      BY ConstantsAssumption
    <3> QED
      BY <1>t, <3>1, <3>2, RespondToolsStep
  <2> QED
    BY <1>1, <1>t, <2>1, ControlSteps, OutcomeSteps, StartCallStep, CalledStep, BatchEndSteps,
       ResumeRunStep, SettleSteps, ClientSteps DEF RunStep
<1>2. CASE ClientStep
  BY <1>2, <1>t, ClientSteps, ResumeSteps DEF ClientStep
<1>3. CASE Operate
  BY <1>3, <1>t, SendDecisionStep, ReconcileStep DEF Operate
<1>4. CASE Crash \/ Restart
  BY <1>4, <1>t, CrashRestartSteps
<1>5. CASE UNCHANGED vars
  BY <1>5, <1>t, IdleStep DEF vars, journal
<1> QED
  BY <1>1, <1>2, <1>3, <1>4, <1>5 DEF Next

\* The inductive invariant holds in every reachable state.
THEOREM InvHolds == Spec => []Inv
  BY InitInv, InvStep, PTL DEF Spec

\* Every variable of the journal and the worker keeps its type, whatever the
\* number of requests, steps, calls, crashes and failed writes.
THEOREM TypeCorrect == Spec => []TypeOK
<1>1. Inv => TypeOK
  BY DEF Inv
<1> QED
  BY <1>1, InvHolds, PTL

\* Replaying the Session log rebuilds the state held in memory.
THEOREM ReplayCorrect == Spec => []ReplayAgrees
<1>1. Inv => ReplayAgrees
  BY DEF Inv, MemoryInv
<1> QED
  BY <1>1, InvHolds, PTL

\* A tool that is not replay safe runs at most once for each call.
THEOREM UnsafeAtMostOnce == Spec => []AtMostOnceUnsafe
<1>1. Inv => AtMostOnceUnsafe
  BY DEF Inv, EffectInv
<1> QED
  BY <1>1, InvHolds, PTL

\* What the log says about calls is true.
THEOREM LogTellsTheTruth == Spec => []OutcomesTruthful
<1>1. Inv => OutcomesTruthful
  BY DEF Inv, EffectInv
<1> QED
  BY <1>1, InvHolds, PTL

\* A call that may have changed the world is on disk as started or finished
\* before a crash can hide it.
THEOREM EffectsKnown == Spec => []EffectsDurablyKnown
<1>1. Inv => EffectsDurablyKnown
  BY DEF Inv, EffectInv
<1> QED
  BY <1>1, InvHolds, PTL

\* A pending batch always passes the identity test of the run that resumes it.
THEOREM RecoveryNeverMismatches == Spec => []RecoveryMatches
<1>1. Inv => RecoveryMatches
  BY DEF Inv, DiskInv
<1> QED
  BY <1>1, InvHolds, PTL

\* A Turn in reconciliation always has a call an operator can decide.
THEOREM ReconciliationNeverStuck == Spec => []ReconciliationHasWork
<1>1. Inv => ReconciliationHasWork
  BY DEF Inv
<1> QED
  BY <1>1, InvHolds, PTL

-----------------------------------------------------------------------------
(* Action properties *)

\* Only four steps write a checkpoint, and no other drops a pending batch.
LEMMA CheckpointWriters ==
  ASSUME Inv, Next, ~(Begin \/ RequestModel \/ CompactAndRetry \/ CheckpointBatch)
  PROVE  /\ disk'.seq = disk.seq
         /\ disk.batch.id # 0 => disk'.batch.id = disk.batch.id
<1>t. disk \in ExecStates /\ disk.batch \in Batches /\ NoBatch.id = 0
  BY DEF Inv, TypeOK, ExecStates, NoBatch
<1>1. CASE disk' = disk
  BY <1>1
<1>2. CASE KeepOutcome \/ SkipCall \/ FinishCall
  <2>1. w.pc \in BatchPcs
    BY <1>2 DEF KeepOutcome, SkipCall, FinishCall, BatchPcs
  <2>2. PICK result : WriteCallFinished(w.run.turn, w.run.step, w.idx, result)
    BY <1>2 DEF KeepOutcome, SkipCall, FinishCall
  <2> QED
    BY <2>1, <2>2, FinishedEffect DEF Frame, BatchFrame
<1>3. CASE StartCall
  BY <1>3, StartedEffect DEF StartCall, BatchPcs, Frame, BatchFrame
<1>4. CASE \E n \in 1..MaxCalls : \E safe \in SUBSET (1..n) : RespondTools(n, safe)
  <2>1. PICK b : WriteBatchStarted(b) /\ b.turn = w.turn /\ w.pc = "model"
    BY <1>4 DEF RespondTools, NoBatch
  <2>2. LoadBase(b.turn) = disk
    BY <2>1, LoadBaseOfRun DEF RunPcs
  <2> QED
    BY <1>t, <2>1, <2>2 DEF WriteBatchStarted, BatchStarted, ExecStates, Inv, PhaseInv
<1>5. CASE SettleBatch
  BY <1>5, LoadBaseOfRun DEF SettleBatch, RunPcs
<1>6. CASE ResumeRun
  <2>1. LoadBase(w.turn) = disk
    BY <1>6, LoadBaseOfRun DEF ResumeRun, RunPcs
  <2> QED
    BY <1>6, <1>t, <2>1 DEF ResumeRun, WriteStatus, WithStatus, ExecStates, journal
<1>7. CASE Settle
  <2>1. mem = disk
    BY <1>7 DEF Settle, Inv, MemoryInv, ReplayAgrees
  <2>2. mem.turn = w.turn => LoadBase(w.turn) = disk
    BY <2>1 DEF LoadBase
  <2>3. \A paused : FinalStatus(paused) = "Settled" => disk.batch = NoBatch
    BY <1>7 DEF Settle, FinalStatus, Inv, PhaseInv
  <2>4. CASE disk' = disk
    BY <2>4
  <2>5. ASSUME NEW paused, mem.turn = w.turn, WriteStatus(w.turn, FinalStatus(paused))
        PROVE  /\ disk'.seq = disk.seq
               /\ disk.batch.id # 0 => disk'.batch.id = disk.batch.id
    BY <1>t, <2>2, <2>3, <2>5 DEF WriteStatus, WithStatus, ExecStates
  <2> QED
    BY <1>7, <2>4, <2>5 DEF Settle, journal
<1>8. CASE \E r \in Requests : Resume(r) \/ AbandonResume(r)
  <2>1. PICK r : AcceptResume(r)
    BY <1>8 DEF Resume, AbandonResume
  <2>2. mem = disk
    BY <2>1 DEF AcceptResume, Inv, MemoryInv, ReplayAgrees
  <2> QED
    BY <1>t, <2>1, <2>2 DEF AcceptResume, LoadBase, Resumed, ExecStates
<1>9. CASE \E m \in sent : Reconcile(m)
  <2>1. PICK m \in sent : Reconcile(m)
    BY <1>9
  <2>2. Decided(disk.batch, m.idx, m.disposition).id = disk.batch.id
    BY <1>t DEF Decided, Batches
  <2> QED
    BY <1>t, <2>1, <2>2 DEF Reconcile, Reconciled, ExecStates
<1>10. CASE Restart
  <2>1. RestartStatus = "Settled" => disk.batch = NoBatch
    BY DEF RestartStatus, Inv, DiskInv
  <2> QED
    BY <1>10, <1>t, <2>1 DEF Restart, WithStatus, ExecStates
<1>11. CASE \/ Boundary \/ StepLimit \/ ModelCancelled \/ RespondText \/ TurnError
            \/ ExecuteCall \/ DeferCall \/ JournalFailure \/ Persist
            \/ ContinueWithInput \/ GoIdle
  BY <1>11 DEF Boundary, StepLimit, ModelCancelled, RespondText, TurnError, ExecuteCall,
       DeferCall, JournalFailure, Persist, ContinueWithInput, BeginTurn, GoIdle, journal
<1>12. CASE \/ Start \/ RequestCancel \/ Crash
            \/ \E kind \in {"steer", "follow_up"} : QueueInput(kind)
            \/ \E r \in Requests, i \in 1..MaxCalls, d \in Dispositions : SendDecision(r, i, d)
  BY <1>12 DEF Start, BeginTurn, RequestCancel, Crash, QueueInput, SendDecision, journal
<1> QED
  BY <1>2, <1>3, <1>4, <1>5, <1>6, <1>7, <1>8, <1>9, <1>10, <1>11, <1>12
     DEF Next, RunStep, ClientStep, Operate

\* Within a logical Turn, recovery included, model steps never go back: the
\* checkpoint a resumption starts from is the latest one.
THEOREM StepsMonotonic == Spec => StepsNeverGoBack
<1>1. ASSUME Inv, Next, disk.status # "Absent", disk'.seq # disk.seq, w.pc # "begin"
      PROVE  disk'.turn = disk.turn /\ disk'.step >= disk.step
  <2>t. w \in Workers /\ w.step \in Nat /\ disk.step \in Nat
    BY <1>1 DEF Inv, TypeOK, Workers, ExecStates
  <2>1. RequestModel \/ CompactAndRetry \/ CheckpointBatch
    BY <1>1, CheckpointWriters DEF Begin
  <2>2. disk.turn = w.turn
    BY <1>1, <2>1 DEF Inv, PhaseInv, RunPcs, RequestModel, CompactAndRetry, CheckpointBatch
  <2>3. CASE RequestModel
    BY <1>1, <2>t, <2>2, <2>3 DEF RequestModel, WriteCheckpoint, Checkpoint, Inv, PhaseInv
  <2>4. CASE CompactAndRetry
    BY <1>1, <2>t, <2>2, <2>4 DEF CompactAndRetry, WriteCheckpoint, Checkpoint, Inv, PhaseInv
  <2>5. CASE CheckpointBatch
    BY <1>1, <2>t, <2>2, <2>5 DEF CheckpointBatch, WriteCheckpoint, Checkpoint, Inv, PhaseInv,
                                  BatchPcs
  <2> QED
    BY <2>1, <2>3, <2>4, <2>5
<1>2. Inv /\ [Next]_vars =>
        [disk.status # "Absent" /\ disk'.seq # disk.seq /\ w.pc # "begin"
           => disk'.turn = disk.turn /\ disk'.step >= disk.step]_vars
  BY <1>1
<1> QED
  BY <1>2, InvHolds, PTL DEF Spec, StepsNeverGoBack

\* A tool batch stays in the log until all its calls have an outcome or a new
\* Turn begins: settling, parking, compacting and restarting never drop it.
THEOREM BatchNeverDropped == Spec => BatchKeptUntilComplete
<1>1. ASSUME Inv, Next, disk.batch.id # 0, disk'.batch.id # disk.batch.id, w.pc # "begin"
      PROVE  1..disk.batch.n \subseteq Outcomes(disk.batch)
  <2>1. RequestModel \/ CompactAndRetry \/ CheckpointBatch
    BY <1>1, CheckpointWriters DEF Begin
  <2>2. w.pc \notin {"boundary", "model"}
    BY <1>1 DEF Inv, PhaseInv, NoBatch
  <2>3. w.pc = "batchSettled"
    BY <2>1, <2>2 DEF RequestModel, CompactAndRetry, CheckpointBatch
  <2> QED
    BY <1>1, <2>3 DEF Inv, PhaseInv, CurrentInv, BatchPcs
<1>2. Inv /\ [Next]_vars =>
        [disk.batch.id # 0 /\ disk'.batch.id # disk.batch.id
           => w.pc = "begin" \/ 1..disk.batch.n \subseteq Outcomes(disk.batch)]_vars
  BY <1>1
<1> QED
  BY <1>2, InvHolds, PTL DEF Spec, BatchKeptUntilComplete
=============================================================================
