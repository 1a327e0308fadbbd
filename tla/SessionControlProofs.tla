------------------------ MODULE SessionControlProofs ------------------------
(***************************************************************************)
(* Theorems about the durable freeze and resume of a Session, for every set *)
(* of Threads and every value of the bounds.                               *)
(***************************************************************************)
EXTENDS SessionControl, TLAPS

Statuses == {"running", "freezing", "frozen", "resuming"}
ExecStatuses == {"none", "running", "waiting", "settled"}
Sources == {"client", "session_resume", "goal"}
Active == [id : Nat \ {0}, thread : ThreadIds, source : Sources, stopping : BOOLEAN]

\* The values of the variables.  Which inputs are queued does not matter here.
TypeOK ==
  /\ ctl \in [status : Statuses, id : {"none", "freeze", "resume"} \X Nat]
  /\ turn \in Active \cup {NoTurn}
  /\ exec \in [turn : Nat, status : ExecStatuses, source : Sources]
  /\ up \in BOOLEAN /\ hold \in BOOLEAN /\ goalStart \in BOOLEAN
  /\ used \in [Counters -> Nat]
  /\ kept \in Nat
  /\ own \in ThreadIds

\* What the ghost hold says is what control.json says.
HoldIsFrozen == hold <=> Frozen

\* The Turn at hand is the Turn of the journal, and the journal says it runs.
RunningIsJournalled ==
  Running => up /\ exec.turn = turn.id /\ exec.status = "running"

\* A waiting Turn has an identity to be continued under.
WaitingHasTurn == exec.status \in {"running", "waiting"} => exec.turn # 0

Inv == TypeOK /\ HoldIsFrozen /\ RunningIsJournalled /\ WaitingHasTurn /\ StopKeepsWork

-----------------------------------------------------------------------------
(* Facts about the parts of the actions *)

LEMMA TurnFacts ==
  ASSUME TypeOK
  PROVE  /\ Running <=> turn.id # 0
         /\ Running => turn \in Active
  BY DEF TypeOK, Running, NoTurn, Active

LEMMA ControlType ==
  ASSUME TypeOK, NEW n \in Nat
  PROVE  /\ Freeze(ctl, Fid(n)) \in [status : Statuses, id : {"none", "freeze", "resume"} \X Nat]
         /\ FreezeSettled(ctl, Fid(n)) \in [status : Statuses, id : {"none", "freeze", "resume"} \X Nat]
         /\ Resume(ctl, Rid(n)) \in [status : Statuses, id : {"none", "freeze", "resume"} \X Nat]
         /\ ResumeSettled(ctl, Rid(n)) \in [status : Statuses, id : {"none", "freeze", "resume"} \X Nat]
  BY DEF TypeOK, Freeze, FreezeSettled, Resume, ResumeSettled, Fid, Rid, Statuses

\* A session/control call keeps the invariant if its new state is a state of
\* control.json that the call may write.
LEMMA ControlKeeps ==
  ASSUME Inv, NEW action \in {"freeze", "freeze_settled", "resume", "resume_settled"},
         NEW new \in [status : Statuses, id : {"none", "freeze", "resume"} \X Nat],
         NEW n \in Nat, n # 0 => action \in Counters,
         SessionControl(action, new, n),
         new.status = "frozen" => ctl.status = "frozen" \/ ~Running,
         new.status = "frozen" => Frozen,
         new.status = "running" => ~Frozen
  PROVE  Inv'
<1>1. used' \in [Counters -> Nat]
  BY DEF SessionControl, Inv, TypeOK
<1>a. hold' \in BOOLEAN
  BY DEF SessionControl
<1>2. HoldIsFrozen'
  BY DEF SessionControl, Inv, TypeOK, HoldIsFrozen, Frozen, Statuses
<1>3. TypeOK'
  BY <1>1, <1>a DEF SessionControl, Inv, TypeOK, turnVars, threadVars
<1>4. (RunningIsJournalled /\ WaitingHasTurn)'
  BY DEF SessionControl, Inv, RunningIsJournalled, WaitingHasTurn, Running, NoTurn, turnVars
<1>5. StopKeepsWork'
  BY DEF SessionControl, Inv, StopKeepsWork, Running, NoTurn, turnVars
<1> QED
  BY <1>2, <1>3, <1>4, <1>5 DEF Inv

\* The invariant is kept by a step that only turns threads, ids and own over.
LEMMA ThreadsKeep ==
  ASSUME Inv, UNCHANGED <<ctl, turnVars, up, hold>>, own' \in ThreadIds, used' \in [Counters -> Nat]
  PROVE  Inv'
<1>1. TypeOK'
  BY DEF Inv, TypeOK, turnVars
<1>2. (HoldIsFrozen /\ RunningIsJournalled /\ WaitingHasTurn)'
  BY DEF Inv, HoldIsFrozen, Frozen, RunningIsJournalled, WaitingHasTurn, Running, NoTurn, turnVars
<1>3. StopKeepsWork'
  BY DEF Inv, StopKeepsWork, Running, NoTurn, turnVars
<1> QED
  BY <1>1, <1>2, <1>3 DEF Inv

\* A Turn that begins where none runs: under the next identity when nothing
\* waits, or under the identity of the Turn that waits.
LEMMA BeginKeeps ==
  ASSUME Inv, up, ~Running, NEW t \in ThreadIds, NEW id \in Nat \ {0}, NEW source \in Sources,
         Begin(t, id, source), ~Frozen, ctl' \in {ctl, SettlesResume(source)},
         exec.status \in {"none", "settled"} \/ exec.turn = id,
         UNCHANGED <<own, up, hold>>, goalStart' \in BOOLEAN,
         used' \in [Counters -> Nat]
  PROVE  Inv'
<1>1. turn' \in Active /\ turn'.id = id
  BY DEF Begin, Active
<1>2. /\ ctl' \in [status : Statuses, id : {"none", "freeze", "resume"} \X Nat]
      /\ ctl'.status \in {"running", "resuming"}
  BY DEF Inv, TypeOK, SettlesResume, ResumeSettled, Frozen, Statuses
<1>3. exec' \in [turn : Nat, status : ExecStatuses, source : Sources]
      /\ exec'.turn = id /\ exec'.status = "running"
  BY DEF Begin, ExecStatuses
<1>4. kept' = 0
  BY DEF Begin, Inv, StopKeepsWork
<1>5. TypeOK'
  BY <1>1, <1>2, <1>3, <1>4 DEF Inv, TypeOK
<1>6. HoldIsFrozen'
  BY <1>2 DEF Inv, HoldIsFrozen, Frozen
<1>7. (RunningIsJournalled /\ WaitingHasTurn)'
  BY <1>1, <1>3 DEF RunningIsJournalled, WaitingHasTurn
<1>8. StopKeepsWork'
  BY <1>2, <1>4 DEF StopKeepsWork
<1> QED
  BY <1>5, <1>6, <1>7, <1>8 DEF Inv

LEMMA StartTurnKeeps ==
  ASSUME Inv, NEW t \in ThreadIds, NEW source \in Sources, StartTurn(t, source)
  PROVE  Inv'
<1>1. used.turns + 1 \in Nat \ {0} /\ used' \in [Counters -> Nat]
  BY DEF StartTurn, Inv, TypeOK, Counters
<1> QED
  BY <1>1, BeginKeeps DEF StartTurn, ControlAllowsStart, ExecutionAllowsStart, Inv, TypeOK

LEMMA GoalStartKeeps ==
  ASSUME Inv, GoalStart
  PROVE  Inv'
<1>1. used.turns + 1 \in Nat \ {0} /\ used' \in [Counters -> Nat]
  BY DEF GoalStart, Inv, TypeOK, Counters
<1>2. CASE ~UNCHANGED turn
  BY <1>1, <1>2, BeginKeeps
     DEF GoalStart, ControlAllowsStart, ExecutionAllowsStart, Inv, TypeOK, Sources
<1>3. CASE UNCHANGED <<turn, exec, kept>>
  <2>1. TypeOK'
    BY <1>1, <1>3 DEF GoalStart, Inv, TypeOK
  <2>2. (HoldIsFrozen /\ RunningIsJournalled /\ WaitingHasTurn)'
    BY <1>3 DEF GoalStart, Inv, HoldIsFrozen, Frozen, RunningIsJournalled, WaitingHasTurn, Running, NoTurn
  <2>3. StopKeepsWork'
    BY <1>3 DEF GoalStart, Inv, StopKeepsWork, Running, NoTurn
  <2> QED
    BY <2>1, <2>2, <2>3 DEF Inv
<1>4. UNCHANGED turn => UNCHANGED <<turn, exec, kept>>
  <2>1. ASSUME Begin(own, used.turns + 1, "goal"), ~Running
        PROVE  ~UNCHANGED turn
    BY <1>1, <2>1, TurnFacts DEF Begin, Inv
  <2> QED
    BY <2>1 DEF GoalStart
<1> QED
  BY <1>2, <1>3, <1>4

LEMMA ResumeTurnKeeps ==
  ASSUME Inv, NEW t \in ThreadIds, ResumeTurn(t)
  PROVE  Inv'
<1>1. exec.turn \in Nat \ {0} /\ exec.source \in Sources /\ used' \in [Counters -> Nat]
  BY DEF ResumeTurn, Inv, TypeOK, WaitingHasTurn, Counters
<1> QED
  BY <1>1, BeginKeeps DEF ResumeTurn, ControlAllowsStart, Inv, TypeOK

LEMMA QueueKeeps ==
  ASSUME Inv, \/ \E mode \in {"steer", "follow_up"} : SubmitInput(mode)
              \/ ScheduleGoalTurn
  PROVE  Inv'
<1>1. goalStart' \in BOOLEAN
  BY DEF SubmitInput, ScheduleGoalTurn, Inv, TypeOK
<1>2. UNCHANGED <<ctl, own, turn, exec, up, used, hold, kept>>
  BY DEF SubmitInput, ScheduleGoalTurn, threadVars
<1>3. TypeOK'
  BY <1>1, <1>2 DEF Inv, TypeOK
<1>4. (HoldIsFrozen /\ RunningIsJournalled /\ WaitingHasTurn)'
  BY <1>2 DEF Inv, HoldIsFrozen, Frozen, RunningIsJournalled, WaitingHasTurn, Running, NoTurn
<1>5. StopKeepsWork'
  BY <1>2 DEF Inv, StopKeepsWork, Running, NoTurn
<1> QED
  BY <1>3, <1>4, <1>5 DEF Inv

LEMMA CancelKeeps ==
  ASSUME Inv, CancelTurn
  PROVE  Inv'
<1>2. turn \in Active
  BY TurnFacts DEF CancelTurn, Inv
<1>3. turn' \in Active /\ turn'.id = turn.id
  BY <1>2 DEF CancelTurn, Active
<1>4. UNCHANGED <<ctl, own, exec, goalStart, up, used, hold, kept>>
  BY DEF CancelTurn, threadVars
<1>5. TypeOK'
  BY <1>3, <1>4 DEF Inv, TypeOK
<1>6. (HoldIsFrozen /\ WaitingHasTurn)'
  BY <1>4 DEF Inv, HoldIsFrozen, Frozen, WaitingHasTurn
<1>7. (RunningIsJournalled /\ StopKeepsWork)'
  BY <1>3, <1>4 DEF CancelTurn, Inv, RunningIsJournalled, StopKeepsWork
<1> QED
  BY <1>5, <1>6, <1>7 DEF Inv

LEMMA EndTurnKeeps ==
  ASSUME Inv, NEW outcome \in {"completed", "cancelled", "failed"}, EndTurn(outcome)
  PROVE  Inv'
<1>1. /\ turn \in Active /\ up /\ turn.id # 0 /\ turn.id \in Nat
      /\ exec.turn = turn.id /\ exec.status = "running"
  BY TurnFacts DEF EndTurn, Inv, RunningIsJournalled, Active
<1>2. kept = 0 /\ ctl.status # "frozen"
  BY <1>1 DEF EndTurn, Inv, StopKeepsWork
<1>3. UNCHANGED <<ctl, own, goalStart, up, hold>>
  BY DEF EndTurn
<1>4. CASE /\ SessionAllowsContinuation
           /\ turn' = [turn EXCEPT !.id = used.turns + 1, !.source = "client", !.stopping = FALSE]
           /\ exec' = [turn |-> used.turns + 1, status |-> "running", source |-> "client"]
           /\ used' = [used EXCEPT !.turns = @ + 1]
           /\ UNCHANGED kept
  <2>1. used.turns + 1 \in Nat \ {0} /\ used' \in [Counters -> Nat]
    BY <1>4 DEF Inv, TypeOK, Counters
  <2>2. turn' \in Active /\ turn'.id = used.turns + 1
    BY <1>1, <1>4, <2>1 DEF Active, Sources
  <2>3. /\ exec' \in [turn : Nat, status : ExecStatuses, source : Sources]
        /\ exec'.turn = used.turns + 1 /\ exec'.status = "running"
    BY <1>4, <2>1 DEF ExecStatuses, Sources
  <2>4. TypeOK'
    BY <1>3, <1>4, <2>1, <2>2, <2>3 DEF Inv, TypeOK
  <2>5. HoldIsFrozen'
    BY <1>3 DEF Inv, HoldIsFrozen, Frozen
  <2>6. (RunningIsJournalled /\ WaitingHasTurn)'
    BY <1>1, <1>3, <2>1, <2>2, <2>3 DEF RunningIsJournalled, WaitingHasTurn
  <2>7. StopKeepsWork'
    BY <1>2, <1>3, <1>4 DEF StopKeepsWork
  <2> QED
    BY <2>4, <2>5, <2>6, <2>7 DEF Inv
<1>5. CASE /\ turn' = NoTurn
           /\ exec' = [exec EXCEPT !.status = Settled(outcome)]
           /\ kept' = IF outcome = "cancelled" /\ hold THEN turn.id ELSE kept
           /\ UNCHANGED used
  <2>1. Settled(outcome) \in ExecStatuses
    BY DEF Settled, ExecStatuses
  <2>2. /\ exec' \in [turn : Nat, status : ExecStatuses, source : Sources]
        /\ exec'.turn = turn.id /\ exec'.status = Settled(outcome)
    BY <1>1, <1>5, <2>1 DEF Inv, TypeOK
  <2>3. TypeOK'
    BY <1>1, <1>2, <1>3, <1>5, <2>2 DEF Inv, TypeOK
  <2>4. HoldIsFrozen'
    BY <1>3 DEF Inv, HoldIsFrozen, Frozen
  <2>5. (RunningIsJournalled /\ WaitingHasTurn)'
    BY <1>1, <1>5, <2>2 DEF RunningIsJournalled, WaitingHasTurn, Running, NoTurn
  <2>6. kept' # 0 => kept' = turn.id /\ Settled(outcome) = "waiting"
    BY <1>2, <1>5 DEF Settled, RequiresResume, Inv, HoldIsFrozen, Frozen
  <2>7. StopKeepsWork'
    BY <1>1, <1>2, <1>3, <1>5, <2>2, <2>6 DEF StopKeepsWork, Running, NoTurn
  <2> QED
    BY <2>3, <2>4, <2>5, <2>7 DEF Inv
<1> QED
  BY <1>4, <1>5 DEF EndTurn

\* A process that dies leaves control.json and the journal as they are.
LEMMA CrashKeeps ==
  ASSUME Inv, Crash
  PROVE  Inv'
<1>1. used' \in [Counters -> Nat]
  BY DEF Crash, Inv, TypeOK, Counters
<1>2. kept' \in Nat
  BY TurnFacts DEF Crash, Inv, TypeOK, Active
<1>3. TypeOK'
  BY <1>1, <1>2 DEF Crash, Inv, TypeOK
<1>4. (HoldIsFrozen /\ RunningIsJournalled /\ WaitingHasTurn)'
  BY DEF Crash, Inv, HoldIsFrozen, Frozen, RunningIsJournalled, WaitingHasTurn, Running, NoTurn
<1>5. StopKeepsWork'
  BY DEF Crash, Inv, StopKeepsWork, RunningIsJournalled, Running, NoTurn
<1> QED
  BY <1>3, <1>4, <1>5 DEF Inv

LEMMA RestartKeeps ==
  ASSUME Inv, Restart
  PROVE  Inv'
<1>1. /\ exec' \in [turn : Nat, status : ExecStatuses, source : Sources]
      /\ exec'.turn = exec.turn
      /\ exec'.status = IF exec.status = "running" THEN "waiting" ELSE exec.status
  BY DEF Restart, Inv, TypeOK, ExecStatuses
<1>2. ~Running
  BY DEF Restart, Inv, RunningIsJournalled
<1>3. TypeOK'
  BY <1>1 DEF Restart, Inv, TypeOK
<1>4. (HoldIsFrozen /\ RunningIsJournalled /\ WaitingHasTurn)'
  BY <1>1, <1>2 DEF Restart, Inv, HoldIsFrozen, Frozen, RunningIsJournalled, WaitingHasTurn, Running, NoTurn
<1>5. StopKeepsWork'
  BY <1>1, <1>2 DEF Restart, Inv, StopKeepsWork, Running, NoTurn
<1> QED
  BY <1>3, <1>4, <1>5 DEF Inv

LEMMA GatewayKeeps ==
  ASSUME Inv, GatewayFreeze \/ GatewayFreezeSettled \/ GatewayResume \/ GatewayResumeSettled
  PROVE  Inv'
<1>t. used.freeze \in Nat /\ used.resume \in Nat
  BY DEF Inv, TypeOK, Counters
<1>0. 0 \in Nat /\ \A m \in Nat : m + 1 \in Nat /\ (\A n \in 1..m : n \in Nat)
  OBVIOUS
<1>1. ASSUME NEW n \in Nat, NEW m \in Nat, SessionControl("freeze", Freeze(ctl, Fid(n)), m)
      PROVE  Inv'
  <2>1. Freeze(ctl, Fid(n)).status = "frozen" => ctl.status = "frozen" /\ Frozen
    BY DEF Freeze, Frozen
  <2>2. Freeze(ctl, Fid(n)).status # "running"
    BY DEF Freeze, Frozen
  <2> QED
    BY <1>1, <2>1, <2>2, ControlType, ControlKeeps DEF Inv, Counters
<1>2. ASSUME NEW n \in Nat, SessionControl("freeze_settled", FreezeSettled(ctl, Fid(n)), 0)
      PROVE  Inv'
  <2>1. FreezeSettled(ctl, Fid(n)).status = "frozen" => Frozen
    BY DEF FreezeSettled, Frozen, Inv, TypeOK
  <2>2. FreezeSettled(ctl, Fid(n)).status = "running" => ~Frozen
    BY DEF FreezeSettled, Frozen, Inv, TypeOK
  <2>3. ~Running
    BY <1>2 DEF SessionControl, Admitted, SafeWhileRunning
  <2> QED
    BY <1>0, <1>2, <2>1, <2>2, <2>3, ControlType, ControlKeeps DEF Inv
<1>3. ASSUME NEW n \in Nat, NEW m \in Nat, SessionControl("resume", Resume(ctl, Rid(n)), m)
      PROVE  Inv'
  <2>1. Resume(ctl, Rid(n)).status # "frozen"
    BY DEF Resume
  <2>2. Resume(ctl, Rid(n)).status = "running" => ~Frozen
    BY DEF Resume, Frozen
  <2> QED
    BY <1>3, <2>1, <2>2, ControlType, ControlKeeps DEF Inv, Counters
<1>4. ASSUME NEW n \in Nat, SessionControl("resume_settled", ResumeSettled(ctl, Rid(n)), 0)
      PROVE  Inv'
  <2>1. ResumeSettled(ctl, Rid(n)).status = "frozen" => ctl.status = "frozen" /\ Frozen
    BY DEF ResumeSettled, Frozen, Inv, TypeOK
  <2>2. ResumeSettled(ctl, Rid(n)).status = "running" => ~Frozen
    BY DEF ResumeSettled, Frozen, Inv, TypeOK
  <2> QED
    BY <1>0, <1>4, <2>1, <2>2, ControlType, ControlKeeps DEF Inv
<1>5. CASE GatewayFreeze
  BY <1>t, <1>0, <1>1, <1>5 DEF GatewayFreeze
<1>6. CASE GatewayFreezeSettled
  BY <1>t, <1>0, <1>2, <1>6 DEF GatewayFreezeSettled
<1>7. CASE GatewayResume
  BY <1>t, <1>0, <1>3, <1>7 DEF GatewayResume
<1>8. CASE GatewayResumeSettled
  BY <1>t, <1>0, <1>4, <1>8 DEF GatewayResumeSettled
<1> QED
  BY <1>5, <1>6, <1>7, <1>8

LEMMA TurnsKeep ==
  ASSUME Inv, Turns
  PROVE  Inv'
<1>1. CASE ClientStart
  BY <1>1, StartTurnKeeps DEF ClientStart, Sources
<1>2. CASE ScheduleGoalTurn \/ \E mode \in {"steer", "follow_up"} : SubmitInput(mode)
  BY <1>2, QueueKeeps
<1>3. CASE GoalStart
  BY <1>3, GoalStartKeeps
<1>4. CASE \E t \in ThreadIds : ResumeTurn(t)
  BY <1>4, ResumeTurnKeeps
<1>5. CASE CancelTurn
  BY <1>5, CancelKeeps
<1>6. CASE \E outcome \in {"completed", "cancelled", "failed"} : EndTurn(outcome)
  BY <1>6, EndTurnKeeps
<1> QED
  BY <1>1, <1>2, <1>3, <1>4, <1>5, <1>6 DEF Turns

LEMMA ThreadCommandsKeep ==
  ASSUME Inv, ThreadCommand \/ StartNewThread
  PROVE  Inv'
<1>1. CASE ThreadCommand
  <2>1. UNCHANGED <<ctl, own, turnVars, up, used, hold>>
    BY <1>1 DEF ThreadCommand, CreateThread, CloseThread, ResumeThread, ForkThread, ResetThread
  <2> QED
    BY <2>1, ThreadsKeep DEF Inv, TypeOK
<1>2. CASE StartNewThread
  <2>1. own' \in ThreadIds
    BY <1>2, IdsAssumption DEF StartNewThread, Inv, TypeOK, Counters
  <2>2. used' \in [Counters -> Nat]
    BY <1>2 DEF StartNewThread, Inv, TypeOK, Counters
  <2> QED
    BY <1>2, <2>1, <2>2, ThreadsKeep DEF StartNewThread
<1> QED
  BY <1>1, <1>2

LEMMA InitInv == Init => Inv
<1> SUFFICES ASSUME Init PROVE Inv
  OBVIOUS
<1>1. TypeOK
  BY IdsAssumption DEF Init, TypeOK, NoTurn, NoExec, Statuses, ExecStatuses, Sources, Counters
<1> QED
  BY <1>1 DEF Init, Inv, HoldIsFrozen, Frozen, RunningIsJournalled, WaitingHasTurn, StopKeepsWork,
              Running, NoTurn, NoExec

LEMMA NextInv == Inv /\ [Next]_vars => Inv'
<1> SUFFICES ASSUME Inv, [Next]_vars PROVE Inv'
  OBVIOUS
<1>1. CASE GatewayFreeze \/ GatewayFreezeSettled \/ GatewayResume \/ GatewayResumeSettled
  BY <1>1, GatewayKeeps
<1>2. CASE Turns
  BY <1>2, TurnsKeep
<1>3. CASE ThreadCommand \/ StartNewThread
  BY <1>3, ThreadCommandsKeep
<1>4. CASE Crash
  BY <1>4, CrashKeeps
<1>5. CASE Restart
  BY <1>5, RestartKeeps
<1>6. CASE UNCHANGED vars
  BY <1>6, ThreadsKeep DEF vars, turnVars, Inv, TypeOK
<1> QED
  BY <1>1, <1>2, <1>3, <1>4, <1>5, <1>6 DEF Next

\* The inductive invariant: control.json and the ghost that remembers an
\* accepted freeze agree, and the Turn at hand is the one the journal says runs
\* (session/control, worker.rs).
THEOREM InvHolds == Spec => []Inv
  BY InitInv, NextInv, PTL DEF Spec

\* A frozen Session is quiet, and the Turn a stop interrupted waits in the
\* journal for its continue, over late and repeated Gateway calls, queued
\* inputs, Goal Starts, crashes and restarts (transition_session_control,
\* settle_execution_checkpoint).
THEOREM StoppedWorkIsKept == Spec => []StopKeepsWork
<1>1. Inv => StopKeepsWork
  BY DEF Inv
<1> QED
  BY <1>1, InvHolds, PTL

\* Once a freeze is accepted no Turn begins before a resume is, whoever asks for
\* it, and while a resume is in progress only the explicit continue begins one
\* (Command::Start, session_allows_continuation).
THEOREM FreezeIsObeyed == Spec => FreezeHolds
<1>1. ASSUME Inv, [Next]_vars, turn'.id \notin {0, turn.id}
      PROVE  /\ ~hold
             /\ ctl.status = "resuming" => turn'.source = "session_resume" \/ turn'.id = exec.turn
  <2>1. CASE ClientStart
    BY <1>1, <2>1 DEF ClientStart, StartTurn, ControlAllowsStart, Begin, Inv, HoldIsFrozen
  <2>2. CASE GoalStart
    BY <1>1, <2>2 DEF GoalStart, ControlAllowsStart, Inv, HoldIsFrozen
  <2>3. CASE \E t \in ThreadIds : ResumeTurn(t)
    BY <1>1, <2>3 DEF ResumeTurn, ControlAllowsStart, Begin, Inv, HoldIsFrozen
  <2>4. CASE \E outcome \in {"completed", "cancelled", "failed"} : EndTurn(outcome)
    BY <1>1, <2>4 DEF EndTurn, SessionAllowsContinuation, NoTurn, Inv, HoldIsFrozen, Frozen
  <2>5. CASE CancelTurn
    BY <1>1, <2>5, TurnFacts DEF CancelTurn, Inv, Active
  <2>6. CASE Crash
    BY <1>1, <2>6 DEF Crash, NoTurn
  <2>7. CASE UNCHANGED turn
    BY <1>1, <2>7
  <2>8. CASE GatewayFreeze \/ GatewayFreezeSettled \/ GatewayResume \/ GatewayResumeSettled
    BY <2>7, <2>8 DEF GatewayFreeze, GatewayFreezeSettled, GatewayResume, GatewayResumeSettled,
                      SessionControl, turnVars
  <2>9. CASE ThreadCommand \/ StartNewThread
    BY <2>7, <2>9 DEF ThreadCommand, CreateThread, CloseThread, ResumeThread, ForkThread,
                      ResetThread, StartNewThread, turnVars
  <2>10. CASE ScheduleGoalTurn \/ \E mode \in {"steer", "follow_up"} : SubmitInput(mode)
    BY <2>7, <2>10 DEF ScheduleGoalTurn, SubmitInput
  <2>11. CASE Restart \/ UNCHANGED vars
    BY <2>7, <2>11 DEF Restart, vars
  <2> QED
    BY <1>1, <2>1, <2>2, <2>3, <2>4, <2>5, <2>6, <2>8, <2>9, <2>10, <2>11 DEF Next, Turns
<1>2. Inv /\ [Next]_vars => [turn'.id \notin {0, turn.id} =>
        /\ ~hold
        /\ ctl.status = "resuming" => turn'.source = "session_resume" \/ turn'.id = exec.turn]_vars
  BY <1>1
<1> QED
  BY <1>2, InvHolds, PTL DEF Spec, FreezeHolds

-----------------------------------------------------------------------------
(* The Threads of the worker *)

\* The list is a sequence of identities, without repeats, of the Threads at hand
\* and the one the running Turn holds; after a crash nothing is at hand.
ListInv ==
  /\ ids \in Seq(ThreadIds)
  /\ threads = [t \in DOMAIN threads |-> threads[t]]
  /\ ThreadsListed

\* Appending an identity that is not listed.
LEMMA Listed ==
  ASSUME NEW s \in Seq(ThreadIds), IsInjective(s), NEW t \in ThreadIds, t \notin ToSet(s)
  PROVE  /\ Append(s, t) \in Seq(ThreadIds)
         /\ IsInjective(Append(s, t))
         /\ ToSet(Append(s, t)) = ToSet(s) \cup {t}
<1>1. /\ Append(s, t) \in Seq(ThreadIds)
      /\ Len(Append(s, t)) = Len(s) + 1
      /\ \A i \in 1 .. Len(s) : Append(s, t)[i] = s[i]
      /\ Append(s, t)[Len(s) + 1] = t
      /\ DOMAIN s = 1 .. Len(s) /\ DOMAIN Append(s, t) = 1 .. Len(s) + 1 /\ Len(s) \in Nat
  OBVIOUS
<1>2. IsInjective(Append(s, t))
  BY <1>1 DEF IsInjective, ToSet
<1>3. ToSet(Append(s, t)) = ToSet(s) \cup {t}
  BY <1>1 DEF ToSet
<1> QED
  BY <1>1, <1>2, <1>3

\* Giving one listed identity another name that is not listed.
LEMMA Renamed ==
  ASSUME NEW s \in Seq(ThreadIds), IsInjective(s), NEW old \in ToSet(s), NEW new \in ThreadIds,
         new \notin ToSet(s),
         NEW r, r = [i \in DOMAIN s |-> IF s[i] = old THEN new ELSE s[i]]
  PROVE  /\ r \in Seq(ThreadIds)
         /\ IsInjective(r)
         /\ ToSet(r) = (ToSet(s) \ {old}) \cup {new}
<1>1. DOMAIN s = 1 .. Len(s) /\ Len(s) \in Nat /\ \A i \in 1 .. Len(s) : s[i] \in ThreadIds
  OBVIOUS
<1>2. r \in Seq(ThreadIds)
  BY <1>1
<1>3. IsInjective(r)
  BY <1>1 DEF IsInjective, ToSet
<1>4. ToSet(r) = (ToSet(s) \ {old}) \cup {new}
  BY <1>1 DEF ToSet, IsInjective
<1> QED
  BY <1>2, <1>3, <1>4

\* A Turn that begins takes its Thread out of the map and stays on the list.
LEMMA BeginListed ==
  ASSUME Inv, ListInv, up, up', ~Running, NEW t, Open(t), Running', turn'.thread = t,
         threads' = [u \in DOMAIN threads \ {t} |-> threads[u]], UNCHANGED <<ids, own>>
  PROVE  ListInv'
<1>1. DOMAIN threads' = DOMAIN threads \ {t} /\ t \in DOMAIN threads
  BY DEF Open
<1>2. ThreadsListed'
  BY <1>1 DEF ListInv, ThreadsListed
<1> QED
  BY <1>2 DEF ListInv

LEMMA TurnsListed ==
  ASSUME Inv, Inv', ListInv, Turns
  PROVE  ListInv'
<1>b. ASSUME NEW t, NEW id \in Nat \ {0}, NEW source, Begin(t, id, source)
      PROVE  Running' /\ turn'.thread = t
  BY <1>b, TurnFacts DEF Begin, Running, NoTurn
<1>n. used.turns + 1 \in Nat \ {0}
  BY DEF Inv, TypeOK, Counters
<1>u. ASSUME UNCHANGED <<threads, ids, own, up>>, Running' <=> Running,
             Running => turn'.thread = turn.thread
      PROVE  ListInv'
  BY <1>u DEF ListInv, ThreadsListed
<1>1. CASE ClientStart
  BY <1>1, <1>b, <1>n, BeginListed DEF ClientStart, StartTurn
<1>2. CASE ScheduleGoalTurn \/ \E mode \in {"steer", "follow_up"} : SubmitInput(mode)
  BY <1>2, <1>u DEF ScheduleGoalTurn, SubmitInput, threadVars, Running, NoTurn
<1>3. CASE GoalStart
  <2>1. CASE UNCHANGED <<threads, turn>>
    BY <1>3, <2>1, <1>u DEF GoalStart, Running, NoTurn
  <2>2. CASE /\ ~Running /\ Open(own) /\ Begin(own, used.turns + 1, "goal")
             /\ threads' = [u \in DOMAIN threads \ {own} |-> threads[u]]
    BY <1>3, <2>2, <1>b, <1>n, BeginListed DEF GoalStart
  <2> QED
    BY <1>3, <2>1, <2>2 DEF GoalStart
<1>4. CASE \E t \in ThreadIds : ResumeTurn(t)
  <2>1. exec.turn \in Nat \ {0}
    BY <1>4 DEF ResumeTurn, Inv, TypeOK, WaitingHasTurn
  <2> QED
    BY <1>4, <2>1, <1>b, BeginListed DEF ResumeTurn
<1>5. CASE CancelTurn
  <2>1. turn \in Active /\ turn' \in Active /\ turn'.thread = turn.thread /\ turn'.id = turn.id
    BY <1>5, TurnFacts DEF CancelTurn, Inv, Active
  <2>2. Running /\ Running'
    BY <1>5, <2>1 DEF CancelTurn, Running, NoTurn, Active
  <2> QED
    BY <1>5, <1>u, <2>1, <2>2 DEF CancelTurn, threadVars
<1>6. CASE \E outcome \in {"completed", "cancelled", "failed"} : EndTurn(outcome)
  <2>1. turn \in Active /\ Running /\ up /\ up' /\ UNCHANGED <<ids, own>>
    BY <1>6, TurnFacts DEF EndTurn, Inv
  <2>2. CASE /\ turn' = [turn EXCEPT !.id = used.turns + 1, !.source = "client", !.stopping = FALSE]
             /\ UNCHANGED threads
    <3>1. turn'.id = used.turns + 1 /\ turn'.thread = turn.thread
      BY <2>1, <2>2 DEF Active
    <3>2. Running'
      BY <1>n, <3>1 DEF Running, NoTurn
    <3> QED
      BY <1>6, <1>u, <2>1, <2>2, <3>1, <3>2
  <2>3. CASE /\ turn' = NoTurn
             /\ threads' = [t \in DOMAIN threads \cup {turn.thread} |->
                              IF t = turn.thread THEN "idle" ELSE threads[t]]
    <3>1. ~Running' /\ DOMAIN threads' = DOMAIN threads \cup {turn.thread}
      BY <2>3 DEF Running, NoTurn
    <3>2. ThreadsListed'
      BY <2>1, <3>1 DEF ListInv, ThreadsListed
    <3> QED
      BY <2>1, <2>3, <3>2 DEF ListInv
  <2> QED
    BY <1>6, <2>2, <2>3 DEF EndTurn
<1> QED
  BY <1>1, <1>2, <1>3, <1>4, <1>5, <1>6 DEF Turns

LEMMA RenameListed ==
  ASSUME ListInv, up, up', ~Running, ~Running', NEW old, NEW new \in ThreadIds, Rename(old, new),
         own' = IF own = old THEN new ELSE own
  PROVE  ListInv'
<1>1. ToSet(ids) = DOMAIN threads /\ IsInjective(ids) /\ own \in ToSet(ids) /\ ids \in Seq(ThreadIds)
  BY DEF ListInv, ThreadsListed
<1>2. /\ ids' \in Seq(ThreadIds) /\ IsInjective(ids')
      /\ ToSet(ids') = (ToSet(ids) \ {old}) \cup {new}
  BY <1>1, Renamed DEF Rename
<1>3. DOMAIN threads' = (DOMAIN threads \ {old}) \cup {new} /\ threads' = [t \in DOMAIN threads' |-> threads'[t]]
  BY DEF Rename
<1>4. ThreadsListed'
  BY <1>1, <1>2, <1>3 DEF ThreadsListed
<1> QED
  BY <1>2, <1>3, <1>4 DEF ListInv

LEMMA ThreadCommandsListed ==
  ASSUME Inv, ListInv, ThreadCommand \/ StartNewThread
  PROVE  ListInv'
<1>0. up /\ ~Running /\ up' /\ ~Running'
  BY DEF ThreadCommand, CreateThread, CloseThread, ResumeThread, ForkThread, ResetThread,
         StartNewThread, Idle, turnVars, Running, NoTurn
<1>1. ToSet(ids) = DOMAIN threads /\ IsInjective(ids) /\ own \in ToSet(ids) /\ ids \in Seq(ThreadIds)
  BY <1>0 DEF ListInv, ThreadsListed
<1>p. ASSUME NEW t \in ThreadIds, NEW status, Put(t, status), own' = own,
             ids' = IF t \in DOMAIN threads THEN ids ELSE Append(ids, t)
      PROVE  ListInv'
  <2>1. DOMAIN threads' = DOMAIN threads \cup {t} /\ threads' = [u \in DOMAIN threads' |-> threads'[u]]
    BY <1>p DEF Put
  <2>2. ids' \in Seq(ThreadIds) /\ IsInjective(ids') /\ ToSet(ids') = ToSet(ids) \cup {t}
    BY <1>1, <1>p, Listed
  <2>3. ThreadsListed'
    BY <1>0, <1>1, <1>p, <2>1, <2>2 DEF ThreadsListed
  <2> QED
    BY <2>1, <2>2, <2>3 DEF ListInv
<1>n. Nameable \subseteq ThreadIds
  BY DEF Nameable
<1>2. ASSUME NEW t \in Nameable, CreateThread(t)
      PROVE  ListInv'
  BY <1>2, <1>n, <1>p DEF CreateThread
<1>3. ASSUME NEW t \in Nameable, CloseThread(t)
      PROVE  ListInv'
  <2>1. DOMAIN threads' = DOMAIN threads /\ threads' = [u \in DOMAIN threads' |-> threads'[u]]
    BY <1>3 DEF CloseThread, ListInv
  <2> QED
    BY <1>0, <1>1, <1>3, <2>1 DEF CloseThread, ListInv, ThreadsListed
<1>4. ASSUME NEW t \in Nameable, NEW status, ResumeThread(t, status)
      PROVE  ListInv'
  BY <1>4, <1>n, <1>p DEF ResumeThread
<1>5. ASSUME NEW s \in Nameable, NEW t \in Nameable, ForkThread(s, t)
      PROVE  ListInv'
  BY <1>5, <1>n, <1>p DEF ForkThread
<1>6. ASSUME NEW s \in Nameable, NEW t \in Nameable, ResetThread(s, t)
      PROVE  ListInv'
  BY <1>0, <1>6, <1>n, RenameListed DEF ResetThread
<1>7. CASE StartNewThread
  <2>1. own' \in ThreadIds
    BY <1>7, IdsAssumption DEF StartNewThread, Inv, TypeOK, Counters
  <2> QED
    BY <1>0, <1>7, <2>1, RenameListed DEF StartNewThread
<1> QED
  BY <1>2, <1>3, <1>4, <1>5, <1>6, <1>7 DEF ThreadCommand

\* The list of Threads the connections read names every Thread the worker owns
\* exactly once, also the one a running Turn holds out of the map, whatever is
\* created, forked, resumed, renamed or closed around Turns and crashes
\* (ThreadManager, thread_ids).
THEOREM ThreadsAreListed == Spec => []ThreadsListed
<1>1. Init => ListInv
  <2> SUFFICES ASSUME Init PROVE ListInv
    OBVIOUS
  <2>1. ids = <<Main>> /\ ids \in Seq(ThreadIds) /\ DOMAIN threads = {Main} /\ own = Main /\ ~Running
    BY IdsAssumption DEF Init, Running
  <2>2. IsInjective(ids) /\ ToSet(ids) = {Main}
    BY <2>1 DEF IsInjective, ToSet
  <2> QED
    BY <2>1, <2>2 DEF Init, ListInv, ThreadsListed
<1>2. ListInv /\ Inv /\ Inv' /\ [Next]_vars => ListInv'
  <2> SUFFICES ASSUME ListInv, Inv, Inv', [Next]_vars PROVE ListInv'
    OBVIOUS
  <2>1. CASE GatewayFreeze \/ GatewayFreezeSettled \/ GatewayResume \/ GatewayResumeSettled
    <3>1. UNCHANGED <<threads, ids, own, turn, up>>
      BY <2>1 DEF GatewayFreeze, GatewayFreezeSettled, GatewayResume, GatewayResumeSettled,
                  SessionControl, turnVars, threadVars
    <3> QED
      BY <3>1 DEF ListInv, ThreadsListed, Running, NoTurn
  <2>2. CASE Turns
    BY <2>2, TurnsListed
  <2>3. CASE ThreadCommand \/ StartNewThread
    BY <2>3, ThreadCommandsListed
  <2>4. CASE Crash
    <3>1. ids' \in Seq(ThreadIds) /\ threads' = [t \in DOMAIN threads' |-> threads'[t]] /\ ~up'
      BY <2>4 DEF Crash
    <3> QED
      BY <3>1 DEF ListInv, ThreadsListed
  <2>5. CASE Restart
    <3>1. ids' = <<own>> /\ own \in ThreadIds /\ own' = own /\ threads' = [t \in {own} |-> "idle"]
      BY <2>5 DEF Restart, Inv, TypeOK
    <3>2. ids' \in Seq(ThreadIds) /\ IsInjective(ids') /\ ToSet(ids') = {own}
      BY <3>1 DEF IsInjective, ToSet
    <3>3. ~Running'
      BY <2>5 DEF Restart, Inv, RunningIsJournalled, Running, NoTurn
    <3> QED
      BY <3>1, <3>2, <3>3 DEF ListInv, ThreadsListed
  <2>6. CASE UNCHANGED vars
    BY <2>6 DEF vars, ListInv, ThreadsListed, Running, NoTurn
  <2> QED
    BY <2>1, <2>2, <2>3, <2>4, <2>5, <2>6 DEF Next
<1>3. ListInv => ThreadsListed
  BY DEF ListInv
<1> QED
  BY <1>1, <1>2, <1>3, InvHolds, PTL DEF Spec

=============================================================================
