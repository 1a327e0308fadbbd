---------------------------- MODULE GoalRuntime ----------------------------
(***************************************************************************)
(* The autonomous Goal of a Thread: the durable goal record, the handle    *)
(* that schedules its Turns and verifications, the worker that takes       *)
(* commands from its mailbox and runs Turns, and the verifier tasks that   *)
(* judge a settled Turn while clients go on sending commands.              *)
(*                                                                         *)
(* What a Turn does is left to module ExecutionJournal; here it ends with  *)
(* one of four outcomes, and of the execution journal only its status and  *)
(* its Turn are kept, because they decide whether a Start is admitted.     *)
(***************************************************************************)
EXTENDS Naturals, Sequences

CONSTANTS
  ClientOps,        \* the commands clients send
  Budgets,          \* token budgets a client may ask for, 0 for none
  Tokens,           \* token counts a provider may report for one Turn
  TotalMilestones,  \* GoalState.total_milestones
  MaxLoops,         \* GoalState.max_loops
  MaxGoals,         \* bound: Goals created
  MaxCommands,      \* bound: client commands
  MaxCrashes,       \* bound: process crashes
  MaxFaults         \* bound: full mailboxes and failed preparations

ASSUME ConstantsAssumption ==
  /\ ClientOps \subseteq {"set", "pause", "resume", "clear", "start", "continue", "followUp"}
  /\ Budgets \subseteq Nat /\ Tokens \subseteq Nat
  /\ TotalMilestones \in Nat \ {0} /\ MaxLoops \in Nat \ {0}
  /\ MaxGoals \in Nat /\ MaxCommands \in Nat
  /\ MaxCrashes \in Nat /\ MaxFaults \in Nat

VARIABLES
  goal,       \* goal/state.json
  seq,        \* current_checkpoint_seq of the Session
  counted,    \* turn_started records of the Session
  execution,  \* status and Turn of the execution journal
  handle,     \* GoalRuntimeHandle: pending_verification and scheduled_goal
  mailbox,    \* commands the worker has not read
  turn,       \* the worker's current Turn
  nextTurn,   \* Thread.next_turn_number
  followUp,   \* a follow-up waits in RunControl's queue
  deferred,   \* deferred_goal_verifications
  verifiers,  \* verifier tasks that have not reported
  created,    \* how many Goals were created, the id of the latest
  disturbed,  \* history: something interfered with the current Goal
  used        \* how much of each bound is used up

disk == <<goal, seq, counted, execution>>
vars == <<disk, handle, mailbox, turn, nextTurn, followUp, deferred, verifiers,
          created, disturbed, used>>

Bounds == [commands |-> MaxCommands, crashes |-> MaxCrashes, faults |-> MaxFaults]

Spend(b) == used[b] < Bounds[b] /\ used' = [used EXCEPT ![b] = @ + 1]

-----------------------------------------------------------------------------
(* State *)

GoalStatuses == {"None", "Running", "Converged", "Failed", "UserPaused",
                 "UsageLimited", "BudgetLimited"}

NoGoal == [id |-> 0, status |-> "None", milestone |-> 0, loops |-> 0,
           budget |-> 0, tokens |-> 0, turn |-> 0, settled |-> FALSE,
           verification |-> "Idle"]

\* init_goal_workspace_with_limits.
FreshGoal(id, budget) ==
  [NoGoal EXCEPT !.id = id, !.status = "Running", !.milestone = 1, !.budget = budget]

GoalStates == [id: Nat, status: GoalStatuses, milestone: Nat, loops: Nat,
               budget: Nat, tokens: Nat, turn: Nat, settled: BOOLEAN,
               verification: {"Idle", "Running", "Completed", "Failed"}]

\* What a verifier task was asked to judge.
Judgements == [goal: Nat, turn: Nat, seq: Nat]
NoJudgement == [goal |-> 0, turn |-> 0, seq |-> 0]

Verdicts == {"approved", "rejected", "error"}

Command(op) == [op |-> op, goal |-> 0, of |-> NoJudgement, verdict |-> "error"]
GoalStart(id) == [Command("goalStart") EXCEPT !.goal = id]
Verified(j, v) == [Command("verified") EXCEPT !.of = j, !.verdict = v]

Commands == [op: ClientOps \cup {"goalStart", "verified"}, goal: Nat,
             of: Judgements, verdict: Verdicts]

\* goal is 0 for a Turn of a client.
NoTurn == [pc |-> "idle", id |-> 0, goal |-> 0, resumed |-> FALSE,
           timedOut |-> FALSE, outcome |-> "None"]

TurnOutcomes == {"None", "Completed", "Cancelled", "StepLimit", "Failed"}

Turns == [pc: {"down", "idle", "starting", "running", "usage", "settle", "verify", "next"},
          id: Nat, goal: Nat, resumed: BOOLEAN, timedOut: BOOLEAN, outcome: TurnOutcomes]

NoHandle == [pending |-> NoJudgement, scheduled |-> 0]

Init ==
  /\ goal = NoGoal /\ seq = 0 /\ counted = 0
  /\ execution = [status |-> "Settled", turn |-> 0]
  /\ handle = NoHandle
  /\ mailbox = <<>> /\ turn = NoTurn /\ nextTurn = 1 /\ followUp = FALSE
  /\ deferred = <<>> /\ verifiers = {} /\ created = 0 /\ disturbed = FALSE
  /\ used = [b \in DOMAIN Bounds |-> 0]

-----------------------------------------------------------------------------
(* The goal record: host/goal.rs *)

\* update_running_goal applies an update only to the Goal it was meant for.
Runs(g, id) == g.id = id /\ g.status = "Running"
RunsTurn(g, id, t) == Runs(g, id) /\ g.turn = t

\* limit_goal_turn
LimitTurn(g, id, t, status) ==
  IF RunsTurn(g, id, t) THEN [g EXCEPT !.status = status] ELSE g

\* fail_goal_with_reason tests neither the id nor the status.
FailGoal(g) ==
  [g EXCEPT !.status = "Failed",
            !.verification = IF @ = "Running" THEN "Failed" ELSE @]

RecordUsage(g, id, t, n) ==
  IF n > 0 /\ RunsTurn(g, id, t)
  THEN [g EXCEPT !.tokens = @ + n,
                 !.status = IF g.budget > 0 /\ g.tokens + n >= g.budget
                            THEN "BudgetLimited" ELSE @]
  ELSE g

\* advance_goal_milestone: only a rejected attempt is held against max_loops.
AdvanceMilestone(g, v) ==
  LET last == g.milestone >= TotalMilestones
  IN [g EXCEPT !.loops = @ + 1, !.verification = "Completed",
               !.milestone = IF v = "approved" /\ ~last THEN @ + 1 ELSE @,
               !.status = IF v = "approved" THEN (IF last THEN "Converged" ELSE @)
                          ELSE IF g.loops + 1 >= MaxLoops THEN "Failed" ELSE @,
               !.turn = 0, !.settled = FALSE]

PauseGoal(g) == [g EXCEPT !.status = "UserPaused", !.turn = 0, !.settled = FALSE]

ResumeGoal(g) == [g EXCEPT !.status = "Running"]

-----------------------------------------------------------------------------
(* The handle: goal_runtime.rs and the goal half of runtime_actor.rs *)

\* schedule_goal_turn reserves the Goal and sends a Start without waiting, so
\* that a full mailbox releases the reservation again.  inbox is the mailbox the
\* command is sent to, h the handle it is sent with.
ScheduleRefused(h, inbox) ==
  /\ Spend("faults")
  /\ handle' = h /\ mailbox' = inbox

Schedule(h, inbox, id) ==
  /\ handle' = [h EXCEPT !.scheduled = id]
  /\ mailbox' = IF h.scheduled = id THEN inbox ELSE Append(inbox, GoalStart(id))
  /\ UNCHANGED used

\* prepare_goal_verification_or_fail of the Goal g, whose Turn is settled: with
\* a verification pending nothing happens; a missing verifier or an oversized
\* plan fails the Goal; else a verifier task is spawned.
Prepare(g, h) ==
  LET j == [goal |-> g.id, turn |-> g.turn, seq |-> seq]
      marked == [g EXCEPT !.verification = "Running"]
  IN \/ /\ h.pending # NoJudgement
        /\ goal' = g /\ handle' = h
        /\ UNCHANGED <<verifiers, used>>
     \/ /\ h.pending = NoJudgement
        /\ Spend("faults")
        /\ goal' = LimitTurn(marked, g.id, g.turn, "Failed")
        /\ handle' = h
        /\ UNCHANGED verifiers
     \/ /\ h.pending = NoJudgement
        /\ goal' = marked
        /\ handle' = [h EXCEPT !.pending = j]
        /\ verifiers' = verifiers \cup {j}
        /\ UNCHANGED used

StaleAnyTurn(j) ==  \* fault: the Turn of the Goal is not compared
  ~Runs(goal, j.goal) \/ ~goal.settled

\* A result about another Goal, Turn or status than the current one is dropped.
Stale(j) == ~RunsTurn(goal, j.goal, j.turn) \/ ~goal.settled

\* complete_goal_verification of a result for j, sent on to an inbox.
Complete(j, v, inbox) ==
  LET idle == [handle EXCEPT !.pending = NoJudgement]
      next == IF j.seq # seq \/ v = "error" THEN FailGoal(goal) ELSE AdvanceMilestone(goal, v)
  IN \/ /\ handle.pending.goal # j.goal \/ handle.pending.turn # j.turn
        /\ mailbox' = inbox
        /\ UNCHANGED <<goal, handle, used>>
     \/ /\ handle.pending.goal = j.goal /\ handle.pending.turn = j.turn
        /\ Stale(j)
        /\ handle' = idle /\ mailbox' = inbox
        /\ UNCHANGED <<goal, used>>
     \/ /\ handle.pending.goal = j.goal /\ handle.pending.turn = j.turn
        /\ ~Stale(j)
        /\ IF next.status = "Running"
           THEN \/ Schedule(idle, inbox, next.id) /\ goal' = next
                \/ ScheduleRefused(idle, inbox) /\ goal' = FailGoal(next)
           ELSE /\ goal' = next /\ handle' = idle /\ mailbox' = inbox
                /\ UNCHANGED used

-----------------------------------------------------------------------------
(* Commands about the Goal *)

Terminal(g) == g.status \in {"None", "Converged", "Failed", "UsageLimited", "BudgetLimited"}

Idle == turn.pc = "idle"
Listening == turn.pc \in {"idle", "running"}

\* The worker reads the next command; while a Turn runs it reads between polls.
Read(op) == Listening /\ mailbox # <<>> /\ Head(mailbox).op = op
Rest == Tail(mailbox)

\* create_goal.  Sending the Start can fail, and so can the lookup of the
\* verifier model before it: the Goal is on disk by then and stays Running.
\* A Goal created over an interrupted execution, or over a
\* verification that has not reported, counts as disturbed.
CreateGoal(budget) ==
  /\ created < MaxGoals
  /\ created' = created + 1
  /\ goal' = FreshGoal(created + 1, budget)
  /\ \/ /\ Schedule([handle EXCEPT !.scheduled = 0], Rest, created + 1)
        /\ disturbed' = (execution.status # "Settled" \/ handle.pending # NoJudgement)
     \/ /\ ScheduleRefused([handle EXCEPT !.scheduled = 0], Rest)
        /\ disturbed' = TRUE

\* A live Goal is edited in place, and scheduled again if it runs.
EditGoal(budget) ==
  /\ goal' = [goal EXCEPT !.budget = budget]
  /\ disturbed' = TRUE
  /\ \/ /\ goal.status = "Running"
        /\ Schedule(handle, Rest, goal.id) \/ ScheduleRefused(handle, Rest)
     \/ /\ goal.status # "Running"
        /\ handle' = [handle EXCEPT !.scheduled = 0] /\ mailbox' = Rest
        /\ UNCHANGED used
  /\ UNCHANGED created

\* thread/goal/set with an objective and a budget, on an idle worker.
SetGoal(budget) ==
  /\ Read("set") /\ Idle
  /\ \/ Terminal(goal) /\ CreateGoal(budget)
     \/ ~Terminal(goal) /\ EditGoal(budget)
  /\ UNCHANGED <<seq, counted, execution, turn, nextTurn, followUp, deferred, verifiers>>

\* thread/goal/set with status paused, also accepted while a Turn runs.
Pause ==
  /\ Read("pause") /\ goal.status = "Running"
  /\ goal' = PauseGoal(goal) /\ disturbed' = TRUE
  /\ handle' = [handle EXCEPT !.scheduled = 0]
  /\ mailbox' = Rest
  /\ UNCHANGED <<seq, counted, execution, turn, nextTurn, followUp, deferred, verifiers,
                 created, used>>

\* thread/goal/set with status active.
Resume ==
  /\ Read("resume") /\ Idle /\ goal.status = "UserPaused"
  /\ goal' = ResumeGoal(goal)
  /\ Schedule(handle, Rest, goal.id) \/ ScheduleRefused(handle, Rest)
  /\ UNCHANGED <<seq, counted, execution, turn, nextTurn, followUp, deferred, verifiers, created, disturbed>>

\* thread/goal/clear, also accepted while a Turn runs.
Clear ==
  /\ Read("clear")
  /\ goal' = NoGoal /\ handle' = NoHandle
  /\ mailbox' = Rest
  /\ UNCHANGED <<seq, counted, execution, turn, nextTurn, followUp, deferred, verifiers,
                 created, disturbed, used>>

\* A request with a stale revision, an edit that changes nothing, a transition
\* that is not allowed, and everything a busy or stopping worker refuses.
Refuse ==
  /\ \E op \in ClientOps : Read(op)
  /\ mailbox' = Rest
  /\ UNCHANGED <<disk, handle, turn, nextTurn, followUp, deferred, verifiers, created, disturbed, used>>

-----------------------------------------------------------------------------
(* Turns *)

Begin(id, g, resumed) ==
  turn' = [NoTurn EXCEPT !.pc = "starting", !.id = id, !.goal = g, !.resumed = resumed]

\* Command::Start of a client; refused unless the journal is settled.
StartTurn ==
  /\ Read("start") /\ Idle /\ execution.status = "Settled"
  /\ Begin(nextTurn, 0, FALSE) /\ nextTurn' = nextTurn + 1
  /\ mailbox' = Rest /\ disturbed' = TRUE
  /\ UNCHANGED <<disk, handle, followUp, deferred, verifiers, created, used>>

\* turn/resume of an interrupted Turn.  It runs as a Turn of the client, also
\* when a Goal began it.
ContinueTurn ==
  /\ Read("continue") /\ Idle /\ execution.status = "Waiting"
  /\ Begin(execution.turn, 0, TRUE)
  /\ mailbox' = Rest /\ disturbed' = TRUE
  /\ UNCHANGED <<disk, handle, nextTurn, followUp, deferred, verifiers, created, used>>

AdmitsAny(id) == goal.id # 0  \* fault: the Goal that scheduled the Turn is not compared

\* mark_goal_turn_started accepts the Turn of a running Goal only.
Admits(id) == Runs(goal, id)

\* The Start that schedule_goal_turn sent reaches an idle worker.
StartGoalTurn ==
  /\ Read("goalStart") /\ Idle /\ execution.status = "Settled"
  /\ mailbox' = Rest
  /\ handle' = [handle EXCEPT !.scheduled = 0]
  /\ LET id == Head(mailbox).goal
     IN IF Admits(id)
        THEN /\ Begin(nextTurn, id, FALSE) /\ nextTurn' = nextTurn + 1
             /\ goal' = [goal EXCEPT !.turn = nextTurn, !.settled = FALSE]
        ELSE UNCHANGED <<turn, nextTurn, goal>>
  /\ UNCHANGED <<seq, counted, execution, followUp, deferred, verifiers, created, disturbed, used>>

\* It reaches a running Turn, or an execution that waits to be continued: the
\* submission is refused, nobody reads the reply, and the reservation stays.
DropGoalStart ==
  /\ Read("goalStart")
  /\ Idle => execution.status # "Settled"
  /\ mailbox' = Rest
  /\ UNCHANGED <<disk, handle, turn, nextTurn, followUp, deferred, verifiers, created, disturbed, used>>

\* A follow-up is queued for the Turn that runs.
FollowUp ==
  /\ Read("followUp") /\ turn.pc = "running"
  /\ followUp' = TRUE /\ mailbox' = Rest /\ disturbed' = TRUE
  /\ UNCHANGED <<disk, handle, turn, nextTurn, deferred, verifiers, created, used>>

\* The run writes its first checkpoint.
FirstCheckpoint ==
  /\ turn.pc = "starting"
  /\ turn' = [turn EXCEPT !.pc = "running"]
  /\ execution' = [status |-> "Running", turn |-> turn.id]
  /\ UNCHANGED <<goal, seq, counted, handle, mailbox, nextTurn, followUp, deferred,
                 verifiers, created, disturbed, used>>

\* milestone_timeout_secs of the Goal has passed: cancellation is requested.
TimeOut ==
  /\ turn.pc = "running" /\ turn.goal # 0 /\ ~turn.timedOut
  /\ turn' = [turn EXCEPT !.timedOut = TRUE]
  /\ UNCHANGED <<disk, handle, mailbox, nextTurn, followUp, deferred, verifiers, created, disturbed, used>>

\* The run ends, the Turn is persisted and its checkpoint settled.  The worker
\* polls its mailbox first, so it has read every command by then.
FinishTurn(outcome) ==
  /\ turn.pc = "running" /\ mailbox = <<>>
  /\ turn' = [turn EXCEPT !.pc = "usage", !.outcome = outcome]
  /\ \/ seq' = seq + 1 /\ counted' = IF turn.resumed THEN counted ELSE counted + 1
     \/ outcome \in {"Failed", "StepLimit"} /\ UNCHANGED <<seq, counted>>
  /\ execution' = [execution EXCEPT !.status =
                     IF outcome \in {"Completed", "Cancelled"} THEN "Settled" ELSE "Waiting"]
  /\ UNCHANGED <<goal, handle, mailbox, nextTurn, followUp, deferred, verifiers, created, disturbed, used>>

\* record_goal_usage with the tokens the provider reported.
CountTokens(n) ==
  /\ turn.pc = "usage"
  /\ goal' = RecordUsage(goal, turn.goal, turn.id, n)
  /\ turn' = [turn EXCEPT !.pc = IF turn.goal = 0 \/ (n > 0 /\ goal'.status = "BudgetLimited")
                                 THEN "next" ELSE "settle"]
  /\ UNCHANGED <<seq, counted, execution, handle, mailbox, nextTurn, followUp, deferred,
                 verifiers, created, disturbed, used>>

\* A Turn that completed in time is settled for its Goal; any other stops it.
SettleGoalTurn ==
  /\ turn.pc = "settle"
  /\ LET ours == RunsTurn(goal, turn.goal, turn.id)
         done == turn.outcome = "Completed" /\ ~turn.timedOut
     IN /\ goal' = IF ~ours THEN goal
                   ELSE IF done THEN [goal EXCEPT !.settled = TRUE]
                   ELSE LimitTurn(goal, turn.goal, turn.id,
                          IF turn.timedOut \/ turn.outcome = "StepLimit"
                          THEN "UsageLimited" ELSE "Failed")
        /\ turn' = [turn EXCEPT !.pc = IF ours /\ done THEN "verify" ELSE "next"]
  /\ UNCHANGED <<seq, counted, execution, handle, mailbox, nextTurn, followUp, deferred,
                 verifiers, created, disturbed, used>>

RequestVerification ==
  /\ turn.pc = "verify"
  /\ Prepare(goal, handle)
  /\ turn' = [turn EXCEPT !.pc = "next"]
  /\ UNCHANGED <<seq, counted, execution, mailbox, nextTurn, followUp, deferred, created, disturbed>>

\* A queued follow-up is the next Turn, begun whatever the journal says.
ContinueWithFollowUp ==
  /\ turn.pc = "next" /\ followUp
  /\ followUp' = FALSE
  /\ Begin(nextTurn, 0, FALSE) /\ nextTurn' = nextTurn + 1
  /\ UNCHANGED <<disk, handle, mailbox, deferred, verifiers, created, disturbed, used>>

\* Results that arrived during the Turn are applied once no input is left.
CompleteDeferred ==
  /\ turn.pc = "next" /\ ~followUp /\ deferred # <<>>
  /\ LET r == Head(deferred) IN Complete(r.of, r.verdict, mailbox)
  /\ deferred' = Tail(deferred)
  /\ UNCHANGED <<seq, counted, execution, turn, nextTurn, followUp, verifiers, created, disturbed>>

GoIdle ==
  /\ turn.pc = "next" /\ ~followUp /\ deferred = <<>>
  /\ turn' = NoTurn
  /\ UNCHANGED <<disk, handle, mailbox, nextTurn, followUp, deferred, verifiers, created, disturbed, used>>

-----------------------------------------------------------------------------
(* Verifier results *)

\* spawn_goal_verifier: the task sends its result to the worker and ends.
VerifierReports(j, v) ==
  /\ j \in verifiers
  /\ verifiers' = verifiers \ {j}
  /\ mailbox' = Append(mailbox, Verified(j, v))
  /\ UNCHANGED <<disk, handle, turn, nextTurn, followUp, deferred, created, disturbed, used>>

CompleteVerification ==
  /\ Read("verified") /\ Idle
  /\ LET r == Head(mailbox) IN Complete(r.of, r.verdict, Rest)
  /\ UNCHANGED <<seq, counted, execution, turn, nextTurn, followUp, deferred, verifiers, created, disturbed>>

DropVerified ==  \* fault: a busy worker refuses the result as it refuses a Start
  /\ Read("verified") /\ ~Idle
  /\ mailbox' = Rest
  /\ UNCHANGED <<disk, handle, turn, nextTurn, followUp, deferred, verifiers, created, disturbed, used>>

DeferVerified ==
  /\ Read("verified") /\ ~Idle
  /\ deferred' = Append(deferred, Head(mailbox)) /\ mailbox' = Rest
  /\ UNCHANGED <<disk, handle, turn, nextTurn, followUp, verifiers, created, disturbed, used>>

-----------------------------------------------------------------------------
(* Clients and crashes *)

ClientSends(op) ==
  /\ turn.pc # "down"
  /\ mailbox' = Append(mailbox, Command(op))
  /\ Spend("commands")
  /\ UNCHANGED <<disk, handle, turn, nextTurn, followUp, deferred, verifiers, created, disturbed>>

\* The process ends: what was in memory is gone, verifier tasks included.
Crash ==
  /\ turn.pc # "down"
  /\ Spend("crashes")
  /\ turn' = [NoTurn EXCEPT !.pc = "down"]
  /\ followUp' = FALSE /\ deferred' = <<>> /\ mailbox' = <<>>
  /\ verifiers' = {} /\ handle' = NoHandle /\ disturbed' = TRUE
  /\ UNCHANGED <<disk, nextTurn, created>>

\* InstallRuntime: a Turn that ran is parked, and resume_goal verifies a settled
\* Turn of the Goal again or schedules a new one.
Restart ==
  /\ turn.pc = "down"
  /\ turn' = NoTurn /\ nextTurn' = counted + 1
  /\ execution' = [execution EXCEPT !.status = IF @ = "Running" THEN "Waiting" ELSE @]
  /\ \/ /\ goal.status = "Running" /\ goal.settled
        /\ Prepare(goal, handle) /\ UNCHANGED mailbox
     \/ /\ goal.status = "Running" /\ ~goal.settled
        /\ Schedule(handle, mailbox, goal.id)
        /\ UNCHANGED <<goal, verifiers>>
     \/ /\ goal.status # "Running"
        /\ UNCHANGED <<goal, handle, mailbox, verifiers, used>>
  /\ UNCHANGED <<seq, counted, followUp, deferred, created, disturbed>>

-----------------------------------------------------------------------------
WorkerStep ==
  \/ \E b \in Budgets : SetGoal(b)
  \/ Pause \/ Resume \/ Clear \/ Refuse
  \/ StartTurn \/ ContinueTurn \/ StartGoalTurn \/ DropGoalStart \/ FollowUp
  \/ FirstCheckpoint
  \/ \E o \in TurnOutcomes \ {"None"} : FinishTurn(o)
  \/ \E n \in Tokens : CountTokens(n)
  \/ SettleGoalTurn \/ RequestVerification
  \/ ContinueWithFollowUp \/ CompleteDeferred \/ GoIdle
  \/ CompleteVerification \/ DeferVerified \/ Restart

Report == \E j \in verifiers, v \in Verdicts : VerifierReports(j, v)

Next ==
  \/ WorkerStep \/ Report \/ TimeOut \/ Crash
  \/ \E op \in ClientOps : ClientSends(op)

\* The worker task is scheduled, Turns are bounded by their step limit, and a
\* verifier runs one model step whose provider has a timeout.
Spec == Init /\ [][Next]_vars /\ WF_vars(WorkerStep) /\ WF_vars(Report)

-----------------------------------------------------------------------------
(* Properties *)

\* Variables keep their types, and milestones stay within the plan.
TypeOK ==
  /\ goal \in GoalStates /\ goal.milestone \in 0..TotalMilestones
  /\ seq \in Nat /\ counted \in Nat /\ nextTurn \in Nat /\ created \in Nat
  /\ execution \in [status: {"Settled", "Running", "Waiting"}, turn: Nat]
  /\ handle \in [pending: Judgements, scheduled: Nat]
  /\ mailbox \in Seq(Commands) /\ deferred \in Seq(Commands)
  /\ turn \in Turns
  /\ verifiers \in SUBSET Judgements
  /\ followUp \in BOOLEAN /\ disturbed \in BOOLEAN
  /\ used \in [DOMAIN Bounds -> Nat]

\* A verification recorded as pending has a verifier task behind it, or a result
\* on its way: prepare_verification refuses every other one meanwhile, so a lost
\* one would end verification for the rest of the process.
PendingIsInFlight ==
  LET arriving == {mailbox[i] : i \in DOMAIN mailbox} \cup {deferred[i] : i \in DOMAIN deferred}
  IN handle.pending # NoJudgement =>
       \/ handle.pending \in verifiers
       \/ \E r \in arriving : r.op = "verified" /\ r.of = handle.pending

\* A Start that was queued for a Goal never runs once the Goal has been paused,
\* cleared, replaced or ended: the worker's mailbox still holds it, and
\* mark_goal_turn_started must turn it away.
StoppedGoalsDoNotRun ==
  turn.pc = "starting" /\ turn.goal # 0 => Runs(goal, turn.goal)

\* A verifier result changes the Goal only if it judged the Turn the Goal has
\* settled last, and moves it on only if no checkpoint was written since.
VerdictsAreCurrent ==
  [][\A r \in {"mailbox", "deferred"} :
       LET q == IF r = "mailbox" THEN mailbox ELSE deferred
           applied == IF r = "mailbox" THEN Idle ELSE turn.pc = "next"
       IN applied /\ q # <<>> /\ Head(q).op = "verified"
          /\ goal' # goal /\ goal'.id = goal.id /\ turn'.pc = turn.pc
          /\ (IF r = "mailbox" THEN mailbox' ELSE deferred') # q =>
            LET j == Head(q).of
            IN /\ j.goal = goal.id /\ j.turn = goal.turn /\ goal.settled
               /\ goal'.milestone # goal.milestone \/ goal'.status = "Converged" =>
                    j.seq = seq /\ Head(q).verdict = "approved"]_vars

\* Every verification that was started is answered or withdrawn: a result that
\* meets a running Turn is kept until the Turn and its follow-ups are over.
VerificationAnswered == (handle.pending # NoJudgement) ~> (handle.pending = NoJudgement)

\* A Goal that nobody pauses, edits or clears, with no other Turn and no crash in
\* its way, converges, fails or reaches a limit.
UndisturbedGoalEnds ==
  (goal.status = "Running" /\ ~disturbed) ~> (goal.status # "Running" \/ disturbed)

\* What a Goal waits for comes: the answer of its verifier, and its own end
\* (complete_verification, spawn_goal_verifier, the worker loop).
GoalsSettle == VerificationAnswered /\ UndisturbedGoalEnds

\* docs/app-server.md: on resume an unsettled Goal schedules a new ordinary Turn.
\* A running Goal should then never rest for ever on an idle worker whose
\* execution is settled.  Violated after a crash in the middle of a goal Turn: the
\* Start of resume_goal is refused because of the parked execution, and nothing
\* sends another.
GoalNeverStranded ==
  ~<>[](/\ goal.status = "Running" /\ Idle /\ mailbox = <<>>
        /\ execution.status = "Settled" /\ handle.pending = NoJudgement)

=============================================================================
