-------------------------- MODULE GoalRuntimeProofs --------------------------
(***************************************************************************)
(* Theorems about the Goal of a Thread, for any commands of clients, any    *)
(* budgets, milestones and loops and however often the process crashes.     *)
(***************************************************************************)
EXTENDS GoalRuntime, TLAPS

Handles == [pending : Judgements, scheduled : Nat]
Executions == [status : {"Settled", "Running", "Waiting"}, turn : Nat]

\* Goals whose milestone is in the plan.
PlannedGoals == {g \in GoalStates : g.milestone \in 0..TotalMilestones}

-----------------------------------------------------------------------------
(* What the operations on the goal record return. *)

LEMMA GoalTypes ==
  /\ NoGoal \in PlannedGoals
  /\ NoJudgement \in Judgements
  /\ NoHandle \in Handles
  /\ NoTurn \in Turns
  /\ \A id, budget \in Nat : FreshGoal(id, budget) \in PlannedGoals
<1>1. NoGoal \in GoalStates /\ NoGoal.milestone = 0
  BY DEF GoalStates, GoalStatuses, NoGoal
<1>2. ASSUME NEW id \in Nat, NEW budget \in Nat
      PROVE  /\ FreshGoal(id, budget) \in GoalStates /\ FreshGoal(id, budget).milestone = 1
             /\ FreshGoal(id, budget).id = id
  BY <1>1 DEF FreshGoal, GoalStates, GoalStatuses
<1>3. 0 \in 0..TotalMilestones /\ 1 \in 0..TotalMilestones
  BY ConstantsAssumption
<1>4. NoGoal \in PlannedGoals /\ \A id, budget \in Nat : FreshGoal(id, budget) \in PlannedGoals
  BY <1>1, <1>2, <1>3 DEF PlannedGoals
<1>5. NoJudgement \in Judgements /\ NoHandle \in Handles
  BY DEF NoJudgement, Judgements, NoHandle, Handles
<1>6. NoTurn \in Turns
  BY DEF NoTurn, Turns, TurnOutcomes
<1> QED
  BY <1>4, <1>5, <1>6

LEMMA LimitTurnType ==
  ASSUME NEW g \in PlannedGoals, NEW id, NEW t, NEW status \in GoalStatuses
  PROVE  LimitTurn(g, id, t, status) \in PlannedGoals
  BY DEF LimitTurn, PlannedGoals, GoalStates

LEMMA FailGoalType ==
  ASSUME NEW g \in PlannedGoals
  PROVE  /\ FailGoal(g) \in PlannedGoals /\ FailGoal(g).id = g.id
         /\ FailGoal(g).milestone = g.milestone /\ FailGoal(g).status = "Failed"
  BY DEF FailGoal, PlannedGoals, GoalStates, GoalStatuses

LEMMA RecordUsageType ==
  ASSUME NEW g \in PlannedGoals, NEW id, NEW t, NEW n \in Nat
  PROVE  RecordUsage(g, id, t, n) \in PlannedGoals
<1> DEFINE limited == IF g.budget > 0 /\ g.tokens + n >= g.budget THEN "BudgetLimited" ELSE g.status
<1>1. g \in GoalStates /\ g.tokens + n \in Nat /\ limited \in GoalStatuses
  BY DEF PlannedGoals, GoalStates, GoalStatuses
<1>2. RecordUsage(g, id, t, n) \in {g, [g EXCEPT !.tokens = g.tokens + n, !.status = limited]}
  BY DEF RecordUsage
<1> HIDE DEF limited
<1>3. /\ [g EXCEPT !.tokens = g.tokens + n, !.status = limited] \in GoalStates
      /\ [g EXCEPT !.tokens = g.tokens + n, !.status = limited].milestone = g.milestone
  BY <1>1 DEF GoalStates
<1> QED
  BY <1>1, <1>2, <1>3 DEF PlannedGoals

\* Only an approval moves the Goal on or ends it as converged.
LEMMA AdvanceMilestoneType ==
  ASSUME NEW g \in PlannedGoals, NEW v
  PROVE  LET h == AdvanceMilestone(g, v)
         IN /\ h \in PlannedGoals /\ h.id = g.id
            /\ h.milestone # g.milestone \/ (h.status = "Converged" /\ g.status # "Converged")
                 => v = "approved"
<1> DEFINE last == g.milestone >= TotalMilestones
           m == IF v = "approved" /\ ~last THEN g.milestone + 1 ELSE g.milestone
           st == IF v = "approved" THEN (IF last THEN "Converged" ELSE g.status)
                 ELSE IF g.loops + 1 >= MaxLoops THEN "Failed" ELSE g.status
           h == [g EXCEPT !.loops = g.loops + 1, !.verification = "Completed", !.milestone = m,
                          !.status = st, !.turn = 0, !.settled = FALSE]
<1>1. g \in GoalStates /\ g.milestone \in 0..TotalMilestones /\ g.loops + 1 \in Nat
  BY DEF PlannedGoals, GoalStates
<1>2. m \in Nat /\ m \in 0..TotalMilestones
  BY <1>1, ConstantsAssumption
<1>3. st \in GoalStatuses
  BY <1>1 DEF GoalStates, GoalStatuses
<1>4. /\ m # g.milestone => v = "approved"
      /\ st = "Converged" /\ g.status # "Converged" => v = "approved"
  OBVIOUS
<1>5. AdvanceMilestone(g, v) = h
  BY DEF AdvanceMilestone
<1> HIDE DEF m, st
<1>6. h \in GoalStates /\ h.milestone = m /\ h.status = st /\ h.id = g.id
  BY <1>1, <1>2, <1>3 DEF GoalStates
<1> QED
  BY <1>2, <1>4, <1>5, <1>6 DEF PlannedGoals

LEMMA GoalUpdates ==
  ASSUME NEW g \in PlannedGoals
  PROVE  /\ PauseGoal(g) \in PlannedGoals
         /\ ResumeGoal(g) \in PlannedGoals
         /\ \A b \in Nat : [g EXCEPT !.budget = b] \in PlannedGoals
         /\ \A t \in Nat : LET h == [g EXCEPT !.turn = t, !.settled = FALSE]
                           IN h \in PlannedGoals /\ h.id = g.id /\ h.status = g.status
         /\ [g EXCEPT !.settled = TRUE] \in PlannedGoals
         /\ [g EXCEPT !.verification = "Running"] \in PlannedGoals
  BY DEF PauseGoal, ResumeGoal, PlannedGoals, GoalStates, GoalStatuses

LEMMA CommandTypes ==
  /\ \A op \in ClientOps : Command(op) \in Commands
  /\ \A id \in Nat : GoalStart(id) \in Commands /\ GoalStart(id).op = "goalStart"
  /\ \A j \in Judgements, v \in Verdicts :
       Verified(j, v) \in Commands /\ Verified(j, v).op = "verified" /\ Verified(j, v).of = j
  BY GoalTypes DEF Command, GoalStart, Verified, Commands, Verdicts

LEMMA SpendType ==
  ASSUME used \in [DOMAIN Bounds -> Nat], NEW b \in {"commands", "crashes", "faults"}, Spend(b)
  PROVE  used' \in [DOMAIN Bounds -> Nat]
  BY DEF Spend, Bounds

\* What a queue holds after its head is taken or something is added.
Held(q) == {q[i] : i \in DOMAIN q}

LEMMA QueueFacts ==
  ASSUME NEW S, NEW q \in Seq(S)
  PROVE  /\ \A e \in S : Append(q, e) \in Seq(S) /\ Held(Append(q, e)) = Held(q) \cup {e}
         /\ q # <<>> => Head(q) \in S /\ Tail(q) \in Seq(S) /\ Held(q) = Held(Tail(q)) \cup {Head(q)}
<1>1. ASSUME NEW e \in S
      PROVE  Append(q, e) \in Seq(S) /\ Held(Append(q, e)) = Held(q) \cup {e}
  <2>1. /\ Append(q, e) \in Seq(S) /\ Len(Append(q, e)) = Len(q) + 1
        /\ \A i \in 1..Len(q) : Append(q, e)[i] = q[i]
        /\ Append(q, e)[Len(q) + 1] = e
    OBVIOUS
  <2>2. DOMAIN Append(q, e) = DOMAIN q \cup {Len(q) + 1} /\ DOMAIN q = 1..Len(q)
    BY <2>1
  <2> QED
    BY <2>1, <2>2 DEF Held
<1>2. ASSUME q # <<>>
      PROVE  Head(q) \in S /\ Tail(q) \in Seq(S) /\ Held(q) = Held(Tail(q)) \cup {Head(q)}
  <2>1. /\ Head(q) \in S /\ Tail(q) \in Seq(S) /\ Head(q) = q[1] /\ Len(q) \in Nat \ {0}
        /\ Len(Tail(q)) = Len(q) - 1
        /\ \A i \in 1..(Len(q) - 1) : Tail(q)[i] = q[i + 1]
    BY <1>2
  <2>2. /\ DOMAIN q = 1..Len(q) /\ DOMAIN Tail(q) = 1..(Len(q) - 1)
        /\ \A i \in 2..Len(q) : i - 1 \in 1..(Len(q) - 1) /\ q[i] = Tail(q)[i - 1]
    BY <2>1
  <2>3. ASSUME NEW x \in Held(q) PROVE x \in Held(Tail(q)) \cup {Head(q)}
    <3>1. PICK i \in 1..Len(q) : x = q[i]
      BY <2>2 DEF Held
    <3>2. CASE i = 1
      BY <2>1, <3>1, <3>2
    <3>3. CASE i # 1
      <4>1. i \in 2..Len(q)
        BY <2>1, <3>3
      <4> QED
        BY <2>2, <3>1, <4>1 DEF Held
    <3> QED
      BY <3>2, <3>3
  <2>4. ASSUME NEW x \in Held(Tail(q)) \cup {Head(q)} PROVE x \in Held(q)
    <3>1. CASE x = Head(q)
      BY <2>1, <2>2, <3>1 DEF Held
    <3>2. CASE x \in Held(Tail(q))
      <4>1. PICK i \in 1..(Len(q) - 1) : x = Tail(q)[i]
        BY <2>2, <3>2 DEF Held
      <4>2. i + 1 \in 1..Len(q) /\ x = q[i + 1]
        BY <2>1, <4>1
      <4> QED
        BY <2>2, <4>2 DEF Held
    <3> QED
      BY <2>4, <3>1, <3>2
  <2> QED
    BY <2>1, <2>3, <2>4
<1> QED
  BY <1>1, <1>2

-----------------------------------------------------------------------------
(* What the operations of the handle leave behind. *)

Uses == [DOMAIN Bounds -> Nat]

LEMMA TypeFacts ==
  TypeOK <=>
    /\ goal \in PlannedGoals /\ seq \in Nat /\ counted \in Nat /\ nextTurn \in Nat
    /\ created \in Nat /\ execution \in Executions /\ handle \in Handles
    /\ mailbox \in Seq(Commands) /\ deferred \in Seq(Commands) /\ turn \in Turns
    /\ verifiers \in SUBSET Judgements /\ followUp \in BOOLEAN /\ disturbed \in BOOLEAN
    /\ used \in Uses
  BY DEF TypeOK, PlannedGoals, Executions, Handles, Uses

LEMMA NextTypeFacts ==
  TypeOK' <=>
    /\ goal' \in PlannedGoals /\ seq' \in Nat /\ counted' \in Nat /\ nextTurn' \in Nat
    /\ created' \in Nat /\ execution' \in Executions /\ handle' \in Handles
    /\ mailbox' \in Seq(Commands) /\ deferred' \in Seq(Commands) /\ turn' \in Turns
    /\ verifiers' \in SUBSET Judgements /\ followUp' \in BOOLEAN /\ disturbed' \in BOOLEAN
    /\ used' \in Uses
  BY DEF TypeOK, PlannedGoals, Executions, Handles, Uses

LEMMA ReadFacts ==
  ASSUME TypeOK, NEW op, Read(op)
  PROVE  /\ Listening /\ Head(mailbox) \in Commands /\ Head(mailbox).op = op
         /\ Rest \in Seq(Commands) /\ Held(mailbox) = Held(Rest) \cup {Head(mailbox)}
<1>1. mailbox \in Seq(Commands) /\ mailbox # <<>>
  BY TypeFacts DEF Read
<1>2. /\ Head(mailbox) \in Commands /\ Tail(mailbox) \in Seq(Commands)
      /\ Held(mailbox) = Held(Tail(mailbox)) \cup {Head(mailbox)}
  BY <1>1, QueueFacts
<1> QED
  BY <1>2 DEF Read, Rest

LEMMA ScheduleFacts ==
  ASSUME used \in Uses, NEW h \in Handles, NEW inbox \in Seq(Commands), NEW id \in Nat,
         Schedule(h, inbox, id) \/ ScheduleRefused(h, inbox)
  PROVE  /\ handle' \in Handles /\ handle'.pending = h.pending
         /\ mailbox' \in Seq(Commands) /\ Held(inbox) \subseteq Held(mailbox')
         /\ used' \in Uses
<1>1. CASE Schedule(h, inbox, id)
  <2>1. handle' = [h EXCEPT !.scheduled = id] /\ used' = used
    BY <1>1 DEF Schedule
  <2>2. mailbox' = inbox \/ mailbox' = Append(inbox, GoalStart(id))
    BY <1>1 DEF Schedule
  <2>3. mailbox' \in Seq(Commands) /\ Held(inbox) \subseteq Held(mailbox')
    <3>1. GoalStart(id) \in Commands
      BY CommandTypes
    <3>2. /\ Append(inbox, GoalStart(id)) \in Seq(Commands)
          /\ Held(Append(inbox, GoalStart(id))) = Held(inbox) \cup {GoalStart(id)}
      BY <3>1, QueueFacts
    <3> QED
      BY <2>2, <3>2
  <2>4. handle' \in Handles /\ handle'.pending = h.pending
    BY <2>1 DEF Handles
  <2> QED
    BY <2>1, <2>3, <2>4
<1>2. CASE ScheduleRefused(h, inbox)
  <2>1. used' \in Uses
    BY <1>2, SpendType DEF ScheduleRefused, Uses
  <2> QED
    BY <1>2, <2>1 DEF ScheduleRefused
<1> QED
  BY <1>1, <1>2

LEMMA PrepareFacts ==
  ASSUME TypeOK, NEW g \in PlannedGoals, NEW h \in Handles, Prepare(g, h)
  PROVE  /\ goal' \in PlannedGoals /\ handle' \in Handles /\ used' \in Uses
         /\ verifiers' \in SUBSET Judgements /\ verifiers \subseteq verifiers'
         /\ handle'.pending = h.pending \/ handle'.pending \in verifiers'
<1> DEFINE j == [goal |-> g.id, turn |-> g.turn, seq |-> seq]
           marked == [g EXCEPT !.verification = "Running"]
<1>1. j \in Judgements /\ marked \in PlannedGoals
  <2>1. g.id \in Nat /\ g.turn \in Nat /\ seq \in Nat
    BY TypeFacts DEF PlannedGoals, GoalStates
  <2> QED
    BY <2>1, GoalUpdates DEF Judgements
<1>t. verifiers \in SUBSET Judgements /\ used \in Uses
  BY TypeFacts
<1>2. \/ goal' = g /\ handle' = h /\ UNCHANGED <<verifiers, used>>
      \/ /\ Spend("faults") /\ goal' = LimitTurn(marked, g.id, g.turn, "Failed")
         /\ handle' = h /\ UNCHANGED verifiers
      \/ /\ goal' = marked /\ handle' = [h EXCEPT !.pending = j]
         /\ verifiers' = verifiers \cup {j} /\ UNCHANGED used
  BY DEF Prepare
<1> HIDE DEF j, marked
<1>3. CASE goal' = g /\ handle' = h /\ UNCHANGED <<verifiers, used>>
  BY <1>t, <1>3
<1>4. CASE /\ Spend("faults") /\ goal' = LimitTurn(marked, g.id, g.turn, "Failed")
           /\ handle' = h /\ UNCHANGED verifiers
  <2>1. goal' \in PlannedGoals
    BY <1>1, <1>4, LimitTurnType DEF GoalStatuses
  <2>2. used' \in Uses
    BY <1>t, <1>4, SpendType DEF Uses
  <2> QED
    BY <1>t, <1>4, <2>1, <2>2
<1>5. CASE /\ goal' = marked /\ handle' = [h EXCEPT !.pending = j]
           /\ verifiers' = verifiers \cup {j} /\ UNCHANGED used
  <2>1. handle' \in Handles /\ handle'.pending = j
    BY <1>1, <1>5 DEF Handles
  <2> QED
    BY <1>1, <1>t, <1>5, <2>1
<1> QED
  BY <1>2, <1>3, <1>4, <1>5

\* A result settles the verification it is about and no other; it changes the
\* Goal only if the Goal still waits for it.
LEMMA CompleteFacts ==
  ASSUME TypeOK, NEW j \in Judgements, NEW v, NEW inbox \in Seq(Commands), Complete(j, v, inbox)
  PROVE  /\ goal' \in PlannedGoals /\ handle' \in Handles /\ used' \in Uses
         /\ mailbox' \in Seq(Commands) /\ Held(inbox) \subseteq Held(mailbox')
         /\ \/ handle'.pending = NoJudgement
            \/ handle'.pending = handle.pending /\ handle.pending # j
         /\ goal' # goal =>
              /\ j.goal = goal.id /\ j.turn = goal.turn /\ goal.settled
              /\ goal'.milestone # goal.milestone \/ goal'.status = "Converged" =>
                   j.seq = seq /\ v = "approved"
<1> DEFINE idle == [handle EXCEPT !.pending = NoJudgement]
           next == IF j.seq # seq \/ v = "error" THEN FailGoal(goal) ELSE AdvanceMilestone(goal, v)
<1>t. goal \in PlannedGoals /\ handle \in Handles /\ used \in Uses
  BY TypeFacts
<1>1. idle \in Handles /\ idle.pending = NoJudgement
  BY <1>t, GoalTypes DEF Handles
<1>2. CASE handle.pending.goal # j.goal \/ handle.pending.turn # j.turn
  <2>1. mailbox' = inbox /\ UNCHANGED <<goal, handle, used>>
    BY <1>2 DEF Complete
  <2> QED
    BY <1>2, <1>t, <2>1
<1>3. CASE ~(handle.pending.goal # j.goal \/ handle.pending.turn # j.turn) /\ Stale(j)
  <2>1. handle' = idle /\ mailbox' = inbox /\ UNCHANGED <<goal, used>>
    BY <1>3 DEF Complete
  <2> HIDE DEF idle
  <2> QED
    BY <1>1, <1>t, <2>1
<1>4. CASE ~(handle.pending.goal # j.goal \/ handle.pending.turn # j.turn) /\ ~Stale(j)
  <2>1. \/ Schedule(idle, inbox, next.id) /\ goal' = next
        \/ ScheduleRefused(idle, inbox) /\ goal' = FailGoal(next)
        \/ goal' = next /\ handle' = idle /\ mailbox' = inbox /\ UNCHANGED used
    BY <1>4, Zenon DEF Complete
  <2>2. j.goal = goal.id /\ j.turn = goal.turn /\ goal.settled /\ goal.status = "Running"
    BY <1>4 DEF Stale, RunsTurn, Runs
  <2>3. /\ next \in PlannedGoals /\ next.id \in Nat
        /\ next.milestone # goal.milestone \/ next.status = "Converged" =>
             j.seq = seq /\ v = "approved"
    <3>1. CASE j.seq # seq \/ v = "error"
      BY <1>t, <3>1, FailGoalType DEF PlannedGoals, GoalStates
    <3>2. CASE ~(j.seq # seq \/ v = "error")
      BY <1>t, <2>2, <3>2, AdvanceMilestoneType DEF PlannedGoals, GoalStates
    <3> QED
      BY <3>1, <3>2
  <2> HIDE DEF next, idle
  <2>4. /\ goal' \in PlannedGoals
        /\ goal'.milestone # goal.milestone \/ goal'.status = "Converged" =>
             j.seq = seq /\ v = "approved"
    BY <2>1, <2>3, FailGoalType
  <2>5. /\ handle' \in Handles /\ handle'.pending = NoJudgement /\ used' \in Uses
        /\ mailbox' \in Seq(Commands) /\ Held(inbox) \subseteq Held(mailbox')
    BY <1>1, <1>t, <2>1, <2>3, ScheduleFacts
  <2> QED
    BY <2>2, <2>4, <2>5
<1> QED
  BY <1>2, <1>3, <1>4

-----------------------------------------------------------------------------
(* Types *)

LEMMA BeginType ==
  ASSUME NEW id \in Nat, NEW g \in Nat, NEW resumed \in BOOLEAN, Begin(id, g, resumed)
  PROVE  turn' \in Turns /\ turn'.goal = g /\ turn'.pc = "starting"
  BY DEF Begin, NoTurn, Turns, TurnOutcomes

LEMMA CommandGoalType ==
  ASSUME NEW c \in Commands
  PROVE  c.goal \in Nat /\ c.of \in Judgements
  BY DEF Commands

\* The commands about the Goal.
LEMMA GoalCommandTypes ==
  ASSUME TypeOK
  PROVE  /\ \A b \in Budgets : SetGoal(b) => TypeOK'
         /\ Pause \/ Resume \/ Clear \/ Refuse => TypeOK'
<1>t. /\ goal \in PlannedGoals /\ seq \in Nat /\ counted \in Nat /\ nextTurn \in Nat
      /\ created \in Nat /\ execution \in Executions /\ handle \in Handles
      /\ mailbox \in Seq(Commands) /\ deferred \in Seq(Commands) /\ turn \in Turns
      /\ verifiers \in SUBSET Judgements /\ followUp \in BOOLEAN /\ disturbed \in BOOLEAN
      /\ used \in Uses
  BY TypeFacts
<1>0. [handle EXCEPT !.scheduled = 0] \in Handles /\ goal.id \in Nat
  BY <1>t DEF Handles, PlannedGoals, GoalStates
<1>1. ASSUME NEW b \in Budgets, SetGoal(b) PROVE TypeOK'
  <2>0. Rest \in Seq(Commands) /\ b \in Nat
    BY <1>1, ReadFacts, ConstantsAssumption DEF SetGoal
  <2>1. UNCHANGED <<seq, counted, execution, turn, nextTurn, followUp, deferred, verifiers>>
    BY <1>1 DEF SetGoal
  <2>2. CASE CreateGoal(b)
    <3>1. created' \in Nat /\ goal' \in PlannedGoals /\ disturbed' \in BOOLEAN
      <4>1. created' = created + 1 /\ goal' = FreshGoal(created + 1, b) /\ created + 1 \in Nat
        BY <1>t, <2>2 DEF CreateGoal
      <4>2. disturbed' \in BOOLEAN
        BY <2>2 DEF CreateGoal
      <4> QED
        BY <2>0, <4>1, <4>2, GoalTypes
    <3>2. \/ Schedule([handle EXCEPT !.scheduled = 0], Rest, created + 1)
          \/ ScheduleRefused([handle EXCEPT !.scheduled = 0], Rest)
      BY <2>2 DEF CreateGoal
    <3>3. handle' \in Handles /\ mailbox' \in Seq(Commands) /\ used' \in Uses
      BY <1>t, <1>0, <2>0, <3>2, created + 1 \in Nat, ScheduleFacts
    <3> QED
      BY <1>t, <2>1, <3>1, <3>3, NextTypeFacts
  <2>3. CASE EditGoal(b)
    <3>1. created' \in Nat /\ goal' \in PlannedGoals /\ disturbed' \in BOOLEAN
      BY <1>t, <2>0, <2>3, GoalUpdates DEF EditGoal
    <3>2. \/ Schedule(handle, Rest, goal.id) \/ ScheduleRefused(handle, Rest)
          \/ handle' = [handle EXCEPT !.scheduled = 0] /\ mailbox' = Rest /\ used' = used
      BY <2>3 DEF EditGoal
    <3>3. handle' \in Handles /\ mailbox' \in Seq(Commands) /\ used' \in Uses
      BY <1>t, <1>0, <2>0, <3>2, ScheduleFacts
    <3> QED
      BY <1>t, <2>1, <3>1, <3>3, NextTypeFacts
  <2> QED
    BY <1>1, <2>2, <2>3 DEF SetGoal
<1>2. CASE Pause
  <2>1. /\ mailbox' \in Seq(Commands) /\ goal' \in PlannedGoals /\ handle' \in Handles
        /\ disturbed' \in BOOLEAN
    BY <1>t, <1>0, <1>2, ReadFacts, GoalUpdates DEF Pause
  <2> QED
    BY <1>t, <1>2, <2>1, NextTypeFacts DEF Pause
<1>3. CASE Resume
  <2>1. goal' \in PlannedGoals /\ Rest \in Seq(Commands)
    BY <1>t, <1>3, ReadFacts, GoalUpdates DEF Resume
  <2>2. handle' \in Handles /\ mailbox' \in Seq(Commands) /\ used' \in Uses
    BY <1>t, <1>0, <1>3, <2>1, ScheduleFacts DEF Resume
  <2> QED
    BY <1>t, <1>3, <2>1, <2>2, NextTypeFacts DEF Resume
<1>4. CASE Clear
  <2>1. mailbox' \in Seq(Commands) /\ goal' \in PlannedGoals /\ handle' \in Handles
    BY <1>4, ReadFacts, GoalTypes DEF Clear
  <2> QED
    BY <1>t, <1>4, <2>1, NextTypeFacts DEF Clear
<1>5. CASE Refuse
  <2>1. mailbox' \in Seq(Commands)
    BY <1>5, ReadFacts DEF Refuse
  <2> QED
    BY <1>t, <1>5, <2>1, NextTypeFacts DEF Refuse, disk
<1> QED
  BY <1>1, <1>2, <1>3, <1>4, <1>5

\* Turns begin.
LEMMA StartTypes ==
  ASSUME TypeOK,
         \/ StartTurn \/ ContinueTurn \/ StartGoalTurn \/ DropGoalStart \/ FollowUp
         \/ FirstCheckpoint \/ TimeOut \/ ContinueWithFollowUp \/ GoIdle
  PROVE  TypeOK'
<1>t. /\ goal \in PlannedGoals /\ seq \in Nat /\ counted \in Nat /\ nextTurn \in Nat
      /\ created \in Nat /\ execution \in Executions /\ handle \in Handles
      /\ mailbox \in Seq(Commands) /\ deferred \in Seq(Commands) /\ turn \in Turns
      /\ verifiers \in SUBSET Judgements /\ followUp \in BOOLEAN /\ disturbed \in BOOLEAN
      /\ used \in Uses
  BY TypeFacts
<1>0. execution.turn \in Nat /\ turn.id \in Nat /\ nextTurn + 1 \in Nat
  BY <1>t DEF Executions, Turns
<1>1. CASE StartTurn
  <2>1. turn' \in Turns /\ mailbox' \in Seq(Commands)
    BY <1>t, <1>1, BeginType, ReadFacts DEF StartTurn
  <2> QED
    BY <1>t, <1>0, <1>1, <2>1, NextTypeFacts DEF StartTurn, disk
<1>2. CASE ContinueTurn
  <2>1. turn' \in Turns /\ mailbox' \in Seq(Commands)
    BY <1>t, <1>0, <1>2, BeginType, ReadFacts DEF ContinueTurn
  <2> QED
    BY <1>t, <1>2, <2>1, NextTypeFacts DEF ContinueTurn, disk
<1>3. CASE StartGoalTurn
  <2>1. mailbox' \in Seq(Commands) /\ Head(mailbox).goal \in Nat
    BY <1>3, ReadFacts, CommandGoalType DEF StartGoalTurn
  <2>2. handle' \in Handles
    BY <1>t, <1>3 DEF StartGoalTurn, Handles
  <2>3. turn' \in Turns /\ nextTurn' \in Nat /\ goal' \in PlannedGoals
    <3>1. CASE Admits(Head(mailbox).goal)
      <4>1. /\ Begin(nextTurn, Head(mailbox).goal, FALSE) /\ nextTurn' = nextTurn + 1
            /\ goal' = [goal EXCEPT !.turn = nextTurn, !.settled = FALSE]
        BY <1>3, <3>1, Zenon DEF StartGoalTurn
      <4> QED
        BY <1>t, <1>0, <2>1, <4>1, BeginType, GoalUpdates
    <3>2. CASE ~Admits(Head(mailbox).goal)
      <4>1. UNCHANGED <<turn, nextTurn, goal>>
        BY <1>3, <3>2, Zenon DEF StartGoalTurn
      <4> QED
        BY <1>t, <4>1
    <3> QED
      BY <3>1, <3>2
  <2>4. UNCHANGED <<seq, counted, execution, followUp, deferred, verifiers, created, disturbed, used>>
    BY <1>3 DEF StartGoalTurn
  <2> QED
    BY <1>t, <2>1, <2>2, <2>3, <2>4, NextTypeFacts
<1>4. CASE DropGoalStart
  <2>1. mailbox' \in Seq(Commands)
    BY <1>4, ReadFacts DEF DropGoalStart
  <2> QED
    BY <1>t, <1>4, <2>1, NextTypeFacts DEF DropGoalStart, disk
<1>5. CASE FollowUp
  <2>1. mailbox' \in Seq(Commands)
    BY <1>5, ReadFacts DEF FollowUp
  <2> QED
    BY <1>t, <1>5, <2>1, NextTypeFacts DEF FollowUp, disk
<1>6. CASE FirstCheckpoint
  <2>1. turn' \in Turns /\ execution' \in Executions
    BY <1>t, <1>0, <1>6 DEF FirstCheckpoint, Turns, Executions
  <2> QED
    BY <1>t, <1>6, <2>1, NextTypeFacts DEF FirstCheckpoint
<1>7. CASE TimeOut
  <2>1. turn' \in Turns
    BY <1>t, <1>7 DEF TimeOut, Turns
  <2> QED
    BY <1>t, <1>7, <2>1, NextTypeFacts DEF TimeOut, disk
<1>8. CASE ContinueWithFollowUp
  <2>1. turn' \in Turns
    BY <1>t, <1>8, BeginType DEF ContinueWithFollowUp
  <2> QED
    BY <1>t, <1>0, <1>8, <2>1, NextTypeFacts DEF ContinueWithFollowUp, disk
<1>9. CASE GoIdle
  BY <1>t, <1>9, GoalTypes, NextTypeFacts DEF GoIdle, disk
<1> QED
  BY <1>1, <1>2, <1>3, <1>4, <1>5, <1>6, <1>7, <1>8, <1>9

\* Turns end.
LEMMA EndTypes ==
  ASSUME TypeOK
  PROVE  /\ \A o \in TurnOutcomes \ {"None"} : FinishTurn(o) => TypeOK'
         /\ \A n \in Tokens : CountTokens(n) => TypeOK'
         /\ SettleGoalTurn \/ RequestVerification \/ CompleteDeferred => TypeOK'
<1>t. /\ goal \in PlannedGoals /\ seq \in Nat /\ counted \in Nat /\ nextTurn \in Nat
      /\ created \in Nat /\ execution \in Executions /\ handle \in Handles
      /\ mailbox \in Seq(Commands) /\ deferred \in Seq(Commands) /\ turn \in Turns
      /\ verifiers \in SUBSET Judgements /\ followUp \in BOOLEAN /\ disturbed \in BOOLEAN
      /\ used \in Uses
  BY TypeFacts
<1>1. ASSUME NEW o \in TurnOutcomes \ {"None"}, FinishTurn(o) PROVE TypeOK'
  <2>1. turn' \in Turns
    BY <1>t, <1>1 DEF FinishTurn, Turns
  <2>2. execution' \in Executions
    BY <1>t, <1>1 DEF FinishTurn, Executions
  <2>3. seq' \in Nat /\ counted' \in Nat
    BY <1>t, <1>1 DEF FinishTurn
  <2> QED
    BY <1>t, <1>1, <2>1, <2>2, <2>3, NextTypeFacts DEF FinishTurn
<1>2. ASSUME NEW n \in Tokens, CountTokens(n) PROVE TypeOK'
  <2>1. goal' \in PlannedGoals
    BY <1>t, <1>2, RecordUsageType, ConstantsAssumption DEF CountTokens
  <2>2. turn' \in Turns
    BY <1>t, <1>2 DEF CountTokens, Turns
  <2> QED
    BY <1>t, <1>2, <2>1, <2>2, NextTypeFacts DEF CountTokens
<1>3. CASE SettleGoalTurn
  <2>1. goal' \in PlannedGoals
    <3>1. \/ goal' = goal
          \/ goal' = [goal EXCEPT !.settled = TRUE]
          \/ \E st \in {"UsageLimited", "Failed"} : goal' = LimitTurn(goal, turn.goal, turn.id, st)
      BY <1>3 DEF SettleGoalTurn
    <3>2. [goal EXCEPT !.settled = TRUE] \in PlannedGoals
      BY <1>t, GoalUpdates
    <3>3. \A st \in {"UsageLimited", "Failed"} :
            LimitTurn(goal, turn.goal, turn.id, st) \in PlannedGoals
      BY <1>t, LimitTurnType DEF GoalStatuses
    <3> QED
      BY <1>t, <3>1, <3>2, <3>3
  <2>2. turn' \in Turns
    BY <1>t, <1>3 DEF SettleGoalTurn, Turns
  <2> QED
    BY <1>t, <1>3, <2>1, <2>2, NextTypeFacts DEF SettleGoalTurn
<1>4. CASE RequestVerification
  <2>1. turn' \in Turns
    BY <1>t, <1>4 DEF RequestVerification, Turns
  <2>2. /\ goal' \in PlannedGoals /\ handle' \in Handles /\ used' \in Uses
        /\ verifiers' \in SUBSET Judgements
    BY <1>t, <1>4, PrepareFacts DEF RequestVerification
  <2> QED
    BY <1>t, <1>4, <2>1, <2>2, NextTypeFacts DEF RequestVerification
<1>5. CASE CompleteDeferred
  <2>1. Head(deferred) \in Commands /\ Tail(deferred) \in Seq(Commands)
    BY <1>t, <1>5 DEF CompleteDeferred
  <2>2. Complete(Head(deferred).of, Head(deferred).verdict, mailbox)
    BY <1>5 DEF CompleteDeferred
  <2>3. /\ goal' \in PlannedGoals /\ handle' \in Handles /\ used' \in Uses
        /\ mailbox' \in Seq(Commands)
    BY <1>t, <2>1, <2>2, CompleteFacts, CommandGoalType
  <2> QED
    BY <1>t, <1>5, <2>1, <2>3, NextTypeFacts DEF CompleteDeferred
<1> QED
  BY <1>1, <1>2, <1>3, <1>4, <1>5

\* Verifier results, clients and the process.
LEMMA OtherTypes ==
  ASSUME TypeOK
  PROVE  /\ CompleteVerification \/ DeferVerified \/ Report \/ Crash \/ Restart => TypeOK'
         /\ \A op \in ClientOps : ClientSends(op) => TypeOK'
<1>t. /\ goal \in PlannedGoals /\ seq \in Nat /\ counted \in Nat /\ nextTurn \in Nat
      /\ created \in Nat /\ execution \in Executions /\ handle \in Handles
      /\ mailbox \in Seq(Commands) /\ deferred \in Seq(Commands) /\ turn \in Turns
      /\ verifiers \in SUBSET Judgements /\ followUp \in BOOLEAN /\ disturbed \in BOOLEAN
      /\ used \in Uses
  BY TypeFacts
<1>1. CASE CompleteVerification
  <2>1. Head(mailbox) \in Commands /\ Rest \in Seq(Commands)
    BY <1>1, ReadFacts DEF CompleteVerification
  <2>2. Complete(Head(mailbox).of, Head(mailbox).verdict, Rest)
    BY <1>1 DEF CompleteVerification
  <2>3. /\ goal' \in PlannedGoals /\ handle' \in Handles /\ used' \in Uses
        /\ mailbox' \in Seq(Commands)
    BY <1>t, <2>1, <2>2, CompleteFacts, CommandGoalType
  <2> QED
    BY <1>t, <1>1, <2>3, NextTypeFacts DEF CompleteVerification
<1>2. CASE DeferVerified
  <2>1. Head(mailbox) \in Commands /\ Rest \in Seq(Commands)
    BY <1>2, ReadFacts DEF DeferVerified
  <2>2. deferred' \in Seq(Commands) /\ mailbox' \in Seq(Commands)
    BY <1>t, <1>2, <2>1 DEF DeferVerified
  <2> QED
    BY <1>t, <1>2, <2>2, NextTypeFacts DEF DeferVerified, disk
<1>3. CASE Report
  <2>1. PICK j \in verifiers, v \in Verdicts : VerifierReports(j, v)
    BY <1>3 DEF Report
  <2>2. Verified(j, v) \in Commands
    BY <1>t, CommandTypes
  <2>3. mailbox' \in Seq(Commands) /\ verifiers' \in SUBSET Judgements
    BY <1>t, <2>1, <2>2 DEF VerifierReports
  <2> QED
    BY <1>t, <2>1, <2>3, NextTypeFacts DEF VerifierReports, disk
<1>4. CASE Crash
  <2>1. turn' \in Turns
    BY <1>4, GoalTypes DEF Crash, Turns
  <2>2. used' \in Uses
    BY <1>t, <1>4, SpendType DEF Crash, Uses
  <2>3. handle' \in Handles /\ mailbox' \in Seq(Commands) /\ deferred' \in Seq(Commands)
    BY <1>4, GoalTypes DEF Crash
  <2> QED
    BY <1>t, <1>4, <2>1, <2>2, <2>3, NextTypeFacts DEF Crash, disk
<1>5. CASE Restart
  <2>1. execution' \in Executions
    BY <1>t, <1>5 DEF Restart, Executions
  <2>2. turn' \in Turns /\ nextTurn' \in Nat
    BY <1>t, <1>5, GoalTypes DEF Restart
  <2>3. \/ Prepare(goal, handle) /\ UNCHANGED mailbox
        \/ Schedule(handle, mailbox, goal.id) /\ UNCHANGED <<goal, verifiers>>
        \/ UNCHANGED <<goal, handle, mailbox, verifiers, used>>
    BY <1>5 DEF Restart
  <2>4. goal.id \in Nat
    BY <1>t DEF PlannedGoals, GoalStates
  <2>5. /\ goal' \in PlannedGoals /\ handle' \in Handles /\ used' \in Uses
        /\ verifiers' \in SUBSET Judgements /\ mailbox' \in Seq(Commands)
    BY <1>t, <2>3, <2>4, PrepareFacts, ScheduleFacts
  <2> QED
    BY <1>t, <1>5, <2>1, <2>2, <2>5, NextTypeFacts DEF Restart
<1>6. ASSUME NEW op \in ClientOps, ClientSends(op) PROVE TypeOK'
  <2>1. mailbox' \in Seq(Commands)
    BY <1>t, <1>6, CommandTypes DEF ClientSends
  <2>2. used' \in Uses
    BY <1>t, <1>6, SpendType DEF ClientSends, Uses
  <2> QED
    BY <1>t, <1>6, <2>1, <2>2, NextTypeFacts DEF ClientSends, disk
<1> QED
  BY <1>1, <1>2, <1>3, <1>4, <1>5, <1>6

LEMMA TypeNext == TypeOK /\ [Next]_vars => TypeOK'
<1> SUFFICES ASSUME TypeOK, [Next]_vars PROVE TypeOK'
  OBVIOUS
<1>1. CASE UNCHANGED vars
  BY <1>1 DEF TypeOK, vars, disk
<1> QED
  BY <1>1, GoalCommandTypes, StartTypes, EndTypes, OtherTypes DEF Next, WorkerStep

-----------------------------------------------------------------------------
(* Starts *)

\* While a Turn is starting the worker reads nothing, so the Goal that began it
\* stays as mark_goal_turn_started found it.
LEMMA StoppedNext == TypeOK /\ StoppedGoalsDoNotRun /\ [Next]_vars => StoppedGoalsDoNotRun'
<1> SUFFICES ASSUME TypeOK, StoppedGoalsDoNotRun, [Next]_vars,
                    turn'.pc = "starting", turn'.goal # 0
             PROVE  Runs(goal', turn'.goal)
  BY DEF StoppedGoalsDoNotRun, Runs
<1>t. goal \in PlannedGoals /\ turn \in Turns /\ nextTurn \in Nat /\ TypeOK'
  BY TypeFacts, TypeNext
<1>1. CASE StartGoalTurn
  <2>0. Head(mailbox).goal \in Nat
    BY <1>1, ReadFacts, CommandGoalType DEF StartGoalTurn
  <2>1. CASE Admits(Head(mailbox).goal)
    <3>1. /\ Begin(nextTurn, Head(mailbox).goal, FALSE)
          /\ goal' = [goal EXCEPT !.turn = nextTurn, !.settled = FALSE]
      BY <1>1, <2>1, Zenon DEF StartGoalTurn
    <3>2. turn'.goal = Head(mailbox).goal /\ goal'.id = goal.id /\ goal'.status = goal.status
      BY <1>t, <2>0, <3>1, BeginType, GoalUpdates
    <3> QED
      BY <2>1, <3>2 DEF Admits, Runs
  <2>2. CASE ~Admits(Head(mailbox).goal)
    <3>1. UNCHANGED <<turn, goal>>
      BY <1>1, <2>2, Zenon DEF StartGoalTurn
    <3> QED
      BY <3>1 DEF StoppedGoalsDoNotRun
  <2> QED
    BY <2>1, <2>2
<1>2. CASE StartTurn \/ ContinueTurn \/ ContinueWithFollowUp
  <2>1. turn'.goal = 0
    BY <1>2 DEF StartTurn, ContinueTurn, ContinueWithFollowUp, Begin, NoTurn
  <2> QED
    BY <2>1
<1>3. CASE FirstCheckpoint \/ GoIdle \/ Crash \/ Restart \/ SettleGoalTurn \/ RequestVerification
           \/ (\E o \in TurnOutcomes \ {"None"} : FinishTurn(o))
           \/ (\E n \in Tokens : CountTokens(n))
  <2>1. \/ turn' = NoTurn \/ turn' = [NoTurn EXCEPT !.pc = "down"]
        \/ \E o : turn' = [turn EXCEPT !.pc = "usage", !.outcome = o]
        \/ \E at \in {"running", "settle", "verify", "next"} : turn' = [turn EXCEPT !.pc = at]
    BY <1>3 DEF FirstCheckpoint, GoIdle, Crash, Restart, SettleGoalTurn, RequestVerification,
                FinishTurn, CountTokens
  <2>2. /\ NoTurn.pc # "starting" /\ [NoTurn EXCEPT !.pc = "down"].pc # "starting"
        /\ \A o : [turn EXCEPT !.pc = "usage", !.outcome = o].pc = "usage"
        /\ \A at \in {"running", "settle", "verify", "next"} : [turn EXCEPT !.pc = at].pc = at
    BY <1>t DEF NoTurn, Turns
  <2>3. turn'.pc # "starting"
    BY <2>1, <2>2
  <2> QED
    BY <2>3
<1>4. CASE (\E b \in Budgets : SetGoal(b)) \/ Pause \/ Resume \/ Clear \/ CompleteVerification
  <2>1. turn' = turn /\ turn.pc # "starting"
    BY <1>4 DEF SetGoal, Pause, Resume, Clear, CompleteVerification, Read, Listening, Idle
  <2> QED
    BY <2>1
<1>5. CASE CompleteDeferred
  BY <1>5 DEF CompleteDeferred
<1>6. CASE TimeOut
  <2>1. turn'.pc = "running"
    BY <1>6, <1>t DEF TimeOut, Turns
  <2> QED
    BY <2>1
<1>7. CASE Refuse \/ DropGoalStart \/ FollowUp \/ DeferVerified \/ Report
           \/ (\E op \in ClientOps : ClientSends(op)) \/ UNCHANGED vars
  <2>1. UNCHANGED <<turn, goal>>
    BY <1>7 DEF Refuse, DropGoalStart, FollowUp, DeferVerified, Report, VerifierReports,
                ClientSends, vars, disk
  <2> QED
    BY <2>1 DEF StoppedGoalsDoNotRun
<1> QED
  BY <1>1, <1>2, <1>3, <1>4, <1>5, <1>6, <1>7 DEF Next, WorkerStep

-----------------------------------------------------------------------------
(* Verifications *)

\* The results that are on their way.
Arriving == {r \in Held(mailbox) \cup Held(deferred) : r.op = "verified"}

LEMMA InFlightMeans ==
  PendingIsInFlight <=>
    (handle.pending # NoJudgement =>
       handle.pending \in verifiers \/ \E r \in Arriving : r.of = handle.pending)
  BY DEF PendingIsInFlight, Arriving, Held

LEMMA InFlightMeansNext ==
  PendingIsInFlight' <=>
    (handle'.pending # NoJudgement =>
       handle'.pending \in verifiers' \/ \E r \in Arriving' : r.of = handle'.pending)
  BY DEF PendingIsInFlight, Arriving, Held

\* A step that keeps the verification, its task and every result.
LEMMA InFlightKept ==
  ASSUME PendingIsInFlight, handle'.pending \in {handle.pending, NoJudgement},
         verifiers \subseteq verifiers', Arriving \subseteq Arriving'
  PROVE  PendingIsInFlight'
  BY InFlightMeans, InFlightMeansNext

\* Only CompleteVerification and DeferVerified take a result from the mailbox.
LEMMA ResultsStay ==
  ASSUME TypeOK, NEW op, op # "verified", Read(op), Held(Rest) \subseteq Held(mailbox'),
         deferred' = deferred
  PROVE  Arriving \subseteq Arriving'
<1>1. Held(mailbox) = Held(Rest) \cup {Head(mailbox)} /\ Head(mailbox).op = op
  BY ReadFacts
<1> QED
  BY <1>1 DEF Arriving

LEMMA SameQueues ==
  ASSUME Held(mailbox) \subseteq Held(mailbox'), Held(deferred) \subseteq Held(deferred')
  PROVE  Arriving \subseteq Arriving'
  BY DEF Arriving

LEMMA InFlightNext == TypeOK /\ PendingIsInFlight /\ [Next]_vars => PendingIsInFlight'
<1> SUFFICES ASSUME TypeOK, PendingIsInFlight, [Next]_vars PROVE PendingIsInFlight'
  OBVIOUS
<1>t. /\ goal \in PlannedGoals /\ created \in Nat /\ handle \in Handles /\ mailbox \in Seq(Commands)
      /\ deferred \in Seq(Commands) /\ verifiers \in SUBSET Judgements /\ used \in Uses
  BY TypeFacts
<1>0. /\ goal.id \in Nat
      /\ [handle EXCEPT !.scheduled = 0] \in Handles
      /\ [handle EXCEPT !.scheduled = 0].pending = handle.pending
  BY <1>t DEF PlannedGoals, GoalStates, Handles
<1>1. ASSUME NEW b \in Budgets, SetGoal(b) PROVE PendingIsInFlight'
  <2>0. Rest \in Seq(Commands) /\ Read("set") /\ UNCHANGED <<deferred, verifiers>>
    BY <1>1, ReadFacts DEF SetGoal
  <2>1. \/ Schedule([handle EXCEPT !.scheduled = 0], Rest, created + 1)
        \/ ScheduleRefused([handle EXCEPT !.scheduled = 0], Rest)
        \/ Schedule(handle, Rest, goal.id) \/ ScheduleRefused(handle, Rest)
        \/ handle' = [handle EXCEPT !.scheduled = 0] /\ mailbox' = Rest
    BY <1>1 DEF SetGoal, CreateGoal, EditGoal
  <2>2. handle'.pending = handle.pending /\ Held(Rest) \subseteq Held(mailbox')
    BY <1>t, <1>0, <2>0, <2>1, created + 1 \in Nat, ScheduleFacts
  <2> QED
    BY <2>0, <2>2, ResultsStay, InFlightKept
<1>2. CASE Pause \/ Clear
  <2>1. /\ Read("pause") \/ Read("clear")
        /\ mailbox' = Rest /\ UNCHANGED <<deferred, verifiers>>
        /\ handle' = [handle EXCEPT !.scheduled = 0] \/ handle' = NoHandle
    BY <1>2 DEF Pause, Clear
  <2>2. handle'.pending \in {handle.pending, NoJudgement}
    <3>1. NoHandle.pending = NoJudgement
      BY DEF NoHandle
    <3> QED
      BY <1>0, <2>1, <3>1
  <2>3. Arriving \subseteq Arriving'
    BY <2>1, ResultsStay
  <2> QED
    BY <2>1, <2>2, <2>3, InFlightKept
<1>3. CASE Resume
  <2>0. Rest \in Seq(Commands) /\ Read("resume") /\ UNCHANGED <<deferred, verifiers>>
    BY <1>3, ReadFacts DEF Resume
  <2>1. handle'.pending = handle.pending /\ Held(Rest) \subseteq Held(mailbox')
    BY <1>t, <1>0, <1>3, <2>0, ScheduleFacts DEF Resume
  <2> QED
    BY <2>0, <2>1, ResultsStay, InFlightKept
<1>4. CASE Refuse \/ StartTurn \/ ContinueTurn \/ DropGoalStart \/ FollowUp
  <2>1. PICK op \in ClientOps \cup {"start", "continue", "goalStart", "followUp"} : Read(op)
    BY <1>4 DEF Refuse, StartTurn, ContinueTurn, DropGoalStart, FollowUp
  <2>2. op # "verified" /\ mailbox' = Rest /\ UNCHANGED <<handle, deferred, verifiers>>
    BY <1>4, ConstantsAssumption DEF Refuse, StartTurn, ContinueTurn, DropGoalStart, FollowUp
  <2>3. Arriving \subseteq Arriving'
    BY <2>1, <2>2, ResultsStay
  <2> QED
    BY <2>2, <2>3, InFlightKept
<1>5. CASE StartGoalTurn
  <2>1. /\ Read("goalStart") /\ mailbox' = Rest /\ UNCHANGED <<deferred, verifiers>>
        /\ handle' = [handle EXCEPT !.scheduled = 0]
    BY <1>5 DEF StartGoalTurn
  <2>2. Arriving \subseteq Arriving'
    BY <2>1, ResultsStay
  <2> QED
    BY <1>0, <2>1, <2>2, InFlightKept
<1>6. CASE \/ FirstCheckpoint \/ TimeOut \/ SettleGoalTurn \/ ContinueWithFollowUp \/ GoIdle
           \/ (\E o \in TurnOutcomes \ {"None"} : FinishTurn(o)) \/ (\E n \in Tokens : CountTokens(n))
           \/ UNCHANGED vars
  <2>1. UNCHANGED <<handle, mailbox, deferred, verifiers>>
    BY <1>6 DEF FirstCheckpoint, TimeOut, SettleGoalTurn, ContinueWithFollowUp, GoIdle, FinishTurn,
                CountTokens, vars
  <2> QED
    BY <2>1, SameQueues, InFlightKept
<1>7. CASE RequestVerification
  <2>1. /\ verifiers \subseteq verifiers'
        /\ handle'.pending = handle.pending \/ handle'.pending \in verifiers'
    BY <1>t, <1>7, PrepareFacts DEF RequestVerification
  <2>2. Arriving \subseteq Arriving'
    BY <1>7, SameQueues DEF RequestVerification
  <2> QED
    BY <2>1, <2>2, InFlightKept, InFlightMeansNext
<1>8. CASE CompleteDeferred
  <2> DEFINE r == Head(deferred)
  <2>1. /\ Complete(r.of, r.verdict, mailbox) /\ deferred # <<>>
        /\ deferred' = Tail(deferred) /\ UNCHANGED verifiers
    BY <1>8 DEF CompleteDeferred
  <2>2. r \in Commands /\ Held(deferred) = Held(deferred') \cup {r}
    BY <1>t, <2>1, QueueFacts
  <2> HIDE DEF r
  <2>3. /\ Held(mailbox) \subseteq Held(mailbox')
        /\ \/ handle'.pending = NoJudgement
           \/ handle'.pending = handle.pending /\ handle.pending # r.of
    BY <1>t, <2>1, <2>2, CompleteFacts, CommandGoalType
  <2>4. \A m \in Arriving : m # r => m \in Arriving'
    BY <2>2, <2>3 DEF Arriving
  <2> QED
    BY <2>1, <2>3, <2>4, InFlightMeans, InFlightMeansNext
<1>9. CASE CompleteVerification
  <2> DEFINE r == Head(mailbox)
  <2>1. Complete(r.of, r.verdict, Rest) /\ UNCHANGED <<deferred, verifiers>>
    BY <1>9 DEF CompleteVerification
  <2>2. r \in Commands /\ Rest \in Seq(Commands) /\ Held(mailbox) = Held(Rest) \cup {r}
    BY <1>9, ReadFacts DEF CompleteVerification
  <2> HIDE DEF r
  <2>3. /\ Held(Rest) \subseteq Held(mailbox')
        /\ \/ handle'.pending = NoJudgement
           \/ handle'.pending = handle.pending /\ handle.pending # r.of
    BY <1>t, <2>1, <2>2, CompleteFacts, CommandGoalType
  <2>4. \A m \in Arriving : m # r => m \in Arriving'
    BY <2>1, <2>2, <2>3 DEF Arriving
  <2> QED
    BY <2>1, <2>3, <2>4, InFlightMeans, InFlightMeansNext
<1>10. CASE DeferVerified
  <2>1. /\ deferred' = Append(deferred, Head(mailbox)) /\ mailbox' = Rest
        /\ UNCHANGED <<handle, verifiers>>
    BY <1>10 DEF DeferVerified
  <2>2. Head(mailbox) \in Commands /\ Held(mailbox) = Held(Rest) \cup {Head(mailbox)}
    BY <1>10, ReadFacts DEF DeferVerified
  <2>3. Held(deferred') = Held(deferred) \cup {Head(mailbox)}
    BY <1>t, <2>1, <2>2, QueueFacts
  <2>4. Arriving \subseteq Arriving'
    BY <2>1, <2>2, <2>3 DEF Arriving
  <2> QED
    BY <2>1, <2>4, InFlightKept
<1>11. CASE Report
  <2>1. PICK j \in verifiers, v \in Verdicts : VerifierReports(j, v)
    BY <1>11 DEF Report
  <2>2. Verified(j, v) \in Commands /\ Verified(j, v).op = "verified" /\ Verified(j, v).of = j
    BY <1>t, CommandTypes
  <2>3. /\ verifiers' = verifiers \ {j} /\ mailbox' = Append(mailbox, Verified(j, v))
        /\ UNCHANGED <<handle, deferred>>
    BY <2>1 DEF VerifierReports, disk
  <2>4. Held(mailbox') = Held(mailbox) \cup {Verified(j, v)}
    BY <1>t, <2>2, <2>3, QueueFacts
  <2>5. Arriving \subseteq Arriving' /\ Verified(j, v) \in Arriving'
    BY <2>2, <2>3, <2>4 DEF Arriving
  <2> QED
    BY <2>2, <2>3, <2>5, InFlightMeans, InFlightMeansNext
<1>12. ASSUME NEW op \in ClientOps, ClientSends(op) PROVE PendingIsInFlight'
  <2>1. Command(op) \in Commands /\ mailbox' = Append(mailbox, Command(op))
        /\ UNCHANGED <<handle, deferred, verifiers>>
    BY <1>12, CommandTypes DEF ClientSends
  <2>2. Held(mailbox') = Held(mailbox) \cup {Command(op)}
    BY <1>t, <2>1, QueueFacts
  <2> QED
    BY <2>1, <2>2, SameQueues, InFlightKept
<1>13. CASE Crash
  <2>1. handle'.pending = NoJudgement
    BY <1>13 DEF Crash, NoHandle
  <2> QED
    BY <2>1, InFlightMeansNext
<1>14. CASE Restart
  <2>1. \/ Prepare(goal, handle) /\ UNCHANGED mailbox
        \/ Schedule(handle, mailbox, goal.id) /\ UNCHANGED <<goal, verifiers>>
        \/ UNCHANGED <<goal, handle, mailbox, verifiers, used>>
    BY <1>14 DEF Restart
  <2>2. /\ verifiers \subseteq verifiers' /\ Held(mailbox) \subseteq Held(mailbox')
        /\ handle'.pending = handle.pending \/ handle'.pending \in verifiers'
    BY <1>t, <1>0, <2>1, PrepareFacts, ScheduleFacts
  <2>3. Arriving \subseteq Arriving'
    BY <1>14, <2>2, SameQueues DEF Restart
  <2> QED
    BY <2>2, <2>3, InFlightKept, InFlightMeansNext
<1> QED
  BY <1>1, <1>2, <1>3, <1>4, <1>5, <1>6, <1>7, <1>8, <1>9, <1>10, <1>11, <1>12, <1>13, <1>14
  DEF Next, WorkerStep

-----------------------------------------------------------------------------

Inv == TypeOK /\ StoppedGoalsDoNotRun /\ PendingIsInFlight

LEMMA InitInv == Init => Inv
<1> SUFFICES ASSUME Init PROVE Inv
  OBVIOUS
<1>1. /\ execution \in Executions /\ used \in Uses /\ mailbox \in Seq(Commands)
      /\ deferred \in Seq(Commands)
  BY DEF Init, Executions, Uses
<1>2. TypeOK
  BY <1>1, GoalTypes, TypeFacts DEF Init
<1>3. StoppedGoalsDoNotRun
  BY DEF Init, StoppedGoalsDoNotRun, NoTurn
<1>4. PendingIsInFlight
  BY InFlightMeans DEF Init, NoHandle
<1> QED
  BY <1>2, <1>3, <1>4 DEF Inv

\* Types, Starts and verifications in flight are invariant together
\* (goal_runtime.rs, worker.rs).
THEOREM InvHolds == Spec => []Inv
<1>1. Inv /\ [Next]_vars => Inv'
  BY TypeNext, StoppedNext, InFlightNext DEF Inv
<1> QED
  BY <1>1, InitInv, PTL DEF Spec

\* A Start that waits in the mailbox never begins a Turn of a Goal that was
\* paused, cleared, replaced or ended meanwhile (mark_goal_turn_started).
THEOREM StoppedGoalsStay == Spec => []StoppedGoalsDoNotRun
<1>1. Inv => StoppedGoalsDoNotRun
  BY DEF Inv
<1> QED
  BY <1>1, InvHolds, PTL

\* No verification is lost: while one is pending its task runs or its result
\* waits to be read, for any interleaving of Turns, commands and crashes
\* (prepare_verification, deferred_goal_verifications).
THEOREM NoVerificationIsLost == Spec => []PendingIsInFlight
<1>1. Inv => PendingIsInFlight
  BY DEF Inv
<1> QED
  BY <1>1, InvHolds, PTL

\* The two places a result is applied from.
LEMMA CompletedByResult ==
  ASSUME TypeOK, Next, goal' # goal, turn'.pc = turn.pc
  PROVE  /\ Idle /\ mailbox # <<>> /\ Head(mailbox).op = "verified" => CompleteVerification
         /\ turn.pc = "next" => CompleteDeferred
<1>t. turn \in Turns
  BY TypeFacts
<1>1. /\ ~Refuse /\ ~StartTurn /\ ~ContinueTurn /\ ~DropGoalStart /\ ~FollowUp /\ ~FirstCheckpoint
      /\ ~ContinueWithFollowUp /\ ~GoIdle /\ ~DeferVerified /\ ~Report /\ ~TimeOut /\ ~Crash
      /\ ~(\E op \in ClientOps : ClientSends(op))
      /\ ~(\E o \in TurnOutcomes \ {"None"} : FinishTurn(o))
  BY DEF Refuse, StartTurn, ContinueTurn, DropGoalStart, FollowUp, FirstCheckpoint,
         ContinueWithFollowUp, GoIdle, DeferVerified, Report, VerifierReports, TimeOut, Crash,
         ClientSends, FinishTurn, disk
<1>2. \/ (\E b \in Budgets : SetGoal(b)) \/ Pause \/ Resume \/ Clear \/ StartGoalTurn
      \/ (\E n \in Tokens : CountTokens(n)) \/ SettleGoalTurn \/ RequestVerification
      \/ CompleteDeferred \/ CompleteVerification \/ Restart
  BY <1>1 DEF Next, WorkerStep
<1>3. ASSUME (\E b \in Budgets : SetGoal(b)) \/ Pause \/ Resume \/ Clear \/ StartGoalTurn
      PROVE  turn.pc # "next" /\ Head(mailbox).op # "verified"
  BY <1>3 DEF SetGoal, Pause, Resume, Clear, StartGoalTurn, Read, Listening
<1>4. ASSUME \/ (\E n \in Tokens : CountTokens(n)) \/ SettleGoalTurn \/ RequestVerification
             \/ Restart
      PROVE  turn.pc \in {"usage", "settle", "verify", "down"}
  BY <1>4 DEF CountTokens, SettleGoalTurn, RequestVerification, Restart
<1>5. CompleteDeferred => turn.pc = "next"
  BY DEF CompleteDeferred
<1>6. CompleteVerification => turn.pc = "idle"
  BY DEF CompleteVerification, Idle
<1> QED
  BY <1>2, <1>3, <1>4, <1>5, <1>6 DEF Idle

\* A result of a verifier changes the Goal only if it judged the Turn the Goal
\* settled last, and moves it on only if no checkpoint was written since,
\* however late it arrives (complete_goal_verification).
THEOREM VerdictsStayCurrent == Spec => VerdictsAreCurrent
<1> DEFINE Current(c) ==
             /\ c.of.goal = goal.id /\ c.of.turn = goal.turn /\ goal.settled
             /\ goal'.milestone # goal.milestone \/ goal'.status = "Converged" =>
                  c.of.seq = seq /\ c.verdict = "approved"
<1>1. ASSUME TypeOK, Next, goal' # goal, turn'.pc = turn.pc,
             Idle, mailbox # <<>>, Head(mailbox).op = "verified"
      PROVE  Current(Head(mailbox))
  <2>1. CompleteVerification
    BY <1>1, CompletedByResult
  <2>2. Head(mailbox) \in Commands /\ Rest \in Seq(Commands)
    BY <1>1, <2>1, ReadFacts DEF CompleteVerification
  <2>3. Complete(Head(mailbox).of, Head(mailbox).verdict, Rest)
    BY <2>1 DEF CompleteVerification
  <2> QED
    BY <1>1, <2>2, <2>3, CompleteFacts, CommandGoalType
<1>2. ASSUME TypeOK, Next, goal' # goal, turn'.pc = turn.pc, turn.pc = "next", deferred # <<>>
      PROVE  Current(Head(deferred))
  <2>1. CompleteDeferred
    BY <1>2, CompletedByResult
  <2>2. Head(deferred) \in Commands /\ mailbox \in Seq(Commands)
    BY <1>2, TypeFacts
  <2>3. Complete(Head(deferred).of, Head(deferred).verdict, mailbox)
    BY <2>1 DEF CompleteDeferred
  <2> QED
    BY <1>2, <2>2, <2>3, CompleteFacts, CommandGoalType
<1> DEFINE Step(r) ==
             LET q == IF r = "mailbox" THEN mailbox ELSE deferred
                 applied == IF r = "mailbox" THEN Idle ELSE turn.pc = "next"
             IN applied /\ q # <<>> /\ Head(q).op = "verified"
                /\ goal' # goal /\ goal'.id = goal.id /\ turn'.pc = turn.pc
                /\ (IF r = "mailbox" THEN mailbox' ELSE deferred') # q =>
                  LET j == Head(q).of
                  IN /\ j.goal = goal.id /\ j.turn = goal.turn /\ goal.settled
                     /\ goal'.milestone # goal.milestone \/ goal'.status = "Converged" =>
                          j.seq = seq /\ Head(q).verdict = "approved"
<1>3. TypeOK /\ [Next]_vars => [\A r \in {"mailbox", "deferred"} : Step(r)]_vars
  <2> SUFFICES ASSUME TypeOK, Next PROVE \A r \in {"mailbox", "deferred"} : Step(r)
    OBVIOUS
  <2>1. Step("mailbox")
    BY <1>1
  <2>2. Step("deferred")
    BY <1>2
  <2> QED
    BY <2>1, <2>2
<1>4. Inv => TypeOK
  BY DEF Inv
<1> QED
  BY <1>3, <1>4, InvHolds, PTL DEF Spec, VerdictsAreCurrent

=============================================================================
