------------------------- MODULE InteractionsProofs -------------------------
(***************************************************************************)
(* Proofs about the interactions of a running Turn with its user, for any  *)
(* number of Turns, calls, clients, crashes and faults and any grant cap.  *)
(***************************************************************************)
EXTENDS Interactions, TLAPS

-----------------------------------------------------------------------------
(* The inductive invariant of the approvals *)

Budget == [calls : Nat, requests : Nat, crashes : Nat, faults : Nat, approvals : Nat]

\* Request ids are given out in order, so a new one is not yet answered.
IdsGiven ==
  /\ used \in Budget
  /\ waiting.id \in 0..used.approvals
  /\ responders \subseteq 1..used.approvals
  /\ \A a \in told : a.id \in 1..used.approvals
  /\ \A r \in ran : r.id \in 0..used.approvals

\* The worker blocks on the request of the call it is in, and that call has
\* not run.
WaitsForItsCall ==
  /\ waiting.id # 0 => pc = "approving" /\ waiting.action = call
  /\ waiting.id # 0 => \A r \in ran : r.id # waiting.id

\* A responder that is still there has not answered.
ResponderUnanswered ==
  \A a \in told : a.id \notin responders

\* What is in the channel is what the client was told.
DecisionTold ==
  decision # NoDecision =>
    /\ pc = "approving"
    /\ \E a \in told :
        /\ a.id = waiting.id
        /\ a.decision = decision.decision
        /\ a.scope = decision.scope
        /\ a.action = waiting.action
        /\ a.label = waiting.label

\* A stored grant was given by the client for this action and this access.
GrantsTold ==
  \A g \in grants : \E a \in told :
    /\ a.decision = "approve"
    /\ a.scope # "once"
    /\ a.action = g.key.action
    /\ a.label = g.key.label

ApprovalInv ==
  /\ IdsGiven
  /\ WaitsForItsCall
  /\ ResponderUnanswered
  /\ DecisionTold
  /\ GrantsTold
  /\ ApprovalsHold

\* What the invariant reads of the approvals.
ledger == <<grants, waiting, responders, decision, told, ran>>

LEMMA ApprovalInit == Init => ApprovalInv
  BY DEF Init, ApprovalInv, IdsGiven, Budget, WaitsForItsCall, ResponderUnanswered,
         DecisionTold, GrantsTold, ApprovalsHold, RunsAuthorised, FirstAnswerWins,
         NoRequest, NoDecision

\* Spending another bound leaves the count of approval requests alone.
LEMMA SpendOther ==
  ASSUME used \in Budget, NEW what \in {"calls", "requests", "crashes", "faults"},
         Spend(what)
  PROVE  used' \in Budget /\ used'.approvals = used.approvals
  BY DEF Spend, Budget

\* A step that leaves the ledger alone and is not at the blocked call.
LEMMA LedgerKept ==
  ASSUME ApprovalInv, UNCHANGED ledger,
         used' \in Budget, used'.approvals = used.approvals,
         (pc # "approving") \/ UNCHANGED <<pc, call>>
  PROVE  ApprovalInv'
<1>1. waiting.id # 0 => pc' = pc /\ call' = call
  BY DEF ApprovalInv, WaitsForItsCall
<1>2. decision # NoDecision => pc' = pc
  BY DEF ApprovalInv, DecisionTold
<1>3. IdsGiven' /\ ResponderUnanswered' /\ GrantsTold'
  BY DEF ApprovalInv, ledger, IdsGiven, ResponderUnanswered, GrantsTold
<1>4. WaitsForItsCall' /\ DecisionTold'
  BY <1>1, <1>2 DEF ApprovalInv, ledger, WaitsForItsCall, DecisionTold
<1>5. ApprovalsHold'
  BY DEF ApprovalInv, ledger, ApprovalsHold, RunsAuthorised, FirstAnswerWins
<1> QED
  BY <1>3, <1>4, <1>5 DEF ApprovalInv

\* A call that is admitted without asking: what ran has an authority.
LEMMA AdmittedInv ==
  ASSUME ApprovalInv, Admit, Executed(0),
         UNCHANGED <<grants, waiting, responders, decision, told, used>>,
         \/ Evaluate(controller.preset, call) = "Allow"
         \/ /\ Evaluate(controller.preset, call) = "Ask"
            /\ ~RequiresApproval(controller.policy, call)
         \/ Granted(call)
  PROVE  ApprovalInv'
<1>0. pc = "calling" /\ waiting.id = 0 /\ decision = NoDecision
  BY DEF Admit, ApprovalInv, WaitsForItsCall, DecisionTold
<1> DEFINE new == [action |-> call, id |-> 0, preset |-> controller.preset,
                   policy |-> controller.policy, label |-> controller.label]
<1>1. ran' = ran \cup {new}
  BY DEF Executed
<1>2. \/ Evaluate(new.preset, new.action) = "Allow"
      \/ Evaluate(new.preset, new.action) = "Ask" /\ ~RequiresApproval(new.policy, new.action)
      \/ \E a \in told : /\ a.decision = "approve"
                         /\ a.scope # "once"
                         /\ a.action = new.action
                         /\ a.label = new.label
  <2>1. CASE Granted(call)
    <3>1. PICK g \in grants : g.key = [action |-> call, label |-> controller.label]
      BY <2>1 DEF Granted, ActionGrantKey
    <3> QED
      BY <3>1 DEF ApprovalInv, GrantsTold
  <2> QED
    BY <2>1
<1>3. new.id = 0
  OBVIOUS
<1> HIDE DEF new
<1>4. RunsAuthorised'
  BY <1>1, <1>2 DEF ApprovalInv, ApprovalsHold, RunsAuthorised
<1>5. FirstAnswerWins'
  BY <1>1, <1>3 DEF ApprovalInv, ApprovalsHold, FirstAnswerWins, IdsGiven
<1>6. IdsGiven' /\ WaitsForItsCall' /\ ResponderUnanswered' /\ DecisionTold' /\ GrantsTold'
  BY <1>0, <1>1, <1>3 DEF ApprovalInv, IdsGiven, WaitsForItsCall, ResponderUnanswered,
                          DecisionTold, GrantsTold, Budget
<1> QED
  BY <1>4, <1>5, <1>6 DEF ApprovalInv, ApprovalsHold

\* A request for approval: its id is new.
LEMMA AskedInv ==
  ASSUME ApprovalInv, pc = "calling", pc' = "approving", UNCHANGED call,
         Spend("approvals"),
         waiting' = [id |-> used.approvals + 1, action |-> call,
                     label |-> controller.label, turn |-> turn],
         responders' = responders \cup {used.approvals + 1},
         UNCHANGED <<grants, decision, told, ran>>
  PROVE  ApprovalInv'
<1>0. decision = NoDecision
  BY DEF ApprovalInv, DecisionTold
<1>1. used.approvals \in Nat /\ used' \in Budget /\ used'.approvals = used.approvals + 1
  BY DEF ApprovalInv, IdsGiven, Budget, Spend
<1>2. waiting'.id = used.approvals + 1 /\ waiting'.action = call
  OBVIOUS
<1>3. IdsGiven'
  <2>1. /\ waiting'.id \in 0..used'.approvals
        /\ 0..used.approvals \subseteq 0..used'.approvals
        /\ 1..used.approvals \subseteq 1..used'.approvals
        /\ used.approvals + 1 \in 1..used'.approvals
    BY <1>1, <1>2
  <2> QED
    BY <1>1, <2>1 DEF ApprovalInv, IdsGiven
<1>4. WaitsForItsCall'
  BY <1>1, <1>2 DEF ApprovalInv, IdsGiven, WaitsForItsCall
<1>5. ResponderUnanswered'
  BY <1>1 DEF ApprovalInv, IdsGiven, ResponderUnanswered
<1>6. DecisionTold' /\ GrantsTold' /\ ApprovalsHold'
  BY <1>0 DEF ApprovalInv, DecisionTold, GrantsTold, ApprovalsHold, RunsAuthorised,
              FirstAnswerWins
<1> QED
  BY <1>3, <1>4, <1>5, <1>6 DEF ApprovalInv

LEMMA AdmitInv ==
  ASSUME ApprovalInv, Admit
  PROVE  ApprovalInv'
<1>1. \/ UNCHANGED approvalVars /\ UNCHANGED used
      \/ /\ \/ Evaluate(controller.preset, call) = "Allow"
            \/ /\ Evaluate(controller.preset, call) = "Ask"
               /\ ~RequiresApproval(controller.policy, call)
            \/ Granted(call)
         /\ Executed(0)
         /\ UNCHANGED <<grants, waiting, responders, decision, told, used>>
      \/ /\ pc' = "approving" /\ UNCHANGED call
         /\ Spend("approvals")
         /\ waiting' = [id |-> used.approvals + 1, action |-> call,
                        label |-> controller.label, turn |-> turn]
         /\ responders' = responders \cup {used.approvals + 1}
         /\ UNCHANGED <<grants, decision, told, ran>>
  BY Zenon DEF Admit
<1>2. pc = "calling" /\ used \in Budget
  BY DEF Admit, ApprovalInv, IdsGiven
<1>3. CASE UNCHANGED approvalVars /\ UNCHANGED used
  BY <1>2, <1>3, LedgerKept DEF approvalVars, ledger
<1> QED
  BY <1>1, <1>2, <1>3, AdmittedInv, AskedInv

\* The answer reaches the worker: an approved call runs under its request.
LEMMA ApprovalArrivesInv ==
  ASSUME ApprovalInv, ApprovalArrives
  PROVE  ApprovalInv'
<1>0. /\ pc = "approving" /\ decision # NoDecision
      /\ decision' = NoDecision /\ waiting' = NoRequest
      /\ UNCHANGED <<responders, told, used>>
  BY DEF ApprovalArrives
<1>1. PICK a \in told : /\ a.id = waiting.id
                        /\ a.decision = decision.decision
                        /\ a.scope = decision.scope
                        /\ a.action = waiting.action
                        /\ a.label = waiting.label
  BY <1>0 DEF ApprovalInv, DecisionTold
<1>2. a.id \in 1..used.approvals /\ used.approvals \in Nat /\ waiting.action = call
  BY <1>1 DEF ApprovalInv, IdsGiven, WaitsForItsCall, Budget
<1>3. waiting'.id = 0
  BY <1>0 DEF NoRequest
<1>4. WaitsForItsCall' /\ ResponderUnanswered' /\ DecisionTold'
  BY <1>0, <1>3 DEF ApprovalInv, WaitsForItsCall, ResponderUnanswered, DecisionTold
<1>5. CASE decision.decision = "approve"
  <2> DEFINE new == [action |-> call, id |-> waiting.id, preset |-> controller.preset,
                     policy |-> controller.policy, label |-> controller.label]
  <2>1. ran' = ran \cup {new} /\ grants' = InsertGrant(decision.scope, call)
    BY <1>5 DEF ApprovalArrives, Executed
  <2>2. new.id = a.id
    BY <1>1
  <2> HIDE DEF new
  <2>3. \A g \in grants' : \/ g \in grants
                           \/ /\ decision.scope # "once"
                              /\ g.key.action = a.action
                              /\ g.key.label = a.label
    BY <2>1, <1>1, <1>2 DEF InsertGrant, ActionGrantKey
  <2>4. GrantsTold'
    BY <2>3, <1>0, <1>1, <1>5 DEF ApprovalInv, GrantsTold
  <2>5. IdsGiven'
    BY <1>0, <1>2, <1>3, <2>1, <2>2 DEF ApprovalInv, IdsGiven
  <2>6. RunsAuthorised'
    BY <1>0, <1>1, <1>5, <2>1, <2>2 DEF ApprovalInv, ApprovalsHold, RunsAuthorised
  <2>7. FirstAnswerWins'
    BY <1>0, <1>1, <1>5, <2>1, <2>2 DEF ApprovalInv, ApprovalsHold, FirstAnswerWins
  <2> QED
    BY <1>4, <2>4, <2>5, <2>6, <2>7 DEF ApprovalInv, ApprovalsHold
<1>6. CASE decision.decision # "approve"
  <2>1. UNCHANGED <<ran, grants>>
    BY <1>6 DEF ApprovalArrives
  <2>2. IdsGiven' /\ GrantsTold' /\ ApprovalsHold'
    BY <1>0, <1>2, <1>3, <2>1 DEF ApprovalInv, IdsGiven, GrantsTold, ApprovalsHold,
                                  RunsAuthorised, FirstAnswerWins
  <2> QED
    BY <1>4, <2>2 DEF ApprovalInv
<1> QED
  BY <1>5, <1>6

\* A client answers: the first answer takes the responder with it.
LEMMA ApprovalRespondInv ==
  ASSUME ApprovalInv, ApprovalRespond
  PROVE  ApprovalInv'
<1>1. PICK answer \in {"approve", "deny"}, scope \in Scopes : Respond(answer, scope)
  BY DEF ApprovalRespond
<1>2. PICK id \in shown \cap responders :
        /\ id = waiting.id
        /\ responders' = responders \ {id}
        /\ decision' = [decision |-> answer, scope |-> scope]
        /\ told' = told \cup {[id |-> id, decision |-> answer, scope |-> scope,
                               action |-> waiting.action, label |-> waiting.label]}
        /\ UNCHANGED <<grants, waiting, ran>>
  BY <1>1 DEF Respond
<1> DEFINE new == [id |-> id, decision |-> answer, scope |-> scope,
                   action |-> waiting.action, label |-> waiting.label]
<1>3. /\ new.id = id /\ new.decision = answer /\ new.scope = scope
      /\ new.action = waiting.action /\ new.label = waiting.label
      /\ told' = told \cup {new}
  BY <1>2
<1> HIDE DEF new
<1>4. /\ id \in 1..used.approvals /\ used.approvals \in Nat
      /\ pc = "approving" /\ pc' = pc /\ call' = call /\ used' = used
      /\ waiting.id # 0 /\ waiting.id = id
      /\ \A r \in ran : r.id # id
      /\ \A a \in told : a.id # id
  BY <1>2 DEF ApprovalInv, IdsGiven, WaitsForItsCall, ResponderUnanswered, Budget,
              ApprovalRespond, workerVars
<1>5. IdsGiven' /\ WaitsForItsCall'
  BY <1>2, <1>3, <1>4 DEF ApprovalInv, IdsGiven, WaitsForItsCall
<1>6. ResponderUnanswered'
  BY <1>2, <1>3, <1>4 DEF ApprovalInv, ResponderUnanswered
<1>7. DecisionTold'
  BY <1>2, <1>3, <1>4 DEF ApprovalInv, DecisionTold
<1>8. GrantsTold'
  BY <1>2, <1>3 DEF ApprovalInv, GrantsTold
<1>9. RunsAuthorised'
  BY <1>2, <1>3 DEF ApprovalInv, ApprovalsHold, RunsAuthorised
<1>10. FirstAnswerWins'
  BY <1>2, <1>3, <1>4 DEF ApprovalInv, ApprovalsHold, FirstAnswerWins
<1> QED
  BY <1>5, <1>6, <1>7, <1>8, <1>9, <1>10 DEF ApprovalInv, ApprovalsHold

\* A crash forgets the open request and the grants, not what was said and done.
LEMMA CrashApprovalInv ==
  ASSUME ApprovalInv, Crash
  PROVE  ApprovalInv'
<1>1. /\ used' \in Budget /\ used'.approvals = used.approvals
      /\ used.approvals \in Nat
  BY SpendOther DEF Crash, ApprovalInv, IdsGiven, Budget
<1>2. /\ grants' = {} /\ responders' = {}
      /\ decision' = NoDecision /\ waiting'.id = 0
      /\ UNCHANGED <<told, ran>>
  BY DEF Crash, NoRequest
<1> QED
  BY <1>1, <1>2 DEF ApprovalInv, IdsGiven, WaitsForItsCall, ResponderUnanswered,
       DecisionTold, GrantsTold, ApprovalsHold, RunsAuthorised, FirstAnswerWins

LEMMA ApprovalStep ==
  ASSUME ApprovalInv, [Next]_vars
  PROVE  ApprovalInv'
<1>t. used \in Budget
  BY DEF ApprovalInv, IdsGiven
<1>1. CASE Admit \/ ApprovalArrives \/ ApprovalRespond \/ Crash
  BY <1>1, AdmitInv, ApprovalArrivesInv, ApprovalRespondInv, CrashApprovalInv
<1>2. CASE StartTurn \/ ObserveCancel \/ FinishRun \/ SkipCall \/ DeferCall \/ CallAsk
           \/ AskDone \/ Settle \/ HandleCommand
  <2>1. UNCHANGED ledger /\ used' = used /\ pc # "approving"
    BY <1>2 DEF StartTurn, ObserveCancel, FinishRun, EndRun, SkipCall, DeferCall, CallAsk,
         AskDone, Settle, HandleCommand, ledger, approvalVars
  <2> QED
    BY <1>t, <2>1, LedgerKept
<1>3. CASE BeginCall \/ AskingFails \/ SendRequest
  <2>1. /\ UNCHANGED ledger
        /\ pc # "approving" \/ UNCHANGED <<pc, call>>
        /\ \E what \in {"calls", "requests", "crashes", "faults"} : Spend(what)
    BY <1>3 DEF BeginCall, AskingFails, SendRequest, ledger, approvalVars, workerVars
  <2> QED
    BY <1>t, <2>1, LedgerKept, SpendOther
<1>4. CASE Restart \/ ResumeTurn
  <2>1. UNCHANGED ledger /\ used' = used /\ pc # "approving"
    BY <1>4 DEF Restart, ResumeTurn, ledger, approvalVars
  <2> QED
    BY <1>t, <2>1, LedgerKept
<1>5. CASE Asking \/ InterruptFast \/ Forward \/ ApprovalEvent \/ QuestionEvent
           \/ QuestionRespond \/ ReadPending \/ UNCHANGED vars
  <2>1. UNCHANGED ledger /\ used' = used /\ UNCHANGED <<pc, call>>
    BY <1>5 DEF Asking, InterruptFast, Forward, ApprovalEvent, QuestionEvent,
         QuestionRespond, ReadPending, ledger, approvalVars, workerVars, vars
  <2> QED
    BY <1>t, <2>1, LedgerKept
<1> QED
  BY <1>1, <1>2, <1>3, <1>4, <1>5 DEF Next, Worker, Transport, Client

\* What a user decides about an action holds, whatever the clients, the crashes
\* and the order of their answers: no tool runs without its authority, and the
\* first answer to a request is the one that counts.
THEOREM DecisionsAreKept == Spec => []ApprovalsHold
<1>1. ApprovalInv => ApprovalsHold
  BY DEF ApprovalInv
<1> QED
  BY <1>1, ApprovalInit, ApprovalStep, PTL DEF Spec

-----------------------------------------------------------------------------
(* The inductive invariant of the questions, for clients that answer only   *)
(* while the journal of the Turn is bound.                                  *)

IsOpen(t) == outcomes[t].kind = "open"
Running == {"model", "calling", "asking", "approving", "finishing"}
Partial == {s \in Seq(Answers) : Len(s) <= NQ}
TurnOrNone == Turns \cup {0}

QuestionTypes ==
  /\ turn \in TurnOrNone
  /\ ended \in [Turns -> {"none", "completed", "cancelled"}]
  /\ outcomes \in [Turns -> [kind : {"open", "answered", "cancelled", "failed"},
                             answers : Seq(Answers)]]
  /\ saved \in [turn : TurnOrNone, answers : Partial]
  /\ \A t \in DOMAIN interactions : t \in Turns /\ interactions[t] \in Partial
  /\ events \in Seq([phase : Phases, turn : Turns])
  /\ known \subseteq Turns
  /\ asker \in [turn : TurnOrNone, pc : {"none", "inserted", "saved", "waiting"}]
  /\ result \in [turn : TurnOrNone, kind : {"none", "answered", "cancelled", "failed"},
                 answers : Seq(Answers)]

\* A call of ask_user belongs to the Turn that runs or was interrupted, and its
\* outcome is still open.
CallInv ==
  /\ call = "ask" => /\ turn \in Turns
                     /\ IsOpen(turn)
                     /\ ended[turn] = "none"
                     /\ pc \in {"calling", "asking", "down", "interrupted"}
  /\ pc = "asking" => call = "ask"
  /\ pc \in Running \cup {"interrupted"} => turn \in Turns
  /\ pc \in {"model", "calling", "asking", "approving", "interrupted"}
       => ended[turn] = "none"
  /\ \A t \in Turns : t > turn => ended[t] = "none"

\* The worker is inside ask for this Turn only, whose journal is bound while it
\* runs; a process that has just come up has no journal and no terminal list.
AskerInv ==
  /\ asker.pc # "none" => pc = "asking" /\ asker.turn = turn
  /\ result # NoResult => /\ pc = "asking"
                          /\ result.turn = turn
                          /\ asker.pc = "none"
                          /\ result.kind # "none"
  /\ result.kind \in {"cancelled", "failed"} => result.answers = <<>>
  /\ registered \subseteq {turn}
  /\ registered # {} => asker.pc # "none"
  /\ bound \in {0, turn}
  /\ pc \in Running => bound = turn
  /\ pc \in {"down", "interrupted"} => bound = 0 /\ terminal = <<>>

\* The journal holds the answers of the open call: the broker's copy is the
\* same, except for a batch that has not been written, which has no answers
\* and which no client has heard of.
SavedInv ==
  /\ saved.turn # 0 /\ IsOpen(saved.turn) => saved.turn = turn /\ call = "ask"
  /\ \A t \in DOMAIN interactions : IsOpen(t) =>
       /\ t = turn
       /\ call = "ask"
       /\ saved.turn = t => interactions[t] = saved.answers
       /\ saved.turn # t => interactions[t] = <<>> /\ asker.pc = "inserted"
  /\ \A t \in known : IsOpen(t) => saved.turn = t
  /\ \A i \in DOMAIN events : IsOpen(events[i].turn) => saved.turn = events[i].turn
  /\ asker.pc = "inserted" => saved.turn # turn
  /\ asker.pc \in {"saved", "waiting"} => saved.turn = turn
  /\ result.kind = "answered" => /\ saved.turn = turn
                                 /\ saved.answers = result.answers
                                 /\ Len(result.answers) = NQ

\* A call that a resumption repeats finds the answers of the journal in the
\* broker: nothing pushed them out of it.
ResumedInv ==
  pc = "calling" /\ call = "ask" /\ saved.turn = turn =>
    /\ turn \in DOMAIN interactions
    /\ Len(saved.answers) # NQ => terminal = <<>>

QuestionInv == QuestionTypes /\ CallInv /\ AskerInv /\ SavedInv /\ ResumedInv

LEMMA QuestionInit == Init => QuestionInv
<1> SUFFICES ASSUME Init
             PROVE  QuestionInv
  OBVIOUS
<1> USE DEF Init, QuestionsInit, NoQuestion, NotAsking, NoResult, Open
<1>1. NQ \in Nat /\ <<>> \in Seq(Answers) /\ <<>> \in Partial
  BY QuestionsAssumption DEF Partial
<1>2. QuestionTypes
  BY <1>1 DEF QuestionTypes, TurnOrNone
<1>3. CallInv /\ AskerInv
  BY DEF CallInv, AskerInv, Running
<1>4. SavedInv /\ ResumedInv
  BY DEF SavedInv, ResumedInv
<1> QED
  BY <1>2, <1>3, <1>4 DEF QuestionInv

-----------------------------------------------------------------------------
(* What the helpers of the broker do *)

\* Whatever falls out of the terminal list, what stays is unchanged.
LEMMA TerminateFacts ==
  ASSUME NEW t, NEW left, Terminate(t, left)
  PROVE  /\ DOMAIN interactions' \subseteq DOMAIN left
         /\ \A x \in DOMAIN interactions' : interactions'[x] = left[x]
<1>1. CASE Len(Append(terminal, t)) > ResolvedCap
  BY <1>1 DEF Terminate
<1>2. CASE ~(Len(Append(terminal, t)) > ResolvedCap)
  BY <1>2 DEF Terminate
<1> QED
  BY <1>1, <1>2

\* An interaction that is withdrawn is gone, the others are as they were.
LEMMA WithdrawFacts ==
  ASSUME NEW t, Terminate(t, Without(t))
  PROVE  \A x \in DOMAIN interactions' : /\ x \in DOMAIN interactions \ {t}
                                         /\ interactions'[x] = interactions[x]
<1>1. /\ DOMAIN interactions' \subseteq DOMAIN Without(t)
      /\ \A x \in DOMAIN interactions' : interactions'[x] = Without(t)[x]
  BY TerminateFacts
<1> QED
  BY <1>1 DEF Without

\* The first id of an empty list pushes nothing out.
LEMMA TerminateFirst ==
  ASSUME NEW t, NEW left, Terminate(t, left), terminal = <<>>
  PROVE  interactions' = left
<1>1. Len(Append(terminal, t)) = 1
  OBVIOUS
<1>2. ~(1 > ResolvedCap)
  BY QuestionsAssumption
<1> QED
  BY <1>1, <1>2 DEF Terminate

\* An event of the queue after a send is the new one or was there before.
LEMMA SendFacts ==
  ASSUME events \in Seq([phase : Phases, turn : Turns]),
         NEW phase \in Phases, NEW t \in Turns, Send(phase, t)
  PROVE  /\ events' \in Seq([phase : Phases, turn : Turns])
         /\ \A i \in DOMAIN events' :
              \/ events'[i].turn = t
              \/ \E j \in DOMAIN events : events'[i] = events[j]
<1> DEFINE event == [phase |-> phase, turn |-> t]
<1>0. event \in [phase : Phases, turn : Turns] /\ event.turn = t
  OBVIOUS
<1>1. CASE Len(events) = EventCap
  <2>1. Len(events) \in Nat \ {0} /\ events' = Append(Tail(events), event)
    BY <1>1, QuestionsAssumption DEF Send
  <2>2. /\ Tail(events) \in Seq([phase : Phases, turn : Turns])
        /\ Len(Tail(events)) = Len(events) - 1
        /\ \A i \in 1..(Len(events) - 1) : Tail(events)[i] = events[i + 1]
    BY <2>1
  <2> HIDE DEF event
  <2>3. /\ events' \in Seq([phase : Phases, turn : Turns])
        /\ Len(events') = Len(events)
        /\ events'[Len(events)] = event
        /\ \A i \in 1..(Len(events) - 1) : events'[i] = Tail(events)[i]
    BY <1>0, <2>1, <2>2
  <2>4. ASSUME NEW i \in DOMAIN events'
        PROVE  events'[i] = event \/ \E j \in DOMAIN events : events'[i] = events[j]
    <3>1. CASE i = Len(events)
      BY <3>1, <2>3
    <3>2. CASE i # Len(events)
      <4>1. i \in 1..(Len(events) - 1)
        BY <3>2, <2>1, <2>3, <2>4
      <4>2. i + 1 \in DOMAIN events /\ events'[i] = events[i + 1]
        BY <4>1, <2>1, <2>2, <2>3
      <4> QED
        BY <4>2
    <3> QED
      BY <3>1, <3>2
  <2> QED
    BY <1>0, <2>3, <2>4
<1>2. CASE Len(events) # EventCap
  <2>1. events' = Append(events, event)
    BY <1>2 DEF Send
  <2> QED
    BY <1>0, <2>1
<1> QED
  BY <1>1, <1>2

\* restore_pending changes the broker's copy of the saved Turn and no other.
LEMMA RestoreFacts ==
  ASSUME Restore
  PROVE  /\ saved.turn = 0 => UNCHANGED <<terminal, interactions>>
         /\ saved.turn # 0 =>
              /\ DOMAIN interactions' = DOMAIN interactions \cup {saved.turn}
              /\ interactions'[saved.turn] = saved.answers
              /\ \A x \in DOMAIN interactions :
                   x # saved.turn => interactions'[x] = interactions[x]
         /\ terminal = <<>> => terminal' = <<>>
<1>1. CASE saved.turn = 0
  BY <1>1 DEF Restore
<1>2. CASE saved.turn # 0
  <2>1. terminal' = Retained(saved.turn) /\ interactions' = With(saved.turn, saved.answers)
    BY <1>2 DEF Restore
  <2>2. terminal = <<>> => terminal' = <<>>
    BY <2>1 DEF Retained
  <2>3. /\ DOMAIN interactions' = DOMAIN interactions \cup {saved.turn}
        /\ interactions'[saved.turn] = saved.answers
        /\ \A x \in DOMAIN interactions : x # saved.turn => interactions'[x] = interactions[x]
    BY <2>1 DEF With
  <2> QED
    BY <1>2, <2>2, <2>3
<1> QED
  BY <1>1, <1>2

LEMMA EmptyPartial == <<>> \in Partial /\ <<>> \in Seq(Answers)
  BY QuestionsAssumption DEF Partial

LEMMA NoQuestionTyped == NoQuestion \in [turn : TurnOrNone, answers : Partial]
  BY EmptyPartial DEF NoQuestion, TurnOrNone

LEMMA EventTurns ==
  ASSUME QuestionInv
  PROVE  \A i \in DOMAIN events : events[i].turn \in Turns
<1> DEFINE Event == [phase : Phases, turn : Turns]
<1>1. \A e \in Event : e.turn \in Turns
  OBVIOUS
<1>2. events \in Seq(Event)
  BY DEF QuestionInv, QuestionTypes
<1> HIDE DEF Event
<1>3. \A i \in DOMAIN events : events[i] \in Event
  BY <1>2
<1> QED
  BY <1>1, <1>3

-----------------------------------------------------------------------------
(* Between calls no open Turn has left anything behind *)

Quiet ==
  /\ asker.pc = "none" /\ result = NoResult
  /\ \A t \in Turns : IsOpen(t) => saved.turn # t /\ t \notin DOMAIN interactions
  /\ \A t \in known : ~IsOpen(t)
  /\ \A i \in DOMAIN events : ~IsOpen(events[i].turn)

LEMMA QuietBetweenCalls ==
  ASSUME QuestionInv, pc # "asking",
         call = "ask" => saved.turn # turn /\ turn \notin DOMAIN interactions
  PROVE  Quiet
<1>1. asker.pc = "none" /\ result = NoResult
  BY DEF QuestionInv, AskerInv
<1>2. \A t \in Turns : t # 0
  BY QuestionsAssumption
<1>3. \A t \in Turns : IsOpen(t) => saved.turn # t
  BY <1>2 DEF QuestionInv, SavedInv
<1>4. \A t \in Turns : IsOpen(t) => t \notin DOMAIN interactions
  BY DEF QuestionInv, SavedInv
<1>5. known \subseteq Turns /\ \A i \in DOMAIN events : events[i].turn \in Turns
  BY EventTurns DEF QuestionInv, QuestionTypes
<1> QED
  BY <1>1, <1>3, <1>4, <1>5 DEF Quiet, QuestionInv, SavedInv

\* Where nothing is left behind, the journal and the broker agree.
LEMMA QuietAgrees ==
  ASSUME QuestionTypes', CallInv', Quiet'
  PROVE  SavedInv' /\ ResumedInv'
<1>1. \A t \in DOMAIN interactions' : t \in Turns
  BY DEF QuestionTypes
<1>2. saved.turn' # 0 => saved.turn' \in Turns
  BY DEF QuestionTypes, TurnOrNone
<1>3. result.kind' # "answered"
  BY DEF Quiet, NoResult
<1>4. SavedInv'
  BY <1>1, <1>2, <1>3 DEF SavedInv, Quiet
<1>5. ResumedInv'
  BY DEF ResumedInv, Quiet, CallInv
<1> QED
  BY <1>4, <1>5

\* The part of the state that belongs to the questions.
journalVars == <<interactions, registered, terminal, bound, saved, asker, result, outcomes,
                 events, known>>

LEMMA SameTypes ==
  ASSUME QuestionInv, UNCHANGED <<journalVars, turn>>,
         ended' \in [Turns -> {"none", "completed", "cancelled"}]
  PROVE  QuestionTypes'
  BY DEF QuestionInv, QuestionTypes, journalVars

LEMMA Untouched ==
  ASSUME QuestionInv, UNCHANGED <<journalVars, turn, pc, call, ended>>
  PROVE  QuestionInv'
<1>1. QuestionTypes'
  BY SameTypes DEF QuestionInv, QuestionTypes
<1>2. CallInv' /\ AskerInv'
  BY DEF QuestionInv, journalVars, CallInv, IsOpen, AskerInv
<1>3. SavedInv' /\ ResumedInv'
  BY DEF QuestionInv, journalVars, SavedInv, ResumedInv, IsOpen
<1> QED
  BY <1>1, <1>2, <1>3 DEF QuestionInv

\* The worker moves on while no question is open.
LEMMA QuietMove ==
  ASSUME QuestionInv, UNCHANGED <<journalVars, turn>>,
         pc \in {"model", "calling", "approving", "finishing"},
         pc' \in {"idle", "model", "calling", "approving", "finishing"},
         call = "ask" => saved.turn # turn /\ turn \notin DOMAIN interactions,
         ended' \in [Turns -> {"none", "completed", "cancelled"}],
         CallInv'
  PROVE  QuestionInv'
<1>1. QuestionTypes'
  BY SameTypes
<1>2. Quiet
  BY QuietBetweenCalls
<1>3. Quiet'
  BY <1>2 DEF Quiet, journalVars, IsOpen
<1>4. AskerInv'
  BY <1>2, <1>3 DEF QuestionInv, AskerInv, journalVars, Running, Quiet, NoResult
<1> QED
  BY <1>1, <1>3, <1>4, QuietAgrees DEF QuestionInv

-----------------------------------------------------------------------------
(* The worker outside ask *)

LEMMA StartTurnInv ==
  ASSUME QuestionInv, StartTurn
  PROVE  QuestionInv'
<1>0. /\ pc = "idle" /\ pc' = "model" /\ turn' = turn + 1 /\ turn + 1 \in Turns
      /\ UNCHANGED <<call, ended, asker, result, outcomes, registered, events, saved, known>>
      /\ bound' = turn + 1 /\ Restore
  BY DEF StartTurn, BindJournal, askVars
<1>1. call # "ask"
  BY <1>0 DEF QuestionInv, CallInv
<1>2. Quiet /\ registered = {}
  BY <1>0, <1>1, QuietBetweenCalls DEF QuestionInv, AskerInv
<1>3. \A t \in DOMAIN interactions' :
        \/ t \in DOMAIN interactions /\ interactions'[t] = interactions[t]
        \/ t # 0 /\ t = saved.turn /\ interactions'[t] = saved.answers
  BY <1>0, RestoreFacts
<1>4. QuestionTypes'
  <2>1. /\ turn' \in TurnOrNone /\ saved' = saved
        /\ saved.turn # 0 => saved.turn \in Turns
        /\ saved.answers \in Partial
    BY <1>0 DEF QuestionInv, QuestionTypes, TurnOrNone
  <2>2. \A t \in DOMAIN interactions' : t \in Turns /\ interactions'[t] \in Partial
    BY <1>3, <2>1 DEF QuestionInv, QuestionTypes
  <2> QED
    BY <1>0, <2>1, <2>2 DEF QuestionInv, QuestionTypes
<1>5. Quiet'
  <2>1. \A t \in Turns : IsOpen(t) => t \notin DOMAIN interactions'
    BY <1>2, <1>3 DEF Quiet
  <2> QED
    BY <1>0, <1>2, <2>1 DEF Quiet, IsOpen
<1>6. CallInv'
  <2>1. turn \in Nat /\ Turns \subseteq Nat
    BY QuestionsAssumption DEF QuestionInv, QuestionTypes, TurnOrNone
  <2>2. \A t \in Turns : t > turn + 1 => t > turn
    BY <2>1
  <2>3. ended[turn + 1] = "none"
    BY <1>0, <2>1 DEF QuestionInv, CallInv
  <2> QED
    BY <1>0, <1>1, <2>2, <2>3 DEF QuestionInv, CallInv, Running
<1>7. AskerInv'
  BY <1>0, <1>2 DEF AskerInv, Running, Quiet, NoResult
<1> QED
  BY <1>4, <1>5, <1>6, <1>7, QuietAgrees DEF QuestionInv

LEMMA QuietActionsInv ==
  ASSUME QuestionInv,
         \/ ObserveCancel \/ FinishRun \/ BeginCall \/ DeferCall \/ Admit
         \/ ApprovalArrives \/ Settle
  PROVE  QuestionInv'
<1>t. ended \in [Turns -> {"none", "completed", "cancelled"}]
  BY DEF QuestionInv, QuestionTypes
<1>1. CASE ObserveCancel \/ FinishRun
  <2>1. /\ UNCHANGED <<journalVars, turn, call>> /\ pc = "model" /\ pc' = "finishing"
        /\ ended' = [ended EXCEPT ![turn] = "cancelled"]
             \/ ended' = [ended EXCEPT ![turn] = "completed"]
    BY <1>1 DEF ObserveCancel, FinishRun, EndRun, questionVars, brokerVars, askVars, journalVars
  <2>2. call # "ask" /\ turn \in Turns /\ turn \in Nat /\ Turns \subseteq Nat
    BY <2>1, QuestionsAssumption DEF QuestionInv, CallInv, Running
  <2>3. ended' \in [Turns -> {"none", "completed", "cancelled"}]
    BY <1>t, <2>1
  <2>4. \A t \in Turns : t > turn => ended'[t] = "none"
    <3> SUFFICES ASSUME NEW t \in Turns, t > turn
                 PROVE  ended'[t] = ended[t]
      BY DEF QuestionInv, CallInv
    <3>1. t # turn
      BY <2>2
    <3> QED
      BY <1>t, <2>1, <3>1
  <2>5. CallInv'
    BY <2>1, <2>2, <2>4 DEF CallInv, Running
  <2> QED
    BY <2>1, <2>2, <2>3, <2>5, QuietMove
<1>2. CASE BeginCall
  <2>1. /\ UNCHANGED <<journalVars, turn, ended>> /\ pc = "model" /\ pc' = "calling"
        /\ call' = "ask" => outcomes[turn].kind = "open"
    BY <1>2 DEF BeginCall, questionVars, journalVars
  <2>2. call # "ask" /\ turn \in Turns
    BY <2>1 DEF QuestionInv, CallInv, Running
  <2>3. CallInv'
    BY <2>1, <2>2 DEF QuestionInv, CallInv, Running, IsOpen, journalVars
  <2> QED
    BY <1>t, <2>1, <2>2, <2>3, QuietMove
<1>3. CASE DeferCall
  <2>1. /\ UNCHANGED <<journalVars, turn, ended>> /\ pc = "calling" /\ pc' = "model"
        /\ call' = "none"
        /\ call = "ask" => turn # saved.turn /\ turn \notin DOMAIN interactions
    BY <1>3 DEF DeferCall, questionVars, journalVars
  <2>2. CallInv'
    BY <2>1 DEF QuestionInv, CallInv, Running
  <2> QED
    BY <1>t, <2>1, <2>2, QuietMove
<1>4. CASE Admit
  <2>1. call # "ask"
    BY <1>4, InteractionsAssumption DEF Admit, AllActions
  <2>2. /\ UNCHANGED <<journalVars, turn, ended>> /\ pc = "calling"
        /\ \/ pc' = "model" /\ call' = "none"
           \/ pc' = "approving" /\ call' = call
    BY <1>4, Zenon DEF Admit, questionVars, journalVars
  <2>3. CallInv'
    BY <2>1, <2>2 DEF QuestionInv, CallInv, Running
  <2> QED
    BY <1>t, <2>1, <2>2, <2>3, QuietMove
<1>5. CASE ApprovalArrives \/ Settle
  <2>1. /\ UNCHANGED <<journalVars, turn, ended>>
        /\ \/ pc = "approving" /\ pc' = "model" /\ call' = "none"
           \/ pc = "finishing" /\ pc' = "idle" /\ call' = call
    BY <1>5 DEF ApprovalArrives, Settle, questionVars, journalVars
  <2>2. call # "ask"
    BY <2>1 DEF QuestionInv, CallInv
  <2>3. CallInv'
    BY <2>1, <2>2 DEF QuestionInv, CallInv, Running
  <2> QED
    BY <1>t, <2>1, <2>2, <2>3, QuietMove
<1> QED
  BY <1>1, <1>2, <1>3, <1>4, <1>5

\* The outcome of the call is written: its Turn leaves nothing open behind.
LEMMA ClosedQuiet ==
  ASSUME QuestionInv, turn \in Turns, NEW o, o.kind # "open",
         outcomes' = [outcomes EXCEPT ![turn] = o],
         asker'.pc = "none", result' = NoResult,
         saved' = saved \/ saved'.turn = 0,
         UNCHANGED <<interactions, events, known>>
  PROVE  Quiet'
<1>1. \A t : IsOpen(t)' /\ t \in Turns => t # turn /\ IsOpen(t)
  BY DEF QuestionInv, QuestionTypes, IsOpen
<1>2. \A t \in Turns : t # 0
  BY QuestionsAssumption
<1>3. \A t \in Turns : IsOpen(t)' => saved.turn # t /\ t \notin DOMAIN interactions
  BY <1>1, <1>2 DEF QuestionInv, SavedInv
<1>4. \A t \in Turns : IsOpen(t)' => saved'.turn # t
  BY <1>2, <1>3
<1>5. \A t \in known : ~IsOpen(t)'
  BY <1>1, <1>3 DEF QuestionInv, QuestionTypes, SavedInv
<1>6. ASSUME NEW i \in DOMAIN events PROVE ~IsOpen(events[i].turn)'
  <2>1. events[i].turn \in Turns
    BY EventTurns
  <2> QED
    BY <1>1, <1>3, <2>1 DEF QuestionInv, SavedInv, IsOpen
<1> QED
  BY <1>3, <1>4, <1>5, <1>6 DEF Quiet, IsOpen

LEMMA SkipCallInv ==
  ASSUME QuestionInv, SkipCall
  PROVE  QuestionInv'
<1>0. /\ pc = "calling" /\ pc' = "model" /\ call' = "none"
      /\ UNCHANGED <<interactions, registered, terminal, bound, events, asker, result, known,
                     turn, ended>>
  BY DEF SkipCall, brokerVars, askVars
<1>1. turn \in Turns /\ ended \in [Turns -> {"none", "completed", "cancelled"}]
  BY <1>0 DEF QuestionInv, CallInv, Running, QuestionTypes
<1>2. CallInv'
  BY <1>0 DEF QuestionInv, CallInv, Running
<1>3. CASE call # "ask"
  <2>1. UNCHANGED journalVars
    BY <1>0, <1>3 DEF SkipCall, journalVars
  <2> QED
    BY <1>0, <1>1, <1>2, <1>3, <2>1, QuietMove
<1>4. CASE call = "ask"
  <2>1. /\ outcomes' = [outcomes EXCEPT ![turn] = [kind |-> "cancelled", answers |-> <<>>]]
        /\ saved' = saved \/ saved' = NoQuestion
    BY <1>4 DEF SkipCall, RecordSkipped
  <2>2. asker.pc = "none" /\ result = NoResult
    BY <1>0 DEF QuestionInv, AskerInv
  <2>3. Quiet'
    <3> DEFINE o == [kind |-> "cancelled", answers |-> <<>>]
    <3>1. o.kind # "open" /\ outcomes' = [outcomes EXCEPT ![turn] = o]
      BY <2>1
    <3>2. saved' = saved \/ saved'.turn = 0
      BY <2>1 DEF NoQuestion
    <3>3. asker'.pc = "none" /\ result' = NoResult
      BY <1>0, <2>2
    <3> HIDE DEF o
    <3> QED
      BY <1>0, <1>1, <3>1, <3>2, <3>3, ClosedQuiet
  <2>4. QuestionTypes'
    <3>1. outcomes' \in [Turns -> [kind : {"open", "answered", "cancelled", "failed"},
                                   answers : Seq(Answers)]]
      BY <2>1, EmptyPartial DEF QuestionInv, QuestionTypes
    <3>2. saved' \in [turn : TurnOrNone, answers : Partial]
      BY <2>1, NoQuestionTyped DEF QuestionInv, QuestionTypes
    <3> QED
      BY <1>0, <3>1, <3>2 DEF QuestionInv, QuestionTypes
  <2>5. AskerInv'
    BY <1>0, <2>2 DEF QuestionInv, AskerInv, Running, NoResult
  <2> QED
    BY <1>2, <2>3, <2>4, <2>5, QuietAgrees DEF QuestionInv
<1> QED
  BY <1>3, <1>4

LEMMA AskDoneInv ==
  ASSUME QuestionInv, AskDone
  PROVE  QuestionInv'
<1>0. /\ pc = "asking" /\ pc' = "model" /\ call' = "none" /\ result # NoResult
      /\ result' = NoResult
      /\ UNCHANGED <<interactions, registered, terminal, bound, events, asker, known, turn, ended>>
      /\ saved' = saved \/ saved' = NoQuestion
  BY DEF AskDone, FinishCall, brokerVars
<1>1. result.turn = turn /\ asker.pc = "none" /\ turn \in Turns
  BY <1>0 DEF QuestionInv, CallInv, Running, AskerInv
<1> DEFINE o == [kind |-> result.kind, answers |-> result.answers]
<1>2. outcomes' = [outcomes EXCEPT ![turn] = o]
  BY <1>1 DEF AskDone, FinishCall
<1>3. /\ o.kind # "open"
      /\ o \in [kind : {"open", "answered", "cancelled", "failed"}, answers : Seq(Answers)]
  BY <1>0 DEF QuestionInv, QuestionTypes, AskerInv
<1> HIDE DEF o
<1>4. Quiet'
  <2>1. saved' = saved \/ saved'.turn = 0
    BY <1>0 DEF NoQuestion
  <2>2. asker'.pc = "none"
    BY <1>0, <1>1
  <2> QED
    BY <1>0, <1>1, <1>2, <1>3, <2>1, <2>2, ClosedQuiet
<1>5. QuestionTypes'
  <2>1. outcomes' \in [Turns -> [kind : {"open", "answered", "cancelled", "failed"},
                                 answers : Seq(Answers)]]
    BY <1>2, <1>3 DEF QuestionInv, QuestionTypes
  <2>2. saved' \in [turn : TurnOrNone, answers : Partial]
    BY <1>0, NoQuestionTyped DEF QuestionInv, QuestionTypes
  <2>3. result' \in [turn : TurnOrNone, kind : {"none", "answered", "cancelled", "failed"},
                     answers : Seq(Answers)]
    BY <1>0 DEF NoResult, TurnOrNone
  <2> QED
    BY <1>0, <2>1, <2>2, <2>3 DEF QuestionInv, QuestionTypes
<1>6. CallInv'
  BY <1>0 DEF QuestionInv, CallInv, Running
<1>7. AskerInv'
  BY <1>0, <1>1 DEF QuestionInv, AskerInv, Running, NoResult
<1> QED
  BY <1>4, <1>5, <1>6, <1>7, QuietAgrees DEF QuestionInv

-----------------------------------------------------------------------------
(* ask *)

LEMMA CallAskInv ==
  ASSUME QuestionInv, CallAsk
  PROVE  QuestionInv'
<1> DEFINE reused == turn \in DOMAIN interactions
           answers == IF reused THEN interactions[turn] ELSE <<>>
<1>0. /\ pc = "calling" /\ pc' = "asking" /\ call = "ask"
      /\ UNCHANGED <<turn, call, ended, terminal, bound, saved, outcomes, events, known>>
      /\ asker = NotAsking /\ result = NoResult
      /\ interactions' = With(turn, answers)
  BY DEF CallAsk, AskInsert
<1>1. turn \in Turns /\ IsOpen(turn) /\ ended[turn] = "none" /\ bound = turn /\ registered = {}
  BY <1>0 DEF QuestionInv, CallInv, AskerInv, Running, NotAsking
<1>2. /\ reused => saved.turn = turn /\ answers = saved.answers
      /\ ~reused => saved.turn # turn /\ answers = <<>>
  BY <1>0, <1>1 DEF QuestionInv, SavedInv, ResumedInv, NotAsking
<1>3. answers \in Partial /\ answers \in Seq(Answers) /\ NQ \in 1..3
  BY <1>2, QuestionsAssumption DEF QuestionInv, QuestionTypes, Partial
<1>4. /\ DOMAIN interactions' = DOMAIN interactions \cup {turn}
      /\ interactions'[turn] = answers
      /\ \A x \in DOMAIN interactions : x # turn => interactions'[x] = interactions[x]
  BY <1>0 DEF With
<1>5. \/ /\ reused /\ Len(answers) = NQ
         /\ result' = [turn |-> turn, kind |-> "answered", answers |-> answers]
         /\ UNCHANGED <<asker, registered>>
      \/ /\ reused /\ asker' = [turn |-> turn, pc |-> "saved"]
         /\ registered' = registered \cup {turn} /\ UNCHANGED result
      \/ /\ ~reused /\ asker' = [turn |-> turn, pc |-> "inserted"]
         /\ registered' = registered \cup {turn} /\ UNCHANGED result
  <2>1. Len(answers) = NQ => reused
    BY <1>2, <1>3
  <2> QED
    BY <2>1 DEF CallAsk, AskInsert, IsComplete
<1> HIDE DEF reused, answers
<1>6. QuestionTypes'
  <2>1. \A t \in DOMAIN interactions' : t \in Turns /\ interactions'[t] \in Partial
    BY <1>1, <1>3, <1>4 DEF QuestionInv, QuestionTypes
  <2>2. /\ asker' \in [turn : TurnOrNone, pc : {"none", "inserted", "saved", "waiting"}]
        /\ result' \in [turn : TurnOrNone, kind : {"none", "answered", "cancelled", "failed"},
                         answers : Seq(Answers)]
    BY <1>1, <1>3, <1>5 DEF QuestionInv, QuestionTypes, TurnOrNone
  <2> QED
    BY <1>0, <2>1, <2>2 DEF QuestionInv, QuestionTypes
<1>7. CallInv'
  BY <1>0, <1>1 DEF QuestionInv, CallInv, Running, IsOpen
<1>8. AskerInv'
  BY <1>0, <1>1, <1>5 DEF AskerInv, Running, NotAsking, NoResult
<1>9. SavedInv'
  <2>1. ASSUME NEW t \in DOMAIN interactions', IsOpen(t)
        PROVE  /\ t = turn
               /\ saved.turn = t => interactions'[t] = saved.answers
               /\ saved.turn # t => interactions'[t] = <<>> /\ asker'.pc = "inserted"
    BY <1>0, <1>2, <1>4, <1>5, <2>1 DEF QuestionInv, SavedInv
  <2>2. /\ asker'.pc = "inserted" => saved.turn # turn
        /\ asker'.pc \in {"saved", "waiting"} => saved.turn = turn
        /\ result'.kind = "answered" => /\ saved.turn = turn
                                        /\ saved.answers = result'.answers
                                        /\ Len(result'.answers) = NQ
    BY <1>0, <1>2, <1>5 DEF NotAsking, NoResult
  <2> QED
    BY <1>0, <2>1, <2>2 DEF QuestionInv, SavedInv, IsOpen
<1>10. ResumedInv'
  BY <1>0 DEF ResumedInv
<1> QED
  BY <1>6, <1>7, <1>8, <1>9, <1>10 DEF QuestionInv

\* A step of ask that only the invariants of the asker and the journal see.
LEMMA AskingFrame ==
  ASSUME QuestionInv, pc = "asking", UNCHANGED <<turn, pc, call, ended, outcomes>>,
         AskerInv', SavedInv', QuestionTypes'
  PROVE  QuestionInv'
<1>1. CallInv'
  BY DEF QuestionInv, CallInv, IsOpen
<1>2. ResumedInv'
  BY DEF ResumedInv
<1> QED
  BY <1>1, <1>2 DEF QuestionInv

LEMMA AskPersistInv ==
  ASSUME QuestionInv, pc = "asking", AskPersist, UNCHANGED workerVars
  PROVE  QuestionInv'
<1>0. /\ asker.pc = "inserted" /\ asker' = [asker EXCEPT !.pc = "saved"]
      /\ UNCHANGED <<interactions, registered, terminal, bound, events, result, outcomes, known,
                     turn, pc, call, ended>>
  BY DEF AskPersist, brokerVars, workerVars
<1>1. /\ turn \in Turns /\ asker.turn = turn /\ bound = turn /\ result = NoResult
      /\ saved.turn # turn /\ call = "ask" /\ IsOpen(turn)
  BY <1>0 DEF QuestionInv, CallInv, AskerInv, SavedInv, Running
<1>2. saved' = [turn |-> turn, answers |-> <<>>] /\ asker' = [turn |-> turn, pc |-> "saved"]
  BY <1>0, <1>1 DEF AskPersist, QuestionInv, QuestionTypes
<1>3. QuestionTypes'
  <2>1. saved' \in [turn : TurnOrNone, answers : Partial]
    BY <1>1, <1>2, EmptyPartial DEF TurnOrNone
  <2>2. asker' \in [turn : TurnOrNone, pc : {"none", "inserted", "saved", "waiting"}]
    BY <1>1, <1>2 DEF TurnOrNone
  <2> QED
    BY <1>0, <2>1, <2>2 DEF QuestionInv, QuestionTypes
<1>4. AskerInv'
  BY <1>0, <1>1, <1>2 DEF QuestionInv, AskerInv
<1>5. SavedInv'
  <2>1. saved'.turn = turn /\ saved'.answers = <<>> /\ asker'.pc = "saved"
    BY <1>2
  <2>2. ~(saved.turn # 0 /\ IsOpen(saved.turn))
    BY <1>1 DEF QuestionInv, SavedInv
  <2>3. \A t \in known : ~IsOpen(t)
    BY <2>2, <1>1, QuestionsAssumption DEF QuestionInv, SavedInv, QuestionTypes
  <2>4. \A i \in DOMAIN events : ~IsOpen(events[i].turn)
    BY <2>2, <1>1, EventTurns, QuestionsAssumption DEF QuestionInv, SavedInv
  <2>5. \A t \in DOMAIN interactions : IsOpen(t) => t = turn /\ interactions[t] = <<>>
    BY <1>1 DEF QuestionInv, SavedInv
  <2> QED
    BY <1>0, <1>1, <2>1, <2>3, <2>4, <2>5 DEF SavedInv, IsOpen, NoResult
<1> QED
  BY <1>0, <1>3, <1>4, <1>5, AskingFrame

LEMMA AskPersistFailsInv ==
  ASSUME QuestionInv, pc = "asking", AskPersistFails, UNCHANGED workerVars
  PROVE  QuestionInv'
<1>0. /\ asker.pc = "inserted" /\ asker' = NotAsking
      /\ result' = [turn |-> asker.turn, kind |-> "failed", answers |-> <<>>]
      /\ registered' = registered \ {asker.turn} /\ interactions' = Without(asker.turn)
      /\ UNCHANGED <<terminal, bound, saved, events, outcomes, known, turn, pc, call, ended>>
  BY DEF AskPersistFails, workerVars
<1>1. turn \in Turns /\ asker.turn = turn /\ registered' = {}
  BY <1>0 DEF QuestionInv, CallInv, AskerInv, Running
<1>2. /\ DOMAIN interactions' = DOMAIN interactions \ {turn}
      /\ \A x \in DOMAIN interactions' : interactions'[x] = interactions[x]
  BY <1>0, <1>1 DEF Without
<1>3. QuestionTypes'
  <2>1. \A t \in DOMAIN interactions' : t \in Turns /\ interactions'[t] \in Partial
    BY <1>2 DEF QuestionInv, QuestionTypes
  <2>2. /\ asker' \in [turn : TurnOrNone, pc : {"none", "inserted", "saved", "waiting"}]
        /\ result' \in [turn : TurnOrNone, kind : {"none", "answered", "cancelled", "failed"},
                         answers : Seq(Answers)]
    BY <1>0, <1>1 DEF NotAsking, TurnOrNone
  <2> QED
    BY <1>0, <2>1, <2>2 DEF QuestionInv, QuestionTypes
<1>4. AskerInv'
  BY <1>0, <1>1 DEF QuestionInv, AskerInv, NotAsking
<1>5. SavedInv'
  <2>1. \A t \in DOMAIN interactions' : ~IsOpen(t)
    BY <1>2 DEF QuestionInv, SavedInv
  <2> QED
    BY <1>0, <1>1, <2>1 DEF QuestionInv, SavedInv, IsOpen, NotAsking
<1> QED
  BY <1>0, <1>3, <1>4, <1>5, AskingFrame

LEMMA AskRequestInv ==
  ASSUME QuestionInv, pc = "asking", AskRequest, UNCHANGED workerVars
  PROVE  QuestionInv'
<1>0. /\ asker.pc = "saved" /\ asker' = [asker EXCEPT !.pc = "waiting"]
      /\ Send("Requested", asker.turn)
      /\ UNCHANGED <<interactions, registered, terminal, bound, saved, result, outcomes, known,
                     turn, pc, call, ended>>
  BY DEF AskRequest, workerVars
<1>1. turn \in Turns /\ asker.turn = turn /\ saved.turn = turn /\ result = NoResult
  BY <1>0 DEF QuestionInv, CallInv, AskerInv, SavedInv, Running
<1>2. asker' = [turn |-> turn, pc |-> "waiting"]
  BY <1>0, <1>1 DEF QuestionInv, QuestionTypes
<1>3. /\ events' \in Seq([phase : Phases, turn : Turns])
      /\ \A i \in DOMAIN events' :
           events'[i].turn = turn \/ \E j \in DOMAIN events : events'[i] = events[j]
  <2>1. "Requested" \in Phases /\ events \in Seq([phase : Phases, turn : Turns])
    BY DEF QuestionInv, QuestionTypes, Phases
  <2>2. Send("Requested", turn)
    BY <1>0, <1>1
  <2> QED
    BY <1>1, <2>1, <2>2, SendFacts
<1>4. QuestionTypes'
  <2>1. asker' \in [turn : TurnOrNone, pc : {"none", "inserted", "saved", "waiting"}]
    BY <1>1, <1>2 DEF TurnOrNone
  <2> QED
    BY <1>0, <1>3, <2>1 DEF QuestionInv, QuestionTypes
<1>5. AskerInv'
  BY <1>0, <1>1, <1>2 DEF QuestionInv, AskerInv
<1>6. SavedInv'
  <2>1. asker'.pc = "waiting"
    BY <1>2
  <2>2. \A i \in DOMAIN events' : IsOpen(events'[i].turn) => saved.turn = events'[i].turn
    BY <1>1, <1>3 DEF QuestionInv, SavedInv
  <2>3. \A t \in DOMAIN interactions : IsOpen(t) => t = turn
    BY DEF QuestionInv, SavedInv
  <2> QED
    BY <1>0, <1>1, <2>1, <2>2, <2>3 DEF QuestionInv, SavedInv, IsOpen
<1> QED
  BY <1>0, <1>4, <1>5, <1>6, AskingFrame

LEMMA AskReturnInv ==
  ASSUME QuestionInv, pc = "asking", AskReturn, UNCHANGED workerVars
  PROVE  QuestionInv'
<1>0. /\ asker.pc = "waiting" /\ asker' = NotAsking
      /\ asker.turn \in DOMAIN interactions /\ Len(interactions[asker.turn]) = NQ
      /\ result' = [turn |-> asker.turn, kind |-> "answered",
                    answers |-> interactions[asker.turn]]
      /\ registered' = registered \ {asker.turn}
      /\ UNCHANGED <<interactions, terminal, bound, saved, events, outcomes, known,
                     turn, pc, call, ended>>
  BY DEF AskReturn, workerVars, IsComplete
<1>1. /\ turn \in Turns /\ asker.turn = turn /\ registered' = {} /\ saved.turn = turn
      /\ IsOpen(turn)
  BY <1>0 DEF QuestionInv, CallInv, AskerInv, SavedInv, Running
<1>2. interactions[turn] = saved.answers /\ saved.answers \in Seq(Answers)
  BY <1>0, <1>1 DEF QuestionInv, QuestionTypes, Partial, SavedInv
<1>3. QuestionTypes'
  <2>1. /\ asker' \in [turn : TurnOrNone, pc : {"none", "inserted", "saved", "waiting"}]
        /\ result' \in [turn : TurnOrNone, kind : {"none", "answered", "cancelled", "failed"},
                         answers : Seq(Answers)]
    BY <1>0, <1>1, <1>2 DEF NotAsking, TurnOrNone
  <2> QED
    BY <1>0, <2>1 DEF QuestionInv, QuestionTypes
<1>4. AskerInv'
  BY <1>0, <1>1 DEF QuestionInv, AskerInv, NotAsking
<1>5. SavedInv'
  <2>1. \A t \in DOMAIN interactions : IsOpen(t) => t = turn
    BY DEF QuestionInv, SavedInv
  <2> QED
    BY <1>0, <1>1, <1>2, <2>1 DEF QuestionInv, SavedInv, IsOpen, NotAsking
<1> QED
  BY <1>0, <1>3, <1>4, <1>5, AskingFrame

LEMMA AskCancelledInv ==
  ASSUME QuestionInv, pc = "asking", AskCancelled, UNCHANGED workerVars
  PROVE  QuestionInv'
<1>0. /\ asker.pc = "waiting" /\ asker' = NotAsking
      /\ result' = [turn |-> asker.turn, kind |-> "cancelled", answers |-> <<>>]
      /\ registered' = registered \ {asker.turn}
      /\ UNCHANGED <<bound, saved, outcomes, known, turn, pc, call, ended>>
      /\ IF asker.turn \in DOMAIN interactions
         THEN Terminate(asker.turn, Without(asker.turn)) /\ Send("Cancelled", asker.turn)
         ELSE UNCHANGED <<terminal, interactions, events>>
  BY DEF AskCancelled, workerVars
<1>1. turn \in Turns /\ asker.turn = turn /\ registered' = {} /\ saved.turn = turn
  BY <1>0 DEF QuestionInv, CallInv, AskerInv, SavedInv, Running
<1>2. \A x \in DOMAIN interactions' : x \in DOMAIN interactions \ {turn}
                                       /\ interactions'[x] = interactions[x]
  BY <1>0, <1>1, WithdrawFacts
<1>3. /\ events' \in Seq([phase : Phases, turn : Turns])
      /\ \A i \in DOMAIN events' :
           events'[i].turn = turn \/ \E j \in DOMAIN events : events'[i] = events[j]
  <2>1. "Cancelled" \in Phases /\ events \in Seq([phase : Phases, turn : Turns])
    BY DEF QuestionInv, QuestionTypes, Phases
  <2>2. CASE UNCHANGED events
    BY <2>1, <2>2
  <2>3. CASE Send("Cancelled", turn)
    BY <1>1, <2>1, <2>3, SendFacts
  <2> QED
    BY <1>0, <1>1, <2>2, <2>3
<1>4. QuestionTypes'
  <2>1. \A t \in DOMAIN interactions' : t \in Turns /\ interactions'[t] \in Partial
    BY <1>2 DEF QuestionInv, QuestionTypes
  <2>2. /\ asker' \in [turn : TurnOrNone, pc : {"none", "inserted", "saved", "waiting"}]
        /\ result' \in [turn : TurnOrNone, kind : {"none", "answered", "cancelled", "failed"},
                         answers : Seq(Answers)]
    BY <1>0, <1>1 DEF NotAsking, TurnOrNone
  <2> QED
    BY <1>0, <1>3, <2>1, <2>2 DEF QuestionInv, QuestionTypes
<1>5. AskerInv'
  BY <1>0, <1>1 DEF QuestionInv, AskerInv, NotAsking
<1>6. SavedInv'
  <2>1. \A t \in DOMAIN interactions' : ~IsOpen(t)
    BY <1>2 DEF QuestionInv, SavedInv
  <2>2. \A i \in DOMAIN events' : IsOpen(events'[i].turn) => saved.turn = events'[i].turn
    BY <1>1, <1>3 DEF QuestionInv, SavedInv
  <2> QED
    BY <1>0, <1>1, <2>1, <2>2 DEF QuestionInv, SavedInv, IsOpen, NotAsking
<1> QED
  BY <1>0, <1>4, <1>5, <1>6, AskingFrame

-----------------------------------------------------------------------------
(* The transport thread *)

LEMMA RespondStoppedInv ==
  ASSUME QuestionInv, NEW t \in Turns, RespondStopped(t), UNCHANGED workerVars
  PROVE  QuestionInv'
<1>0. /\ t \in known /\ t \in registered /\ registered' = registered \ {t}
      /\ Terminate(t, Without(t)) /\ Send("Cancelled", t)
      /\ UNCHANGED <<bound, saved, asker, result, outcomes, known, turn, pc, call, ended>>
  BY DEF RespondStopped, Stopped, workerVars
<1>1. /\ t = turn /\ asker.pc # "none" /\ pc = "asking" /\ registered' = {} /\ saved.turn = turn
      /\ IsOpen(turn)
  BY <1>0 DEF QuestionInv, CallInv, AskerInv, SavedInv
<1>2. \A x \in DOMAIN interactions' : x \in DOMAIN interactions \ {turn}
                                       /\ interactions'[x] = interactions[x]
  BY <1>0, <1>1, WithdrawFacts
<1>3. /\ events' \in Seq([phase : Phases, turn : Turns])
      /\ \A i \in DOMAIN events' :
           events'[i].turn = t \/ \E j \in DOMAIN events : events'[i] = events[j]
  <2>1. "Cancelled" \in Phases /\ events \in Seq([phase : Phases, turn : Turns])
    BY DEF QuestionInv, QuestionTypes, Phases
  <2> QED
    BY <1>0, <2>1, SendFacts
<1>4. QuestionTypes'
  <2>1. \A x \in DOMAIN interactions' : x \in Turns /\ interactions'[x] \in Partial
    BY <1>2 DEF QuestionInv, QuestionTypes
  <2> QED
    BY <1>0, <1>3, <2>1 DEF QuestionInv, QuestionTypes
<1>5. AskerInv'
  BY <1>0, <1>1 DEF QuestionInv, AskerInv
<1>6. SavedInv'
  <2>1. \A x \in DOMAIN interactions' : ~IsOpen(x)
    BY <1>2 DEF QuestionInv, SavedInv
  <2>2. \A i \in DOMAIN events' : IsOpen(events'[i].turn) => saved.turn = events'[i].turn
    BY <1>1, <1>3 DEF QuestionInv, SavedInv
  <2> QED
    BY <1>0, <1>1, <2>1, <2>2 DEF QuestionInv, SavedInv, IsOpen
<1> QED
  BY <1>0, <1>1, <1>4, <1>5, <1>6, AskingFrame

\* What an accepted answer changes.
LEMMA RespondAnswerFacts ==
  ASSUME QuestionInv, ~EarlyAnswers, NEW t \in Turns, NEW a \in Answers,
         RespondAnswer(t, a)
  PROVE  /\ t = turn /\ t \in known /\ t \in DOMAIN interactions /\ bound = t
         /\ interactions[t] \in Seq(Answers) /\ Len(interactions[t]) < NQ
         /\ saved' = [turn |-> t, answers |-> Append(interactions[t], a)]
         /\ Append(interactions[t], a) \in Partial
         /\ \A x \in DOMAIN interactions' :
              /\ x \in DOMAIN interactions
              /\ x = t => interactions'[x] = Append(interactions[t], a)
              /\ x # t => interactions'[x] = interactions[x]
         /\ terminal = <<>> => t \in DOMAIN interactions'
         /\ Len(Append(interactions[t], a)) # NQ => UNCHANGED terminal
         /\ events' \in Seq([phase : Phases, turn : Turns])
         /\ \A i \in DOMAIN events' :
              events'[i].turn = t \/ \E j \in DOMAIN events : events'[i] = events[j]
<1> DEFINE snapshot == Append(interactions[t], a)
<1>0. /\ t \in known /\ t \in DOMAIN interactions /\ bound = t /\ Len(interactions[t]) # NQ
      /\ saved' = [turn |-> t, answers |-> snapshot]
      /\ \/ /\ Terminate(t, With(t, snapshot)) /\ Send("Resolved", t)
         \/ /\ interactions' = With(t, snapshot) /\ UNCHANGED terminal /\ Send("Updated", t)
      /\ Len(snapshot) # NQ => UNCHANGED terminal
  BY DEF RespondAnswer, IsComplete
<1>1. t = turn
  BY <1>0, QuestionsAssumption DEF QuestionInv, AskerInv
<1>2. /\ interactions[t] \in Seq(Answers) /\ Len(interactions[t]) < NQ
      /\ NQ \in Nat /\ Len(interactions[t]) \in Nat
  <2>1. interactions[t] \in Seq(Answers) /\ Len(interactions[t]) <= NQ /\ NQ \in Nat
    BY <1>0, QuestionsAssumption DEF QuestionInv, QuestionTypes, Partial
  <2>2. Len(interactions[t]) \in Nat
    BY <2>1
  <2> QED
    BY <1>0, <2>1, <2>2
<1>3. snapshot \in Partial
  <2>1. snapshot \in Seq(Answers) /\ Len(snapshot) = Len(interactions[t]) + 1
    BY <1>2
  <2> QED
    BY <1>2, <2>1 DEF Partial
<1> HIDE DEF snapshot
<1>4. /\ DOMAIN With(t, snapshot) = DOMAIN interactions
      /\ With(t, snapshot)[t] = snapshot
      /\ \A x \in DOMAIN interactions : x # t => With(t, snapshot)[x] = interactions[x]
  BY <1>0 DEF With
<1>5. \A x \in DOMAIN interactions' :
        /\ x \in DOMAIN interactions
        /\ x = t => interactions'[x] = snapshot
        /\ x # t => interactions'[x] = interactions[x]
  <2>1. /\ DOMAIN interactions' \subseteq DOMAIN With(t, snapshot)
        /\ \A x \in DOMAIN interactions' : interactions'[x] = With(t, snapshot)[x]
    BY <1>0, TerminateFacts
  <2> QED
    BY <1>4, <2>1
<1>6. terminal = <<>> => t \in DOMAIN interactions'
  BY <1>0, <1>4, TerminateFirst
<1>7. /\ events' \in Seq([phase : Phases, turn : Turns])
      /\ \A i \in DOMAIN events' :
           events'[i].turn = t \/ \E j \in DOMAIN events : events'[i] = events[j]
  <2>1. /\ "Resolved" \in Phases /\ "Updated" \in Phases
        /\ events \in Seq([phase : Phases, turn : Turns])
    BY DEF QuestionInv, QuestionTypes, Phases
  <2> QED
    BY <1>0, <2>1, SendFacts
<1> QED
  BY <1>0, <1>1, <1>2, <1>3, <1>5, <1>6, <1>7 DEF snapshot

LEMMA RespondAnswerInv ==
  ASSUME QuestionInv, ~EarlyAnswers, NEW t \in Turns, NEW a \in Answers,
         RespondAnswer(t, a), UNCHANGED workerVars
  PROVE  QuestionInv'
<1> DEFINE snapshot == Append(interactions[t], a)
<1>0. /\ UNCHANGED <<registered, bound, asker, result, outcomes, known, turn, pc, call, ended>>
      /\ t = turn /\ t \in known /\ t \in DOMAIN interactions /\ bound = t /\ t # 0
      /\ Len(interactions[t]) < NQ /\ Len(interactions[t]) \in Nat /\ NQ \in Nat
      /\ saved' = [turn |-> t, answers |-> snapshot]
      /\ snapshot \in Partial
      /\ terminal = <<>> => t \in DOMAIN interactions'
      /\ Len(snapshot) # NQ => UNCHANGED terminal
  BY RespondAnswerFacts, QuestionsAssumption DEF RespondAnswer, workerVars
<1>1. \A x \in DOMAIN interactions' :
        /\ x \in DOMAIN interactions
        /\ x = t => interactions'[x] = snapshot
        /\ x # t => interactions'[x] = interactions[x]
  BY RespondAnswerFacts
<1>2. /\ events' \in Seq([phase : Phases, turn : Turns])
      /\ \A i \in DOMAIN events' :
           events'[i].turn = t \/ \E j \in DOMAIN events : events'[i] = events[j]
  BY RespondAnswerFacts
<1> HIDE DEF snapshot
<1>3. saved'.turn = turn /\ saved'.answers = snapshot
  BY <1>0
<1>4. QuestionTypes'
  <2>1. \A x \in DOMAIN interactions' : x \in Turns /\ interactions'[x] \in Partial
    BY <1>0, <1>1 DEF QuestionInv, QuestionTypes
  <2>2. saved' \in [turn : TurnOrNone, answers : Partial]
    BY <1>0 DEF TurnOrNone
  <2> QED
    BY <1>0, <1>2, <2>1, <2>2 DEF QuestionInv, QuestionTypes
<1>5. CallInv'
  BY <1>0 DEF QuestionInv, CallInv, IsOpen
<1>6. AskerInv'
  BY <1>0 DEF QuestionInv, AskerInv
<1>7. CASE IsOpen(turn)
  <2>1. saved.turn = turn /\ call = "ask" /\ interactions[t] = saved.answers
    BY <1>0, <1>7 DEF QuestionInv, SavedInv
  <2>2. asker.pc # "inserted" /\ result.kind # "answered"
    BY <1>0, <2>1 DEF QuestionInv, SavedInv
  <2>3. \A x \in DOMAIN interactions' : IsOpen(x) => x = turn /\ interactions'[x] = snapshot
    BY <1>0, <1>1 DEF QuestionInv, SavedInv
  <2>4. \A i \in DOMAIN events' : IsOpen(events'[i].turn) => events'[i].turn = turn
    BY <1>0, <1>2, <2>1 DEF QuestionInv, SavedInv
  <2>5. \A x \in known : IsOpen(x) => x = turn
    BY <2>1 DEF QuestionInv, SavedInv
  <2>6. SavedInv'
    BY <1>0, <1>3, <2>1, <2>2, <2>3, <2>4, <2>5 DEF SavedInv, IsOpen
  <2>7. ResumedInv'
    BY <1>0, <1>3, <2>1 DEF QuestionInv, ResumedInv
  <2> QED
    BY <1>4, <1>5, <1>6, <2>6, <2>7 DEF QuestionInv
<1>8. CASE ~IsOpen(turn)
  <2>1. call # "ask" /\ pc # "asking"
    BY <1>8 DEF QuestionInv, CallInv
  <2>2. Quiet
    BY <2>1, QuietBetweenCalls
  <2>3. \A x \in Turns : IsOpen(x) => saved'.turn # x /\ x \notin DOMAIN interactions'
    BY <1>1, <1>3, <1>8, <2>2 DEF Quiet
  <2>4. \A i \in DOMAIN events' : ~IsOpen(events'[i].turn)
    BY <1>0, <1>2, <1>8, <2>2 DEF Quiet
  <2>5. Quiet'
    BY <1>0, <2>2, <2>3, <2>4 DEF Quiet, IsOpen
  <2> QED
    BY <1>4, <1>5, <1>6, <2>5, QuietAgrees DEF QuestionInv
<1> QED
  BY <1>7, <1>8

LEMMA QuestionEventInv ==
  ASSUME QuestionInv, QuestionEvent
  PROVE  QuestionInv'
<1>0. /\ events # <<>> /\ events' = Tail(events) /\ known' = known \cup {Head(events).turn}
      /\ UNCHANGED <<interactions, registered, terminal, bound, saved, asker, result, outcomes,
                     turn, pc, call, ended>>
  BY DEF QuestionEvent, askVars, workerVars
<1>1. /\ events' \in Seq([phase : Phases, turn : Turns])
      /\ \A i \in DOMAIN events' : \E j \in DOMAIN events : events'[i] = events[j]
      /\ \E j \in DOMAIN events : Head(events) = events[j]
  <2> DEFINE Event == [phase : Phases, turn : Turns]
  <2>1. events \in Seq(Event)
    BY DEF QuestionInv, QuestionTypes
  <2> HIDE DEF Event
  <2>2. Len(events) \in Nat \ {0} /\ 1 \in DOMAIN events /\ Head(events) = events[1]
    BY <1>0, <2>1
  <2>3. /\ events' \in Seq(Event) /\ DOMAIN events' = 1..(Len(events) - 1)
        /\ \A i \in 1..(Len(events) - 1) : events'[i] = events[i + 1]
    BY <1>0, <2>1, <2>2
  <2>4. \A i \in DOMAIN events' : i + 1 \in DOMAIN events
    BY <2>1, <2>2, <2>3
  <2> QED
    BY <2>2, <2>3, <2>4 DEF Event
<1>2. QuestionTypes'
  BY <1>0, <1>1, EventTurns DEF QuestionInv, QuestionTypes
<1>3. CallInv' /\ AskerInv' /\ ResumedInv'
  BY <1>0 DEF QuestionInv, CallInv, AskerInv, ResumedInv, IsOpen
<1>4. SavedInv'
  <2>1. \A x \in known' : IsOpen(x) => saved.turn = x
    BY <1>0, <1>1 DEF QuestionInv, SavedInv
  <2>2. \A i \in DOMAIN events' : IsOpen(events'[i].turn) => saved.turn = events'[i].turn
    BY <1>1 DEF QuestionInv, SavedInv
  <2> QED
    BY <1>0, <2>1, <2>2 DEF QuestionInv, SavedInv, IsOpen
<1> QED
  BY <1>2, <1>3, <1>4 DEF QuestionInv

LEMMA ReadPendingInv ==
  ASSUME QuestionInv, ReadPending
  PROVE  QuestionInv'
<1>0. /\ pc \in {"idle", "interrupted"} /\ known' = known \cup PendingForThread
      /\ UNCHANGED <<interactions, registered, terminal, bound, saved, asker, result, outcomes,
                     events, turn, pc, call, ended>>
  BY DEF ReadPending, brokerVars, askVars, workerVars
<1>1. PendingForThread \subseteq DOMAIN interactions
  BY DEF PendingForThread
<1>2. QuestionTypes'
  BY <1>0, <1>1 DEF QuestionInv, QuestionTypes
<1>3. CallInv' /\ AskerInv' /\ ResumedInv'
  BY <1>0 DEF QuestionInv, CallInv, AskerInv, ResumedInv, IsOpen
<1>4. SavedInv'
  <2>1. asker.pc = "none"
    BY <1>0 DEF QuestionInv, AskerInv
  <2>2. \A x \in known' : IsOpen(x) => saved.turn = x
    BY <1>0, <1>1, <2>1 DEF QuestionInv, SavedInv
  <2> QED
    BY <1>0, <2>2 DEF QuestionInv, SavedInv, IsOpen
<1> QED
  BY <1>2, <1>3, <1>4 DEF QuestionInv

-----------------------------------------------------------------------------
(* Crash, restart and resumption *)

LEMMA CrashInv ==
  ASSUME QuestionInv, Crash
  PROVE  QuestionInv'
<1>0. /\ pc' = "down" /\ interactions' = [x \in {} |-> <<>>] /\ registered' = {}
      /\ terminal' = <<>> /\ bound' = 0 /\ asker' = NotAsking /\ result' = NoResult
      /\ events' = <<>> /\ UNCHANGED <<saved, outcomes, known, turn, call, ended>>
  BY DEF Crash, LoseBroker
<1>1. QuestionTypes'
  BY <1>0, EmptyPartial DEF QuestionInv, QuestionTypes, NotAsking, NoResult, TurnOrNone
<1>2. CallInv'
  BY <1>0 DEF QuestionInv, CallInv, IsOpen, Running
<1>3. AskerInv'
  BY <1>0 DEF AskerInv, Running, NotAsking, NoResult
<1>4. SavedInv'
  BY <1>0 DEF QuestionInv, SavedInv, IsOpen, NotAsking, NoResult
<1>5. ResumedInv'
  BY <1>0 DEF ResumedInv
<1> QED
  BY <1>1, <1>2, <1>3, <1>4, <1>5 DEF QuestionInv

\* The journal's copy takes the place of the broker's.
LEMMA RestoredInv ==
  ASSUME QuestionInv, Restore, asker.pc = "none", result = NoResult,
         call = "ask" => call' = "ask",
         UNCHANGED <<saved, asker, result, outcomes, events, known, turn, ended>>
  PROVE  QuestionTypes' /\ SavedInv'
<1>1. \A t \in DOMAIN interactions' :
        \/ t \in DOMAIN interactions /\ t # saved.turn /\ interactions'[t] = interactions[t]
        \/ t # 0 /\ t = saved.turn /\ interactions'[t] = saved.answers
  <2>1. \A t \in DOMAIN interactions : t # 0
    BY QuestionsAssumption DEF QuestionInv, QuestionTypes
  <2> QED
    BY <2>1, RestoreFacts
<1>2. QuestionTypes'
  <2>1. saved.turn # 0 => saved.turn \in Turns
    BY DEF QuestionInv, QuestionTypes, TurnOrNone
  <2>2. saved.answers \in Partial
    BY DEF QuestionInv, QuestionTypes
  <2>3. \A t \in DOMAIN interactions' : t \in Turns /\ interactions'[t] \in Partial
    BY <1>1, <2>1, <2>2 DEF QuestionInv, QuestionTypes
  <2> QED
    BY <2>3 DEF QuestionInv, QuestionTypes
<1>3. SavedInv'
  <2>1. \A t \in DOMAIN interactions' : IsOpen(t) =>
          t = turn /\ call = "ask" /\ saved.turn = t /\ interactions'[t] = saved.answers
    BY <1>1 DEF QuestionInv, SavedInv
  <2> QED
    BY <2>1 DEF QuestionInv, SavedInv, IsOpen, NoResult
<1> QED
  BY <1>2, <1>3

LEMMA RestartInv ==
  ASSUME QuestionInv, Restart
  PROVE  QuestionInv'
<1>0. /\ pc = "down"
      /\ \/ pc' = "interrupted" /\ turn # 0 /\ ended[turn] = "none"
         \/ pc' = "idle" /\ (turn = 0 \/ ended[turn] # "none")
      /\ Restore
      /\ UNCHANGED <<registered, bound, saved, asker, result, outcomes, events, known, turn,
                     call, ended>>
  BY DEF Restart, askVars
<1>1. asker.pc = "none" /\ result = NoResult
  BY <1>0 DEF QuestionInv, AskerInv
<1>2. QuestionTypes' /\ SavedInv'
  BY <1>0, <1>1, RestoredInv
<1>3. terminal' = <<>>
  BY <1>0, RestoreFacts DEF QuestionInv, AskerInv
<1>4. AskerInv'
  BY <1>0, <1>1, <1>3 DEF QuestionInv, AskerInv, Running, NoResult
<1>5. CallInv'
  <2>1. turn # 0 => turn \in Turns
    BY DEF QuestionInv, QuestionTypes, TurnOrNone
  <2>2. call = "ask" => turn # 0 /\ ended[turn] = "none"
    BY QuestionsAssumption DEF QuestionInv, CallInv
  <2> QED
    BY <1>0, <2>1, <2>2 DEF QuestionInv, CallInv, Running, IsOpen
<1>6. ResumedInv'
  BY <1>0 DEF ResumedInv
<1> QED
  BY <1>2, <1>4, <1>5, <1>6 DEF QuestionInv

LEMMA ResumeTurnInv ==
  ASSUME QuestionInv, ResumeTurn
  PROVE  QuestionInv'
<1>0. /\ pc = "interrupted" /\ Restore /\ bound' = turn
      /\ \/ call = "ask" /\ call' = "ask" /\ pc' = "calling"
         \/ call # "ask" /\ call' = "none" /\ pc' = "model"
      /\ UNCHANGED <<registered, events, saved, known, turn, ended, asker, result, outcomes>>
  BY DEF ResumeTurn, BindJournal, askVars, QuestionInv, CallInv, IsOpen
<1>1. /\ asker.pc = "none" /\ result = NoResult /\ registered = {}
      /\ turn \in Turns /\ turn # 0 /\ terminal = <<>>
  BY <1>0, QuestionsAssumption DEF QuestionInv, AskerInv, CallInv
<1>2. QuestionTypes' /\ SavedInv'
  BY <1>0, <1>1, RestoredInv
<1>3. terminal' = <<>> /\ (saved.turn = turn => turn \in DOMAIN interactions')
  BY <1>0, <1>1, RestoreFacts
<1>4. AskerInv'
  BY <1>0, <1>1 DEF AskerInv, Running, NoResult
<1>5. CallInv'
  BY <1>0, <1>1 DEF QuestionInv, CallInv, Running, IsOpen
<1>6. ResumedInv'
  BY <1>0, <1>3 DEF ResumedInv
<1> QED
  BY <1>2, <1>4, <1>5, <1>6 DEF QuestionInv

LEMMA QuestionStep ==
  ASSUME QuestionInv, ~EarlyAnswers, [Next]_vars
  PROVE  QuestionInv'
<1>1. CASE StartTurn \/ SkipCall \/ CallAsk \/ AskDone
  BY <1>1, StartTurnInv, SkipCallInv, CallAskInv, AskDoneInv
<1>2. CASE ObserveCancel \/ FinishRun \/ BeginCall \/ DeferCall \/ Admit
           \/ ApprovalArrives \/ Settle
  BY <1>2, QuietActionsInv
<1>3. CASE Asking
  BY <1>3, AskPersistInv, AskRequestInv, AskReturnInv, AskCancelledInv DEF Asking
<1>4. CASE AskingFails
  BY <1>4, AskPersistFailsInv DEF AskingFails
<1>5. CASE QuestionRespond
  BY <1>5, RespondStoppedInv, RespondAnswerInv DEF QuestionRespond
<1>6. CASE QuestionEvent \/ ReadPending \/ Crash \/ Restart \/ ResumeTurn
  BY <1>6, QuestionEventInv, ReadPendingInv, CrashInv, RestartInv, ResumeTurnInv
<1>7. CASE HandleCommand \/ InterruptFast \/ Forward \/ ApprovalEvent \/ SendRequest
           \/ ApprovalRespond \/ UNCHANGED vars
  <2>1. UNCHANGED <<journalVars, turn, pc, call, ended>>
    BY <1>7 DEF HandleCommand, InterruptFast, Forward, ApprovalEvent, SendRequest,
         ApprovalRespond, vars, questionVars, brokerVars, askVars, workerVars, journalVars
  <2> QED
    BY <2>1, Untouched
<1> QED
  BY <1>1, <1>2, <1>3, <1>4, <1>5, <1>6, <1>7 DEF Next, Worker, Transport, Client

\* The inductive invariant of the questions holds.
THEOREM QuestionsInvariant ==
  ASSUME ~EarlyAnswers
  PROVE  Spec => []QuestionInv
  BY QuestionInit, QuestionStep, PTL DEF Spec

\* An accepted answer is in the journal: the broker holds nothing of an open
\* call that a restart would not bring back.
THEOREM AnswersAreSaved ==
  ASSUME ~EarlyAnswers
  PROVE  Spec => []AcknowledgedSaved
<1>1. QuestionInv => AcknowledgedSaved
  BY DEF QuestionInv, SavedInv, QuestionTypes, AcknowledgedSaved, IsOpen
<1> QED
  BY <1>1, QuestionsInvariant, PTL

-----------------------------------------------------------------------------
(* The refinement: what a reader sees of the answers is an interview *)

\* What a reader would see without a broker: the result, else the journal.
JournalAnswers == [t \in Turns |->
  IF outcomes[t].kind # "open" THEN outcomes[t].answers
  ELSE IF saved.turn = t THEN saved.answers ELSE <<>>]

LEMMA SeenFromJournal == QuestionInv => VisibleAnswers = JournalAnswers
<1> SUFFICES ASSUME QuestionInv, NEW t \in Turns, outcomes[t].kind = "open",
                    t \in DOMAIN interactions
             PROVE  interactions[t] = IF saved.turn = t THEN saved.answers ELSE <<>>
  BY DEF VisibleAnswers, JournalAnswers
<1> QED
  BY DEF QuestionInv, SavedInv, IsOpen

LEMMA SeenFromJournalNext == QuestionInv' => VisibleAnswers' = JournalAnswers'
<1> SUFFICES ASSUME QuestionInv', NEW t \in Turns, outcomes'[t].kind = "open",
                    t \in DOMAIN interactions'
             PROVE  interactions'[t] = IF saved'.turn = t THEN saved'.answers ELSE <<>>
  BY DEF VisibleAnswers, JournalAnswers
<1> QED
  BY DEF QuestionInv, SavedInv, IsOpen

\* A step that leaves results and journal alone shows nothing new.
LEMMA SameJournal ==
  ASSUME QuestionInv, QuestionInv', UNCHANGED <<outcomes, saved>>
  PROVE  UNCHANGED <<VisibleAnswers, VisibleOutcome>>
<1>1. JournalAnswers' = JournalAnswers /\ VisibleOutcome' = VisibleOutcome
  BY DEF JournalAnswers, VisibleOutcome
<1> QED
  BY <1>1, SeenFromJournal, SeenFromJournalNext

\* Writing the batch of an open call shows nothing new.
LEMMA PersistSame ==
  ASSUME QuestionInv, QuestionInv', pc = "asking", AskPersist
  PROVE  UNCHANGED <<VisibleAnswers, VisibleOutcome>>
<1>1. /\ asker.pc = "inserted" /\ UNCHANGED outcomes
      /\ asker.turn = turn /\ bound = turn /\ saved.turn # turn /\ turn \in Turns
      /\ saved' = [turn |-> turn, answers |-> <<>>] /\ call = "ask"
  BY DEF AskPersist, QuestionInv, CallInv, AskerInv, SavedInv, Running
<1>2. \A t \in Turns : IsOpen(t) => saved.turn # t
  BY <1>1, QuestionsAssumption DEF QuestionInv, SavedInv
<1>3. JournalAnswers' = JournalAnswers /\ VisibleOutcome' = VisibleOutcome
  BY <1>1, <1>2 DEF JournalAnswers, VisibleOutcome, IsOpen
<1> QED
  BY <1>3, SeenFromJournal, SeenFromJournalNext

\* An accepted answer is one more answer of the interview, or comes after the
\* end of its call and is not seen.
LEMMA AnswerAccepted ==
  ASSUME QuestionInv, QuestionInv', ~EarlyAnswers, NEW t \in Turns, NEW a \in Answers,
         RespondAnswer(t, a)
  PROVE  Interviews!Accept(t) \/ UNCHANGED <<VisibleAnswers, VisibleOutcome>>
<1>1. /\ t = turn /\ t \in known /\ t \in DOMAIN interactions /\ UNCHANGED outcomes
      /\ Len(interactions[t]) < NQ
      /\ saved' = [turn |-> t, answers |-> Append(interactions[t], a)]
  BY RespondAnswerFacts DEF RespondAnswer
<1>2. VisibleOutcome' = VisibleOutcome
  BY <1>1 DEF VisibleOutcome
<1>3. \A u \in Turns : IsOpen(u) /\ saved.turn = u => u = turn /\ call = "ask"
  BY QuestionsAssumption DEF QuestionInv, SavedInv
<1>4. CASE IsOpen(t)
  <2>1. saved.turn = t /\ interactions[t] = saved.answers
    BY <1>1, <1>4 DEF QuestionInv, SavedInv
  <2>2. JournalAnswers[t] = saved.answers /\ VisibleOutcome[t] = "open"
    BY <1>4, <2>1 DEF JournalAnswers, VisibleOutcome, IsOpen
  <2>3. JournalAnswers' = [JournalAnswers EXCEPT ![t] = Append(@, a)]
    BY <1>1, <1>3, <1>4, <2>1, <2>2 DEF JournalAnswers, IsOpen
  <2>4. Len(JournalAnswers[t]) < NQ
    BY <1>1, <2>1, <2>2
  <2> QED
    BY <1>2, <2>2, <2>3, <2>4, SeenFromJournal, SeenFromJournalNext DEF Interviews!Accept
<1>5. CASE ~IsOpen(t)
  <2>1. \A u \in Turns : IsOpen(u) => saved.turn # u /\ u # t
    BY <1>1, <1>3, <1>5 DEF QuestionInv, CallInv
  <2>2. JournalAnswers' = JournalAnswers
    BY <1>1, <2>1 DEF JournalAnswers, IsOpen
  <2> QED
    BY <1>2, <2>2, SeenFromJournal, SeenFromJournalNext
<1> QED
  BY <1>4, <1>5

LEMMA VisibleFunctions ==
  /\ JournalAnswers = [t \in Turns |-> JournalAnswers[t]]
  /\ JournalAnswers' = [t \in Turns |-> JournalAnswers'[t]]
  /\ VisibleOutcome = [t \in Turns |-> VisibleOutcome[t]]
  /\ VisibleOutcome' = [t \in Turns |-> VisibleOutcome'[t]]
<1>1. JournalAnswers = [t \in Turns |-> JournalAnswers[t]]
  BY DEF JournalAnswers
<1>2. JournalAnswers' = [t \in Turns |-> JournalAnswers'[t]]
  BY DEF JournalAnswers
<1>3. VisibleOutcome = [t \in Turns |-> VisibleOutcome[t]]
  BY DEF VisibleOutcome
<1>4. VisibleOutcome' = [t \in Turns |-> VisibleOutcome'[t]]
  BY DEF VisibleOutcome
<1> QED
  BY <1>1, <1>2, <1>3, <1>4

\* The end of a call delivers all its answers or withdraws it.
LEMMA CallEnds ==
  ASSUME QuestionInv, QuestionInv', turn \in Turns, IsOpen(turn),
         NEW kind \in {"answered", "cancelled", "failed"}, NEW final,
         outcomes' = [outcomes EXCEPT ![turn] = [kind |-> kind, answers |-> final]],
         saved' = IF saved.turn = turn THEN NoQuestion ELSE saved,
         kind # "answered" => final = <<>>,
         kind = "answered" => saved.turn = turn /\ saved.answers = final /\ Len(final) = NQ
  PROVE  Interviews!Deliver(turn) \/ Interviews!Withdraw(turn)
<1>1. /\ outcomes'[turn] = [kind |-> kind, answers |-> final]
      /\ \A t \in Turns : t # turn => outcomes'[t] = outcomes[t]
  BY DEF QuestionInv, QuestionTypes
<1>2. \A t \in Turns : t # turn /\ IsOpen(t) => saved.turn # t /\ saved'.turn # t
  BY QuestionsAssumption DEF QuestionInv, SavedInv, NoQuestion
<1>k. outcomes'[turn].kind = kind /\ outcomes'[turn].answers = final /\ kind # "open"
  BY <1>1
<1>3. JournalAnswers' = [JournalAnswers EXCEPT ![turn] = final]
  <2>1. JournalAnswers'[turn] = final
    BY <1>k DEF JournalAnswers
  <2>2. ASSUME NEW t \in Turns, t # turn
        PROVE  JournalAnswers'[t] = JournalAnswers[t]
    <3>1. outcomes'[t] = outcomes[t]
      BY <1>1, <2>2
    <3>2. outcomes[t].kind = "open" => saved.turn # t /\ saved'.turn # t
      BY <1>2, <2>2 DEF IsOpen
    <3> HIDE DEF NoQuestion
    <3> QED
      BY <2>2, <3>1, <3>2 DEF JournalAnswers
  <2>3. /\ JournalAnswers = [t \in Turns |-> JournalAnswers[t]]
        /\ JournalAnswers' = [t \in Turns |-> JournalAnswers'[t]]
    BY VisibleFunctions
  <2> HIDE DEF JournalAnswers
  <2> QED
    BY <2>1, <2>2, <2>3
<1>4. VisibleOutcome[turn] = "open"
  BY DEF VisibleOutcome, IsOpen
<1>o. VisibleOutcome' = [VisibleOutcome EXCEPT ![turn] =
                           IF kind = "answered" THEN "answered" ELSE "withdrawn"]
  <2>1. VisibleOutcome'[turn] = IF kind = "answered" THEN "answered" ELSE "withdrawn"
    BY <1>k DEF VisibleOutcome
  <2>2. ASSUME NEW t \in Turns, t # turn
        PROVE  VisibleOutcome'[t] = VisibleOutcome[t]
    <3>1. outcomes'[t] = outcomes[t]
      BY <1>1, <2>2
    <3> QED
      BY <2>2, <3>1 DEF VisibleOutcome
  <2>3. /\ VisibleOutcome = [t \in Turns |-> VisibleOutcome[t]]
        /\ VisibleOutcome' = [t \in Turns |-> VisibleOutcome'[t]]
    BY VisibleFunctions
  <2> QED
    BY <2>1, <2>2, <2>3
<1>5. VisibleAnswers = JournalAnswers /\ VisibleAnswers' = JournalAnswers'
  BY SeenFromJournal, SeenFromJournalNext
<1>6. CASE kind = "answered"
  <2>1. JournalAnswers[turn] = final /\ Len(final) = NQ
    BY <1>6 DEF JournalAnswers, IsOpen
  <2>2. JournalAnswers' = JournalAnswers
    BY <1>3, <2>1 DEF JournalAnswers
  <2>3. VisibleOutcome' = [VisibleOutcome EXCEPT ![turn] = "answered"]
    BY <1>6, <1>o
  <2> QED
    BY <1>4, <1>5, <2>1, <2>2, <2>3 DEF Interviews!Deliver
<1>7. CASE kind # "answered"
  <2>1. VisibleOutcome' = [VisibleOutcome EXCEPT ![turn] = "withdrawn"]
    BY <1>7, <1>o
  <2> QED
    BY <1>3, <1>4, <1>5, <1>7, <2>1 DEF Interviews!Withdraw
<1> QED
  BY <1>6, <1>7

LEMMA InterviewStep ==
  ASSUME QuestionInv, QuestionInv', ~EarlyAnswers, [Next]_vars
  PROVE  [Interviews!Next]_<<VisibleAnswers, VisibleOutcome>>
<1>1. CASE Asking
  <2>1. CASE AskPersist
    BY <1>1, <2>1, PersistSame DEF Asking
  <2>2. CASE AskRequest \/ AskReturn \/ AskCancelled
    BY <2>2, SameJournal DEF AskRequest, AskReturn, AskCancelled
  <2> QED
    BY <1>1, <2>1, <2>2 DEF Asking
<1>2. CASE QuestionRespond
  <2>1. ASSUME NEW t \in Turns, RespondStopped(t)
        PROVE  UNCHANGED <<VisibleAnswers, VisibleOutcome>>
    BY <2>1, SameJournal DEF RespondStopped
  <2> QED
    BY <1>2, <2>1, AnswerAccepted DEF QuestionRespond, Interviews!Next
<1>3. CASE SkipCall
  <2>1. CASE call # "ask"
    BY <1>3, <2>1, SameJournal DEF SkipCall
  <2>2. CASE call = "ask"
    <3>1. turn \in Turns /\ IsOpen(turn)
      BY <2>2 DEF QuestionInv, CallInv
    <3>2. /\ outcomes' = [outcomes EXCEPT ![turn] = [kind |-> "cancelled", answers |-> <<>>]]
          /\ saved' = IF saved.turn = turn THEN NoQuestion ELSE saved
      BY <1>3, <2>2 DEF SkipCall, RecordSkipped
    <3>3. Interviews!Deliver(turn) \/ Interviews!Withdraw(turn)
      BY <3>1, <3>2, CallEnds
    <3> QED
      BY <3>1, <3>3 DEF Interviews!Next
  <2> QED
    BY <2>1, <2>2
<1>4. CASE AskDone
  <2>1. /\ result # NoResult /\ result.turn = turn /\ turn \in Turns /\ IsOpen(turn)
    BY <1>4 DEF AskDone, FinishCall, QuestionInv, AskerInv, CallInv
  <2>2. /\ result.kind \in {"answered", "cancelled", "failed"}
        /\ result.kind # "answered" => result.answers = <<>>
        /\ result.kind = "answered" => /\ saved.turn = turn
                                       /\ saved.answers = result.answers
                                       /\ Len(result.answers) = NQ
    BY <2>1 DEF QuestionInv, QuestionTypes, AskerInv, SavedInv
  <2>3. /\ outcomes' = [outcomes EXCEPT ![turn] = [kind |-> result.kind,
                                                   answers |-> result.answers]]
        /\ saved' = IF saved.turn = turn THEN NoQuestion ELSE saved
    BY <1>4, <2>1 DEF AskDone, FinishCall
  <2>4. Interviews!Deliver(turn) \/ Interviews!Withdraw(turn)
    BY <2>1, <2>2, <2>3, CallEnds
  <2> QED
    BY <2>1, <2>4 DEF Interviews!Next
<1>5. CASE StartTurn \/ ObserveCancel \/ FinishRun \/ BeginCall \/ DeferCall \/ CallAsk
           \/ AskingFails \/ Admit \/ ApprovalArrives \/ Settle \/ HandleCommand
  <2>1. UNCHANGED <<outcomes, saved>>
    BY <1>5 DEF StartTurn, BindJournal, ObserveCancel, FinishRun, BeginCall, DeferCall,
         CallAsk, AskInsert, AskingFails, AskPersistFails, Admit, ApprovalArrives, Settle,
         HandleCommand, questionVars
  <2> QED
    BY <2>1, SameJournal
<1>6. CASE InterruptFast \/ Forward \/ ApprovalEvent \/ QuestionEvent \/ SendRequest
           \/ ApprovalRespond \/ ReadPending \/ UNCHANGED vars
  <2>1. UNCHANGED <<outcomes, saved>>
    BY <1>6 DEF InterruptFast, Forward, ApprovalEvent, QuestionEvent, SendRequest,
         ApprovalRespond, ReadPending, questionVars, vars
  <2> QED
    BY <2>1, SameJournal
<1>7. CASE Crash \/ Restart \/ ResumeTurn
  <2>1. UNCHANGED <<outcomes, saved>>
    BY <1>7 DEF Crash, LoseBroker, Restart, ResumeTurn, BindJournal
  <2> QED
    BY <2>1, SameJournal
<1> QED
  BY <1>1, <1>2, <1>3, <1>4, <1>5, <1>6, <1>7 DEF Next, Worker, Transport, Client

\* ask_user implements the interview, across stops, crashes and resumptions:
\* an accepted answer stays, and a call ends with one answer per question or
\* without any.
THEOREM InterviewImplemented ==
  ASSUME ~EarlyAnswers
  PROVE  Spec => ImplementsInterview
<1>1. Init => Interviews!Init
  BY DEF Init, QuestionsInit, Interviews!Init, VisibleAnswers, VisibleOutcome, Open,
         NoQuestion
<1>2. QuestionInv /\ QuestionInv' /\ [Next]_vars
        => [Interviews!Next]_<<VisibleAnswers, VisibleOutcome>>
  BY InterviewStep
<1> QED
  BY <1>1, <1>2, QuestionsInvariant, PTL DEF Spec, ImplementsInterview, Interviews!Spec
=============================================================================
