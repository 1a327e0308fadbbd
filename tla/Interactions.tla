---------------------------- MODULE Interactions ----------------------------
(***************************************************************************)
(* One App Server process around a running Turn: the worker thread that    *)
(* blocks inside a tool call, the approval controller and its broker, the  *)
(* user-question broker, the transport loop that turns broker events into  *)
(* status and notifications, and the connection, whose mutex every request *)
(* takes except the two answers that unblock the worker.                   *)
(*                                                                         *)
(* A tool call is an action that needs admission, or "ask" (ask_user).     *)
(* Approval requests are numbered.  Turns, journals and their recovery are *)
(* the subject of ExecutionJournal; here a Turn is its sequence of tool    *)
(* calls, and a crash loses everything the two brokers do not save.        *)
(***************************************************************************)
EXTENDS UserQuestions

CONSTANTS
    Actions,      \* the actions the model may try, out of AllActions
    Executions,   \* <<preset, policy>> pairs world/set_execution may ask for
    Scopes,       \* ActionGrantScope values clients use
    MaxCalls,     \* tool calls in a behaviour
    MaxRequests,  \* requests on the connection in a behaviour
    MaxCrashes,   \* crashes in a behaviour
    MaxFaults,    \* failed journal writes of ask
    GrantCap      \* MAX_CACHED_APPROVALS, 1024 in the code

AllActions == {"read", "secret", "patch", "shell", "wipe", "legacy"}

ASSUME InteractionsAssumption ==
    /\ Actions \subseteq AllActions
    /\ Executions \subseteq {"default", "full-machine"}
                              \X {"interactive", "automatic", "trusted"}
    /\ Scopes \subseteq {"once", "session", "project"}
    /\ {MaxCalls, MaxRequests, MaxCrashes, MaxFaults, GrantCap} \subseteq Nat

VARIABLES
    turn,        \* the Turn the worker runs or ran last, 0 before the first
    pc,          \* where the worker is
    call,        \* the tool call of the batch, "none" between batches
    ended,       \* per Turn how it ended, "none" while it has not
    stopping,    \* the worker's stopping flag
    status,      \* runtime status: phase and Turn
    requests,    \* requests waiting for the connection mutex; the head holds it
    commands,    \* the worker's command queue
    accepted,    \* Turns whose interrupt was answered with accepted
    controller,  \* ApprovalController: preset, approval policy, access label
    grants,      \* ApprovalStore
    waiting,     \* the approval request the worker blocks on
    responders,  \* ApprovalState.responders, by request
    queued,      \* ApprovalState.queued
    resolved,    \* ApprovalState.resolved
    decision,    \* the channel of the pending request
    shown,       \* requests the client was notified of
    told,        \* answers the client was told were accepted
    ran,         \* actions that were executed, with the request and controller
    used         \* how much of each bound a behaviour has spent

workerVars == <<turn, pc, call, ended, stopping>>
approvalVars == <<controller, grants, waiting, responders, queued, resolved,
                  decision, shown, told, ran>>
connectionVars == <<requests, commands, accepted>>
vars == <<questionVars, workerVars, approvalVars, connectionVars, status, used>>

NoRequest == [id |-> 0, action |-> "none", label |-> "none", turn |-> 0]
NoDecision == [decision |-> "none", scope |-> "once"]

-----------------------------------------------------------------------------
(* The security policy. *)

FileActions == {"read", "secret", "patch"}
ReadActions == {"read", "secret"}

\* SecurityPolicy::evaluate over the preset's patterns: deny, then ask, then
\* allow.  "secret" is a read that matches **/.env*.
Evaluate(preset, action) ==
    CASE preset = "default" /\ action = "secret" -> "Deny"
      [] preset = "full-machine" /\ action \in FileActions -> "Allow"
      [] OTHER -> "Ask"

IsHighRisk(action) == action \notin ReadActions
IsTrustedHighRisk(action) == action \in {"wipe", "patch", "legacy"}

RequiresApproval(policy, action) ==
    CASE policy = "interactive" -> TRUE
      [] policy = "automatic" -> IsHighRisk(action)
      [] policy = "trusted" -> IsTrustedHighRisk(action)

\* action_grant_key: no key for a call without a tool name; the access label
\* is part of the key.
HasKey(action) == action # "legacy"
\* Mutant: the access label is left out of the key.
ActionGrantKeyPlain(action, label) == [action |-> action]

ActionGrantKey(action, label) == [action |-> action, label |-> label]

Granted(action) ==
    /\ HasKey(action)
    /\ \E scope \in {"session", "project"} :
        [scope |-> scope, key |-> ActionGrantKey(action, controller.label)] \in grants

AllowedScopes(action) ==
    IF HasKey(action) THEN {"once", "session", "project"} ELSE {"once"}

InsertGrant(scope, action) ==
    IF scope = "once" \/ Cardinality(grants) >= GrantCap THEN grants
    ELSE grants \cup {[scope |-> scope,
                       key |-> ActionGrantKey(action, waiting.label)]}

-----------------------------------------------------------------------------
(* Runtime status. *)

\* status::publish: a Turn that is stopping stays so until its end.
Published(t, phase) ==
    IF /\ status.phase = "Stopping"
       /\ status.turn = t
       /\ phase \notin {"Stopping", "Completed", "Failed"}
    THEN status
    ELSE [phase |-> phase, turn |-> t]

Publish(t, phase) == status' = Published(t, phase)

\* update_status_for_event of the worker's sink.
PublishEvent(phase) == Publish(turn, IF stopping THEN "Stopping" ELSE phase)

ActiveTurnMatches(t) ==
    /\ status.turn = t
    /\ status.phase \notin {"Idle", "Completed", "Failed", "Stopping"}

Spend(what) == used' = [used EXCEPT ![what] = @ + 1]

Init ==
    /\ QuestionsInit
    /\ turn = 0
    /\ pc = "idle"
    /\ call = "none"
    /\ ended = [t \in Turns |-> "none"]
    /\ stopping = FALSE
    /\ status = [phase |-> "Idle", turn |-> 0]
    /\ requests = <<>>
    /\ commands = <<>>
    /\ accepted = {}
    /\ controller = [preset |-> "default", policy |-> "interactive",
                     label |-> "project"]
    /\ grants = {}
    /\ waiting = NoRequest
    /\ responders = {}
    /\ queued = <<>>
    /\ resolved = <<>>
    /\ decision = NoDecision
    /\ shown = {}
    /\ told = {}
    /\ ran = {}
    /\ used = [calls |-> 0, requests |-> 0, crashes |-> 0, faults |-> 0,
               approvals |-> 0]

-----------------------------------------------------------------------------
(* The worker. *)

StartTurn ==
    /\ pc = "idle"
    /\ turn + 1 \in Turns
    /\ turn' = turn + 1
    /\ pc' = "model"
    /\ stopping' = FALSE
    /\ Publish(turn + 1, "Model")
    /\ BindJournal(turn + 1)
    /\ UNCHANGED <<call, ended, askVars, outcomes, cancel, approvalVars,
                   connectionVars, used>>

\* RunFinished or RunFailed and TurnFinished reach the sink; the Turn is
\* being persisted.
EndRun(kind) ==
    /\ pc' = "finishing"
    /\ ended' = [ended EXCEPT ![turn] = kind]
    /\ Publish(turn, "Persisting")
    /\ UNCHANGED <<turn, call, stopping, approvalVars, connectionVars, used>>

\* take_cancel_requested at a boundary or while the model answers.
ObserveCancel ==
    /\ pc = "model"
    /\ cancel
    /\ cancel' = FALSE
    /\ EndRun("cancelled")
    /\ UNCHANGED <<brokerVars, saved, askVars, outcomes, known>>

FinishRun ==
    /\ pc = "model"
    /\ ~cancel
    /\ EndRun("completed")
    /\ UNCHANGED questionVars

\* The model asks for a tool; the batch finds the stop flag clear.
BeginCall ==
    /\ pc = "model"
    /\ ~cancel
    /\ used.calls < MaxCalls
    /\ \E a \in Actions \cup {"ask"} :
        /\ a = "ask" => outcomes[turn].kind = "open"
        /\ call' = a
    /\ pc' = "calling"
    /\ Spend("calls")
    /\ UNCHANGED <<questionVars, turn, ended, stopping, approvalVars,
                   connectionVars, status>>

\* The stop flag is read again after ToolStarted: the call is recorded as
\* cancelled, also one that a resumption was to repeat.
SkipCall ==
    /\ pc = "calling"
    /\ cancel
    /\ pc' = "model"
    /\ call' = "none"
    /\ PublishEvent("Tool")
    /\ IF call = "ask" THEN RecordSkipped(turn) ELSE UNCHANGED <<saved, outcomes>>
    /\ UNCHANGED <<brokerVars, askVars, cancel, known, turn, ended, stopping,
                   approvalVars, connectionVars, used>>

\* Plan Mode, project instructions or malformed questions: the call returns
\* without running.  Questions that were asked once are well formed.
DeferCall ==
    /\ pc = "calling"
    /\ ~cancel
    /\ call = "ask" => turn # saved.turn /\ turn \notin DOMAIN interactions
    /\ pc' = "model"
    /\ call' = "none"
    /\ PublishEvent("Tool")
    /\ UNCHANGED <<questionVars, turn, ended, stopping, approvalVars,
                   connectionVars, used>>

CallAsk ==
    /\ pc = "calling"
    /\ call = "ask"
    /\ ~cancel
    /\ AskInsert(turn)
    /\ pc' = "asking"
    /\ PublishEvent("Tool")
    /\ UNCHANGED <<turn, call, ended, stopping, approvalVars, connectionVars, used>>

\* ask blocks the worker; its steps are those of the broker.
Asking ==
    /\ pc = "asking"
    /\ AskPersist \/ AskRequest \/ AskReturn \/ AskCancelled
    /\ UNCHANGED <<workerVars, approvalVars, connectionVars, status, used>>

AskingFails ==
    /\ pc = "asking"
    /\ used.faults < MaxFaults
    /\ AskPersistFails
    /\ Spend("faults")
    /\ UNCHANGED <<workerVars, approvalVars, connectionVars, status>>

AskDone ==
    /\ pc = "asking"
    /\ FinishCall
    /\ pc' = "model"
    /\ call' = "none"
    /\ UNCHANGED <<turn, ended, stopping, approvalVars, connectionVars, status, used>>

Executed(id) ==
    ran' = ran \cup {[action |-> call, id |-> id, preset |-> controller.preset,
                      policy |-> controller.policy, label |-> controller.label]}

\* approve_request_with_classification, up to the callback.
Admit ==
    /\ pc = "calling"
    /\ call \in Actions
    /\ ~cancel
    /\ PublishEvent("Tool")
    /\ LET rule == Evaluate(controller.preset, call) IN
       \/ /\ rule = "Deny"
          /\ pc' = "model"
          /\ call' = "none"
          /\ UNCHANGED approvalVars
          /\ UNCHANGED used
       \/ /\ \/ rule = "Allow"
             \/ rule = "Ask" /\ ~RequiresApproval(controller.policy, call)
             \/ rule = "Ask" /\ Granted(call)
          /\ Executed(0)
          /\ pc' = "model"
          /\ call' = "none"
          /\ UNCHANGED <<controller, grants, waiting, responders, queued,
                         resolved, decision, shown, told, used>>
       \/ /\ rule = "Ask"
          /\ RequiresApproval(controller.policy, call)
          /\ ~Granted(call)
          /\ Spend("approvals")
          /\ waiting' = [id |-> used.approvals + 1, action |-> call,
                         label |-> controller.label, turn |-> turn]
          /\ responders' = responders \cup {used.approvals + 1}
          /\ queued' = Append(queued, waiting')
          /\ pc' = "approving"
          /\ UNCHANGED <<call, controller, grants, resolved, decision, shown,
                         told, ran>>
    /\ UNCHANGED <<questionVars, turn, ended, stopping, connectionVars>>

\* The callback returned: a grant is stored, the tool runs or is refused.
ApprovalArrives ==
    /\ pc = "approving"
    /\ decision # NoDecision
    /\ IF decision.decision = "approve"
       THEN Executed(waiting.id) /\ grants' = InsertGrant(decision.scope, call)
       ELSE UNCHANGED <<ran, grants>>
    /\ decision' = NoDecision
    /\ waiting' = NoRequest
    /\ pc' = "model"
    /\ call' = "none"
    /\ UNCHANGED <<questionVars, turn, ended, stopping, controller, responders,
                   queued, resolved, shown, told, connectionVars, status, used>>

\* The terminal status is published unless the phase says the Turn waits.
Settle ==
    /\ pc = "finishing"
    /\ pc' = "idle"
    /\ IF status.phase \in {"StartingTurn", "Model", "Tool", "Stopping", "Persisting"}
       THEN Publish(turn, IF ended[turn] = "completed" THEN "Completed" ELSE "Failed")
       ELSE UNCHANGED status
    /\ UNCHANGED <<questionVars, turn, call, ended, stopping, approvalVars,
                   connectionVars, used>>

-----------------------------------------------------------------------------
(* The connection.  A request keeps the mutex until its handler returns; a  *)
(* handler that asks the worker returns when the worker has answered.       *)

SendRequest ==
    /\ used.requests < MaxRequests
    /\ pc # "down"
    /\ \/ /\ turn # 0
          /\ requests' = Append(requests, [kind |-> "interrupt", turn |-> turn,
                                           execution |-> <<>>, sent |-> FALSE])
       \/ \E e \in Executions :
            requests' = Append(requests, [kind |-> "execution", turn |-> 0,
                                          execution |-> e, sent |-> FALSE])
    /\ Spend("requests")
    /\ UNCHANGED <<questionVars, workerVars, approvalVars, commands, accepted, status>>

\* turn_cancel_action of a Turn that the status shows active.
InterruptFast ==
    /\ requests # <<>>
    /\ LET request == Head(requests) IN
       /\ request.kind = "interrupt"
       /\ ~request.sent
       /\ ActiveTurnMatches(request.turn)
       /\ cancel' = TRUE
       /\ commands' = Append(commands, [request EXCEPT !.sent = FALSE])
       /\ accepted' = accepted \cup {request.turn}
       /\ requests' = Tail(requests)
    /\ UNCHANGED <<brokerVars, saved, askVars, outcomes, known, workerVars,
                   approvalVars, status, used>>

\* request_action: the handler queues a command and awaits its reply.
Forward ==
    /\ requests # <<>>
    /\ LET request == Head(requests) IN
       /\ ~request.sent
       /\ request.kind = "interrupt" => ~ActiveTurnMatches(request.turn)
       /\ requests' = [requests EXCEPT ![1].sent = TRUE]
       /\ commands' = Append(commands, [request EXCEPT !.sent = TRUE])
    /\ UNCHANGED <<questionVars, workerVars, approvalVars, accepted, status, used>>

\* The worker answers a command: between Turns, or while the model answers.
HandleCommand ==
    /\ commands # <<>>
    /\ pc \in {"idle", "model"}
    /\ LET command == Head(commands) IN
       /\ commands' = Tail(commands)
       /\ requests' = IF command.sent THEN Tail(requests) ELSE requests
       /\ IF command.kind = "interrupt" /\ pc = "model" /\ command.turn = turn
          THEN /\ stopping' = TRUE
               /\ cancel' = TRUE
               /\ Publish(turn, "Stopping")
               /\ accepted' = IF command.sent THEN accepted \cup {turn} ELSE accepted
          ELSE UNCHANGED <<stopping, cancel, status, accepted>>
       /\ controller' = IF command.kind = "execution" /\ pc = "idle"
                        THEN [preset |-> command.execution[1],
                              policy |-> command.execution[2],
                              label |-> command.execution[1]]
                        ELSE controller
    /\ UNCHANGED <<brokerVars, saved, askVars, outcomes, known, turn, pc, call, ended,
                   grants, waiting, responders, queued, resolved, decision,
                   shown, told, ran, used>>

-----------------------------------------------------------------------------
(* The transport loop and the answers of the client. *)

\* ApprovalBroker::next_event: requests before resolutions.
ApprovalEvent ==
    /\ pc # "down"
    /\ \/ /\ queued # <<>>
          /\ queued' = Tail(queued)
          /\ shown' = shown \cup {Head(queued).id}
          /\ Publish(Head(queued).turn, "WaitingApproval")
          /\ UNCHANGED resolved
       \/ /\ queued = <<>>
          /\ resolved # <<>>
          /\ resolved' = Tail(resolved)
          /\ Publish(Head(resolved).turn, "Tool")
          /\ UNCHANGED <<queued, shown>>
    /\ UNCHANGED <<questionVars, workerVars, connectionVars, controller, grants,
                   waiting, responders, decision, told, ran, used>>

QuestionEvent ==
    /\ pc # "down"
    /\ events # <<>>
    /\ events' = Tail(events)
    /\ known' = known \cup {Head(events).turn}
    /\ Publish(Head(events).turn,
               IF Head(events).phase \in {"Requested", "Updated"}
               THEN "WaitingForUserInput" ELSE "Tool")
    /\ UNCHANGED <<interactions, registered, terminal, bound, saved, askVars,
                   outcomes, cancel, workerVars, approvalVars, connectionVars, used>>

\* approval/respond, a fast path: the responder is taken once.
Respond(answer, scope) ==
    \E id \in shown \cap responders :
        /\ id = waiting.id
        /\ answer = "approve" => scope \in AllowedScopes(waiting.action)
        /\ answer = "deny" => scope = "once"
        /\ responders' = responders \ {id}
        /\ decision' = [decision |-> answer, scope |-> scope]
        /\ told' = told \cup {[id |-> id, decision |-> answer, scope |-> scope,
                               action |-> waiting.action, label |-> waiting.label]}
        /\ resolved' = Append(resolved, waiting)
        /\ UNCHANGED <<controller, grants, waiting, queued, shown, ran>>

ApprovalRespond ==
    /\ pc # "down"
    /\ \E answer \in {"approve", "deny"}, scope \in Scopes : Respond(answer, scope)
    /\ UNCHANGED <<questionVars, workerVars, connectionVars, status, used>>

\* user-question/respond, the other fast path.
QuestionRespond ==
    /\ pc # "down"
    /\ \E t \in Turns :
        \/ RespondStopped(t)
        \/ \E a \in Answers : RespondAnswer(t, a)
    /\ UNCHANGED <<workerVars, approvalVars, connectionVars, status, used>>

-----------------------------------------------------------------------------
(* Crash and restart. *)

Crash ==
    /\ pc # "down"
    /\ used.crashes < MaxCrashes
    /\ Spend("crashes")
    /\ pc' = "down"
    /\ LoseBroker
    /\ stopping' = FALSE
    /\ requests' = <<>>
    /\ commands' = <<>>
    /\ grants' = {}
    /\ waiting' = NoRequest
    /\ responders' = {}
    /\ queued' = <<>>
    /\ resolved' = <<>>
    /\ decision' = NoDecision
    /\ controller' = [preset |-> "default", policy |-> "interactive",
                      label |-> "project"]
    /\ status' = [phase |-> "Idle", turn |-> 0]
    /\ accepted' = {}
    /\ shown' = {}
    /\ UNCHANGED <<turn, call, ended, told, ran>>

\* InstallRuntime restores the pending question of the journal.
Restart ==
    /\ pc = "down"
    /\ pc' = IF turn # 0 /\ ended[turn] = "none" THEN "interrupted" ELSE "idle"
    /\ Restore
    /\ UNCHANGED <<registered, bound, saved, askVars, outcomes, cancel, events,
                   known, turn, call, ended, stopping, approvalVars,
                   connectionVars, status, used>>

\* thread/read while no Turn runs shows the question of the broker.
ReadPending ==
    /\ pc \in {"idle", "interrupted"}
    /\ requests = <<>>
    /\ PendingForThread \ known # {}
    /\ known' = known \cup PendingForThread
    /\ UNCHANGED <<brokerVars, saved, askVars, outcomes, cancel, workerVars,
                   approvalVars, connectionVars, status, used>>

\* turn/resume: ask_user is safe to replay and is called again, any other
\* unfinished call has been reconciled.
ResumeTurn ==
    /\ pc = "interrupted"
    /\ pc' = IF call = "ask" /\ outcomes[turn].kind = "open" THEN "calling" ELSE "model"
    /\ call' = IF call = "ask" /\ outcomes[turn].kind = "open" THEN "ask" ELSE "none"
    /\ BindJournal(turn)
    /\ Publish(turn, "Model")
    /\ UNCHANGED <<turn, ended, stopping, askVars, outcomes, cancel,
                   approvalVars, connectionVars, used>>

Worker ==
    \/ StartTurn \/ ObserveCancel \/ FinishRun \/ BeginCall \/ SkipCall
    \/ DeferCall \/ CallAsk \/ Asking \/ AskingFails \/ AskDone \/ Admit
    \/ ApprovalArrives \/ Settle \/ HandleCommand

Transport == InterruptFast \/ Forward \/ ApprovalEvent \/ QuestionEvent

Client == SendRequest \/ ApprovalRespond \/ QuestionRespond \/ ReadPending

Next == Worker \/ Transport \/ Client \/ Crash \/ Restart \/ ResumeTurn

Spec == Init /\ [][Next]_vars

(***************************************************************************)
(* Fairness: the worker thread and the transport task run when they can,   *)
(* and the user answers an approval that is shown (the control plane denies *)
(* the open approval of a Turn it interrupts).  Nothing is assumed of the  *)
(* user's answers to questions.                                            *)
(***************************************************************************)
FairSpec ==
    /\ Spec
    /\ WF_vars(Worker)
    /\ WF_vars(Asking)
    /\ WF_vars(AskDone)
    /\ WF_vars(Transport)
    /\ WF_vars(ApprovalEvent)
    /\ WF_vars(ApprovalRespond)
    /\ WF_vars(Restart)
    /\ WF_vars(ResumeTurn)

-----------------------------------------------------------------------------

TypeOK ==
    /\ QuestionsTypeOK
    /\ turn \in Turns \cup {0}
    /\ pc \in {"idle", "model", "calling", "asking", "approving", "finishing",
               "down", "interrupted"}
    /\ call \in Actions \cup {"ask", "none"}
    /\ Len(requests) <= MaxRequests
    /\ Cardinality(grants) <= GrantCap
    /\ \A r \in DOMAIN requests : requests[r].sent => r = 1

(***************************************************************************)
(* No tool runs without authority (ToolOrchestrator::execute,              *)
(* approve_request_with_classification): whatever ran was allowed by the   *)
(* policy in force, or needed no approval under it, or the client was told *)
(* its approval of this very request was accepted, or it had accepted a    *)
(* session or project grant for the same action under the same access.     *)
(***************************************************************************)
RunsAuthorised ==
    \A r \in ran :
        \/ Evaluate(r.preset, r.action) = "Allow"
        \/ Evaluate(r.preset, r.action) = "Ask" /\ ~RequiresApproval(r.policy, r.action)
        \/ \E a \in told : a.id = r.id /\ a.decision = "approve"
        \/ \E a \in told :
            /\ a.decision = "approve"
            /\ a.scope # "once"
            /\ a.action = r.action
            /\ a.label = r.label

(***************************************************************************)
(* The first answer to an approval wins (ApprovalBroker::respond): however *)
(* many clients answer, one answer per request is accepted, and a request  *)
(* the client was told is denied never ran.                                *)
(***************************************************************************)
FirstAnswerWins ==
    /\ \A a, b \in told : a.id = b.id => a = b
    /\ \A a \in told, r \in ran : a.id = r.id => a.decision = "approve"

(***************************************************************************)
(* What a user decides about an action holds: nothing runs without its     *)
(* authority, a grant covers only what it was given for, and the first     *)
(* answer of several clients is the one that counts                        *)
(* (approve_request_with_classification, ApprovalBroker::respond).         *)
(***************************************************************************)
ApprovalsHold == RunsAuthorised /\ FirstAnswerWins

(***************************************************************************)
(* An accepted answer to a question is in the journal (respond persists    *)
(* before it acknowledges): the broker never holds more answers of an open *)
(* call than a restart would bring back.                                   *)
(***************************************************************************)
AcknowledgedSaved ==
    \A t \in DOMAIN interactions :
        outcomes[t].kind = "open" /\ interactions[t] # <<>>
            => saved = [turn |-> t, answers |-> interactions[t]]

(***************************************************************************)
(* ask_user keeps its promise across stops, crashes and resumptions: what  *)
(* a reader sees of the answers behaves like an interview.                 *)
(***************************************************************************)
ImplementsInterview == Interviews!Spec

(***************************************************************************)
(* Stopping a Turn works even when its tool waits for the user: a Turn     *)
(* whose interrupt was accepted comes to its end (turn_cancel_action sets  *)
(* the token that ask polls; the boundary takes it).                       *)
(***************************************************************************)
InterruptedTurnEnds ==
    \A t \in Turns :
        (t \in accepted /\ turn = t /\ pc \notin {"down", "interrupted"})
            ~> (ended[t] # "none" \/ pc \in {"down", "interrupted"})
=============================================================================
