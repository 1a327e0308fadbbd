---------------------------- MODULE UserQuestions ----------------------------
(***************************************************************************)
(* The user-question broker: ask runs on the worker thread and blocks it   *)
(* until the questions of one ask_user call are answered or the Turn is    *)
(* stopped, respond runs on the transport thread, and the execution        *)
(* journal keeps the batch and its answers for a restart.  An interaction  *)
(* is named by its Turn (the code digests Thread, Turn and call id).       *)
(***************************************************************************)
EXTENDS Naturals, Sequences, FiniteSets

CONSTANTS Turns,        \* Turn numbers, 1 .. the bound on Turns
          NQ,           \* questions per ask_user call, at most three
          Answers,      \* answers validate_answer accepts
          ResolvedCap,  \* RESOLVED_CAPACITY, 128 in the code
          EventCap,     \* EVENT_CAPACITY, 128 in the code
          EarlyAnswers  \* whether clients answer between restart and turn/resume

ASSUME QuestionsAssumption ==
    /\ Turns \subseteq Nat \ {0}
    /\ NQ \in 1 .. 3
    /\ ResolvedCap \in Nat \ {0}
    /\ EventCap \in Nat \ {0}
    /\ EarlyAnswers \in BOOLEAN

VARIABLES
    interactions, \* BrokerState.interactions: per Turn the answers so far
    registered,   \* BrokerState.cancellations: Turns with a live cancellation flag
    terminal,     \* BrokerState.terminal
    bound,        \* journals: the Turn whose journal is bound, 0 for none
    saved,        \* pending_user_question of the execution journal, on disk
    asker,        \* the worker inside ask
    result,       \* what ask returned and the journal does not hold yet
    outcomes,     \* per Turn, the durable outcome of its ask_user call
    cancel,       \* RunControl::cancel_requested, the token given to ask
    events,       \* the broadcast queue of question events
    known         \* interactions the client was told of

brokerVars == <<interactions, registered, terminal, bound, events>>
askVars == <<asker, result>>
questionVars == <<interactions, registered, terminal, bound, saved, asker,
                  result, outcomes, cancel, events, known>>

NoQuestion == [turn |-> 0, answers |-> <<>>]
NotAsking == [turn |-> 0, pc |-> "none"]
NoResult == [turn |-> 0, kind |-> "none", answers |-> <<>>]
Open == [kind |-> "open", answers |-> <<>>]

Phases == {"Requested", "Updated", "Resolved", "Cancelled"}
IsComplete(answers) == Len(answers) = NQ
Without(t) == [x \in DOMAIN interactions \ {t} |-> interactions[x]]
With(t, answers) ==
    [x \in DOMAIN interactions \cup {t} |->
        IF x = t THEN answers ELSE interactions[x]]

\* broadcast::Sender::send drops the oldest event of a full queue.
Send(phase, t) ==
    LET event == [phase |-> phase, turn |-> t]
    IN  events' = IF Len(events) = EventCap THEN Append(Tail(events), event)
                                            ELSE Append(events, event)

\* terminal.push followed by trim_terminal: the oldest id falls out together
\* with its interaction.
Terminate(t, left) ==
    LET ids == Append(terminal, t) IN
    IF Len(ids) > ResolvedCap
    THEN /\ terminal' = Tail(ids)
         /\ interactions' = [x \in DOMAIN left \ {Head(ids)} |-> left[x]]
    ELSE /\ terminal' = ids
         /\ interactions' = left

QuestionsInit ==
    /\ interactions = [x \in {} |-> <<>>]
    /\ registered = {}
    /\ terminal = <<>>
    /\ bound = 0
    /\ saved = NoQuestion
    /\ asker = NotAsking
    /\ result = NoResult
    /\ outcomes = [t \in Turns |-> Open]
    /\ cancel = FALSE
    /\ events = <<>>
    /\ known = {}

-----------------------------------------------------------------------------
(* ask, on the worker thread. *)

\* Under the lock: the interaction is inserted or a restored one reused, and
\* the flag registered; a complete one answers at once.
AskInsert(t) ==
    LET reused == t \in DOMAIN interactions
        answers == IF reused THEN interactions[t] ELSE <<>>
    IN
    /\ asker = NotAsking
    /\ result = NoResult
    /\ interactions' = With(t, answers)
    /\ IF IsComplete(answers)
       THEN /\ result' = [turn |-> t, kind |-> "answered", answers |-> answers]
            /\ UNCHANGED <<asker, registered>>
       ELSE /\ asker' = [turn |-> t, pc |-> IF reused THEN "saved" ELSE "inserted"]
            /\ registered' = registered \cup {t}
            /\ UNCHANGED result
    /\ UNCHANGED <<terminal, bound, saved, outcomes, cancel, events, known>>

\* The new batch is written to the journal of its Turn.
AskPersist ==
    /\ asker.pc = "inserted"
    /\ asker' = [asker EXCEPT !.pc = "saved"]
    /\ saved' = IF bound = asker.turn
                THEN [turn |-> asker.turn, answers |-> <<>>]
                ELSE saved
    /\ UNCHANGED <<brokerVars, result, outcomes, cancel, known>>

\* The write fails: the interaction is withdrawn and the tool call fails.
AskPersistFails ==
    /\ asker.pc = "inserted"
    /\ bound = asker.turn
    /\ interactions' = Without(asker.turn)
    /\ registered' = registered \ {asker.turn}
    /\ result' = [turn |-> asker.turn, kind |-> "failed", answers |-> <<>>]
    /\ asker' = NotAsking
    /\ UNCHANGED <<terminal, bound, saved, outcomes, cancel, events, known>>

AskRequest ==
    /\ asker.pc = "saved"
    /\ asker' = [asker EXCEPT !.pc = "waiting"]
    /\ Send("Requested", asker.turn)
    /\ UNCHANGED <<interactions, registered, terminal, bound, saved, result,
                   outcomes, cancel, known>>

\* The polling loop finds every answer.
AskReturn ==
    LET t == asker.turn IN
    /\ asker.pc = "waiting"
    /\ t \in DOMAIN interactions
    /\ IsComplete(interactions[t])
    /\ registered' = registered \ {t}
    /\ result' = [turn |-> t, kind |-> "answered", answers |-> interactions[t]]
    /\ asker' = NotAsking
    /\ UNCHANGED <<interactions, terminal, bound, saved, outcomes, cancel,
                   events, known>>

\* Mutant: the polling loop does not look at the stop flag.
AskCancelledNever == FALSE /\ UNCHANGED questionVars

\* The polling loop finds the stop flag and no complete interaction.
AskCancelled ==
    LET t == asker.turn IN
    /\ asker.pc = "waiting"
    /\ cancel
    /\ t \in DOMAIN interactions => ~IsComplete(interactions[t])
    /\ registered' = registered \ {t}
    /\ result' = [turn |-> t, kind |-> "cancelled", answers |-> <<>>]
    /\ asker' = NotAsking
    /\ IF t \in DOMAIN interactions
       THEN Terminate(t, Without(t)) /\ Send("Cancelled", t)
       ELSE UNCHANGED <<terminal, interactions, events>>
    /\ UNCHANGED <<bound, saved, outcomes, cancel, known>>

-----------------------------------------------------------------------------
(* respond, on the transport thread.  A repeated answer, a stale question   *)
(* and an answer that is not valid change nothing and are not steps.        *)

Stopped(t) == t \in registered /\ cancel

RespondStopped(t) ==
    /\ t \in known \cap DOMAIN interactions
    /\ Stopped(t)
    /\ registered' = registered \ {t}
    /\ Terminate(t, Without(t))
    /\ Send("Cancelled", t)
    /\ UNCHANGED <<bound, saved, asker, result, outcomes, cancel, known>>

\* Mutant: the answer is acknowledged without a write.
RespondAnswerUnsaved(t, answer) ==
    LET snapshot == Append(interactions[t], answer) IN
    /\ t \in known \cap DOMAIN interactions
    /\ EarlyAnswers \/ bound = t
    /\ ~Stopped(t)
    /\ ~IsComplete(interactions[t])
    /\ IF IsComplete(snapshot)
       THEN Terminate(t, With(t, snapshot)) /\ Send("Resolved", t)
       ELSE /\ interactions' = With(t, snapshot)
            /\ UNCHANGED terminal
            /\ Send("Updated", t)
    /\ UNCHANGED <<registered, bound, saved, asker, result, outcomes, cancel, known>>

RespondAnswer(t, answer) ==
    LET snapshot == Append(interactions[t], answer) IN
    /\ t \in known \cap DOMAIN interactions
    /\ EarlyAnswers \/ bound = t
    /\ ~Stopped(t)
    /\ ~IsComplete(interactions[t])
    /\ saved' = IF bound = t THEN [turn |-> t, answers |-> snapshot] ELSE saved
    /\ IF IsComplete(snapshot)
       THEN Terminate(t, With(t, snapshot)) /\ Send("Resolved", t)
       ELSE /\ interactions' = With(t, snapshot)
            /\ UNCHANGED terminal
            /\ Send("Updated", t)
    /\ UNCHANGED <<registered, bound, asker, result, outcomes, cancel, known>>

-----------------------------------------------------------------------------
(* The journal, restarts and what the client learns. *)

\* terminal.retain in restore_pending: a list without the id stays as it is.
Retained(t) ==
    IF \E i \in DOMAIN terminal : terminal[i] = t
    THEN SelectSeq(terminal, LAMBDA id : id # t)
    ELSE terminal

\* Mutant: the restored question starts over.
RestoreEmpty ==
    IF saved.turn = 0
    THEN UNCHANGED <<terminal, interactions>>
    ELSE /\ terminal' = Retained(saved.turn)
         /\ interactions' = With(saved.turn, <<>>)

\* restore_pending: the journal's copy replaces the broker's.
Restore ==
    IF saved.turn = 0
    THEN UNCHANGED <<terminal, interactions>>
    ELSE /\ terminal' = Retained(saved.turn)
         /\ interactions' = With(saved.turn, saved.answers)

\* bind_journal, at the start of a Turn and of its resumption.
BindJournal(t) ==
    /\ Restore
    /\ bound' = t
    /\ UNCHANGED <<registered, events, saved, known>>

\* The result enters the journal with ToolCallFinished, which clears the
\* pending question.
FinishCall ==
    /\ result # NoResult
    /\ outcomes' = [outcomes EXCEPT ![result.turn] =
                        [kind |-> result.kind, answers |-> result.answers]]
    /\ saved' = IF saved.turn = result.turn THEN NoQuestion ELSE saved
    /\ result' = NoResult
    /\ UNCHANGED <<brokerVars, asker, cancel, known>>

\* A call that is cancelled before it runs is finished in the journal too.
RecordSkipped(t) ==
    /\ outcomes' = [outcomes EXCEPT ![t] = [kind |-> "cancelled", answers |-> <<>>]]
    /\ saved' = IF saved.turn = t THEN NoQuestion ELSE saved

LoseBroker ==
    /\ interactions' = [x \in {} |-> <<>>]
    /\ registered' = {}
    /\ terminal' = <<>>
    /\ bound' = 0
    /\ asker' = NotAsking
    /\ result' = NoResult
    /\ cancel' = FALSE
    /\ events' = <<>>
    /\ UNCHANGED <<saved, outcomes, known>>

\* thread/read of an idle worker: pending_for_thread.
PendingForThread ==
    {t \in DOMAIN interactions :
        /\ ~IsComplete(interactions[t])
        /\ \A u \in DOMAIN interactions :
            ~IsComplete(interactions[u])
                => Len(interactions[u]) <= Len(interactions[t])}

-----------------------------------------------------------------------------

QuestionsTypeOK ==
    /\ DOMAIN interactions \subseteq Turns
    /\ \A t \in DOMAIN interactions :
        interactions[t] \in UNION {[1 .. n -> Answers] : n \in 0 .. NQ}
    /\ registered \subseteq Turns
    /\ Len(terminal) <= ResolvedCap
    /\ bound \in Turns \cup {0}
    /\ saved.turn \in Turns \cup {0}
    /\ asker.pc \in {"none", "inserted", "saved", "waiting"}
    /\ result.kind \in {"none", "answered", "cancelled", "failed"}
    /\ Len(events) <= EventCap
    /\ cancel \in BOOLEAN
    /\ known \subseteq Turns

(***************************************************************************)
(* The answers of a Turn as a reader of the session sees them: in the      *)
(* result once the call is over, else in the broker, else in the journal.  *)
(***************************************************************************)
VisibleAnswers == [t \in Turns |->
    IF outcomes[t].kind # "open" THEN outcomes[t].answers
    ELSE IF t \in DOMAIN interactions THEN interactions[t]
    ELSE IF saved.turn = t THEN saved.answers
    ELSE <<>>]

VisibleOutcome == [t \in Turns |->
    IF outcomes[t].kind \in {"cancelled", "failed"} THEN "withdrawn"
    ELSE outcomes[t].kind]

Interviews == INSTANCE Interview WITH answers <- VisibleAnswers,
                                      outcome <- VisibleOutcome
=============================================================================
