--------------------------- MODULE SessionControl ---------------------------
(***************************************************************************)
(* The durable freeze and resume of a Session (session/control), the gates *)
(* of the worker that obey it, and the Threads one worker owns.            *)
(*                                                                         *)
(* A Gateway (external) stops a Session in several calls: freeze, cancel   *)
(* the Turn, freeze_settled; and continues it in several: resume, start or *)
(* resume a Turn, resume_settled.  It may repeat any call, late, and the   *)
(* process may crash between any two of them.  The worker handles one      *)
(* command at a time; while a Turn runs its Thread is out of the map.      *)
(***************************************************************************)
EXTENDS Naturals, Sequences, FiniteSets, SequencesExt

CONSTANTS
    ThreadIds,      \* the identities a client may ask for
    Main,           \* the Thread of the Session when it is opened
    FreshIds,       \* the identities start_thread generates, in order
    MaxRequests,    \* bound: distinct freeze and distinct resume requests
    MaxTurns,       \* bound: Turns that begin or are resumed
    MaxQueued,      \* bound: inputs queued behind the running Turn
    MaxCrashes      \* bound: process crashes

ASSUME IdsAssumption ==
    /\ Main \in ThreadIds
    /\ FreshIds \in Seq(ThreadIds \ {Main})
    /\ IsInjective(FreshIds)

ASSUME BoundsAssumption ==
    {MaxRequests, MaxTurns, MaxQueued, MaxCrashes} \subseteq Nat

VARIABLES
    ctl,        \* control.json: [status, id] (id: the last request that set it)
    threads,    \* ThreadManager.threads: id |-> status of the Threads at hand
    ids,        \* ThreadManager.thread_ids, shared with the connections
    own,        \* management.thread_id(): the Thread the Session persists
    turn,       \* the running Turn, or NoTurn
    queue,      \* RunControl: the modes of the queued inputs, in order
    exec,       \* the execution state of the Session: [turn, status, source]
    goalStart,  \* a Goal Turn waits in the command channel
    up,         \* the process runs
    used,       \* counters: freeze and resume requests, Turns, new Threads, crashes
    hold,       \* ghost: a freeze was accepted and no resume since
    kept        \* ghost: the Turn a stop interrupted, until it runs again

vars == <<ctl, threads, ids, own, turn, queue, exec, goalStart, up, used, hold, kept>>
threadVars == <<threads, ids, own>>
turnVars == <<turn, queue, exec, goalStart, kept>>

NoTurn == [id |-> 0]
NoExec == [turn |-> 0, status |-> "none", source |-> "client"]
Running == turn # NoTurn
Counters == {"freeze", "resume", "turns", "fresh", "crashes"}

(***************************************************************************)
(* Changed definitions the properties must tell from the code's            *)
(***************************************************************************)

\* The worker goes on with a queued input without asking for the freeze.
ContinuesAnyway == TRUE

\* A cancelled Turn is settled whatever the Session control says.
NeverRequiresResume == FALSE

\* resume keeps the identity of the freeze, so its settlement never matches.
ResumeKeepsId(s, id) == IF s.status = "frozen" THEN [s EXCEPT !.status = "resuming"] ELSE s

(***************************************************************************)
(* control.json                                                            *)
(***************************************************************************)

Frozen == ctl.status \in {"freezing", "frozen"}
Fid(n) == <<"freeze", n>>
Rid(n) == <<"resume", n>>

\* transition_session_control: the state after an accepted request, the state
\* unchanged when the request was done before, or a stale request refused.
Freeze(s, id) ==
    IF s.status \in {"freezing", "frozen"} THEN s ELSE [status |-> "freezing", id |-> id]

FreezeSettled(s, id) ==
    IF s = [status |-> "freezing", id |-> id] THEN [s EXCEPT !.status = "frozen"] ELSE s

Resume(s, id) ==
    IF s.status = "frozen" THEN [status |-> "resuming", id |-> id] ELSE s

ResumeSettled(s, id) ==
    IF s = [status |-> "resuming", id |-> id] THEN [s EXCEPT !.status = "running"] ELSE s

\* While a Turn runs only freeze and resume_settled are safe; once the Turn is
\* told to stop every mutation is refused until it ended.
SafeWhileRunning(action) == action \in {"freeze", "resume_settled"}

Admitted(action) ==
    /\ up
    /\ Running => SafeWhileRunning(action) /\ ~turn.stopping

\* One session/control call reaches the actor and writes control.json, which
\* write_json_atomic replaces whole.
SessionControl(action, new, n) ==
    /\ Admitted(action)
    /\ ctl' = new
    /\ hold' = (new.status = "freezing" \/ (hold /\ new.status # "resuming"))
    /\ n # 0 => used' = [used EXCEPT ![action] = n]
    /\ n = 0 => UNCHANGED used
    /\ UNCHANGED <<threadVars, turnVars, up>>

\* A request is new (the next identity) or one of the earlier ones again.
GatewayFreeze ==
    \/ /\ used.freeze < MaxRequests
       /\ SessionControl("freeze", Freeze(ctl, Fid(used.freeze + 1)), used.freeze + 1)
    \/ \E n \in 1 .. used.freeze : SessionControl("freeze", Freeze(ctl, Fid(n)), 0)

GatewayFreezeSettled ==
    \E n \in 1 .. used.freeze :
        SessionControl("freeze_settled", FreezeSettled(ctl, Fid(n)), 0)

GatewayResume ==
    \/ /\ used.resume < MaxRequests
       /\ SessionControl("resume", Resume(ctl, Rid(used.resume + 1)), used.resume + 1)
    \/ \E n \in 1 .. used.resume : SessionControl("resume", Resume(ctl, Rid(n)), 0)

GatewayResumeSettled ==
    \E n \in 1 .. used.resume :
        SessionControl("resume_settled", ResumeSettled(ctl, Rid(n)), 0)

(***************************************************************************)
(* Turns                                                                   *)
(***************************************************************************)

\* The gate of Command::Start on the Session control.
ControlAllowsStart(source) ==
    /\ ~Frozen
    /\ ctl.status = "resuming" => source = "session_resume"

\* The gate on the execution state: only a resume request passes a Turn that
\* has not settled.
ExecutionAllowsStart == exec.status \in {"none", "settled"}

\* The Thread is at hand and not closed.
Open(t) == t \in DOMAIN threads /\ threads[t] # "closed"

\* The Turn begins.  A Turn that a session_resume started settles the resume.
Begin(t, id, source) ==
    /\ turn' = [id |-> id, thread |-> t, source |-> source, stopping |-> FALSE]
    /\ exec' = [turn |-> id, status |-> "running", source |-> source]
    /\ kept' = IF kept = id THEN 0 ELSE kept

SettlesResume(source) ==
    IF source = "session_resume" /\ ctl.status = "resuming"
    THEN ResumeSettled(ctl, ctl.id)
    ELSE ctl

\* Command::Start without a resume request: every early return leaves the Thread
\* in the map, the accepted one takes it out until the Turn ends.
StartTurn(t, source) ==
    /\ up /\ ~Running
    /\ used.turns < MaxTurns
    /\ ControlAllowsStart(source)
    /\ ExecutionAllowsStart
    /\ Open(t)
    /\ threads' = [u \in DOMAIN threads \ {t} |-> threads[u]]
    /\ Begin(t, used.turns + 1, source)
    /\ ctl' = SettlesResume(source)
    /\ used' = [used EXCEPT !.turns = @ + 1]
    /\ UNCHANGED <<ids, own, queue, goalStart, up, hold>>

ClientStart ==
    \E t \in ThreadIds, source \in {"client", "session_resume"} : StartTurn(t, source)

\* schedule_goal_turn sends a Start of its own: it may wait behind a freeze.
ScheduleGoalTurn ==
    /\ up /\ ~goalStart
    /\ goalStart' = TRUE
    /\ UNCHANGED <<ctl, threadVars, turn, queue, exec, up, used, hold, kept>>

\* The Goal's Start is handled, while a Turn runs or not.
GoalStart ==
    /\ up /\ goalStart
    /\ goalStart' = FALSE
    /\ \/ /\ ~Running
          /\ used.turns < MaxTurns
          /\ ControlAllowsStart("goal") /\ ExecutionAllowsStart
          /\ Open(own)
          /\ threads' = [u \in DOMAIN threads \ {own} |-> threads[u]]
          /\ Begin(own, used.turns + 1, "goal")
          /\ used' = [used EXCEPT !.turns = @ + 1]
       \/ /\ \/ Running
             \/ ~ControlAllowsStart("goal") \/ ~ExecutionAllowsStart
             \/ ~Open(own)
          /\ UNCHANGED <<threads, turn, exec, used, kept>>
    /\ UNCHANGED <<ctl, ids, own, queue, up, hold>>

\* turn/resume: a Start with a resume request.  It passes the gate as a
\* session_resume and runs the Turn that waits, under the source that Turn had.
ResumeTurn(t) ==
    /\ up /\ ~Running
    /\ used.turns < MaxTurns
    /\ ControlAllowsStart("session_resume")
    /\ exec.status = "waiting"
    /\ Open(t)
    /\ threads' = [u \in DOMAIN threads \ {t} |-> threads[u]]
    /\ Begin(t, exec.turn, exec.source)
    /\ ctl' = SettlesResume(exec.source)
    /\ used' = [used EXCEPT !.turns = @ + 1]
    /\ UNCHANGED <<ids, own, queue, goalStart, up, hold>>

\* PendingInputQueue::submit, its item and byte limits as one capacity.
QueueHasRoom == Len(queue) < MaxQueued

\* A steer or a follow-up is queued behind the running Turn unless it is stopping.
SubmitInput(mode) ==
    /\ up /\ Running /\ ~turn.stopping
    /\ QueueHasRoom
    /\ queue' = Append(queue, mode)
    /\ UNCHANGED <<ctl, threadVars, turn, exec, goalStart, up, used, hold, kept>>

\* Command::Cancel: the Turn is told to stop and its pending steers are dropped.
CancelTurn ==
    /\ up /\ Running /\ ~turn.stopping
    /\ turn' = [turn EXCEPT !.stopping = TRUE]
    /\ queue' = SelectSeq(queue, LAMBDA m : m # "steer")
    /\ UNCHANGED <<ctl, threadVars, exec, goalStart, up, used, hold, kept>>

\* cancelled_execution_requires_resume: a Session that is stopping or continuing
\* keeps the interrupted Turn for its continuation.
RequiresResume == ctl.status \in {"freezing", "frozen", "resuming"}

\* settle_execution_checkpoint
Settled(outcome) ==
    IF outcome = "completed" \/ (outcome = "cancelled" /\ ~RequiresResume)
    THEN "settled"
    ELSE "waiting"

\* The input the worker goes on with: the first steer, then the first follow-up.
Steers == {i \in DOMAIN queue : queue[i] = "steer"}
NextInput(outcome) ==
    IF outcome # "cancelled" /\ Steers # {}
    THEN CHOOSE i \in Steers : \A j \in Steers : i <= j
    ELSE IF SelectSeq(queue, LAMBDA m : m # "steer") # <<>>
         THEN CHOOSE i \in DOMAIN queue \ Steers : \A j \in DOMAIN queue \ Steers : i <= j
         ELSE 0

\* The in-worker continuation obeys the freeze as a Start does.
SessionAllowsContinuation == ctl.status = "running"

\* The Turn ends.  A queued input becomes the next Turn of the same Thread; when
\* the Session does not allow it the input is dropped.
EndTurn(outcome) ==
    /\ up /\ Running
    /\ (outcome = "cancelled") = turn.stopping
    /\ LET rest == IF outcome = "cancelled" THEN SelectSeq(queue, LAMBDA m : m # "steer")
                   ELSE queue
           i    == NextInput(outcome)
           left == IF i = 0 THEN rest
                   ELSE IF outcome = "cancelled" THEN Tail(rest) ELSE RemoveAt(queue, i)
           goOn == i # 0 /\ SessionAllowsContinuation
           done == [exec EXCEPT !.status = Settled(outcome)]
       IN /\ queue' = left
          /\ goOn => used.turns < MaxTurns
          /\ IF goOn
             THEN /\ turn' = [turn EXCEPT !.id = used.turns + 1, !.source = "client",
                                          !.stopping = FALSE]
                  /\ exec' = [turn |-> used.turns + 1, status |-> "running",
                              source |-> "client"]
                  /\ used' = [used EXCEPT !.turns = @ + 1]
                  /\ UNCHANGED <<threads, kept>>
             ELSE /\ turn' = NoTurn
                  /\ exec' = done
                  /\ threads' = [t \in DOMAIN threads \cup {turn.thread} |->
                                   IF t = turn.thread THEN "idle" ELSE threads[t]]
                  /\ kept' = IF outcome = "cancelled" /\ hold THEN turn.id ELSE kept
                  /\ UNCHANGED used
    /\ UNCHANGED <<ctl, ids, own, goalStart, up, hold>>

(***************************************************************************)
(* Threads: every command on them is refused with Busy while a Turn runs   *)
(***************************************************************************)

Idle == up /\ ~Running

Put(t, status) ==
    threads' = [u \in DOMAIN threads \cup {t} |-> IF u = t THEN status ELSE threads[u]]

\* ThreadManager::create
CreateThread(t) ==
    /\ Idle /\ t \notin DOMAIN threads
    /\ Put(t, "idle") /\ ids' = Append(ids, t)
    /\ UNCHANGED <<ctl, own, turnVars, up, used, hold>>

\* ThreadManager::fork: the copy takes the status of the source's checkpoint.
ForkThread(s, t) ==
    /\ Idle /\ t \notin DOMAIN threads /\ s \in DOMAIN threads
    /\ Put(t, threads[s]) /\ ids' = Append(ids, t)
    /\ UNCHANGED <<ctl, own, turnVars, up, used, hold>>

\* ThreadManager::resume: the checkpoint is installed in the Thread that has the
\* identity, or in a new one.
ResumeThread(t, status) ==
    /\ Idle
    /\ Put(t, status)
    /\ ids' = IF t \in DOMAIN threads THEN ids ELSE Append(ids, t)
    /\ UNCHANGED <<ctl, own, turnVars, up, used, hold>>

\* ThreadManager::rename
Rename(old, new) ==
    /\ new \notin DOMAIN threads /\ old \in DOMAIN threads
    /\ threads' = [u \in (DOMAIN threads \ {old}) \cup {new} |->
                     IF u = new THEN threads[old] ELSE threads[u]]
    /\ ids' = [i \in DOMAIN ids |-> IF ids[i] = old THEN new ELSE ids[i]]

\* Command::ResetThread, for a Thread the Session does not persist.
ResetThread(old, new) ==
    /\ Idle /\ old # own
    /\ Rename(old, new)
    /\ UNCHANGED <<ctl, own, turnVars, up, used, hold>>

\* start_new_thread: the Session moves to a Thread with a generated identity.
StartNewThread ==
    /\ Idle /\ own \in DOMAIN threads
    /\ used.fresh < Len(FreshIds)
    /\ used' = [used EXCEPT !.fresh = @ + 1]
    /\ own' = FreshIds[used.fresh + 1]
    /\ Rename(own, own')
    /\ UNCHANGED <<ctl, turnVars, up, hold>>

CloseThread(t) ==
    /\ Idle /\ Open(t)
    /\ threads' = [threads EXCEPT ![t] = "closed"]
    /\ UNCHANGED <<ctl, ids, own, turnVars, up, used, hold>>

\* What a client may name: any identity it chooses, never one still to be generated.
Nameable == ThreadIds \ {FreshIds[i] : i \in used.fresh + 1 .. Len(FreshIds)}

ThreadCommand ==
    \E s, t \in Nameable :
        \/ s = t /\ (CreateThread(t) \/ CloseThread(t))
        \/ s = t /\ \E status \in {"idle", "closed"} : ResumeThread(t, status)
        \/ ForkThread(s, t)
        \/ ResetThread(s, t)

(***************************************************************************)
(* Crashes                                                                 *)
(***************************************************************************)

\* Everything but control.json and the journal is lost.
Crash ==
    /\ up /\ used.crashes < MaxCrashes
    /\ up' = FALSE
    /\ turn' = NoTurn /\ queue' = <<>> /\ goalStart' = FALSE
    /\ threads' = <<>> /\ ids' = <<>>
    /\ kept' = IF Running /\ hold THEN turn.id ELSE kept
    /\ used' = [used EXCEPT !.crashes = @ + 1]
    /\ UNCHANGED <<ctl, own, exec, hold>>

\* The Session is opened again: a Turn left running waits for a continue.
Restart ==
    /\ ~up
    /\ up' = TRUE
    /\ exec' = IF exec.status = "running" THEN [exec EXCEPT !.status = "waiting"] ELSE exec
    /\ threads' = [t \in {own} |-> "idle"]
    /\ ids' = <<own>>
    /\ UNCHANGED <<ctl, own, turn, queue, goalStart, used, hold, kept>>

Init ==
    /\ ctl = [status |-> "running", id |-> <<"none", 0>>]
    /\ threads = [t \in {Main} |-> "idle"]
    /\ ids = <<Main>>
    /\ own = Main
    /\ turn = NoTurn
    /\ queue = <<>>
    /\ exec = NoExec
    /\ goalStart = FALSE
    /\ up = TRUE
    /\ used = [c \in Counters |-> 0]
    /\ hold = FALSE
    /\ kept = 0

Turns ==
    \/ ClientStart
    \/ ScheduleGoalTurn
    \/ GoalStart
    \/ \E t \in ThreadIds : ResumeTurn(t)
    \/ \E mode \in {"steer", "follow_up"} : SubmitInput(mode)
    \/ CancelTurn
    \/ \E outcome \in {"completed", "cancelled", "failed"} : EndTurn(outcome)

Next ==
    \/ GatewayFreeze
    \/ GatewayFreezeSettled
    \/ GatewayResume
    \/ GatewayResumeSettled
    \/ Turns
    \/ ThreadCommand
    \/ StartNewThread
    \/ Crash
    \/ Restart

Spec == Init /\ [][Next]_vars

\* The Gateway stops the Turn of a Session it froze, and repeats the settlement
\* of the request it reads from control.json until it is accepted.
StopTurn == ctl.status = "freezing" /\ CancelTurn
SettleFreeze ==
    \E n \in 1 .. MaxRequests :
        ctl = [status |-> "freezing", id |-> Fid(n)] /\ SessionControl("freeze_settled", FreezeSettled(ctl, Fid(n)), 0)
SettleResume ==
    \E n \in 1 .. MaxRequests :
        ctl.id = Rid(n) /\ ctl.status = "resuming" /\ SessionControl("resume_settled", ResumeSettled(ctl, Rid(n)), 0)

LiveSpec ==
    /\ Spec
    /\ WF_vars(Restart)
    /\ WF_vars(StopTurn)
    /\ WF_vars(SettleFreeze)
    /\ WF_vars(SettleResume)
    /\ WF_vars(\E outcome \in {"completed", "cancelled", "failed"} : EndTurn(outcome))
-----------------------------------------------------------------------------
(***************************************************************************)
(* Properties                                                              *)
(***************************************************************************)

\* Once a freeze is accepted no Turn begins until a resume is accepted: not
\* from a client, not from a Goal's Start already in the channel, not from an
\* input queued behind the Turn, and not after a restart; and while the resume
\* is in progress only the explicit continue begins one.
FreezeHolds ==
    [][turn'.id \notin {0, turn.id} =>
         /\ ~hold
         /\ ctl.status = "resuming" => turn'.source = "session_resume" \/ turn'.id = exec.turn]_vars

\* A frozen Session is quiet, and the Turn a stop interrupted waits, in the
\* journal, for its continue: nothing that happens to the Session while it is
\* stopped or before the continue takes its place.
StopKeepsWork ==
    /\ ctl.status = "frozen" => ~Running
    /\ kept # 0 => /\ exec.turn = kept
                   /\ exec.status \in (IF up THEN {"waiting"} ELSE {"running", "waiting"})

\* The list of Threads the connections read names every Thread the worker owns
\* exactly once, the one a running Turn holds included, and the Session's own
\* Thread is one of them.
ThreadsListed ==
    up => /\ IsInjective(ids)
          /\ ToSet(ids) = DOMAIN threads \cup (IF Running THEN {turn.thread} ELSE {})
          /\ own \in ToSet(ids)

\* A freeze and a resume each come to an end.
ControlSettles ==
    /\ ctl.status = "freezing" ~> ctl.status # "freezing"
    /\ ctl.status = "resuming" ~> ctl.status # "resuming"
=============================================================================
