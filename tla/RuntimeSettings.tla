--------------------------- MODULE RuntimeSettings ---------------------------
(***************************************************************************)
(* The settings of a Thread and where they live.  A thread/settings/update *)
(* is applied by the runtime actor, in this order, to the Session's        *)
(* thread_settings.json and plan_mode.json, the actor's own state, the     *)
(* harness and the approval controller; the JSON-RPC side keeps a mirror   *)
(* of the model choice, which turn/start reads.  world/execution/set       *)
(* changes the access of the approval controller and the world the model   *)
(* is told of.                                                             *)
(*                                                                         *)
(* A file may fail to be written, a process may die between two commands,  *)
(* and plan_mode.json, which is written in place, may be left torn.  One   *)
(* connection serves the clients; its lock is held from the moment a       *)
(* request reads the runtime revision until its reply is written.          *)
(***************************************************************************)
EXTENDS Naturals

CONSTANTS
    Clients,      \* concurrent requests of the connection
    Updates,      \* the settings updates clients send; "same" leaves a field
    MaxRev,       \* bound: runtime revisions of a process
    MaxFailures,    \* bound: failed writes and crashes
    MaxThreads    \* bound: Threads of the Session

ASSUME RuntimeSettingsAssumption ==
    /\ {MaxRev, MaxFailures, MaxThreads} \subseteq Nat
    /\ Updates \subseteq [model : {"same", "default", "other"},
                          mode  : {"same", "manual", "continuous"},
                          plan  : {"same", "on", "off"},
                          tools : {"same", "all", "few"}]

VARIABLES
    up,      \* whether the process runs
    disk,    \* thread_settings.json (tag, mode, model), plan_mode.json (plan,
             \* review) and the Session's current Thread
    store,   \* SessionStore: the mode and model it writes next
    rt,      \* RuntimeActorState: model, mode, tools, world
    guard,   \* ApprovalController: plan flag and access scope
    hz,      \* harness: loop, hidden tools, Plan prompt, world it was told
    mirror,  \* ThreadSettingsService.model_settings
    goal,    \* status of the Goal: "none", "running" or "paused"
    startQueued,  \* whether a Start of the Goal is in the worker's queue
    turn,    \* the Turn that runs: its kind, model and saved harness loop
    rev,     \* the runtime revision
    call,    \* per client, its request
    plan,    \* ghost: Plan mode as the last request that settled it left it
    clean,   \* ghost: no update failed half-way and none outlived its Thread
    spent    \* the failures and crashes so far

live == <<store, rt, guard, hz, mirror, startQueued, turn, rev, call>>
settingsVars == <<up, disk, live, goal, plan, clean, spent>>

NoTurn == [kind |-> "none", model |-> "default", loop |-> "manual"]
NoCall == [pc |-> "idle"]
Startup == "ask"        \* the access the process starts with

CanFail == spent < MaxFailures
CountFailure == spent' = spent + 1

-----------------------------------------------------------------------------
(* The state one command works on, and the steps of set_thread_settings.   *)

Current == [disk |-> disk, store |-> store, rt |-> rt, guard |-> guard, hz |-> hz]

Become(s) ==
    /\ disk' = s.disk
    /\ store' = s.store
    /\ rt' = s.rt
    /\ guard' = s.guard
    /\ hz' = s.hz

\* persist_thread_settings writes the store's mode and model under its Thread.
WriteSettings(s) ==
    [s EXCEPT !.disk = [@ EXCEPT !.tag = s.disk.thread, !.mode = s.store.mode,
                                 !.model = s.store.model]]

\* set_model_settings: the store changes before the file does.
StoreModel(s, u) == [s EXCEPT !.store.model = u.model]

SetModel(s, u) ==
    IF u.model = "same" THEN s
    ELSE [WriteSettings(StoreModel(s, u)) EXCEPT !.rt.model = u.model]

StoreMode(s, u) == [s EXCEPT !.store.mode = u.mode]

\* Mutant: the harness keeps its configuration.
SetModeOnly(s, u) ==
    IF u.mode = "same" THEN s
    ELSE [WriteSettings(StoreMode(s, u)) EXCEPT !.rt.mode = u.mode]

SetMode(s, u) ==
    IF u.mode = "same" THEN s
    ELSE [WriteSettings(StoreMode(s, u)) EXCEPT !.rt.mode = u.mode, !.hz.loop = u.mode]

\* init_plan_mode writes plan_mode.json with no review pending; the approval
\* controller and the prompt follow.
PlanOn(s) ==
    [s EXCEPT !.disk = [@ EXCEPT !.plan = "on", !.review = FALSE],
              !.guard.plan = TRUE, !.hz.overlay = TRUE]

\* disable_plan_mode writes the file even when the scratch cannot be removed.
PlanFileOff(s) ==
    IF s.disk.plan = "absent" THEN s
    ELSE [s EXCEPT !.disk = [@ EXCEPT !.plan = "off", !.review = FALSE]]

PlanOff(s) == [PlanFileOff(s) EXCEPT !.guard.plan = FALSE, !.hz.overlay = FALSE]

SetPlan(s, u) ==
    IF u.plan = "same" THEN s
    ELSE IF u.plan = "on" THEN PlanOn(s) ELSE PlanOff(s)

SetTools(s, u) ==
    IF u.tools = "same" THEN s
    ELSE [s EXCEPT !.rt.tools = u.tools, !.hz.hidden = u.tools]

\* set_thread_settings, when every step succeeds.
Applied(s, u) == SetTools(SetPlan(SetMode(SetModel(s, u), u), u), u)

\* What is left behind when one step fails: the steps before it stay applied,
\* and of the failing one the part before its error.
Failed(s, u) ==
    LET m == SetModel(s, u)
        n == SetMode(m, u)
    IN  (IF u.model = "same" THEN {} ELSE {StoreModel(s, u)})
        \cup (IF u.mode = "same" THEN {} ELSE {StoreMode(m, u)})
        \cup (IF u.plan = "same" THEN {} ELSE {n, [n EXCEPT !.disk.plan = "torn"]})
        \cup (IF u.plan = "off" THEN {PlanFileOff(n)} ELSE {})

\* is_plan_mode_active: a file that cannot be parsed counts as inactive.
PlanActive(s) == s.disk.plan = "on"

\* What a settings reply carries.
View(s) == [plan  |-> PlanActive(s), tools |-> s.rt.tools,
            mode  |-> s.rt.mode,     model |-> s.rt.model]

-----------------------------------------------------------------------------
(* Requests.  The connection lock is free or held by one request.          *)

ConnectionFree == \A c \in Clients : call[c] = NoCall

\* A request gets the connection; request_action reads the revision when it
\* queues the command.
Ask(c, cmd) ==
    /\ up
    /\ call[c] = NoCall
    /\ ConnectionFree
    /\ call' = [call EXCEPT ![c] = [pc |-> "queued", cmd |-> cmd, expected |-> rev]]
    /\ UNCHANGED <<up, disk, store, rt, guard, hz, mirror, startQueued, turn, rev, goal,
                   plan, clean, spent>>

Queued(c) == up /\ call[c].pc = "queued"

Reply(c, body) == call' = [call EXCEPT ![c] = [pc |-> "replied", body |-> body]]

\* check_revision and is_safe_mutation_while_running.
Refused(c) == call[c].expected # rev \/ turn.kind # "none"

Refuse(c) ==
    /\ Queued(c)
    /\ Refused(c)
    /\ call[c].cmd.op \notin {"pause", "clear", "turn"}
    /\ Reply(c, [ok |-> FALSE])
    /\ UNCHANGED <<up, disk, store, rt, guard, hz, mirror, startQueued, turn, rev, goal,
                   plan, clean, spent>>

\* mutate: the revision moves only when the command says that it changed
\* something.
Advance(changed) == IF changed THEN rev < MaxRev /\ rev' = rev + 1 ELSE rev' = rev

\* ThreadSettingsUpdate that succeeds.
UpdateSettings(c, u) ==
    /\ Queued(c)
    /\ call[c].cmd.op = "settings"
    /\ call[c].cmd.to = u
    /\ ~Refused(c)
    /\ ~(u.mode # "same" /\ goal = "running")
    /\ LET s == Applied(Current, u) IN
       /\ Become(s)
       /\ Advance(View(s) # View(Current))
       /\ Reply(c, [ok |-> TRUE, view |-> View(s)])
       /\ plan' = IF u.plan = "same" THEN plan ELSE u.plan
    /\ UNCHANGED <<up, mirror, startQueued, turn, goal, clean, spent>>

\* A step fails: an error reply, no revision and no notification.
UpdateFails(c, u) ==
    /\ Queued(c)
    /\ call[c].cmd.op = "settings"
    /\ call[c].cmd.to = u
    /\ ~Refused(c)
    /\ CanFail
    /\ ~(u.mode # "same" /\ goal = "running")
    /\ \E s \in Failed(Current, u) : Become(s)
    /\ CountFailure
    /\ clean' = FALSE
    /\ plan' = IF u.plan = "off" THEN "off" ELSE plan
    /\ Reply(c, [ok |-> FALSE])
    /\ UNCHANGED <<up, mirror, startQueued, turn, rev, goal>>

\* GoalOwnsContinuationMode: nothing has been changed yet.
UpdateOwned(c, u) ==
    /\ Queued(c)
    /\ call[c].cmd.op = "settings"
    /\ call[c].cmd.to = u
    /\ ~Refused(c)
    /\ u.mode # "same"
    /\ goal = "running"
    /\ Reply(c, [ok |-> FALSE])
    /\ UNCHANGED <<up, disk, store, rt, guard, hz, mirror, startQueued, turn, rev, goal,
                   plan, clean, spent>>

\* SetExecution: the approval controller first, then update_world, which does
\* nothing when the world is the one it knows and else tells the model,
\* persists that and takes the new world.
SetExecution(c, access) ==
    /\ Queued(c)
    /\ call[c].cmd.op = "access"
    /\ call[c].cmd.to = access
    /\ ~Refused(c)
    /\ guard' = [guard EXCEPT !.access = access]
    /\ rt' = [rt EXCEPT !.world = access]
    /\ hz' = IF access = rt.world THEN hz ELSE [hz EXCEPT !.told = access]
    /\ Advance(access # rt.world)
    /\ Reply(c, [ok |-> TRUE])
    /\ UNCHANGED <<up, disk, store, mirror, startQueued, turn, goal, plan, clean,
                   spent>>

\* The context cannot be persisted.  The rollback restores the messages, but
\* restore_session appends the pending injections again: the model stays told.
SetExecutionFails(c, access) ==
    /\ Queued(c)
    /\ call[c].cmd.op = "access"
    /\ call[c].cmd.to = access
    /\ ~Refused(c)
    /\ CanFail
    /\ access \notin {rt.world, hz.told}
    /\ guard' = [guard EXCEPT !.access = access]
    /\ hz' = [hz EXCEPT !.told = access]
    /\ CountFailure
    /\ clean' = FALSE
    /\ Reply(c, [ok |-> FALSE])
    /\ UNCHANGED <<up, disk, store, rt, mirror, startQueued, turn, rev, goal, plan>>

\* StartNewThread: the store forgets the settings of the old Thread and the
\* sidecar keeps the old tag; the actor, the harness and the mirror keep them.
StartNewThread(c) ==
    /\ Queued(c)
    /\ call[c].cmd.op = "new"
    /\ ~Refused(c)
    /\ disk.thread < MaxThreads
    /\ disk' = [disk EXCEPT !.thread = @ + 1]
    /\ store' = [mode |-> "manual", model |-> "default"]
    /\ clean' = (clean /\ rt.mode = "manual" /\ rt.model = "default")
    /\ Advance(TRUE)
    /\ Reply(c, [ok |-> TRUE])
    /\ UNCHANGED <<up, rt, guard, hz, mirror, startQueued, turn, goal, plan, spent>>

\* thread/goal/set: a running Goal queues its first Turn.
SetGoal(c) ==
    /\ Queued(c)
    /\ call[c].cmd.op = "goal"
    /\ ~Refused(c)
    /\ goal' = "running"
    /\ startQueued' = (startQueued \/ goal # "running")
    /\ Advance(goal # "running")
    /\ Reply(c, [ok |-> TRUE])
    /\ UNCHANGED <<up, disk, store, rt, guard, hz, mirror, turn, plan, clean,
                   spent>>

\* Pausing a Goal is safe while a Turn runs.
PauseGoal(c) ==
    /\ Queued(c)
    /\ call[c].cmd.op = "pause"
    /\ IF call[c].expected # rev
       THEN Reply(c, [ok |-> FALSE]) /\ UNCHANGED <<goal, rev>>
       ELSE /\ goal' = IF goal = "running" THEN "paused" ELSE goal
            /\ Advance(goal = "running")
            /\ Reply(c, [ok |-> TRUE])
    /\ UNCHANGED <<up, disk, store, rt, guard, hz, mirror, startQueued, turn, plan,
                   clean, spent>>

\* restore_thread_continuation: with a Goal that does not run, the mode is set
\* again, and Plan mode to what the file says.
Again(s) == [model |-> "same", mode |-> "continuous", tools |-> "same",
             plan |-> IF PlanActive(s) THEN "on" ELSE "off"]

RestoreContinuation(s, status) ==
    IF s.rt.mode # "continuous" \/ status = "running"
    THEN Become(s) /\ UNCHANGED <<plan, clean, spent>>
    ELSE /\ plan' = IF s.disk.plan = "torn" /\ plan = "on" THEN "lost" ELSE plan
         /\ \/ Become(Applied(s, Again(s))) /\ UNCHANGED <<clean, spent>>
            \/ /\ CanFail
               /\ \E t \in Failed(s, Again(s)) : Become(t)
               /\ CountFailure
               /\ clean' = FALSE

\* thread/goal/clear; an idle worker restores the continuation after it.
ClearGoal(c) ==
    /\ Queued(c)
    /\ call[c].cmd.op = "clear"
    /\ IF call[c].expected # rev
       THEN /\ Reply(c, [ok |-> FALSE])
            /\ UNCHANGED <<goal, rev>>
       ELSE /\ goal' = "none"
            /\ Advance(goal # "none")
            /\ Reply(c, [ok |-> TRUE])
    /\ IF turn.kind = "none" THEN RestoreContinuation(Current, goal')
       ELSE UNCHANGED <<disk, store, rt, guard, hz, plan, clean, spent>>
    /\ UNCHANGED <<up, mirror, startQueued, turn>>

\* update_action takes the model of the reply into the mirror; the connection
\* writes the reply and takes the next request.
Return(c) ==
    /\ up
    /\ call[c].pc = "replied"
    /\ call' = [call EXCEPT ![c] = NoCall]
    /\ LET body == call[c].body IN
       mirror' = IF "view" \in DOMAIN body THEN body.view.model ELSE mirror
    /\ UNCHANGED <<up, disk, store, rt, guard, hz, startQueued, turn, rev, goal, plan,
                   clean, spent>>

-----------------------------------------------------------------------------
(* Turns. *)

\* set_plan_review_pending rewrites plan_mode.json when it can be parsed.
Review(s, pending) ==
    IF PlanActive(s) THEN [s EXCEPT !.disk.review = pending] ELSE s

\* handle_turn_start gives the Turn the mirrored model.  A Turn starts with the
\* review of the plan cleared.
StartTurn(c) ==
    /\ Queued(c)
    /\ call[c].cmd.op = "turn"
    /\ Reply(c, [ok |-> turn.kind = "none"])
    /\ IF turn.kind # "none" THEN UNCHANGED <<disk, turn>>
       ELSE /\ disk' = Review(Current, FALSE).disk
            /\ turn' = [kind |-> "client", model |-> mirror, loop |-> hz.loop]
    /\ UNCHANGED <<up, store, rt, guard, hz, mirror, startQueued, rev, goal, plan,
                   clean, spent>>

\* The startQueued Start of a Goal.  Its Turn runs in the Goal's loop and carries no
\* model selection.  A Goal that was stopped meanwhile gets none.
StartGoalTurn ==
    /\ up
    /\ startQueued
    /\ turn.kind = "none"
    /\ startQueued' = FALSE
    /\ IF goal = "running"
       THEN /\ disk' = Review(Current, FALSE).disk
            /\ turn' = [kind |-> "goal", model |-> "default", loop |-> hz.loop]
            /\ hz' = [hz EXCEPT !.loop = "continuous"]
            /\ UNCHANGED <<store, rt, guard, plan, clean, spent>>
       ELSE /\ RestoreContinuation([Current EXCEPT !.disk = Review(Current, FALSE).disk], goal)
            /\ UNCHANGED turn
    /\ UNCHANGED <<up, mirror, rev, call, goal>>

\* A gate before the Turn refuses the Goal's Start: the restore after a Goal
\* Turn is not reached.
RefuseGoalTurn ==
    /\ up
    /\ startQueued
    /\ startQueued' = FALSE
    /\ clean' = (clean /\ hz.loop = rt.mode)
    /\ UNCHANGED <<up, disk, store, rt, guard, hz, mirror, turn, rev, call, goal, plan, spent>>

\* replace_config(original_config).
OriginalConfig == [hz EXCEPT !.loop = turn.loop]

\* A Turn settles.  A completed one leaves the plan to be reviewed; after the
\* Turn of a Goal, which may end the Goal or queue its next Turn, the
\* continuation is restored.
TurnEnds(completed, status) ==
    /\ up
    /\ turn.kind # "none"
    /\ status \in (IF turn.kind = "goal" /\ goal = "running" THEN {"running", "none"} ELSE {goal})
    /\ goal' = status
    /\ startQueued' = (startQueued \/ (turn.kind = "goal" /\ status = "running"))
    /\ turn' = NoTurn
    /\ Advance(TRUE)
    /\ LET s == Review([Current EXCEPT !.hz = OriginalConfig], completed) IN
       IF turn.kind = "goal" THEN RestoreContinuation(s, status)
       ELSE Become(s) /\ UNCHANGED <<plan, clean, spent>>
    /\ UNCHANGED <<up, mirror, call>>

-----------------------------------------------------------------------------
(* The process. *)

\* A crash may tear plan_mode.json, which a Turn and an update write in place.
ProcessCrash(torn) ==
    /\ up
    /\ CanFail
    /\ torn => disk.plan # "absent"
    /\ up' = FALSE
    /\ disk' = IF torn THEN [disk EXCEPT !.plan = "torn"] ELSE disk
    /\ CountFailure
    /\ UNCHANGED <<live, goal, plan, clean>>

\* load_thread_settings: the sidecar of another Thread is not used.
Loaded == IF disk.tag = disk.thread THEN [mode |-> disk.mode, model |-> disk.model]
          ELSE [mode |-> "manual", model |-> "default"]

\* bind_thread_services and the composition before it.
Bind ==
    [disk  |-> disk, store |-> Loaded,
     rt    |-> [model |-> Loaded.model, mode |-> Loaded.mode, tools |-> "all", world |-> Startup],
     guard |-> [plan |-> disk.plan = "on", access |-> Startup],
     hz    |-> [loop |-> "manual", hidden |-> "all", overlay |-> FALSE, told |-> Startup]]

\* InstallRuntime: Plan mode, the Goal, the continuation.
InstallRuntime ==
    /\ ~up
    /\ up' = TRUE
    /\ RestoreContinuation(IF PlanActive(Bind) THEN PlanOn(Bind) ELSE Bind, goal)
    /\ mirror' = Loaded.model
    /\ startQueued' = (goal = "running")
    /\ turn' = NoTurn
    /\ rev' = 0
    /\ call' = [c \in Clients |-> NoCall]
    /\ UNCHANGED goal

-----------------------------------------------------------------------------
SettingsInit ==
    /\ up = TRUE
    /\ disk = [thread |-> 1, tag |-> 0, mode |-> "manual", model |-> "default",
               plan |-> "absent", review |-> FALSE]
    /\ store = [mode |-> "manual", model |-> "default"]
    /\ rt = [model |-> "default", mode |-> "manual", tools |-> "all", world |-> Startup]
    /\ guard = [plan |-> FALSE, access |-> Startup]
    /\ hz = [loop |-> "manual", hidden |-> "all", overlay |-> FALSE, told |-> Startup]
    /\ mirror = "default"
    /\ goal = "none"
    /\ startQueued = FALSE
    /\ turn = NoTurn
    /\ rev = 0
    /\ call = [c \in Clients |-> NoCall]
    /\ plan = "off"
    /\ clean = TRUE
    /\ spent = 0

Commands == [op : {"settings"}, to : Updates] \cup [op : {"access"}, to : {"ask", "full"}]
            \cup [op : {"new", "goal", "pause", "clear", "turn"}]

SettingsNext ==
    \/ \E c \in Clients :
          \/ \E cmd \in Commands : Ask(c, cmd)
          \/ Refuse(c)
          \/ \E u \in Updates : UpdateSettings(c, u) \/ UpdateFails(c, u) \/ UpdateOwned(c, u)
          \/ \E access \in {"ask", "full"} : SetExecution(c, access) \/ SetExecutionFails(c, access)
          \/ StartNewThread(c) \/ SetGoal(c) \/ PauseGoal(c) \/ ClearGoal(c) \/ StartTurn(c)
          \/ Return(c)
    \/ StartGoalTurn
    \/ RefuseGoalTurn
    \/ \E completed \in BOOLEAN, status \in {"none", "running", "paused"} :
          TurnEnds(completed, status)
    \/ \E torn \in BOOLEAN : ProcessCrash(torn)
    \/ InstallRuntime

SettingsSpec == SettingsInit /\ [][SettingsNext]_settingsVars

-----------------------------------------------------------------------------
(* Properties. *)

Settled == up /\ ConnectionFree /\ turn.kind = "none" /\ ~startQueued /\ goal # "running" /\ clean

\* Between two requests, with no Turn and no update that failed half-way, every
\* place that holds a setting agrees: what the Session would reload, the runtime
\* actor, the harness, the approval controller, the world the model was told of
\* and the model turn/start will use (set_thread_settings, update_action,
\* SetExecution, bind_thread_services).
SettingsAgree ==
    Settled =>
        /\ Loaded = store
        /\ store = [mode |-> rt.mode, model |-> rt.model]
        /\ mirror = rt.model
        /\ hz.loop = rt.mode
        /\ hz.hidden = rt.tools
        /\ guard.plan = PlanActive(Current)
        /\ hz.overlay = PlanActive(Current)
        /\ rt.world = guard.access
        /\ hz.told = guard.access

\* Mutant: a file that cannot be parsed locks nothing.
AdmitsTorn == disk.plan # "on"

\* Admission of a tool call that Plan mode locks: enforce_plan_selection reads
\* plan_mode.json, and a file it cannot parse locks too.
Admits == disk.plan \in {"absent", "off"}

\* Once an update that turned Plan mode on was acknowledged, no formal mutation
\* is admitted until an update turns it off, through failed updates, crashes and
\* torn files (enforce_plan_selection, init_plan_mode, disable_plan_mode).
PlanHolds == plan = "on" => ~Admits

\* A plan that waits for its review keeps waiting until a Plan Turn starts or an
\* update settles Plan mode (set_plan_review_pending), a restart included.
ReviewKept ==
    [][disk.review /\ turn.kind = "none" /\ disk'.plan # "torn"
        => \/ disk'.review
           \/ turn'.kind # "none"
           \/ \E c \in Clients : call[c].pc = "queued" /\ call'[c].pc = "replied"]_settingsVars

=============================================================================
