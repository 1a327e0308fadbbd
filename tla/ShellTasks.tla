----------------------------- MODULE ShellTasks -----------------------------
(* The processes of a runtime: the foreground command of the shell tool, the
   background shell tasks, and the delay markers of scheduled_task
   (mini-agent-capabilities: workspace/shell.rs, background_shell.rs,
   scheduled_task.rs, and the runtime commands that control them).

   A command may leave descendants behind.  Those of its process group die when
   the group is killed; both the tool and the log readers read a pipe until its
   last holder is gone.  A background task is watched by a monitor thread of its
   own, while the Turn and the Runtime panel start, stop and restart tasks.

   Data: output is the sequence of the chunks a process wrote, numbered in
   order; time is left out, so a command may pass its deadline whenever it is
   still running and a marker may fall due at any moment. *)
EXTENDS Integers, Sequences, FiniteSets, FiniteSetsExt

CONSTANTS TaskIds,     \* names of background tasks and of markers
          MaxLog,      \* MAX_LOG_BYTES, in chunks
          Capture,     \* MAX_COMMAND_CAPTURE_BYTES, in chunks
          Inline       \* INLINE_COMMAND_OUTPUT_BYTES, in chunks

ASSUME ShellBounds == {MaxLog, Capture, Inline} \subseteq Nat

VARIABLES fg,       \* the foreground command
          cancel,   \* the Turn's cancellation token
          tasks,    \* TaskIds -> handle, 0 for none (ManagerState.tasks)
          handles,  \* the TaskHandles so far
          pending,  \* the handle spawn_task is about to mark running, 0 for none
          owner,    \* owner_thread_id the managers are bound to
          thread,   \* the Session's active Thread
          closed,   \* that Thread has been closed
          markers,  \* TaskIds -> marker (ScheduledTaskManager.tasks)
          room      \* bound: commands, background processes, markers, Threads
                    \* and faults to come, chunks each process may write

shellVars == <<fg, cancel, tasks, handles, pending, owner, thread, closed,
               markers, room>>

Handles == DOMAIN handles

Use(what) == room[what] > 0 /\ room' = [room EXCEPT ![what] = @ - 1]

Fault == Use("faults")

KeepCommand == UNCHANGED <<fg, cancel>>

KeepRuntime == UNCHANGED <<owner, thread, closed>>

KeepTasks == KeepRuntime /\ UNCHANGED <<tasks, handles, pending, markers>>

(* Only the handles change. *)
HandlesOnly == KeepCommand /\ KeepRuntime /\ UNCHANGED <<tasks, pending, markers, room>>

(* --------------------------- foreground command --------------------------- *)

(* alive: the command itself (the docker client, in a docker sandbox); kids:
   descendants in its process group; stray: a descendant that left the group;
   box: the docker container. *)
NoCommand == [st |-> "idle", sandbox |-> "native", kind |-> "write",
              alive |-> FALSE, kids |-> FALSE, stray |-> FALSE, box |-> FALSE,
              out |-> 0, how |-> "none", text |-> "none"]

Running == fg.st \in {"asking", "admitted", "running", "joining"}

(* Whoever holds the write end of the output pipe. *)
PipeHeld == fg.alive \/ fg.kids \/ fg.stray

(* capture_bounded: the first half of the room for the head, the rest for the
   tail. *)
CaptureBounded(n, max) ==
    LET head == (max + 1) \div 2
        tail == max - head
    IN  [kept |-> {i \in 1..n : i <= head \/ i > n - tail},
         truncated |-> n > max]

(* admission: a bounded read-only command runs unasked under the automatic and
   the trusted policy. *)
ShellAdmission(kind, policy) ==
    /\ ~Running /\ ~closed
    /\ Use("commands")
    /\ cancel' = FALSE
    /\ \E sandbox \in {"native", "docker"} :
        fg' = [NoCommand EXCEPT !.sandbox = sandbox, !.kind = kind,
                 !.st = IF kind = "read" /\ policy \in {"automatic", "trusted"}
                        THEN "admitted" ELSE "asking"]
    /\ KeepTasks

ShellAnswer ==
    /\ fg.st = "asking"
    /\ \/ fg' = [fg EXCEPT !.st = "admitted"]
       \/ fg' = [fg EXCEPT !.st = "done", !.how = "denied"]
    /\ KeepTasks /\ UNCHANGED <<cancel, room>>

Spawned == [fg EXCEPT !.st = "running", !.alive = TRUE,
                      !.box = (fg.sandbox = "docker")]

(* run_shell_with_cancel up to the spawn; docker must be available. *)
RunShell ==
    /\ fg.st = "admitted"
    /\ \/ fg' = Spawned /\ UNCHANGED room
       \/ Fault /\ fg' = [fg EXCEPT !.st = "done", !.how = "spawnFailed"]
    /\ KeepTasks /\ UNCHANGED cancel

(* The command and its descendants: external programs. *)
CommandWrites ==
    /\ PipeHeld /\ fg.out < room.out
    /\ fg' = [fg EXCEPT !.out = @ + 1]
    /\ KeepTasks /\ UNCHANGED <<cancel, room>>

CommandForks ==
    /\ fg.alive /\ fg.sandbox = "native" /\ ~fg.kids /\ ~fg.stray
    /\ fg' \in {[fg EXCEPT !.kids = TRUE], [fg EXCEPT !.stray = TRUE]}
    /\ KeepTasks /\ UNCHANGED <<cancel, room>>

(* The docker client ends when its container does. *)
CommandExits ==
    /\ fg.alive
    /\ fg' = [fg EXCEPT !.alive = FALSE, !.box = FALSE]
    /\ KeepTasks /\ UNCHANGED <<cancel, room>>

DescendantExits ==
    /\ fg.kids \/ fg.stray
    /\ fg' = [fg EXCEPT !.kids = FALSE, !.stray = FALSE]
    /\ KeepTasks /\ UNCHANGED <<cancel, room>>

Interrupt ==
    /\ ~cancel /\ Running
    /\ cancel' = TRUE
    /\ KeepTasks /\ UNCHANGED <<fg, room>>

(* The poll loop of run_sandboxed_command: exit first, then the token, then the
   deadline. *)
PollExit ==
    /\ fg.st = "running" /\ ~fg.alive
    /\ fg' = [fg EXCEPT !.st = "joining", !.how = "exit"]
    /\ KeepTasks /\ UNCHANGED <<cancel, room>>

(* terminate_sandboxed_command kills the process group, which a stray left, and
   then the container; docker may not confirm that. *)
Terminated(how) ==
    \/ /\ fg' = [fg EXCEPT !.st = "joining", !.how = how, !.alive = FALSE,
                           !.kids = FALSE, !.box = FALSE]
       /\ UNCHANGED room
    \/ /\ fg.box /\ Fault
       /\ fg' = [fg EXCEPT !.st = "done", !.how = "unconfirmed", !.alive = FALSE,
                           !.kids = FALSE]

PollCancelled ==
    /\ fg.st = "running" /\ fg.alive /\ cancel
    /\ Terminated("cancelled")
    /\ KeepTasks /\ UNCHANGED cancel

(* The deadline is looked at only once the token is set. *)
TimeoutOnlyWhenCancelled ==
    /\ fg.st = "running" /\ fg.alive /\ cancel
    /\ Terminated("timedOut")
    /\ KeepTasks /\ UNCHANGED cancel

PollTimeout ==
    /\ fg.st = "running" /\ fg.alive /\ ~cancel
    /\ Terminated("timedOut")
    /\ KeepTasks /\ UNCHANGED cancel

(* The readers are joined, which waits for the last holder of the pipe; then
   render_command_output keeps a long text in the result store, or only a
   preview when that fails. *)
JoinReaders ==
    /\ fg.st = "joining" /\ ~PipeHeld
    /\ LET kept == Cardinality(CaptureBounded(fg.out, Capture).kept)
       IN  \/ /\ fg' = [fg EXCEPT !.st = "done",
                          !.text = IF kept <= Inline THEN "inline" ELSE "stored"]
              /\ UNCHANGED room
           \/ /\ kept > Inline /\ Fault
              /\ fg' = [fg EXCEPT !.st = "done", !.text = "preview"]
    /\ KeepTasks /\ UNCHANGED cancel

(* ---------------------------- background tasks ---------------------------- *)

(* state, stopped: the record clients read; alive, ok: the process; child: the
   handle still holds it; mon: the monitor thread; wrote, read, log, cut: the
   output, the reader's position and the BoundedLog; overtaken: ghost, the
   monitor had recorded the end before spawn_task wrote "running". *)
NewHandle(o) ==
    [owner |-> o, state |-> "starting", stopped |-> FALSE, alive |-> TRUE,
     ok |-> FALSE, child |-> TRUE, stopReq |-> FALSE, mon |-> "poll",
     wrote |-> 0, read |-> 0, log |-> {}, cut |-> FALSE, overtaken |-> FALSE,
     id |-> CHOOSE t \in TaskIds : TRUE]

EnsureOwner(caller) == owner = caller

ManagerFree == pending = 0

(* spawn_task, up to the monitor thread, under the manager's lock. *)
Spawn == /\ Use("processes")
         /\ pending' = Len(handles) + 1

Start(caller, t) ==
    /\ ~closed
    /\ ManagerFree /\ EnsureOwner(caller)
    /\ tasks[t] = 0
    /\ Spawn
    /\ handles' = Append(handles, [NewHandle(owner) EXCEPT !.id = t])
    /\ KeepCommand /\ KeepRuntime /\ UNCHANGED <<tasks, markers>>

(* spawn_task's last step, and the insertion into the map. *)
MarkRunning ==
    /\ pending # 0
    /\ handles' = [handles EXCEPT ![pending].state = "running",
                     ![pending].overtaken = (handles[pending].mon = "done")]
    /\ tasks' = [tasks EXCEPT ![handles[pending].id] = pending]
    /\ pending' = 0
    /\ KeepCommand /\ KeepRuntime /\ UNCHANGED <<markers, room>>

(* TaskHandle::stop: the whole group is killed if it still runs; the record says
   stopped whatever it said before. *)
Stopped(h) == [h EXCEPT !.stopReq = TRUE, !.alive = FALSE, !.child = FALSE,
                        !.state = "stopped", !.stopped = TRUE]

(* A stop whose kill or wait fails changes nothing but the request. *)
StopFailed(h) == [h EXCEPT !.stopReq = TRUE]

Stop(caller, t) ==
    /\ ManagerFree /\ EnsureOwner(caller)
    /\ tasks[t] # 0
    /\ \/ /\ handles' = [handles EXCEPT ![tasks[t]] = Stopped(@)]
          /\ UNCHANGED room
       \/ /\ handles[tasks[t]].alive /\ Fault
          /\ handles' = [handles EXCEPT ![tasks[t]] = StopFailed(@)]
    /\ KeepCommand /\ KeepRuntime /\ UNCHANGED <<tasks, pending, markers>>

(* The old process is left running. *)
RestartBeside(caller, t) ==
    /\ ManagerFree /\ EnsureOwner(caller)
    /\ tasks[t] # 0
    /\ tasks' = [tasks EXCEPT ![t] = 0]
    /\ Spawn
    /\ handles' = Append(handles, [NewHandle(owner) EXCEPT !.id = t])
    /\ KeepCommand /\ KeepRuntime /\ UNCHANGED markers

(* restart takes the task out of the map first: when its stop or the new spawn
   fails, the task is gone. *)
Restart(caller, t) ==
    /\ ManagerFree /\ EnsureOwner(caller)
    /\ tasks[t] # 0
    /\ tasks' = [tasks EXCEPT ![t] = 0]
    /\ \/ /\ Spawn
          /\ handles' = Append([handles EXCEPT ![tasks[t]] = Stopped(@)],
                               [NewHandle(owner) EXCEPT !.id = t])
       \/ /\ Fault
          /\ handles' \in {[handles EXCEPT ![tasks[t]] = Stopped(@)]}
                \cup IF handles[tasks[t]].alive
                     THEN {[handles EXCEPT ![tasks[t]] = StopFailed(@)]} ELSE {}
          /\ UNCHANGED pending
    /\ KeepCommand /\ KeepRuntime /\ UNCHANGED markers

(* The process of a task: an external program. *)
TaskWrites(h) ==
    /\ handles[h].alive /\ handles[h].wrote < room.out
    /\ handles' = [handles EXCEPT ![h].wrote = @ + 1]
    /\ HandlesOnly

TaskExits(h, ok) ==
    /\ handles[h].alive
    /\ handles' = [handles EXCEPT ![h].alive = FALSE, ![h].ok = ok]
    /\ HandlesOnly

(* BoundedLog::append: the log keeps the last MaxLog chunks it was given. *)
ReadLog(h) ==
    LET n == handles[h].wrote
        log == handles[h].log \cup (handles[h].read + 1)..n
    IN  /\ handles[h].read < n
        /\ handles' = [handles EXCEPT ![h].read = n,
                         ![h].log = {i \in log : i > n - MaxLog},
                         ![h].cut = @ \/ Cardinality(log) > MaxLog]
        /\ HandlesOnly

(* monitor_process notices the end of the process, or that the handle has given
   the process up. *)
MonitorPoll(h) ==
    /\ handles[h].mon = "poll"
    /\ \/ ~handles[h].child /\ handles' = [handles EXCEPT ![h].mon = "done"]
       \/ /\ handles[h].child /\ ~handles[h].alive
          /\ handles' = [handles EXCEPT ![h].mon = "seen"]
    /\ HandlesOnly

MonitorRecord(h) ==
    /\ handles[h].mon = "seen"
    /\ handles' = [handles EXCEPT ![h].mon = "done", ![h].child = FALSE,
                     ![h].stopped = TRUE,
                     ![h].state = IF handles[h].stopReq \/ handles[h].ok
                                  THEN "stopped" ELSE "failed"]
    /\ HandlesOnly

(* ----------------------------- delay markers ------------------------------ *)

NoMarker == [state |-> "none", due |-> FALSE]

(* refresh_due runs first in every operation on the markers. *)
RefreshDue(m) == [t \in TaskIds |-> IF m[t].state = "scheduled" /\ m[t].due
                                    THEN [m[t] EXCEPT !.state = "ready"] ELSE m[t]]

MarkerStep(caller, m) ==
    /\ EnsureOwner(caller)
    /\ markers' = m
    /\ KeepCommand /\ KeepRuntime /\ UNCHANGED <<tasks, handles, pending>>

(* create_delay: an existing marker is returned unchanged. *)
CreateDelay(caller, t) ==
    /\ ~closed
    /\ Use("markers")
    /\ LET now == RefreshDue(markers)
       IN  MarkerStep(caller,
                      IF now[t].state # "none" THEN now
                      ELSE [now EXCEPT ![t].state = "scheduled"])

ReadMarkers(caller) ==
    /\ RefreshDue(markers) # markers
    /\ MarkerStep(caller, RefreshDue(markers))
    /\ UNCHANGED room

CancelMarker(caller, t) ==
    LET now == RefreshDue(markers)
    IN  /\ now[t].state = "scheduled"
        /\ MarkerStep(caller, [now EXCEPT ![t].state = "cancelled"])
        /\ UNCHANGED room

FallsDue(t) ==
    /\ markers[t].state = "scheduled" /\ ~markers[t].due
    /\ markers' = [markers EXCEPT ![t].due = TRUE]
    /\ KeepCommand /\ KeepRuntime /\ UNCHANGED <<tasks, handles, pending, room>>

(* ------------------------------ the runtime ------------------------------- *)

Listed == {tasks[t] : t \in TaskIds} \ {0}

CloseAll(stopped) ==
    handles' = [h \in Handles |-> IF h \in stopped THEN Stopped(handles[h])
                                  ELSE handles[h]]

(* close_all stops the tasks one by one and gives up at the first that fails,
   before it clears the map. *)
CloseAllFails ==
    \E failed \in {h \in Listed : handles[h].alive} :
        \E before \in SUBSET (Listed \ {failed}) :
            handles' = [h \in Handles |-> IF h \in before THEN Stopped(handles[h])
                                          ELSE IF h = failed
                                          THEN StopFailed(handles[h])
                                          ELSE handles[h]]

Closed == /\ CloseAll(Listed)
          /\ tasks' = [t \in TaskIds |-> 0]
          /\ markers' = [t \in TaskIds |-> NoMarker]

(* These commands run when no Turn does, hence between two tool calls. *)
BetweenCalls == ManagerFree /\ ~Running /\ ~closed

(* start_new_thread: the tasks end, then the Session starts a Thread and the
   managers follow it; if the Session refuses, only the first part happened. *)
StartNewThread ==
    /\ BetweenCalls
    /\ \/ /\ Closed
          /\ Use("threads")
          /\ thread' = thread + 1 /\ owner' = thread + 1
       \/ Closed /\ Fault /\ UNCHANGED <<thread, owner>>
       \/ CloseAllFails /\ Fault /\ UNCHANGED <<tasks, markers, thread, owner>>
    /\ UNCHANGED <<fg, cancel, pending, closed>>

(* Command::CloseThread: the Thread is closed even when a task cannot be
   stopped. *)
CloseThread ==
    /\ BetweenCalls
    /\ closed' = TRUE
    /\ \/ Closed /\ UNCHANGED room
       \/ CloseAllFails /\ Fault /\ UNCHANGED <<tasks, markers>>
    /\ UNCHANGED <<fg, cancel, pending, owner, thread>>

ShellInit(bounds) ==
    /\ fg = NoCommand
    /\ cancel = FALSE
    /\ tasks = [t \in TaskIds |-> 0]
    /\ handles = << >>
    /\ pending = 0
    /\ owner = 1 /\ thread = 1 /\ closed = FALSE
    /\ markers = [t \in TaskIds |-> NoMarker]
    /\ room = bounds
(* ------------------------------- properties ------------------------------- *)

(* No process of the runtime is out of its reach: a live background process is
   one the manager lists, or is about to, so that stop, restart and close_all
   still find it, or one whose failed stop was reported; and when a foreground
   call has ended nothing of it runs on, except a container the call reported it
   could not confirm stopped (close_all, restart, run_sandboxed_command). *)
NoStrayProcess ==
    /\ \A h \in Handles :
        handles[h].alive =>
            \/ h \in Listed \cup {pending} /\ handles[h].owner = owner
            \/ handles[h].stopReq
    /\ fg.st = "done" => ~PipeHeld /\ (fg.box => fg.how = "unconfirmed")

(* What clients are shown is true: a task recorded as stopped or failed does not
   run; one that ended on its own is recorded as such, except when the monitor
   was faster than spawn_task's "running"; the log is exactly the tail of what
   was read; a stop that was asked for is never shown as a failure
   (monitor_process, TaskHandle::stop, BoundedLog). *)
RecordsTruthful ==
    \A h \in Handles :
        LET r == handles[h]
        IN  /\ r.state \in {"stopped", "failed"} => ~r.alive
            /\ r.mon = "done" => r.stopped /\ (r.state = "running" => r.overtaken)
            /\ r.state = "failed" => ~r.ok /\ ~r.stopReq
            /\ r.log = {i \in 1..r.read : i > r.read - MaxLog}
            /\ r.cut <=> r.read > MaxLog

(* Clients can trust what is shown of processes: what is listed as over is
   over, and what runs is listed, however stop, restart, close_all and the
   monitor interleave (TaskHandle, monitor_process). *)
TasksTruthful == NoStrayProcess /\ RecordsTruthful

(* A foreground command comes to an end and an ended background process is
   recorded (run_sandboxed_command, monitor_process). *)
CommandsEnd ==
    /\ fg.st = "running" ~> fg.st = "done"
    /\ []<>(\A h \in Handles : handles[h].alive \/ handles[h].stopped)
=============================================================================
