--------------------------- MODULE WorkspaceTools ---------------------------
(* The tools of a Turn together: one tool call at a time (the batch executor
   runs the calls of a batch in order), while the processes that shell calls and
   background tasks started go on working in the same workspace, the Runtime
   panel controls the background tasks, and MCP servers run beside them. *)
EXTENDS WorkspaceFiles, ShellTasks, McpServers

CONSTANT Scenarios   \* [access, files, shells, mcp]: where a run starts, its bounds

ASSUME ScenariosAssumption == \A s \in Scenarios : s.mcp.entries \in Seq(ServerEntries)

vars == <<fileVars, shellVars, mcpVars>>

(* The tools exist and no MCP call is in flight. *)
McpIdle == load.st = "none" /\ ~McpBusy

Threads == 1..thread

(* A program that may still write in the workspace. *)
ProcessAlive == \/ PipeHeld \/ fg.box
                \/ \E h \in Handles : handles[h].alive

FileCall == /\ ~Running /\ ~closed /\ McpIdle
            /\ FileToolStep
            /\ UNCHANGED <<shellVars, mcpVars>>

OthersWrite == ProcessAlive /\ ForeignStep /\ UNCHANGED <<shellVars, mcpVars>>

RuntimeRefresh ==
    /\ load.st = "none"
    /\ UNCHANGED <<shellVars, mcpVars>>
    /\ \/ \E enabled \in SUBSET {p \in Paths : Zone[p] = "skill"} :
            RefreshSkills(enabled)
       \/ NextTurn

(* The shell and scheduled_task calls of the Turn. *)
ShellCall ==
    /\ ~Busy /\ McpIdle
    /\ UNCHANGED <<fileVars, mcpVars>>
    /\ \/ \E kind \in {"read", "write"} : ShellAdmission(kind, access.policy)
       \/ ShellAnswer \/ RunShell
       \/ \E t \in TaskIds : ~Running /\ Start(thread, t)
       \/ \E t \in TaskIds : ~Running /\ CreateDelay(thread, t)

ShellPoll ==
    /\ UNCHANGED <<fileVars, mcpVars>>
    /\ PollExit \/ PollCancelled \/ PollTimeout \/ JoinReaders

(* The panel, and the same operations called as tools. *)
TaskControl ==
    /\ UNCHANGED <<fileVars, mcpVars>>
    /\ \/ \E t \in TaskIds, c \in Threads :
            Stop(c, t) \/ Restart(c, t) \/ CancelMarker(c, t)
       \/ \E c \in Threads : ReadMarkers(c)
       \/ Interrupt

Programs ==
    /\ UNCHANGED <<fileVars, mcpVars>>
    /\ \/ CommandWrites \/ CommandForks \/ CommandExits
       \/ \E h \in Handles : TaskWrites(h)
       \/ \E h \in Handles, ok \in BOOLEAN : TaskExits(h, ok)
       \/ \E t \in TaskIds : FallsDue(t)

Descendants == UNCHANGED <<fileVars, mcpVars>> /\ DescendantExits

Monitors ==
    /\ UNCHANGED <<fileVars, mcpVars>>
    /\ \/ MarkRunning
       \/ \E h \in Handles : MonitorPoll(h) \/ MonitorRecord(h)

LogReaders == UNCHANGED <<fileVars, mcpVars>> /\ \E h \in Handles : ReadLog(h)

RuntimeEnds == /\ ~Busy /\ McpIdle
               /\ UNCHANGED <<fileVars, mcpVars>>
               /\ StartNewThread \/ CloseThread

(* The startup and mcp/retry, both between Turns. *)
McpLoad == /\ UNCHANGED <<fileVars, shellVars>>
           /\ \/ Loader
              \/ ~Busy /\ ~Running /\ ~closed /\ ~McpBusy /\ RetryMcp

McpCall ==
    /\ ~Busy /\ ~Running /\ ~closed
    /\ UNCHANGED <<fileVars, shellVars>>
    /\ \/ \E t \in Range(mcpTools) : McpAdmission(t.exposed, access.locked)
       \/ \E yes \in BOOLEAN : McpAnswer(yes)

McpWait == UNCHANGED <<fileVars, shellVars>> /\ CallTimesOut

McpThreads == /\ UNCHANGED <<fileVars, shellVars>>
              /\ \E i \in ServerThreads : ServerThread(i)

McpRemote == UNCHANGED <<fileVars, shellVars>> /\ Remote

Init == \E s \in Scenarios : /\ FileInit(s.access, s.files)
                             /\ ShellInit(s.shells)
                             /\ McpInit(s.mcp)

Next == \/ FileCall \/ OthersWrite \/ RuntimeRefresh
        \/ ShellCall \/ ShellPoll \/ TaskControl
        \/ Programs \/ Descendants \/ Monitors \/ LogReaders \/ RuntimeEnds
        \/ McpLoad \/ McpCall \/ McpWait \/ McpThreads \/ McpRemote

(* The tool thread, the monitor threads and the server threads keep running, and
   each of their waits but one has a deadline.  That descendants of a command let
   go of its pipe is an assumption about the programs: the code waits for it
   without a deadline. *)
Spec == Init /\ [][Next]_vars /\ WF_vars(ShellPoll) /\ WF_vars(Monitors)
             /\ WF_vars(Descendants)
             /\ WF_vars(McpWait) /\ WF_vars(McpThreads) /\ WF_vars(McpLoad)

(* Every call of the Turn comes to an end, an ended background process is
   recorded, and a server thread nobody can reach ends (run_sandboxed_command,
   monitor_process, McpTool::call, run_server). *)
CallsEnd == CommandsEnd /\ McpSettles
=============================================================================
