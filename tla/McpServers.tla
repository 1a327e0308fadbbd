----------------------------- MODULE McpServers -----------------------------
(* The MCP servers of a runtime: discovery of the configured servers, the load
   at startup and its retry, one thread per server that serves the tool calls of
   the Turn behind a circuit breaker, and what mcp/status reports
   (mini-agent-capabilities: mcp.rs, skills/mcp_config.rs; harness_builder.rs;
   retry_mcp and record_mcp_retry of the app server).

   The loader waits for each server with a deadline, the server thread connects
   with another, the caller waits for its answer with a third and the thread for
   the remote server with a fourth; time is left out, so that any of them may
   pass while the other side is about to answer.

   Data: a configuration entry says what the checks of its fields come to, and
   where its paths and its header variables lead; a remote tool is the name it is
   exposed under ("none" when that would be too long) and whether its schema
   fits. *)
EXTENDS Integers, Sequences, SequencesExt, FiniteSets

CONSTANTS MaxServers,   \* MAX_DISCOVERED_SERVERS
          MaxTools,     \* MAX_MCP_TOOLS
          Threshold,    \* CIRCUIT_BREAKER_THRESHOLD
          Listing       \* label -> the tools the server lists

ASSUME McpBounds == /\ {MaxServers, MaxTools} \subseteq Nat
                    /\ Threshold \in Nat \ {0}

ListedTools == [exposed : STRING, fits : BOOLEAN]

ASSUME ListingAssumption == Listing \in [DOMAIN Listing -> Seq(ListedTools)]

Places == {"installed", "pluginRoot", "pluginData", "outside"}

ServerEntries ==
    [label : DOMAIN Listing, native : BOOLEAN, enabled : BOOLEAN, valid : BOOLEAN,
     transport : {"stdio", "http", "sse"}, command : Places, cwd : Places,
     headers : {"set", "default", "unset"}]

VARIABLES status,   \* McpRuntimeState: enabled, retry, count
          mcpTools, \* the MCP tools of the harness, in the router's order
          load,     \* the load in progress
          inst,     \* the server threads started so far
          calls,    \* the tool calls so far
          quota     \* bound: calls, retries and faults to come

mcpVars == <<status, mcpTools, load, inst, calls, quota>>

(* Changed definitions the properties must tell from the code's. *)

(* A loaded server stays on the list of servers to retry. *)
StillToRetry(loaded) == status.retry

(* ------------------------------- discovery -------------------------------- *)

(* parse_mcp_server: the name, the transport and its fields must be valid;
   legacy SSE is refused. *)
ParseMcpServer(e) == e.valid /\ e.transport \in {"stdio", "http"}

(* A native file may be switched off, a plugin file has no such field. *)
DiscoverNativeMcpFile(e) == e.enabled /\ ParseMcpServer(e)

DiscoverMcpFile(e) == ParseMcpServer(e)

Labels(servers) == {e.label : e \in Range(servers)}

PushMcpServer(servers, e) ==
    IF \/ ~(IF e.native THEN DiscoverNativeMcpFile(e) ELSE DiscoverMcpFile(e))
       \/ Len(servers) >= MaxServers
       \/ e.label \in Labels(servers)
    THEN servers ELSE Append(servers, e)

Discovered(entries) ==
    LET upTo[n \in 0..Len(entries)] ==
            IF n = 0 THEN << >> ELSE PushMcpServer(upTo[n - 1], entries[n])
    IN  upTo[Len(entries)]

(* ---------------------------------- load ---------------------------------- *)

NoLoad == [st |-> "none", kind |-> "start", todo |-> << >>, pending |-> << >>,
           tools |-> << >>, loaded |-> {}]

BeginLoad(kind, servers) ==
    [NoLoad EXCEPT !.st = "approving", !.kind = kind, !.todo = servers]

(* Whoever may still send a call to thread i: the loader, or a tool. *)
Held(i) == \/ i \in Range(load.pending)
           \/ \E t \in Range(load.tools) \cup Range(mcpTools) : t.inst = i

ServerThreads == DOMAIN inst

NewThread(e) == [label |-> e.label, config |-> e, st |-> "connecting",
                 startup |-> "none", queue |-> << >>, failures |-> 0, tripped |-> FALSE,
                 streak |-> 0]

(* load, first loop: the user may refuse the connection. *)
ApproveServer ==
    /\ load.st = "approving" /\ load.todo # << >>
    /\ inst' = Append(inst, NewThread(Head(load.todo)))
    /\ load' = [load EXCEPT !.todo = Tail(@), !.pending = Append(@, Len(inst) + 1)]
    /\ UNCHANGED <<status, mcpTools, calls, quota>>

RefuseServer ==
    /\ load.st = "approving" /\ load.todo # << >>
    /\ load' = [load EXCEPT !.todo = Tail(@)]
    /\ UNCHANGED <<status, mcpTools, inst, calls, quota>>

AllAsked ==
    /\ load.st = "approving" /\ load.todo = << >>
    /\ load' = [load EXCEPT !.st = "waiting"]
    /\ UNCHANGED <<status, mcpTools, inst, calls, quota>>

(* The elements of s at the positions of a set, in order. *)
Kept(s, at) ==
    LET upTo[n \in 0..Len(s)] ==
            IF n = 0 THEN << >>
            ELSE IF n \in at THEN Append(upTo[n - 1], s[n]) ELSE upTo[n - 1]
    IN  upTo[Len(s)]

(* connect: the tools whose schema fits, up to the limit. *)
RemoteTools(label) ==
    LET fitting == Kept(Listing[label], {k \in DOMAIN Listing[label] : Listing[label][k].fits})
    IN  SubSeq(fitting, 1, IF Len(fitting) < MaxTools THEN Len(fitting) ELSE MaxTools)

(* One remote tool of load's second loop; when the limit is reached with a tool
   left over, the load ends. *)
AddTool(tools, t) ==
    IF \/ Len(tools) >= MaxTools
       \/ t.exposed = "none"
       \/ \E u \in Range(tools) : u.exposed = t.exposed
    THEN tools ELSE Append(tools, t)

(* The tools of thread i behind those collected so far. *)
Collect(tools, i) ==
    LET remote == RemoteTools(inst[i].label)
        upTo[k \in 0..Len(remote)] ==
            IF k = 0 THEN tools
            ELSE AddTool(upTo[k - 1], [exposed |-> remote[k].exposed, inst |-> i])
    IN  [full |-> \E k \in 0..(Len(remote) - 1) : Len(upTo[k]) >= MaxTools,
         tools |-> upTo[Len(remote)]]

(* load, second loop: the next server reported its tools; the servers behind it
   are dropped when the limit is reached. *)
ServerReady ==
    LET i == Head(load.pending)
        got == Collect(load.tools, i)
    IN  /\ load.st = "waiting" /\ load.pending # << >>
        /\ inst[i].startup = "ok"
        /\ load' = [load EXCEPT !.pending = IF got.full THEN << >> ELSE Tail(@),
                                !.tools = got.tools,
                                !.loaded = @ \cup {inst[i].label}]
        /\ UNCHANGED <<status, mcpTools, inst, calls, quota>>

(* It reported an error, or the wait ran out, perhaps just before its report. *)
ServerNotReady ==
    /\ load.st = "waiting" /\ load.pending # << >>
    /\ load' = [load EXCEPT !.pending = Tail(@)]
    /\ UNCHANGED <<status, mcpTools, inst, calls, quota>>

(* record_mcp_retry keeps the servers that are still not loaded. *)
ToRetry(loaded) ==
    Kept(status.retry, {k \in DOMAIN status.retry : status.retry[k].label \notin loaded})

LoadEnds ==
    /\ load.st = "waiting" /\ load.pending = << >>
    /\ load' = NoLoad
    /\ mcpTools' = mcpTools \o load.tools
    /\ status' = [enabled |-> status.enabled \cup load.loaded,
                  retry |-> ToRetry(load.loaded),
                  count |-> status.count + Len(load.tools)]
    /\ UNCHANGED <<inst, calls, quota>>

(* retry_mcp found no Thread to give the tools to. *)
RetryLost ==
    /\ load.st = "waiting" /\ load.pending = << >> /\ load.kind = "retry"
    /\ quota.faults > 0
    /\ quota' = [quota EXCEPT !.faults = @ - 1]
    /\ load' = NoLoad
    /\ UNCHANGED <<status, mcpTools, inst, calls>>

(* mcp/retry, between two Turns. *)
RetryMcp ==
    /\ load.st = "none" /\ status.retry # << >>
    /\ quota.retries > 0
    /\ quota' = [quota EXCEPT !.retries = @ - 1]
    /\ load' = BeginLoad("retry", status.retry)
    /\ UNCHANGED <<status, mcpTools, inst, calls>>

(* ----------------------------- a server's thread -------------------------- *)

KeepLoad == UNCHANGED <<status, mcpTools, load, quota>>

(* contained_existing_path: the path exists inside its boundary. *)
ContainedExistingPath(where) == where \in {"pluginRoot", "pluginData"}

(* build_command: a bare executable that is installed, or one inside the plugin;
   its working directory inside the plugin or its data directory. *)
BuildCommand(e) == /\ e.command = "installed" \/ ContainedExistingPath(e.command)
                   /\ ContainedExistingPath(e.cwd)

(* http_headers: every variable is set, or has a default. *)
HttpHeaders(e) == e.headers # "unset"

MayConnect(e) == IF e.transport = "stdio" THEN BuildCommand(e) ELSE HttpHeaders(e)

(* run_server: connected in time.  When the loader has gone the thread ends,
   otherwise it reports its tools and serves. *)
Connects(i) ==
    /\ inst[i].st = "connecting" /\ MayConnect(inst[i].config)
    /\ inst' = [inst EXCEPT ![i] =
                  IF i \in Range(load.pending)
                  THEN [@ EXCEPT !.st = "serving", !.startup = "ok"]
                  ELSE [@ EXCEPT !.st = "ended"]]
    /\ KeepLoad /\ UNCHANGED calls

(* The connection failed or took too long. *)
ConnectFails(i) ==
    /\ inst[i].st = "connecting"
    /\ inst' = [inst EXCEPT ![i].st = "ended", ![i].startup = "error"]
    /\ KeepLoad /\ UNCHANGED calls

(* The reply goes to the caller, unless it has stopped waiting. *)
Reply(c, result) ==
    calls' = IF calls[c].st = "waiting"
             THEN [calls EXCEPT ![c].st = "done", ![c].result = result]
             ELSE calls

RecordSuccess(b) == [b EXCEPT !.failures = 0, !.tripped = FALSE, !.streak = 0]

RecordFailure(b) == [b EXCEPT !.failures = @ + 1, !.streak = @ + 1,
                              !.tripped = b.failures + 1 >= Threshold]

(* can_execute: an open breaker answers at once. *)
BreakerRefuses(i) ==
    /\ inst[i].st = "serving" /\ inst[i].queue # << >> /\ inst[i].tripped
    /\ inst' = [inst EXCEPT ![i].queue = Tail(@)]
    /\ Reply(Head(inst[i].queue), "open")
    /\ KeepLoad

CallRemote(i) ==
    /\ inst[i].st = "serving" /\ inst[i].queue # << >> /\ ~inst[i].tripped
    /\ inst' = [inst EXCEPT ![i].st = "remote"]
    /\ calls' = [calls EXCEPT ![Head(inst[i].queue)].requested = TRUE]
    /\ KeepLoad

CooldownPasses(i) ==
    /\ inst[i].tripped
    /\ inst' = [inst EXCEPT ![i].tripped = FALSE, ![i].streak = 0]
    /\ KeepLoad /\ UNCHANGED calls

(* The remote server does what it was asked to, perhaps after the time. *)
RemoteExecutes(c) ==
    /\ calls[c].requested /\ ~calls[c].ran
    /\ calls' = [calls EXCEPT ![c].ran = TRUE]
    /\ KeepLoad /\ UNCHANGED inst

RemoteEnds(i, result, breaker) ==
    /\ inst[i].st = "remote"
    /\ inst' = [inst EXCEPT ![i] = [breaker EXCEPT !.st = "serving", !.queue = Tail(@)]]
    /\ Reply(Head(inst[i].queue), result)
    /\ KeepLoad

RemoteAnswers(i) == /\ inst[i].st = "remote" /\ calls[Head(inst[i].queue)].ran
                    /\ RemoteEnds(i, "ok", RecordSuccess(inst[i]))

RemoteFails(i) == RemoteEnds(i, "failed", RecordFailure(inst[i]))

ProtocolTimeout(i) == RemoteEnds(i, "timeout", RecordFailure(inst[i]))

(* All senders are gone and the queue is empty. *)
ServerEnds(i) ==
    /\ inst[i].st = "serving" /\ inst[i].queue = << >> /\ ~Held(i)
    /\ inst' = [inst EXCEPT ![i].st = "ended"]
    /\ KeepLoad /\ UNCHANGED calls

(* ---------------------------------- calls --------------------------------- *)

McpBusy == \E c \in DOMAIN calls : calls[c].st \in {"asking", "waiting"}

(* admission: deferred under the Plan lock, otherwise the user is asked.  The
   router takes the first tool of that name. *)
McpAdmission(name, locked) ==
    LET named == {k \in DOMAIN mcpTools : mcpTools[k].exposed = name}
        first == CHOOSE k \in named : \A j \in named : k <= j
    IN  /\ load.st = "none" /\ ~McpBusy /\ named # {}
        /\ quota.calls > 0
        /\ quota' = [quota EXCEPT !.calls = @ - 1]
        /\ calls' = Append(calls,
                      [inst |-> mcpTools[first].inst, requested |-> FALSE, ran |-> FALSE,
                       st |-> IF locked THEN "done" ELSE "asking",
                       result |-> IF locked THEN "deferred" ELSE "none"])
        /\ UNCHANGED <<status, mcpTools, load, inst>>

(* The user's answer; an approved call goes to the server's thread. *)
McpAnswer(yes) ==
    \E c \in DOMAIN calls :
        /\ calls[c].st = "asking"
        /\ IF yes
           THEN /\ calls' = [calls EXCEPT ![c].st = "waiting"]
                /\ inst' = [inst EXCEPT ![calls[c].inst].queue = Append(@, c)]
           ELSE /\ calls' = [calls EXCEPT ![c].st = "done", ![c].result = "denied"]
                /\ UNCHANGED inst
        /\ KeepLoad

(* McpTool::call: CALL_TIMEOUT passes before the reply. *)
CallTimesOut ==
    \E c \in DOMAIN calls :
        /\ calls[c].st = "waiting"
        /\ calls' = [calls EXCEPT ![c].st = "done", ![c].result = "timeout"]
        /\ KeepLoad /\ UNCHANGED inst

McpInit(bounds) ==
    LET servers == Discovered(bounds.entries)
    IN  /\ status = [enabled |-> {}, retry |-> servers, count |-> 0]
        /\ mcpTools = << >>
        /\ load = IF servers = << >> THEN NoLoad ELSE BeginLoad("start", servers)
        /\ inst = << >>
        /\ calls = << >>
        /\ quota = [calls |-> bounds.calls, retries |-> bounds.retries,
                    faults |-> bounds.faults]

Loader == \/ ApproveServer \/ RefuseServer \/ AllAsked
          \/ ServerReady \/ ServerNotReady \/ LoadEnds \/ RetryLost

ServerThread(i) == \/ Connects(i) \/ ConnectFails(i)
                   \/ BreakerRefuses(i) \/ CallRemote(i)
                   \/ RemoteAnswers(i) \/ RemoteFails(i) \/ ProtocolTimeout(i)
                   \/ ServerEnds(i)

Remote == \/ \E i \in ServerThreads : CooldownPasses(i)
          \/ \E c \in DOMAIN calls : RemoteExecutes(c)

(* ------------------------------- properties ------------------------------- *)

(* What mcp/status reports and what the model can call agree, after the start
   and after every retry: a configured server is either enabled or offered for a
   retry, the count is that of the tools in the router, every one of them belongs
   to an enabled server whose one thread still serves (load, record_mcp_retry,
   run_server). *)
McpStatusTrue ==
    load.st = "none" =>
        /\ status.enabled \cap Labels(status.retry) = {}
        /\ \A i \in ServerThreads :
            inst[i].label \in status.enabled \cup Labels(status.retry)
        /\ status.count = Len(mcpTools)
        /\ \A t \in Range(mcpTools) :
            /\ inst[t.inst].label \in status.enabled
            /\ inst[t.inst].st \in {"serving", "remote"}
            /\ \A u \in Range(mcpTools) :
                inst[u.inst].label = inst[t.inst].label => u.inst = t.inst

(* A failing server is not called more than Threshold times in a row before it
   gets a cool-down, and after the cool-down a single failure opens the breaker
   again; a call that was answered "open", deferred or denied never reached the
   server, and one that was answered did (CircuitBreaker, run_server,
   McpTool::call). *)
BreakerHolds ==
    /\ \A i \in ServerThreads :
        /\ inst[i].streak <= Threshold
        /\ inst[i].failures >= Threshold /\ inst[i].streak > 0 => inst[i].tripped
    /\ \A c \in DOMAIN calls :
        /\ calls[c].result \in {"open", "deferred", "denied"} => ~calls[c].requested
        /\ calls[c].result = "ok" => calls[c].ran

(* The state of MCP servers is what clients are told and what calls meet: the
   status after loads and retries, and the breaker after failures (load,
   record_mcp_retry, CircuitBreaker). *)
McpTruthful == McpStatusTrue /\ BreakerHolds

(* A call that was sent is answered, and the thread of a server that nobody can
   call comes to its end, however late it connected (McpTool::call, run_server). *)
McpSettles ==
    /\ []<>(\A c \in DOMAIN calls : calls[c].st # "waiting")
    /\ []<>(\A i \in ServerThreads : Held(i) \/ inst[i].st = "ended")
=============================================================================
