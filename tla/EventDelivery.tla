---------------------------- MODULE EventDelivery ----------------------------
(***************************************************************************)
(* How the events of a Turn reach a client of the Python SDK: the worker   *)
(* numbers and emits them, ThreadListener::send_event keeps a summary in a *)
(* ring and in the Session's replay file and broadcasts the event, the     *)
(* connection relays the broadcast to the pipe, the reader task of the SDK *)
(* sorts the lines into request futures and bounded stream queues, and     *)
(* stream_turn yields from its queue.  turn/events pages through the ring. *)
(*                                                                         *)
(* Two Threads share the ring.  "main" is streamed; of "side" only the     *)
(* summaries matter.  A process generation ends with a crash or a stop;    *)
(* the next one reads the replay file and numbers events from 1 again.     *)
(* A behaviour has one client, which streams or polls: the two share no    *)
(* state but the server's, which neither changes.                          *)
(***************************************************************************)
EXTENDS Naturals, Sequences, FiniteSets, SequencesExt

CONSTANTS
    Streams,      \* concurrent stream_turn calls
    MaxTurns,     \* Turns of "main" in a behaviour
    MaxBody,      \* events of a Turn between its first and its last
    MaxSide,      \* events of "side" in a process
    MaxRestarts,  \* process generations after the first
    MaxFaults,    \* failed writes of the replay file
    MaxPages,     \* turn/events requests in a process
    BusCap,       \* EVENT_BUFFER, 256 in the code
    RingCap,      \* EVENT_REPLAY_BUFFER and the file's limit, 512 in the code
    PipeCap,      \* bound: events between the connection and the reader
    PageLimit,    \* events of a page, at most 128
    QueueCap      \* STREAM_EVENT_QUEUE_LIMIT, 512 in the SDK

ASSUME EventDeliveryAssumption ==
    /\ {MaxTurns, MaxBody, MaxSide, MaxRestarts, MaxFaults, MaxPages} \subseteq Nat
    /\ {BusCap, RingCap, PipeCap, PageLimit, QueueCap} \subseteq Nat \ {0}

VARIABLES
    client,     \* what the client does: "stream" Turns or "poll" turn/events
    process,    \* "down", "starting" (before initialize) or "ready"
    gen,        \* process generation
    worker,     \* the Turn the worker runs
    next,       \* next_event_sequence of each Thread
    ring,       \* EventReplayBuffer.events
    latest,     \* EventReplayBuffer.latest_sequence_by_thread
    file,       \* turn_event_replay.json
    bus,        \* the broadcast channel, as the connection has yet to read it
    pipe,       \* lines written or queued for stdout
    inbox,      \* turn/start requests on their way to the worker
    pending,    \* _pending_requests of the SDK: streams that await their reply
    reader,     \* whether the reader task of the SDK runs
    stream,     \* per stream_turn call, the generator
    queue,      \* per stream_turn call, its queue in _event_queues
    page,       \* a client that follows turn/events
    log,        \* every event of "main" that was emitted, in order
    lagged,     \* whether the connection lost events
    used        \* how much of each bound a behaviour has spent

serverVars == <<worker, next, ring, latest, file, bus, log, lagged>>
clientVars == <<pending, reader, stream, queue>>
vars == <<client, process, gen, serverVars, pipe, inbox, clientVars, page, used>>

Threads == {"main", "side"}
Idle == [turn |-> 0, phase |-> "idle", body |-> 0, last |-> "none", seq |-> 0]
Quiet == [pc |-> "none", turn |-> 0, steered |-> FALSE, first |-> 0, got |-> <<>>]
NoPage == [cursor |-> 0, seen |-> {}, gap |-> FALSE]
Error == [kind |-> "_client_error", gen |-> 0, turn |-> 0, seq |-> 0]
Overflow == [kind |-> "_stream_overflow", gen |-> 0, turn |-> 0, seq |-> 0]

Spend(what) == used' = [used EXCEPT ![what] = @ + 1]

-----------------------------------------------------------------------------
(* ThreadListener::send_event. *)

\* SessionEventReplayEntry::from_event leaves the deltas out.
IsSummary(event) == event.kind # "delta"

Newest(entries) ==
    SubSeq(entries, IF Len(entries) > RingCap THEN Len(entries) - RingCap + 1 ELSE 1,
           Len(entries))

\* push_entry and SessionEventReplayStore::append: a sequence that is already
\* there is not stored again; the oldest entry makes room.
Push(entries, thread, event) ==
    IF \E i \in DOMAIN entries : /\ entries[i].thread = thread
                                 /\ entries[i].event.seq = event.seq
    THEN entries
    ELSE Newest(Append(entries, [thread |-> thread, event |-> event]))

Observe(thread, seq) == IF latest[thread] > seq THEN latest[thread] ELSE seq

\* The broadcast channel forgets the oldest event when it is full.  The
\* notifications of a client that polls end in no queue and are left out.
Broadcast(event) ==
    /\ bus' = IF client = "poll" THEN bus
              ELSE IF Len(bus) = BusCap THEN Append(Tail(bus), event) ELSE Append(bus, event)
    /\ lagged' = (lagged \/ Len(bus) = BusCap)

Keep(thread, event) ==
    /\ latest' = [latest EXCEPT ![thread] = Observe(thread, event.seq)]
    /\ IF IsSummary(event)
       THEN /\ ring' = Push(ring, thread, event)
            /\ \/ file' = Push(file, thread, event) /\ UNCHANGED used
               \/ client = "poll" /\ used.faults < MaxFaults /\ UNCHANGED file /\ Spend("faults")
       ELSE UNCHANGED <<ring, file, used>>

Event(kind, turn, seq) == [kind |-> kind, gen |-> gen, turn |-> turn, seq |-> seq]

SendEvent(event) ==
    /\ Keep("main", event)
    /\ Broadcast(event)
    /\ log' = Append(log, event)

-----------------------------------------------------------------------------
(* The worker. *)

\* run_turn: TurnStarted takes the next sequence.
Begin(turn) ==
    /\ worker' = [Idle EXCEPT !.turn = turn, !.phase = "running"]
    /\ next' = [next EXCEPT !["main"] = @ + 1]
    /\ SendEvent(Event("turn_started", turn, next["main"]))

\* A turn/start request is accepted or, while a Turn runs, refused.  The
\* request task writes the reply when it gets to it.
Submit(s) ==
    /\ process = "ready"
    /\ inbox # <<>>
    /\ Head(inbox) = s
    /\ inbox' = Tail(inbox)
    /\ IF worker.phase = "idle" /\ worker.turn < MaxTurns
       THEN /\ Begin(worker.turn + 1)
            /\ pipe' = Append(pipe, [to |-> s, turn |-> worker.turn + 1])
       ELSE /\ pipe' = Append(pipe, [to |-> s, turn |-> 0])
            /\ UNCHANGED <<serverVars, used>>
    /\ UNCHANGED <<client, process, gen, clientVars, page>>

\* A Turn that another client, a Goal or a wake-up starts.
StartOther ==
    /\ process = "ready"
    /\ worker.phase = "idle"
    /\ worker.turn < MaxTurns
    /\ Begin(worker.turn + 1)
    /\ UNCHANGED <<client, process, gen, pipe, inbox, clientVars, page>>

Emit(kind) ==
    /\ process = "ready"
    /\ worker.phase = "running"
    /\ worker.body < MaxBody
    /\ worker' = [worker EXCEPT !.body = @ + 1]
    /\ next' = [next EXCEPT !["main"] = @ + 1]
    /\ SendEvent(Event(kind, worker.turn, next["main"]))
    /\ UNCHANGED <<client, process, gen, pipe, inbox, clientVars, page>>

\* emit holds TurnFinished back until the Turn is persisted.
Finish(kind) ==
    /\ process = "ready"
    /\ worker.phase = "running"
    /\ kind = "steered" => worker.turn < MaxTurns
    /\ worker' = [worker EXCEPT !.phase = "persisting", !.last = kind,
                                !.seq = next["main"]]
    /\ next' = [next EXCEPT !["main"] = @ + 1]
    /\ UNCHANGED <<client, process, gen, ring, latest, file, bus, log, lagged, pipe, inbox,
                   clientVars, page, used>>

\* take_pending_finish: a steered Turn is followed by the next one.
Settle ==
    /\ process = "ready"
    /\ worker.phase = "persisting"
    /\ worker' = [Idle EXCEPT !.turn = worker.turn,
                              !.phase = IF worker.last = "steered" THEN "steering" ELSE "idle"]
    /\ SendEvent(Event(worker.last, worker.turn, worker.seq))
    /\ UNCHANGED <<client, process, gen, next, pipe, inbox, clientVars, page>>

Continue ==
    /\ process = "ready"
    /\ worker.phase = "steering"
    /\ Begin(worker.turn + 1)
    /\ UNCHANGED <<client, process, gen, pipe, inbox, clientVars, page>>

\* A summary of the other Thread takes room in the ring.
SideEvent ==
    /\ process = "ready"
    /\ client = "poll"
    /\ next["side"] <= MaxSide
    /\ next' = [next EXCEPT !["side"] = @ + 1]
    /\ Keep("side", Event("tool", 0, next["side"]))
    /\ UNCHANGED <<client, process, gen, worker, bus, log, lagged, pipe, inbox, clientVars, page>>

-----------------------------------------------------------------------------
(* The connection and the reader task of the SDK. *)

\* serve_connection: a lagging receiver continues with what is left.
Relay ==
    /\ process = "ready"
    /\ bus # <<>>
    /\ Len(pipe) < PipeCap
    /\ bus' = Tail(bus)
    /\ pipe' = Append(pipe, Head(bus))
    /\ UNCHANGED <<client, process, gen, worker, next, ring, latest, file, log, lagged, inbox,
                   clientVars, page, used>>

Registered == {s \in Streams : stream[s].pc \in {"submitting", "reading"}}

\* Mutant: a full queue drops the message that does not fit.
EnqueueDrop(s, message) == IF Len(queue[s]) = QueueCap THEN queue[s] ELSE Append(queue[s], message)

\* _enqueue_stream_message: a queue that is full is emptied and marked.  The
\* byte budgets empty it the same way.
Enqueue(s, message) ==
    IF queue[s] # <<>> /\ Last(queue[s]) = Overflow THEN queue[s]
    ELSE IF Len(queue[s]) = QueueCap THEN <<Overflow>>
    ELSE Append(queue[s], message)

Publish(message) ==
    [s \in Streams |-> IF s \in Registered THEN Enqueue(s, message) ELSE queue[s]]

\* _read_loop, a response: the future of the request is resolved if it is
\* still pending; a late one is dropped.
ReadReply ==
    /\ reader
    /\ pipe # <<>>
    /\ "to" \in DOMAIN Head(pipe)
    /\ LET reply == Head(pipe) IN
       /\ pipe' = Tail(pipe)
       /\ pending' = pending \ {reply.to}
       /\ stream' = IF reply.to \notin pending THEN stream
                    ELSE [stream EXCEPT ![reply.to] =
                        [@ EXCEPT !.pc = IF reply.turn = 0 THEN "ended" ELSE "reading",
                                  !.turn = reply.turn, !.first = reply.turn]]
       /\ queue' = [s \in Streams |-> IF stream'[s].pc = "ended" THEN <<>> ELSE queue[s]]
    /\ UNCHANGED <<client, process, gen, serverVars, inbox, reader, page, used>>

\* _read_loop, a turn/event notification.
ReadEvent ==
    /\ reader
    /\ pipe # <<>>
    /\ "to" \notin DOMAIN Head(pipe)
    /\ pipe' = Tail(pipe)
    /\ queue' = Publish(Head(pipe))
    /\ UNCHANGED <<client, process, gen, serverVars, inbox, pending, reader, stream, page, used>>

Fail(s) == [stream[s] EXCEPT !.pc = "failed"]

\* The end of the output: futures are rejected, streams get an error.
ReadEof ==
    /\ reader
    /\ process = "down"
    /\ pipe = <<>>
    /\ reader' = FALSE
    /\ queue' = Publish(Error)
    /\ stream' = [s \in Streams |-> IF s \in pending THEN Fail(s) ELSE stream[s]]
    /\ pending' = {}
    /\ UNCHANGED <<client, process, gen, serverVars, pipe, inbox, page, used>>

-----------------------------------------------------------------------------
(* stream_turn. *)

\* The queue is registered before the request is sent.
StreamStart(s) ==
    /\ process = "ready"
    /\ client = "stream"
    /\ reader
    /\ stream[s].pc = "none"
    /\ stream' = [stream EXCEPT ![s].pc = "submitting"]
    /\ pending' = pending \cup {s}
    /\ inbox' = Append(inbox, s)
    /\ UNCHANGED <<client, process, gen, serverVars, pipe, reader, queue, page, used>>

\* AppServerRequestTimeoutError: the future is dropped, the Turn may start.
StreamTimeout(s) ==
    /\ s \in pending
    /\ pending' = pending \ {s}
    /\ stream' = [stream EXCEPT ![s] = Fail(s)]
    /\ queue' = [queue EXCEPT ![s] = <<>>]
    /\ UNCHANGED <<client, process, gen, serverVars, pipe, inbox, reader, page, used>>

\* The Turn of the event: the stream's own, or the one after a steered Turn.
Accepts(s, event) == event.turn = stream[s].turn \/ stream[s].steered

StreamTake(s) ==
    /\ stream[s].pc = "reading"
    /\ queue[s] # <<>>
    /\ LET event == Head(queue[s]) IN
       \/ /\ event \in {Error, Overflow}
          /\ stream' = [stream EXCEPT ![s] = Fail(s)]
          /\ queue' = [queue EXCEPT ![s] = <<>>]
       \/ /\ event \notin {Error, Overflow}
          /\ ~Accepts(s, event)
          /\ queue' = [queue EXCEPT ![s] = Tail(@)]
          /\ UNCHANGED stream
       \/ /\ event \notin {Error, Overflow}
          /\ Accepts(s, event)
          /\ stream' = [stream EXCEPT ![s] =
                [stream[s] EXCEPT !.turn = event.turn, !.got = Append(@, event),
                          !.steered = event.kind = "steered",
                          !.pc = IF event.kind = "turn_finished" THEN "ended" ELSE "reading"]]
          /\ queue' = [queue EXCEPT ![s] =
                IF event.kind = "turn_finished" THEN <<>> ELSE Tail(@)]
    /\ UNCHANGED <<client, process, gen, serverVars, pipe, inbox, pending, reader, page, used>>

-----------------------------------------------------------------------------
(* turn/events. *)

IsAfter(entry, after) == entry.thread = "main" /\ entry.event.seq > after

Entries(after) ==
    LET upTo[n \in 0..Len(ring)] ==
            IF n = 0 THEN <<>>
            ELSE IF IsAfter(ring[n], after) THEN Append(upTo[n - 1], ring[n]) ELSE upTo[n - 1]
    IN  upTo[Len(ring)]

Oldest ==
    LET mine == {ring[i].event.seq : i \in {j \in DOMAIN ring : ring[j].thread = "main"}}
    IN  IF mine = {} THEN 0 ELSE CHOOSE m \in mine : \A n \in mine : m <= n

\* Mutant: a Thread whose entries were all evicted has no gap.
HasGapOldest(after) == after + 1 < Oldest

\* replay_events: the range that is no longer retained.
HasGap(after) == IF Oldest = 0 THEN after < latest["main"] ELSE after + 1 < Oldest

\* handle_turn_events: a short page moves the cursor past the omitted deltas.
NextCursor(data, after) ==
    IF Len(data) < PageLimit THEN latest["main"] ELSE Last(data).event.seq

Replay ==
    /\ process = "ready"
    /\ client = "poll"
    /\ used.pages < MaxPages
    /\ LET data == SubSeq(Entries(page.cursor), 1,
                          IF Len(Entries(page.cursor)) < PageLimit
                          THEN Len(Entries(page.cursor)) ELSE PageLimit)
       IN  /\ page' = [cursor |-> NextCursor(data, page.cursor),
                       seen |-> page.seen \cup {data[i].event : i \in DOMAIN data},
                       gap |-> page.gap \/ HasGap(page.cursor)]
           /\ Spend("pages")
    /\ UNCHANGED <<client, process, gen, serverVars, pipe, inbox, clientVars>>

-----------------------------------------------------------------------------
(* Processes. *)

\* The process dies: what was not written to stdout is lost.
Crash ==
    /\ process # "down"
    /\ used.restarts < MaxRestarts
    /\ process' = "down"
    /\ \E n \in 0 .. Len(pipe) : pipe' = SubSeq(pipe, 1, n)
    /\ bus' = <<>>
    /\ inbox' = <<>>
    /\ worker' = [Idle EXCEPT !.turn = worker.turn]
    /\ UNCHANGED <<client, gen, next, ring, latest, file, log, lagged, clientVars, page, used>>

\* stop: streams get an error, the reader task ends, futures are rejected.
Stop ==
    /\ process # "down"
    /\ used.restarts < MaxRestarts
    /\ process' = "down"
    /\ reader' = FALSE
    /\ queue' = Publish(Error)
    /\ stream' = [s \in Streams |-> IF s \in pending THEN Fail(s) ELSE stream[s]]
    /\ pending' = {}
    /\ pipe' = <<>>
    /\ bus' = <<>>
    /\ inbox' = <<>>
    /\ worker' = [Idle EXCEPT !.turn = worker.turn]
    /\ UNCHANGED <<client, gen, next, ring, latest, file, log, lagged, page, used>>

\* start: a new process, whose Threads number their events from 1.
Spawn ==
    /\ process = "down"
    /\ ~reader
    /\ used.restarts < MaxRestarts
    /\ Spend("restarts")
    /\ process' = "starting"
    /\ gen' = gen + 1
    /\ reader' = TRUE
    /\ next' = [t \in Threads |-> 1]
    /\ latest' = [t \in Threads |-> 0]
    /\ ring' = <<>>
    /\ page' = NoPage
    /\ UNCHANGED <<client, worker, file, bus, log, lagged, pipe, inbox, pending, stream, queue>>

\* EventReplayBuffer::restore observes every entry.
LatestIn(entries, thread) ==
    LET seqs == {entries[i].event.seq : i \in {j \in DOMAIN entries : entries[j].thread = thread}}
    IN  IF seqs = {} THEN 0 ELSE CHOOSE m \in seqs : \A n \in seqs : n <= m

\* initialize builds the runtime; InstallRuntime restores the replay file.
Initialize ==
    /\ process = "starting"
    /\ process' = "ready"
    /\ ring' = file
    /\ latest' = [t \in Threads |-> LatestIn(file, t)]
    /\ UNCHANGED <<client, gen, worker, next, file, bus, log, lagged, pipe, inbox, clientVars,
                   page, used>>

\* A handshake or a startup that is refused ends the process.
InitializeFails ==
    /\ process = "starting"
    /\ used.restarts < MaxRestarts
    /\ process' = "down"
    /\ UNCHANGED <<client, gen, serverVars, pipe, inbox, clientVars, page, used>>

Init ==
    /\ client \in {"stream", "poll"}
    /\ process = "starting"
    /\ gen = 0
    /\ worker = Idle
    /\ next = [t \in Threads |-> 1]
    /\ ring = <<>>
    /\ latest = [t \in Threads |-> 0]
    /\ file = <<>>
    /\ bus = <<>>
    /\ pipe = <<>>
    /\ inbox = <<>>
    /\ pending = {}
    /\ reader = TRUE
    /\ stream = [s \in Streams |-> Quiet]
    /\ queue = [s \in Streams |-> <<>>]
    /\ page = NoPage
    /\ log = <<>>
    /\ lagged = FALSE
    /\ used = [faults |-> 0, restarts |-> 0, pages |-> 0]

EndTurn == Finish("turn_finished") \/ Finish("steered")
Work == EndTurn \/ Settle \/ Continue \/ \E s \in Streams : Submit(s)
Deliver == ReadReply \/ ReadEvent \/ ReadEof

Next ==
    \/ Work
    \/ StartOther
    \/ Emit("delta") \/ Emit("tool")
    \/ SideEvent
    \/ Relay
    \/ Deliver
    \/ \E s \in Streams : StreamStart(s) \/ StreamTimeout(s) \/ StreamTake(s)
    \/ Replay
    \/ Crash \/ Stop \/ Spawn \/ Initialize \/ InitializeFails

Spec == Init /\ [][Next]_vars

(***************************************************************************)
(* Fairness: the worker ends a Turn it runs, and the connection, the       *)
(* reader task and the consumer of a stream run when they have something   *)
(* to do.  Clients start nothing they do not want to.                      *)
(***************************************************************************)
FairSpec ==
    /\ Spec
    /\ WF_vars(Work)
    /\ WF_vars(Relay)
    /\ WF_vars(Deliver)
    /\ \A s \in Streams : WF_vars(StreamTake(s))

-----------------------------------------------------------------------------

\* Where the Turn of a stream begins in the log.
Start(s) ==
    {i \in DOMAIN log : /\ log[i].kind = "turn_started"
                        /\ stream[s].got # <<>>
                        /\ log[i] = stream[s].got[1]}

(***************************************************************************)
(* A stream yields its Turn and nothing else (stream_turn, _read_loop,     *)
(* serve_connection): from TurnStarted on and in order, without a gap, an  *)
(* event of another Turn or a repetition, and through a steer into the     *)
(* Turn that follows, whatever the order of reply, events, overflow and    *)
(* process ends; only a broadcast that lagged may leave a gap.             *)
(***************************************************************************)
StreamFaithful ==
    ~lagged =>
        \A s \in Streams :
            stream[s].got # <<>> =>
                \E i \in Start(s) :
                    /\ log[i].turn = stream[s].first
                    /\ i + Len(stream[s].got) - 1 <= Len(log)
                    /\ SubSeq(log, i, i + Len(stream[s].got) - 1) = stream[s].got

(***************************************************************************)
(* A client that follows turn/events from cursor to cursor misses no       *)
(* summary that is behind its cursor, unless a page told it of a gap       *)
(* (replay_events, handle_turn_events), in the first process of a Session. *)
(***************************************************************************)
ReplayComplete ==
    gen = 0 =>
        \A i \in DOMAIN log :
            IsSummary(log[i]) /\ log[i].seq <= page.cursor
                => log[i] \in page.seen \/ page.gap

(***************************************************************************)
(* The same for the events of every process, as a client that starts over  *)
(* after a restart sees them.                                              *)
(***************************************************************************)
ReplayCompleteAfterRestart ==
    \A i \in DOMAIN log :
        log[i].gen = gen /\ IsSummary(log[i]) /\ log[i].seq <= page.cursor
            => log[i] \in page.seen \/ page.gap

(***************************************************************************)
(* A stream comes to its end: turn_finished is held back until the Turn is *)
(* persisted but not for ever, and an overflow or the end of the process   *)
(* ends the stream too; only a broadcast that lagged may leave it waiting. *)
(***************************************************************************)
StreamEnds ==
    \A s \in Streams :
        (stream[s].pc \in {"submitting", "reading"})
            ~> (stream[s].pc \in {"ended", "failed"} \/ lagged)
=============================================================================
