---------------------------- MODULE ModelProvider ----------------------------
(***************************************************************************)
(* One model request of the Responses adapter (capabilities/src/openai):    *)
(* connection retries inside an attempt, attempts inside a retry window,    *)
(* the stream that fills an accumulator and a buffer of events, and the     *)
(* forwarder that shows the events to the observer of the run              *)
(* (core/src/turn_engine.rs).  The provider is external: it may answer,     *)
(* refuse, break off or fall silent at any point.  Text is a sequence of    *)
(* pieces, of which only identity and size matter.                          *)
(***************************************************************************)
EXTENDS Naturals, Sequences, FiniteSets

CONSTANTS
  MaxAttempts,     \* MAX_TRANSIENT_ATTEMPTS
  ConnectRetries,  \* CONNECT_RETRY_DELAYS.len()
  RetryDelays,     \* RETRY_DELAYS
  Window,          \* MAX_RETRY_WINDOW
  MaxBytes,        \* ModelRequest.max_response_bytes
  Sizes,           \* sizes of pieces and calls
  Durations,       \* how long an attempt may take
  MaxPieces        \* bound: pieces and calls of one stream

ASSUME ProviderAssumption ==
  /\ MaxAttempts \in Nat \ {0} /\ ConnectRetries \in Nat
  /\ RetryDelays \in [1..(MaxAttempts - 1) -> Nat]
  /\ Window \in Nat /\ MaxBytes \in Nat /\ MaxPieces \in Nat
  /\ Sizes \subseteq Nat \ {0} /\ Durations \subseteq Nat

VARIABLES
  pc,         \* where complete and complete_once are
  attempt,    \* number of the attempt
  connects,   \* connections refused in this attempt
  elapsed,    \* started_at.elapsed()
  acc,        \* Accumulator
  buffer,     \* BufferedModelEvents of this attempt
  item,       \* pieces of the message item the provider streams now
  made,       \* pieces made by the provider in this attempt
  shown,      \* events the observer was shown
  forwarder,  \* ModelEventForwarder: events taken and emitted_bytes
  result,     \* what respond returned
  received    \* history: attempts whose request may have reached the provider

requestVars == <<pc, attempt, connects, elapsed, acc, buffer, item, made, shown,
          forwarder, result, received>>

stream == <<acc, buffer, item, made>>
output == <<shown, forwarder>>

-----------------------------------------------------------------------------
(* Values *)

\* A status that is_context_window_error looks at is neither 408, 429 nor 5xx.
ApiErrors == {"ApiTransient", "ApiContextWindow", "ApiOther"}
Errors == ApiErrors \cup {"Transport", "IncompleteStream", "IdleTimeout", "Stream", "Protocol"}

Pcs == {"sending", "reading", "waiting", "emitting", "done"}
Results == Errors \cup {"none", "response", "cancelled"}

Piece(id, size) == [id |-> id, size |-> size]
Pieces == [id : Nat, size : Sizes]

\* A delta in the buffer; at is what the accumulator had retained by then.
Delta(kind, id, size, at) == [kind |-> kind, id |-> id, size |-> size, at |-> at]
Deltas == [kind : {"reasoning", "text"}, id : Nat, size : Nat, at : Nat]

EmptyAccumulator == [reasoning |-> <<>>, text |-> <<>>, calls |-> 0, bytes |-> 0]

IsTransient(error) == error \in {"Transport", "IncompleteStream", "ApiTransient"}

\* How long complete sleeps after the n-th attempt failed
RetryDelay(n) == RetryDelays[n]

-----------------------------------------------------------------------------
(* Attempts *)

RequestInit ==
  /\ pc = "sending" /\ attempt = 1 /\ connects = 0 /\ elapsed = 0
  /\ acc = EmptyAccumulator /\ buffer = <<>> /\ item = <<>> /\ made = 0
  /\ shown = <<>> /\ forwarder = [taken |-> 0, bytes |-> 0]
  /\ result = "none" /\ received = {}

\* Fault: the sleep itself is not counted.
RetriesLate(error, now) ==
  /\ attempt < MaxAttempts
  /\ IsTransient(error)
  /\ now <= Window

Retries(error, now) ==
  /\ attempt < MaxAttempts
  /\ IsTransient(error)
  /\ now + RetryDelay(attempt) <= Window

\* The attempt ends in an error after some time.
Fail(error) ==
  \E d \in Durations :
    LET now == elapsed + d
    IN /\ elapsed' = now
       /\ pc' = IF Retries(error, now) THEN "waiting" ELSE "done"
       /\ result' = IF Retries(error, now) THEN "none" ELSE error
       /\ UNCHANGED <<attempt, connects, stream, output>>

\* Fault: the next attempt goes on with the events of the last one.
WakeKeeping ==
  /\ pc = "waiting"
  /\ pc' = "sending" /\ attempt' = attempt + 1 /\ connects' = 0
  /\ elapsed' = elapsed + RetryDelay(attempt)
  /\ acc' = EmptyAccumulator /\ item' = <<>> /\ made' = 0
  /\ UNCHANGED <<buffer, output, result, received>>

\* The sleep is over; the next attempt starts with nothing.
Wake ==
  /\ pc = "waiting"
  /\ pc' = "sending" /\ attempt' = attempt + 1 /\ connects' = 0
  /\ elapsed' = elapsed + RetryDelay(attempt)
  /\ acc' = EmptyAccumulator /\ buffer' = <<>> /\ item' = <<>> /\ made' = 0
  /\ UNCHANGED <<output, result, received>>

-----------------------------------------------------------------------------
(* post_json *)

\* No connection was made: send_with_connect_retries tries again, then fails.
ConnectRefused ==
  /\ pc = "sending"
  /\ UNCHANGED received
  /\ \/ /\ connects < ConnectRetries
        /\ connects' = connects + 1
        /\ UNCHANGED <<pc, attempt, elapsed, stream, output, result>>
     \/ connects >= ConnectRetries /\ Fail("Transport")

\* The connection breaks or falls silent before an answer; nobody knows whether
\* the request arrived.
SendLost(error) ==
  /\ pc = "sending"
  /\ error \in {"Transport", "IdleTimeout"}
  /\ received' \in {received, received \cup {attempt}}
  /\ Fail(error)

\* An answer with an error status; its bounded body is part of the error.
AnswerRefused(error) ==
  /\ pc = "sending"
  /\ error \in ApiErrors
  /\ received' = received \cup {attempt}
  /\ Fail(error)

AnswerBegins ==
  /\ pc = "sending"
  /\ pc' = "reading"
  /\ received' = received \cup {attempt}
  /\ UNCHANGED <<attempt, connects, elapsed, stream, output, result>>

-----------------------------------------------------------------------------
(* drain_sse and apply *)

\* Accumulator::retain
Retains(size) == acc.bytes + size <= MaxBytes

\* A piece that does not fit ends the attempt before it is kept.
TooLarge(size) == ~Retains(size) /\ Fail("Protocol") /\ UNCHANGED received

ReadReasoning(size) ==
  /\ pc = "reading" /\ made < MaxPieces
  /\ \/ TooLarge(size)
     \/ /\ Retains(size)
        /\ made' = made + 1
        /\ acc' = [acc EXCEPT !.reasoning = Append(@, Piece(made + 1, size)), !.bytes = @ + size]
        /\ buffer' = Append(buffer, Delta("reasoning", made + 1, size, acc.bytes + size))
        /\ UNCHANGED <<pc, attempt, connects, elapsed, item, output, result, received>>

ReadText(size) ==
  /\ pc = "reading" /\ made < MaxPieces
  /\ \/ TooLarge(size)
     \/ /\ Retains(size)
        /\ made' = made + 1
        /\ acc' = [acc EXCEPT !.text = Append(@, Piece(made + 1, size)), !.bytes = @ + size]
        /\ buffer' = Append(buffer, Delta("text", made + 1, size, acc.bytes + size))
        /\ item' = Append(item, Piece(made + 1, size))
        /\ UNCHANGED <<pc, attempt, connects, elapsed, output, result, received>>

\* The text of a message item counts only if no text was streamed.
TakesMessage == acc.text = <<>>

\* A message item is done: it repeats what was streamed of it, or, if nothing
\* was, carries its text as one piece.
ReadMessage(size) ==
  LET piece == IF item = <<>> THEN Piece(made + 1, size) ELSE item[1]
  IN /\ pc = "reading" /\ made < MaxPieces
     /\ item # <<>> => size = item[1].size
     /\ \/ TakesMessage /\ TooLarge(size)
        \/ /\ TakesMessage => Retains(size)
           /\ made' = IF item = <<>> THEN made + 1 ELSE made
           /\ item' = <<>>
           /\ IF TakesMessage
              THEN /\ acc' = [acc EXCEPT !.text = Append(@, piece), !.bytes = @ + size]
                   /\ buffer' = Append(buffer, Delta("text", piece.id, size, acc.bytes + size))
              ELSE UNCHANGED <<acc, buffer>>
           /\ UNCHANGED <<pc, attempt, connects, elapsed, output, result, received>>

\* A call is retained and shown to nobody; one that cannot be parsed ends the
\* attempt.
ReadCall(size) ==
  /\ pc = "reading" /\ made < MaxPieces
  /\ \/ TooLarge(size)
     \/ /\ Retains(size)
        /\ made' = made + 1
        /\ acc' = [acc EXCEPT !.calls = @ + 1, !.bytes = @ + size]
        /\ UNCHANGED <<pc, attempt, connects, elapsed, buffer, item, output, result, received>>

\* response.completed with its usage
ReadCompleted ==
  /\ pc = "reading"
  /\ pc' = "emitting"
  /\ UNCHANGED <<attempt, connects, elapsed, stream, output, result, received>>

\* The provider fails or is incomplete, sends what cannot be parsed or an event
\* beyond max_event_bytes, breaks off, falls silent, or ends or says DONE before
\* it has completed.
ReadFails(error) ==
  /\ pc = "reading"
  /\ error \in {"Stream", "Protocol", "Transport", "IdleTimeout", "IncompleteStream"}
  /\ Fail(error)
  /\ UNCHANGED received

-----------------------------------------------------------------------------
(* The events of the attempt that completed, and cancellation *)

\* ModelEventForwarder::emit shows a delta while the total is within the limit.
Fits(size) == forwarder.bytes + size <= MaxBytes

\* The loop over the buffer runs inside one poll: no cancellation comes between.
Emit ==
  /\ pc = "emitting" /\ forwarder.taken < Len(buffer)
  /\ LET delta == buffer[forwarder.taken + 1]
     IN /\ forwarder' = [taken |-> forwarder.taken + 1, bytes |-> forwarder.bytes + delta.size]
        /\ shown' = IF Fits(delta.size) THEN Append(shown, delta) ELSE shown
  /\ UNCHANGED <<pc, attempt, connects, elapsed, stream, result, received>>

Return ==
  /\ pc = "emitting" /\ forwarder.taken = Len(buffer)
  /\ pc' = "done" /\ result' = "response"
  /\ UNCHANGED <<attempt, connects, elapsed, stream, output, received>>

\* until_cancelled drops the request at the next poll.
Cancel ==
  /\ pc \in {"sending", "reading", "waiting"}
  /\ pc' = "done" /\ result' = "cancelled"
  /\ UNCHANGED <<attempt, connects, elapsed, stream, output, received>>

-----------------------------------------------------------------------------

RequestStep ==
  \/ Wake \/ ConnectRefused \/ AnswerBegins \/ ReadCompleted \/ Emit \/ Return \/ Cancel
  \/ \E error \in Errors : SendLost(error) \/ AnswerRefused(error) \/ ReadFails(error)
  \/ \E size \in Sizes : ReadReasoning(size) \/ ReadText(size) \/ ReadMessage(size) \/ ReadCall(size)

RequestSpec == RequestInit /\ [][RequestStep]_requestVars

-----------------------------------------------------------------------------
(* Properties *)

TypeOK ==
  /\ pc \in Pcs /\ attempt \in 1..MaxAttempts /\ connects \in 0..ConnectRetries
  /\ elapsed \in Nat
  /\ acc \in [reasoning : Seq(Pieces), text : Seq(Pieces), calls : Nat, bytes : Nat]
  /\ buffer \in Seq(Deltas) /\ item \in Seq(Pieces) /\ made \in Nat
  /\ shown \in Seq(Deltas) /\ forwarder \in [taken : Nat, bytes : Nat]
  /\ result \in Results /\ received \subseteq 1..MaxAttempts

\* Whatever failed before, what the observer was shown is a part of the answer
\* of the attempt that completes, from its beginning and without a gap; all of
\* it once the answer is returned, since an answer the accumulator accepts is
\* never cut by the forwarder's limit; and nothing of an answer that is not
\* returned.  It is shown in order, and nothing twice, although a message item
\* repeats what was streamed of it (complete, apply, BufferedModelEvents,
\* ModelEventForwarder::emit).
OnlyAnswerShown ==
  /\ Len(buffer) = Len(acc.reasoning) + Len(acc.text)
  /\ \A i, j \in DOMAIN buffer : i < j => buffer[i].id < buffer[j].id
  /\ shown = SubSeq(buffer, 1, forwarder.taken)
  /\ result = "response" => shown = buffer
  /\ result \notin {"none", "response"} => shown = <<>>

\* Attempts follow one another up to the limit, a new one never starts after
\* the window, even if the failed ones took all of it, and no request is made
\* twice within one (complete, MAX_TRANSIENT_ATTEMPTS, MAX_RETRY_WINDOW).
RetriesWithinWindow ==
  [][attempt' # attempt =>
       /\ attempt' = attempt + 1 /\ attempt' <= MaxAttempts
       /\ elapsed' <= Window
       /\ attempt' \notin received']_requestVars

\* docs/troubleshooting.md: no request is made again once the provider may have
\* processed one.
NoAmbiguousReplay == Cardinality(received) <= 1
==============================================================================
