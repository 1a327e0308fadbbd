------------------------- MODULE EventDeliveryProofs -------------------------
(***************************************************************************)
(* A stream yields its Turn and nothing else, for any number of streams,   *)
(* Turns, events, restarts and any capacity of bus, pipe and queues.       *)
(***************************************************************************)
EXTENDS EventDelivery, SequenceTheorems, WellFoundedInduction, TLAPS

Kinds == {"turn_started", "delta", "tool", "turn_finished", "steered"}
Events == [kind : Kinds, gen : Nat, turn : Nat, seq : Nat]
Replies == [to : Streams, turn : Nat]
Messages == Events \cup {Error, Overflow}

StreamStates == [pc : {"none", "submitting", "reading", "ended", "failed"}, turn : Nat,
                 steered : BOOLEAN, first : Nat, got : Seq(Events)]
WorkerStates == [turn : Nat, phase : {"idle", "running", "persisting", "steering"}, body : Nat,
                 last : {"none", "turn_finished", "steered"}, seq : Nat]

Types ==
    /\ client \in {"stream", "poll"} /\ process \in {"down", "starting", "ready"}
    /\ gen \in Nat /\ worker \in WorkerStates /\ next \in [Threads -> Nat]
    /\ bus \in Seq(Events) /\ pipe \in Seq(Events \cup Replies) /\ inbox \in Seq(Streams)
    /\ pending \subseteq Streams /\ reader \in BOOLEAN
    /\ stream \in [Streams -> StreamStates] /\ queue \in [Streams -> Seq(Messages)]
    /\ log \in Seq(Events) /\ lagged \in BOOLEAN

-----------------------------------------------------------------------------
(* The log. *)

\* No event is in the log twice: a process numbers its events upwards.
Numbered ==
    /\ \A i, j \in 1..Len(log) : i < j =>
         log[i].gen < log[j].gen \/ (log[i].gen = log[j].gen /\ log[i].seq < log[j].seq)
    /\ \A i \in 1..Len(log) :
         /\ log[i].gen <= gen
         /\ log[i].gen = gen => log[i].seq < next["main"]
         /\ log[i].gen = gen /\ worker.phase = "persisting" => log[i].seq < worker.seq
    /\ worker.phase = "persisting" => worker.seq < next["main"]

\* Turns follow one another, each from its TurnStarted on.
InTurns ==
    /\ \A i \in 1..Len(log) : log[i].turn <= worker.turn
    /\ \A i, j \in 1..Len(log) : i < j =>
         /\ log[i].turn <= log[j].turn
         /\ log[j].kind = "turn_started" => log[i].turn < log[j].turn

Final(event) == event.kind \in {"turn_finished", "steered"}

\* Within a process a Turn goes on until it is finished.
Unbroken ==
    /\ \A i, j \in 1..Len(log) :
         j = i + 1 /\ log[i].gen = log[j].gen /\ ~Final(log[i]) => log[j].turn = log[i].turn
    /\ worker.phase \in {"running", "persisting"} =>
         log # <<>> /\ log[Len(log)].turn = worker.turn /\ ~Final(log[Len(log)])
    /\ worker.phase = "persisting" => worker.last # "none"
    /\ worker.phase \in {"idle", "steering"} /\ process # "down" /\ log # <<>> =>
         log[Len(log)].gen < gen \/ Final(log[Len(log)])

LogInv == Numbered /\ InTurns /\ Unbroken

-----------------------------------------------------------------------------
(* Between the log and the reader: r events were read, m relayed.  A crash loses
   the events in the broadcast channel and the last ones in the pipe. *)

Line(r, m) ==
    /\ r <= m /\ m <= Len(log)
    /\ process # "down" => m + Len(bus) = Len(log)
    /\ \A i \in 1..Len(bus) : bus[i] = log[m + i]
    /\ \A a \in 1..Len(pipe) : pipe[a] \in Replies \/ \E j \in r + 1..m : pipe[a] = log[j]
    /\ \A j \in r + 1..m :
         \/ \E a \in 1..Len(pipe) : pipe[a] = log[j]
         \/ /\ process = "down"
            /\ \A a \in 1..Len(pipe), k \in 1..Len(log) : pipe[a] = log[k] => k < j
    /\ \A a, b \in 1..Len(pipe), j, k \in 1..Len(log) :
         a < b /\ pipe[a] = log[j] /\ pipe[b] = log[k] => j < k
    /\ \A j \in r + 1..Len(log) : log[j].gen = gen

\* A queue holds what was read, in order and without a gap up to a marker.
QueueOK(s, r) ==
    /\ \A k \in 1..Len(queue[s]) :
         queue[s][k] \in {Error, Overflow} \/ \E i \in 1..r : queue[s][k] = log[i]
    /\ \A k, l \in 1..Len(queue[s]), i, j \in 1..Len(log) :
         k < l /\ queue[s][k] = log[i] /\ queue[s][l] = log[j] => i < j
    /\ \A k, l \in 1..Len(queue[s]), i, j \in 1..Len(log) :
         l = k + 1 /\ queue[s][k] = log[i] /\ queue[s][l] = log[j] =>
           j = i + 1 /\ log[i].gen = log[j].gen
    /\ \A i \in 1..Len(log) :
         queue[s] # <<>> /\ queue[s][Len(queue[s])] = log[i] => i = r /\ log[i].gen = gen
    /\ \A k \in 1..Len(queue[s]) : queue[s][k] = Overflow => Len(queue[s]) = 1
    /\ ~reader => queue[s] # <<>> /\ queue[s][Len(queue[s])] \in {Error, Overflow}

\* The beginning of a Turn is on its way to the stream, or the stream will meet
\* a marker first.
Coming(s, turn, r) ==
    \E p \in 1..Len(log) :
        /\ log[p].kind = "turn_started" /\ log[p].turn = turn
        /\ \/ p > r /\ reader
           \/ \E k \in 1..Len(queue[s]) : queue[s][k] = log[p]
           \/ queue[s] = <<Overflow>>
           \/ \E k \in 1..Len(queue[s]) :
                /\ queue[s][k] = Error
                /\ \A l \in 1..Len(queue[s]), i \in 1..Len(log) :
                     l < k /\ queue[s][l] = log[i] => i < p

\* What a stream has yielded is a piece of the log from its TurnStarted on.
Yielded(s) ==
    stream[s].got # <<>> =>
        \E p \in 1..Len(log) :
            /\ log[p].kind = "turn_started" /\ log[p].turn = stream[s].first
            /\ p + Len(stream[s].got) - 1 <= Len(log)
            /\ \A x \in 1..Len(stream[s].got) : stream[s].got[x] = log[p + x - 1]

\* A stream that has begun goes on with the next event.
GoesOn(s, r) ==
    \A g \in 1..Len(log) :
        stream[s].pc = "reading" /\ stream[s].got # <<>>
          /\ stream[s].got[Len(stream[s].got)] = log[g] =>
            /\ stream[s].turn = log[g].turn
            /\ stream[s].steered <=> log[g].kind = "steered"
            /\ log[g].kind # "turn_finished"
            /\ queue[s] = <<>> => g = r /\ log[g].gen = gen
            /\ \A i \in 1..Len(log) :
                 queue[s] # <<>> /\ queue[s][1] = log[i] => i = g + 1 /\ log[g].gen = log[i].gen

\* The Turns whose beginning the stream has yet to see.
Owed(s) ==
    {turn \in Nat :
        \/ stream[s].pc = "reading" /\ stream[s].got = <<>> /\ turn = stream[s].first
        \/ s \in pending /\ turn # 0 /\ \E a \in 1..Len(pipe) : pipe[a] = [to |-> s, turn |-> turn]}

Begins(s, r) ==
    /\ stream[s].pc \in {"none", "submitting"} => stream[s].got = <<>>
    /\ stream[s].pc = "none" =>
         /\ queue[s] = <<>>
         /\ \A x \in 1..Len(inbox) : inbox[x] # s
         /\ \A a \in 1..Len(pipe) : pipe[a] \in Replies => pipe[a].to # s
    /\ stream[s].got = <<>> => ~stream[s].steered
    /\ stream[s].pc = "reading" /\ stream[s].got = <<>> => stream[s].turn = stream[s].first
    /\ s \in pending => stream[s].pc = "submitting"
    /\ \A turn \in Owed(s) : Coming(s, turn, r)

\* Without a process no Turn runs and nothing is in the broadcast channel,
\* without a reader nothing is in the pipe.
ReaderInv ==
    /\ ~reader => process = "down" /\ pipe = <<>>
    /\ process # "ready" => bus = <<>> /\ worker.phase = "idle"

Delivery(r, m) ==
    /\ Line(r, m)
    /\ \A s \in Streams : s \in Registered => QueueOK(s, r)
    /\ \A s \in Streams : GoesOn(s, r) /\ Begins(s, r)

Delivered == client = "stream" /\ ~lagged => \E r, m \in Nat : Delivery(r, m)

\* A client that polls has no streams.
Polls == client = "poll" => pending = {} /\ \A s \in Streams : stream[s] = Quiet

Inv ==
    /\ Types /\ LogInv /\ ReaderInv /\ Polls
    /\ ~lagged => \A s \in Streams : Yielded(s)
    /\ Delivered

-----------------------------------------------------------------------------

LEMMA Kinded ==
    /\ \A e \in Events : e # Error /\ e # Overflow /\ e \notin Replies
    /\ \A e \in Events : "to" \notin DOMAIN e
    /\ \A e \in Replies : "to" \in DOMAIN e
    /\ Error # Overflow
  BY DEF Events, Replies, Error, Overflow, Kinds

LEMMA EventType ==
  ASSUME Types, NEW kind \in Kinds, NEW turn \in Nat, NEW seq \in Nat
  PROVE  /\ Event(kind, turn, seq) \in Events
         /\ Event(kind, turn, seq).kind = kind /\ Event(kind, turn, seq).gen = gen
         /\ Event(kind, turn, seq).turn = turn /\ Event(kind, turn, seq).seq = seq
  BY DEF Event, Events, Types

\* An event has one place in the log.
LEMMA OnePlace ==
  ASSUME Types, Numbered, NEW i \in 1..Len(log), NEW j \in 1..Len(log), log[i] = log[j]
  PROVE  i = j
<1>1. log[i] \in Events /\ log[j] \in Events
  BY DEF Types
<1>2. log[i].gen \in Nat /\ log[i].seq \in Nat
  BY <1>1 DEF Events
<1>3. ~(i < j) /\ ~(j < i)
  BY <1>2 DEF Numbered
<1> QED
  BY <1>3

LEMMA WorkerFacts ==
  ASSUME Types
  PROVE  /\ worker.turn \in Nat /\ worker.body \in Nat /\ worker.seq \in Nat
         /\ worker.phase \in {"idle", "running", "persisting", "steering"}
         /\ worker.last \in {"none", "turn_finished", "steered"}
         /\ next["main"] \in Nat
  BY DEF Types, WorkerStates, Threads

\* An event joins the log.
SendStep(e) ==
    /\ e \in Events /\ e.gen = gen
    /\ log' = Append(log, e) /\ Broadcast(e)
    /\ process = "ready"
    /\ UNCHANGED <<client, process, gen, clientVars>>

LEMMA Appended ==
  ASSUME Types, NEW e \in Events, log' = Append(log, e)
  PROVE  /\ log' \in Seq(Events) /\ Len(log') = Len(log) + 1 /\ Len(log) \in Nat
         /\ \A i \in 1..Len(log) : log'[i] = log[i] /\ log[i] \in Events
         /\ log'[Len(log) + 1] = e
         /\ \A i \in 1..Len(log') : i \in 1..Len(log) \/ i = Len(log) + 1
<1>1. log \in Seq(Events)
  BY DEF Types
<1> QED
  BY <1>1

LEMMA NumberedKept ==
  ASSUME Types, Numbered, NEW e \in Events, log' = Append(log, e), e.gen = gen, UNCHANGED gen,
         \A i \in 1..Len(log) : log[i].gen = gen => log[i].seq < e.seq,
         next'["main"] \in Nat, next["main"] \in Nat, e.seq < next'["main"],
         next["main"] <= next'["main"], worker'.phase # "persisting"
  PROVE  Numbered'
<1>1. /\ Len(log') = Len(log) + 1 /\ Len(log) \in Nat
      /\ \A i \in 1..Len(log) : log'[i] = log[i] /\ log[i] \in Events
      /\ log'[Len(log) + 1] = e
      /\ \A i \in 1..Len(log') : i \in 1..Len(log) \/ i = Len(log) + 1
  BY Appended
<1>2. /\ gen \in Nat /\ e.gen \in Nat /\ e.seq \in Nat
      /\ \A i \in 1..Len(log) : log[i].gen \in Nat /\ log[i].seq \in Nat
  BY <1>1 DEF Types, Events
<1>3. ASSUME NEW i \in 1..Len(log'), NEW j \in 1..Len(log'), i < j
      PROVE  log'[i].gen < log'[j].gen \/ (log'[i].gen = log'[j].gen /\ log'[i].seq < log'[j].seq)
  <2>1. i \in 1..Len(log) /\ log'[i] = log[i]
    BY <1>1, <1>3
  <2>2. CASE j \in 1..Len(log)
    BY <1>1, <1>3, <2>1, <2>2 DEF Numbered
  <2>3. CASE j = Len(log) + 1
    <3>1. log[i].gen <= gen
      BY <2>1 DEF Numbered
    <3> QED
      BY <1>1, <1>2, <2>1, <2>3, <3>1
  <2> QED
    BY <1>1, <2>2, <2>3
<1>4. ASSUME NEW i \in 1..Len(log')
      PROVE  log'[i].gen <= gen /\ (log'[i].gen = gen => log'[i].seq < next'["main"])
  <2>1. CASE i \in 1..Len(log)
    <3>1. log[i].gen <= gen /\ (log[i].gen = gen => log[i].seq < next["main"])
      BY <2>1 DEF Numbered
    <3> QED
      BY <1>1, <1>2, <2>1, <3>1
  <2>2. CASE i = Len(log) + 1
    BY <1>1, <1>2, <2>2
  <2> QED
    BY <1>1, <2>1, <2>2
<1> QED
  BY <1>3, <1>4 DEF Numbered

LEMMA InTurnsKept ==
  ASSUME Types, InTurns, NEW e \in Events, log' = Append(log, e),
         worker'.turn \in Nat, worker.turn <= e.turn, e.turn <= worker'.turn,
         e.kind = "turn_started" => worker.turn < e.turn
  PROVE  InTurns'
<1>1. /\ Len(log') = Len(log) + 1 /\ Len(log) \in Nat
      /\ \A i \in 1..Len(log) : log'[i] = log[i] /\ log[i] \in Events
      /\ log'[Len(log) + 1] = e
      /\ \A i \in 1..Len(log') : i \in 1..Len(log) \/ i = Len(log) + 1
  BY Appended
<1>2. /\ worker.turn \in Nat /\ e.turn \in Nat
      /\ \A i \in 1..Len(log) : log[i].turn \in Nat /\ log[i].turn <= worker.turn
  BY <1>1, WorkerFacts DEF Events, InTurns
<1>3. \A i \in 1..Len(log') : log'[i].turn <= worker'.turn
  <2>1. ASSUME NEW i \in 1..Len(log') PROVE log'[i].turn <= worker'.turn
    <3>1. CASE i \in 1..Len(log)
      BY <1>1, <1>2, <3>1
    <3>2. CASE i = Len(log) + 1
      BY <1>1, <3>2
    <3> QED
      BY <1>1, <3>1, <3>2
  <2> QED
    BY <2>1
<1>4. ASSUME NEW i \in 1..Len(log'), NEW j \in 1..Len(log'), i < j
      PROVE  /\ log'[i].turn <= log'[j].turn
             /\ log'[j].kind = "turn_started" => log'[i].turn < log'[j].turn
  <2>1. i \in 1..Len(log) /\ log'[i] = log[i]
    BY <1>1, <1>4
  <2>2. CASE j \in 1..Len(log)
    BY <1>1, <1>4, <2>1, <2>2 DEF InTurns
  <2>3. CASE j = Len(log) + 1
    BY <1>1, <1>2, <2>1, <2>3
  <2> QED
    BY <1>1, <2>2, <2>3
<1> QED
  BY <1>3, <1>4 DEF InTurns

LEMMA BeginLog ==
  ASSUME Types, LogInv, NEW turn \in Nat, Begin(turn), turn = worker.turn + 1, process = "ready",
         worker.phase \in {"idle", "steering"}, UNCHANGED <<process, gen>>
  PROVE  /\ LogInv'
         /\ worker' \in WorkerStates /\ next' \in [Threads -> Nat]
<1> DEFINE e == Event("turn_started", turn, next["main"])
<1>1. /\ e \in Events /\ e.kind = "turn_started" /\ e.gen = gen /\ e.turn = turn
      /\ e.seq = next["main"] /\ next["main"] \in Nat
  BY EventType, WorkerFacts DEF Kinds
<1>2. log' = Append(log, e) /\ next' = [next EXCEPT !["main"] = @ + 1]
  BY DEF Begin, SendEvent
<1>3. /\ worker' \in WorkerStates /\ worker'.turn = turn /\ worker'.phase = "running"
  BY DEF Begin, Idle, WorkerStates
<1>4. next' \in [Threads -> Nat] /\ next'["main"] = next["main"] + 1
  BY <1>2 DEF Types, Threads
<1> HIDE DEF e
<1>5. /\ log' \in Seq(Events) /\ Len(log') = Len(log) + 1 /\ Len(log) \in Nat
      /\ \A i \in 1..Len(log) : log'[i] = log[i] /\ log[i] \in Events
      /\ log'[Len(log) + 1] = e
      /\ \A i \in 1..Len(log') : i \in 1..Len(log) \/ i = Len(log) + 1
  BY <1>1, <1>2, Appended
<1>6. Numbered'
  <2>1. \A i \in 1..Len(log) : log[i].gen = gen => log[i].seq < e.seq
    BY <1>1 DEF LogInv, Numbered
  <2>2. /\ next'["main"] \in Nat /\ e.seq < next'["main"] /\ next["main"] <= next'["main"]
        /\ worker'.phase # "persisting" /\ Numbered
    BY <1>1, <1>3, <1>4 DEF LogInv
  <2> QED
    BY <1>1, <1>2, <2>1, <2>2, NumberedKept
<1>7. InTurns'
  <2>1. /\ worker'.turn \in Nat /\ worker.turn <= e.turn /\ e.turn <= worker'.turn
        /\ e.kind = "turn_started" => worker.turn < e.turn
        /\ InTurns
    BY <1>1, <1>3, <1>5, WorkerFacts DEF LogInv
  <2> QED
    BY <1>1, <1>2, <2>1, InTurnsKept
<1>8. Unbroken'
  <2>1. ASSUME NEW i \in 1..Len(log'), NEW j \in 1..Len(log'), j = i + 1,
               log'[i].gen = log'[j].gen, ~Final(log'[i])
        PROVE  log'[j].turn = log'[i].turn
    <3>1. CASE j \in 1..Len(log)
      BY <1>5, <2>1, <3>1 DEF LogInv, Unbroken
    <3>2. CASE j = Len(log) + 1
      <4>1. i = Len(log) /\ i \in 1..Len(log) /\ log # <<>> /\ log'[i] = log[i]
        BY <1>5, <2>1, <3>2
      <4>2. log[i].gen < gen \/ Final(log[i])
        BY <4>1 DEF LogInv, Unbroken
      <4>3. log[i].gen \in Nat /\ gen \in Nat
        BY <1>5, <4>1 DEF Events, Types
      <4> QED
        BY <1>1, <1>5, <2>1, <3>2, <4>1, <4>2, <4>3
    <3> QED
      BY <1>5, <3>1, <3>2
  <2>2. log' # <<>> /\ log'[Len(log')].turn = worker'.turn /\ ~Final(log'[Len(log')])
    BY <1>1, <1>3, <1>5 DEF Final
  <2> QED
    BY <1>3, <2>1, <2>2 DEF Unbroken, Final
<1> QED
  BY <1>3, <1>4, <1>6, <1>7, <1>8 DEF LogInv

LEMMA EmitLog ==
  ASSUME Types, LogInv, NEW kind \in {"delta", "tool"}, Emit(kind)
  PROVE  /\ LogInv'
         /\ worker' \in WorkerStates /\ next' \in [Threads -> Nat]
<1> DEFINE e == Event(kind, worker.turn, next["main"])
<1>1. /\ e \in Events /\ e.kind = kind /\ e.gen = gen /\ e.turn = worker.turn
      /\ e.seq = next["main"] /\ next["main"] \in Nat
  BY EventType, WorkerFacts DEF Kinds
<1>2. /\ log' = Append(log, e) /\ next' = [next EXCEPT !["main"] = @ + 1]
      /\ process = "ready" /\ worker.phase = "running" /\ UNCHANGED <<process, gen>>
  BY DEF Emit, SendEvent
<1>3. /\ worker' \in WorkerStates /\ worker'.turn = worker.turn /\ worker'.phase = "running"
  <2>1. worker' = [worker EXCEPT !.body = @ + 1] /\ worker.body + 1 \in Nat
    BY WorkerFacts DEF Emit
  <2> QED
    BY <1>2, <2>1 DEF Types, WorkerStates
<1>4. next' \in [Threads -> Nat] /\ next'["main"] = next["main"] + 1
  BY <1>2 DEF Types, Threads
<1> HIDE DEF e
<1>5. /\ log' \in Seq(Events) /\ Len(log') = Len(log) + 1 /\ Len(log) \in Nat
      /\ \A i \in 1..Len(log) : log'[i] = log[i] /\ log[i] \in Events
      /\ log'[Len(log) + 1] = e
      /\ \A i \in 1..Len(log') : i \in 1..Len(log) \/ i = Len(log) + 1
  BY <1>1, <1>2, Appended
<1>6. Numbered'
  <2>1. \A i \in 1..Len(log) : log[i].gen = gen => log[i].seq < e.seq
    BY <1>1 DEF LogInv, Numbered
  <2>2. /\ next'["main"] \in Nat /\ e.seq < next'["main"] /\ next["main"] <= next'["main"]
        /\ worker'.phase # "persisting" /\ Numbered
    BY <1>1, <1>3, <1>4 DEF LogInv
  <2> QED
    BY <1>1, <1>2, <2>1, <2>2, NumberedKept
<1>7. InTurns'
  <2>1. /\ worker'.turn \in Nat /\ worker.turn <= e.turn /\ e.turn <= worker'.turn
        /\ e.kind = "turn_started" => worker.turn < e.turn
        /\ InTurns
    BY <1>1, <1>3, <1>5, WorkerFacts DEF LogInv
  <2> QED
    BY <1>1, <1>2, <2>1, InTurnsKept
<1>8. Unbroken'
  <2>1. ASSUME NEW i \in 1..Len(log'), NEW j \in 1..Len(log'), j = i + 1,
               log'[i].gen = log'[j].gen, ~Final(log'[i])
        PROVE  log'[j].turn = log'[i].turn
    <3>1. CASE j \in 1..Len(log)
      BY <1>5, <2>1, <3>1 DEF LogInv, Unbroken
    <3>2. CASE j = Len(log) + 1
      <4>1. i = Len(log) /\ i \in 1..Len(log) /\ log'[i] = log[i]
        BY <1>5, <2>1, <3>2
      <4> QED
        BY <1>1, <1>2, <1>5, <3>2, <4>1 DEF LogInv, Unbroken
    <3> QED
      BY <1>5, <3>1, <3>2
  <2>2. log' # <<>> /\ log'[Len(log')].turn = worker'.turn /\ ~Final(log'[Len(log')])
    BY <1>1, <1>3, <1>5 DEF Final
  <2> QED
    BY <1>3, <2>1, <2>2 DEF Unbroken, Final
<1> QED
  BY <1>3, <1>4, <1>6, <1>7, <1>8 DEF LogInv

LEMMA SettleLog ==
  ASSUME Types, LogInv, Settle
  PROVE  /\ LogInv' /\ worker' \in WorkerStates
<1> DEFINE e == Event(worker.last, worker.turn, worker.seq)
<1>0. /\ worker.phase = "persisting" /\ process = "ready" /\ UNCHANGED <<process, gen, next>>
      /\ worker.last \in {"turn_finished", "steered"}
  BY WorkerFacts DEF Settle, LogInv, Unbroken
<1>1. /\ e \in Events /\ e.kind = worker.last /\ e.gen = gen /\ e.turn = worker.turn
      /\ e.seq = worker.seq /\ next["main"] \in Nat /\ worker.seq \in Nat
  BY <1>0, EventType, WorkerFacts DEF Kinds
<1>2. log' = Append(log, e)
  BY DEF Settle, SendEvent
<1>3. /\ worker' \in WorkerStates /\ worker'.turn = worker.turn
      /\ worker'.phase \in {"idle", "steering"}
  BY WorkerFacts DEF Settle, Idle, WorkerStates
<1> HIDE DEF e
<1>5. /\ log' \in Seq(Events) /\ Len(log') = Len(log) + 1 /\ Len(log) \in Nat
      /\ \A i \in 1..Len(log) : log'[i] = log[i] /\ log[i] \in Events
      /\ log'[Len(log) + 1] = e
      /\ \A i \in 1..Len(log') : i \in 1..Len(log) \/ i = Len(log) + 1
  BY <1>1, <1>2, Appended
<1>6. Numbered'
  <2>1. \A i \in 1..Len(log) : log[i].gen = gen => log[i].seq < e.seq
    BY <1>0, <1>1 DEF LogInv, Numbered
  <2>2. /\ next'["main"] \in Nat /\ e.seq < next'["main"] /\ next["main"] <= next'["main"]
        /\ worker'.phase # "persisting" /\ Numbered
    BY <1>0, <1>1, <1>3 DEF LogInv, Numbered
  <2> QED
    BY <1>0, <1>1, <1>2, <2>1, <2>2, NumberedKept
<1>7. InTurns'
  <2>1. /\ worker'.turn \in Nat /\ worker.turn <= e.turn /\ e.turn <= worker'.turn
        /\ e.kind = "turn_started" => worker.turn < e.turn
        /\ InTurns
    BY <1>0, <1>1, <1>3, <1>5, WorkerFacts DEF LogInv
  <2> QED
    BY <1>1, <1>2, <2>1, InTurnsKept
<1>8. Unbroken'
  <2>1. ASSUME NEW i \in 1..Len(log'), NEW j \in 1..Len(log'), j = i + 1,
               log'[i].gen = log'[j].gen, ~Final(log'[i])
        PROVE  log'[j].turn = log'[i].turn
    <3>1. CASE j \in 1..Len(log)
      BY <1>5, <2>1, <3>1 DEF LogInv, Unbroken
    <3>2. CASE j = Len(log) + 1
      <4>1. i = Len(log) /\ i \in 1..Len(log) /\ log'[i] = log[i]
        BY <1>5, <2>1, <3>2
      <4> QED
        BY <1>0, <1>1, <1>5, <3>2, <4>1 DEF LogInv, Unbroken
    <3> QED
      BY <1>5, <3>1, <3>2
  <2>2. Final(log'[Len(log')])
    BY <1>0, <1>1, <1>5 DEF Final
  <2> QED
    BY <1>3, <2>1, <2>2 DEF Unbroken, Final
<1> QED
  BY <1>3, <1>6, <1>7, <1>8 DEF LogInv

LEMMA FinishLog ==
  ASSUME Types, LogInv, NEW kind \in {"turn_finished", "steered"}, Finish(kind)
  PROVE  /\ LogInv'
         /\ worker' \in WorkerStates /\ next' \in [Threads -> Nat]
<1>1. /\ worker' = [worker EXCEPT !.phase = "persisting", !.last = kind, !.seq = next["main"]]
      /\ next' = [next EXCEPT !["main"] = @ + 1] /\ worker.phase = "running"
      /\ UNCHANGED <<process, gen, log>> /\ next["main"] \in Nat
  BY WorkerFacts DEF Finish
<1>2. /\ worker' \in WorkerStates /\ worker'.turn = worker.turn /\ worker'.phase = "persisting"
      /\ worker'.last = kind /\ worker'.seq = next["main"]
  BY <1>1 DEF Types, WorkerStates
<1>3. next' \in [Threads -> Nat] /\ next'["main"] = next["main"] + 1
  BY <1>1 DEF Types, Threads
<1>4. \A i \in 1..Len(log) : log[i] \in Events
  BY DEF Types
<1>5. Numbered'
  <2>1. /\ log' = log /\ gen' = gen /\ next'["main"] = next["main"] + 1
        /\ worker'.seq = next["main"] /\ next["main"] \in Nat
        /\ \A i \in 1..Len(log) : log[i].seq \in Nat
    BY <1>1, <1>2, <1>3, <1>4 DEF Events
  <2>2. \A i \in 1..Len(log) : log[i].gen = gen => log[i].seq < next["main"] /\ log[i].seq < next["main"] + 1
    BY <2>1 DEF LogInv, Numbered
  <2> QED
    BY <2>1, <2>2 DEF LogInv, Numbered
<1>6. InTurns' /\ Unbroken'
  BY <1>1, <1>2 DEF LogInv, InTurns, Unbroken
<1> QED
  BY <1>2, <1>3, <1>5, <1>6 DEF LogInv

Base == Types /\ LogInv /\ ReaderInv /\ Polls

LEMMA BroadcastFacts ==
  ASSUME Types, NEW e \in Events, Broadcast(e)
  PROVE  bus' \in Seq(Events) /\ lagged' \in BOOLEAN
<1>1. bus \in Seq(Events) /\ lagged \in BOOLEAN /\ BusCap \in Nat /\ BusCap # 0
  BY EventDeliveryAssumption DEF Types
<1>2. Append(bus, e) \in Seq(Events)
  BY <1>1
<1>3. CASE Len(bus) = BusCap
  <2>1. bus # <<>>
    BY <1>1, <1>3
  <2>2. Tail(bus) \in Seq(Events)
    BY <1>1, <2>1
  <2>3. Append(Tail(bus), e) \in Seq(Events)
    BY <2>2
  <2> QED
    BY <1>1, <1>2, <1>3, <2>3 DEF Broadcast
<1>4. CASE Len(bus) # BusCap
  BY <1>1, <1>2, <1>4 DEF Broadcast
<1> QED
  BY <1>3, <1>4

\* Steps that leave the log and what it is followed by alone.
LEMMA SameLog ==
  ASSUME LogInv, UNCHANGED <<log, worker, gen>>, next'["main"] = next["main"],
         process' = process \/ process = "starting" \/ process' = "down"
  PROVE  LogInv'
  BY DEF LogInv, Numbered, InTurns, Unbroken

\* The steps of the worker that send an event.
LEMMA SubmitBase ==
  ASSUME Base, NEW s \in Streams, Submit(s)
  PROVE  Base'
<1>1. /\ process = "ready" /\ inbox # <<>> /\ inbox' = Tail(inbox)
      /\ UNCHANGED <<client, process, gen, pending, reader, stream, queue>>
      /\ inbox' \in Seq(Streams) /\ worker.turn + 1 \in Nat /\ Types /\ LogInv
      /\ pipe \in Seq(Events \cup Replies)
  <2>1. /\ process = "ready" /\ inbox # <<>> /\ inbox' = Tail(inbox)
        /\ UNCHANGED <<client, process, gen, pending, reader, stream, queue>>
    BY DEF Submit, clientVars
  <2>2. inbox \in Seq(Streams) /\ pipe \in Seq(Events \cup Replies) /\ Types /\ LogInv
    BY DEF Base, Types
  <2>3. inbox' \in Seq(Streams)
    BY <2>1, <2>2
  <2> QED
    BY <2>1, <2>2, <2>3, WorkerFacts
<1>2. CASE worker.phase = "idle" /\ worker.turn < MaxTurns
  <2>1. Begin(worker.turn + 1) /\ pipe' = Append(pipe, [to |-> s, turn |-> worker.turn + 1])
    BY <1>2 DEF Submit
  <2>2. LogInv' /\ worker' \in WorkerStates /\ next' \in [Threads -> Nat]
    BY <1>1, <1>2, <2>1, BeginLog
  <2>3. Event("turn_started", worker.turn + 1, next["main"]) \in Events
    BY <1>1, EventType, WorkerFacts DEF Kinds
  <2>4. log' \in Seq(Events) /\ bus' \in Seq(Events) /\ lagged' \in BOOLEAN
    BY <1>1, <2>1, <2>3, BroadcastFacts, Appended DEF Begin, SendEvent
  <2>5. [to |-> s, turn |-> worker.turn + 1] \in Replies
    BY <1>1 DEF Replies
  <2>6. pipe' \in Seq(Events \cup Replies)
    BY <1>1, <2>1, <2>5
  <2>7. Types'
    BY <1>1, <2>2, <2>4, <2>6 DEF Types
  <2> QED
    BY <1>1, <2>2, <2>7 DEF Base, ReaderInv, Polls
<1>3. CASE ~(worker.phase = "idle" /\ worker.turn < MaxTurns)
  <2>1. /\ pipe' = Append(pipe, [to |-> s, turn |-> 0])
        /\ UNCHANGED <<worker, next, bus, log, lagged>>
    BY <1>3 DEF Submit, serverVars
  <2>2. [to |-> s, turn |-> 0] \in Replies
    BY DEF Replies
  <2>3. pipe' \in Seq(Events \cup Replies)
    BY <1>1, <2>1, <2>2
  <2>4. Types'
    BY <1>1, <2>1, <2>3 DEF Types
  <2>5. LogInv'
    BY <1>1, <2>1, SameLog
  <2> QED
    BY <1>1, <2>1, <2>4, <2>5 DEF Base, ReaderInv, Polls
<1> QED
  BY <1>2, <1>3

LEMMA BeginBase ==
  ASSUME Base, StartOther \/ Continue
  PROVE  Base'
<1>1. /\ process = "ready" /\ Begin(worker.turn + 1) /\ worker.phase \in {"idle", "steering"}
      /\ UNCHANGED <<client, process, gen, pipe, inbox, pending, reader, stream, queue>>
      /\ worker.turn + 1 \in Nat /\ Types /\ LogInv
  BY WorkerFacts DEF StartOther, Continue, clientVars, Base
<1>2. LogInv' /\ worker' \in WorkerStates /\ next' \in [Threads -> Nat]
  BY <1>1, BeginLog
<1>3. Event("turn_started", worker.turn + 1, next["main"]) \in Events
  BY <1>1, EventType, WorkerFacts DEF Kinds
<1>4. log' \in Seq(Events) /\ bus' \in Seq(Events) /\ lagged' \in BOOLEAN
  BY <1>1, <1>3, BroadcastFacts, Appended DEF Begin, SendEvent
<1>5. Types'
  BY <1>1, <1>2, <1>4 DEF Types
<1> QED
  BY <1>1, <1>2, <1>5 DEF Base, ReaderInv, Polls

LEMMA EmitBase ==
  ASSUME Base, NEW kind \in {"delta", "tool"}, Emit(kind)
  PROVE  Base'
<1>1. /\ process = "ready" /\ SendEvent(Event(kind, worker.turn, next["main"]))
      /\ UNCHANGED <<client, process, gen, pipe, inbox, pending, reader, stream, queue>>
      /\ Types /\ LogInv
  BY DEF Emit, clientVars, Base
<1>2. LogInv' /\ worker' \in WorkerStates /\ next' \in [Threads -> Nat]
  BY <1>1, EmitLog
<1>3. Event(kind, worker.turn, next["main"]) \in Events
  BY <1>1, EventType, WorkerFacts DEF Kinds
<1>4. log' \in Seq(Events) /\ bus' \in Seq(Events) /\ lagged' \in BOOLEAN
  BY <1>1, <1>3, BroadcastFacts, Appended DEF SendEvent
<1>5. Types'
  BY <1>1, <1>2, <1>4 DEF Types
<1> QED
  BY <1>1, <1>2, <1>5 DEF Base, ReaderInv, Polls

LEMMA SettleBase ==
  ASSUME Base, Settle
  PROVE  Base'
<1>1. /\ process = "ready" /\ SendEvent(Event(worker.last, worker.turn, worker.seq))
      /\ UNCHANGED <<client, process, gen, next, pipe, inbox, pending, reader, stream, queue>>
      /\ Types /\ LogInv /\ worker.last \in {"turn_finished", "steered"}
  BY WorkerFacts DEF Settle, clientVars, Base, LogInv, Unbroken
<1>2. LogInv' /\ worker' \in WorkerStates
  BY <1>1, SettleLog
<1>3. Event(worker.last, worker.turn, worker.seq) \in Events
  BY <1>1, EventType, WorkerFacts DEF Kinds
<1>4. log' \in Seq(Events) /\ bus' \in Seq(Events) /\ lagged' \in BOOLEAN
  BY <1>1, <1>3, BroadcastFacts, Appended DEF SendEvent
<1>5. Types'
  BY <1>1, <1>2, <1>4 DEF Types
<1> QED
  BY <1>1, <1>2, <1>5 DEF Base, ReaderInv, Polls

LEMMA FinishBase ==
  ASSUME Base, NEW kind \in {"turn_finished", "steered"}, Finish(kind)
  PROVE  Base'
<1>1. /\ process = "ready"
      /\ UNCHANGED <<client, process, gen, bus, log, lagged, pipe, inbox, pending, reader, stream, queue>>
      /\ Types /\ LogInv
  BY DEF Finish, clientVars, Base
<1>2. LogInv' /\ worker' \in WorkerStates /\ next' \in [Threads -> Nat]
  BY <1>1, FinishLog
<1>3. Types'
  BY <1>1, <1>2 DEF Types
<1> QED
  BY <1>1, <1>2, <1>3 DEF Base, ReaderInv, Polls

LEMMA MessageFacts ==
  ASSUME Types, NEW message \in Messages, NEW s \in Streams
  PROVE  /\ Enqueue(s, message) \in Seq(Messages)
         /\ Publish(message) \in [Streams -> Seq(Messages)]
<1>1. ASSUME NEW t \in Streams PROVE Enqueue(t, message) \in Seq(Messages)
  <2>1. queue[t] \in Seq(Messages) /\ Overflow \in Messages
    BY DEF Types, Messages
  <2>2. <<Overflow>> \in Seq(Messages) /\ Append(queue[t], message) \in Seq(Messages)
    BY <2>1
  <2> QED
    BY <2>1, <2>2 DEF Enqueue
<1> QED
  BY <1>1 DEF Publish, Types

LEMMA StreamFacts ==
  ASSUME Types, NEW s \in Streams
  PROVE  /\ stream[s] \in StreamStates /\ queue[s] \in Seq(Messages)
         /\ stream[s].turn \in Nat /\ stream[s].first \in Nat /\ stream[s].steered \in BOOLEAN
         /\ stream[s].got \in Seq(Events)
         /\ stream[s].pc \in {"none", "submitting", "reading", "ended", "failed"}
         /\ Fail(s) \in StreamStates
         /\ Fail(s).pc = "failed" /\ Fail(s).got = stream[s].got /\ Fail(s).first = stream[s].first
         /\ Fail(s).steered = stream[s].steered
  BY DEF Types, StreamStates, Fail

LEMMA RelayBase ==
  ASSUME Base, Relay
  PROVE  Base'
<1>1. /\ process = "ready" /\ bus # <<>> /\ bus' = Tail(bus) /\ pipe' = Append(pipe, Head(bus))
      /\ UNCHANGED <<client, process, gen, worker, next, log, lagged, inbox, pending, reader, stream, queue>>
      /\ bus \in Seq(Events) /\ pipe \in Seq(Events \cup Replies)
  BY DEF Relay, clientVars, Base, Types
<1>2. Head(bus) \in Events /\ Tail(bus) \in Seq(Events)
  BY <1>1
<1>3. pipe' \in Seq(Events \cup Replies)
  BY <1>1, <1>2
<1>4. Types' /\ LogInv'
  BY <1>1, <1>2, <1>3, SameLog DEF Base, Types
<1> QED
  BY <1>1, <1>4 DEF Base, ReaderInv, Polls

LEMMA ReadBase ==
  ASSUME Base, ReadReply \/ ReadEvent
  PROVE  Base'
<1>1. /\ reader /\ pipe # <<>> /\ pipe' = Tail(pipe) /\ pipe' \in Seq(Events \cup Replies)
      /\ UNCHANGED <<client, process, gen, worker, next, bus, log, lagged, inbox, reader>>
      /\ Types /\ Head(pipe) \in Events \cup Replies
  <2>1. pipe \in Seq(Events \cup Replies) /\ pipe # <<>>
    BY DEF ReadReply, ReadEvent, Base, Types
  <2>2. Tail(pipe) \in Seq(Events \cup Replies) /\ Head(pipe) \in Events \cup Replies
    BY <2>1
  <2> QED
    BY <2>2 DEF ReadReply, ReadEvent, serverVars, Base
<1>2. CASE ReadEvent
  <2>1. Head(pipe) \in Messages /\ queue' = Publish(Head(pipe)) /\ UNCHANGED <<pending, stream>>
    BY <1>1, <1>2, Kinded DEF ReadEvent, Messages
  <2>2. queue' \in [Streams -> Seq(Messages)]
    <3>1. CASE Streams = {}
      BY <2>1, <3>1 DEF Publish
    <3>2. CASE Streams # {}
      BY <1>1, <2>1, <3>2, MessageFacts
    <3> QED
      BY <3>1, <3>2
  <2>3. Types' /\ LogInv'
    BY <1>1, <2>1, <2>2, SameLog DEF Base, Types
  <2> QED
    BY <1>1, <2>1, <2>3 DEF Base, ReaderInv, Polls
<1>3. CASE ReadReply
  <2> DEFINE reply == Head(pipe)
  <2>1. reply \in Replies /\ reply.to \in Streams /\ reply.turn \in Nat
    BY <1>1, <1>3, Kinded DEF ReadReply, Replies
  <2> DEFINE r == [stream[reply.to] EXCEPT !.pc = IF reply.turn = 0 THEN "ended" ELSE "reading",
                                           !.turn = reply.turn, !.first = reply.turn]
  <2>2. /\ pending' = pending \ {reply.to}
        /\ stream' = IF reply.to \notin pending THEN stream ELSE [stream EXCEPT ![reply.to] = r]
        /\ queue' = [s \in Streams |-> IF stream'[s].pc = "ended" THEN <<>> ELSE queue[s]]
    BY <1>3 DEF ReadReply
  <2>3. r \in StreamStates
    BY <1>1, <2>1, StreamFacts DEF StreamStates
  <2> HIDE DEF r
  <2>4. stream' \in [Streams -> StreamStates]
    BY <1>1, <2>1, <2>2, <2>3 DEF Types
  <2>5. queue' \in [Streams -> Seq(Messages)]
    BY <1>1, <2>2 DEF Types
  <2>6. Types' /\ LogInv'
    BY <1>1, <2>2, <2>4, <2>5, SameLog DEF Base, Types
  <2>7. Polls'
    <3>1. CASE client = "poll"
      <4>1. \A s \in Streams : stream[s] = Quiet
        BY <3>1 DEF Base, Polls
      <4>2. pending = {}
        BY <3>1 DEF Base, Polls
      <4>3. stream' = stream /\ pending' = {}
        BY <2>2, <4>2
      <4> QED
        BY <1>1, <4>1, <4>3 DEF Polls
    <3> QED
      BY <1>1, <3>1 DEF Polls
  <2> QED
    BY <1>1, <2>6, <2>7 DEF Base, ReaderInv
<1> QED
  BY <1>2, <1>3

LEMMA EndBase ==
  ASSUME Base, ReadEof \/ Stop
  PROVE  Base'
<1>0. Types /\ Error \in Messages
  BY DEF Base, Messages
<1>1. /\ process' = "down" /\ reader' = FALSE /\ pending' = {} /\ pipe' = <<>> /\ bus' = <<>>
      /\ queue' = Publish(Error)
      /\ stream' = [s \in Streams |-> IF s \in pending THEN Fail(s) ELSE stream[s]]
      /\ UNCHANGED <<client, gen, log, lagged>> /\ next'["main"] = next["main"]
      /\ next' \in [Threads -> Nat]
  BY DEF ReadEof, Stop, serverVars, Base, ReaderInv, Types
<1>2. /\ worker' \in WorkerStates /\ worker'.phase = "idle" /\ worker'.turn = worker.turn
  <2>1. CASE ReadEof
    BY <2>1 DEF ReadEof, serverVars, Base, ReaderInv, Types
  <2>2. CASE Stop
    BY <1>0, <2>2, WorkerFacts DEF Stop, Idle, WorkerStates
  <2> QED
    BY <2>1, <2>2
<1>3. inbox' \in Seq(Streams)
  <2>1. <<>> \in Seq(Streams) /\ inbox \in Seq(Streams)
    BY <1>0 DEF Types
  <2>2. inbox' = inbox \/ inbox' = <<>>
    BY DEF ReadEof, Stop
  <2> QED
    BY <2>1, <2>2
<1>4. stream' \in [Streams -> StreamStates]
  BY <1>0, <1>1, StreamFacts
<1>5. queue' \in [Streams -> Seq(Messages)]
  <2>1. CASE Streams = {}
    BY <1>1, <2>1 DEF Publish
  <2>2. CASE Streams # {}
    BY <1>0, <1>1, <2>2, MessageFacts
  <2> QED
    BY <2>1, <2>2
<1>6. Types'
  <2>1. <<>> \in Seq(Events) /\ <<>> \in Seq(Events \cup Replies) /\ {} \in SUBSET Streams
    OBVIOUS
  <2> QED
    BY <1>0, <1>1, <1>2, <1>3, <1>4, <1>5, <2>1 DEF Types
<1>7. LogInv'
  <2>1. LogInv
    BY DEF Base
  <2>2. Numbered'
    BY <1>1, <1>2, <2>1 DEF LogInv, Numbered
  <2>3. InTurns' /\ Unbroken'
    BY <1>1, <1>2, <2>1 DEF LogInv, InTurns, Unbroken
  <2> QED
    BY <2>2, <2>3 DEF LogInv
<1>8. Polls'
  <2>1. CASE client = "poll"
    <3>1. \A s \in Streams : stream[s] = Quiet /\ s \notin pending
      BY <2>1 DEF Base, Polls
    <3> QED
      BY <1>1, <3>1 DEF Polls
  <2> QED
    BY <1>1, <2>1 DEF Polls
<1> QED
  BY <1>1, <1>2, <1>6, <1>7, <1>8 DEF Base, ReaderInv

LEMMA ClientBase ==
  ASSUME Base, NEW s \in Streams, StreamStart(s) \/ StreamTimeout(s) \/ StreamTake(s)
  PROVE  Base'
<1>0. Types /\ LogInv /\ inbox \in Seq(Streams)
  BY DEF Base, Types
<1>1. /\ UNCHANGED <<process, client, gen, worker, next, bus, log, lagged, pipe, reader>>
      /\ LogInv'
  <2>1. UNCHANGED <<process, client, gen, worker, next, bus, log, lagged, pipe, reader>>
    BY DEF StreamStart, StreamTimeout, StreamTake, serverVars
  <2> QED
    BY <1>0, <2>1, SameLog
<1>2. /\ inbox' \in Seq(Streams) /\ pending' \in SUBSET Streams
      /\ stream' \in [Streams -> StreamStates] /\ queue' \in [Streams -> Seq(Messages)]
      /\ client = "poll" => stream' = stream /\ pending' = {}
  <2>1. CASE StreamStart(s)
    <3>1. Append(inbox, s) \in Seq(Streams)
      BY <1>0
    <3>2. [stream[s] EXCEPT !.pc = "submitting"] \in StreamStates
      BY <1>0, StreamFacts DEF StreamStates
    <3>3. stream' = [stream EXCEPT ![s] = [stream[s] EXCEPT !.pc = "submitting"]]
      BY <2>1 DEF StreamStart
    <3>4. stream' \in [Streams -> StreamStates]
      BY <1>0, <3>2, <3>3 DEF Types
    <3> QED
      BY <1>0, <2>1, <3>1, <3>4 DEF StreamStart, Types
  <2>2. CASE StreamTimeout(s)
    <3>1. Fail(s) \in StreamStates /\ <<>> \in Seq(Messages)
      BY <1>0, StreamFacts
    <3>2. client # "poll"
      BY <2>2 DEF StreamTimeout, Base, Polls
    <3> QED
      BY <1>0, <2>2, <3>1, <3>2 DEF StreamTimeout, Types
  <2>3. CASE StreamTake(s)
    <3> DEFINE event == Head(queue[s])
    <3>1. /\ queue[s] \in Seq(Messages) /\ queue[s] # <<>> /\ event \in Messages
          /\ Tail(queue[s]) \in Seq(Messages) /\ <<>> \in Seq(Messages)
      BY <1>0, <2>3, StreamFacts DEF StreamTake
    <3>2. stream[s].pc = "reading" /\ UNCHANGED <<inbox, pending>>
      BY <2>3 DEF StreamTake
    <3>a. client # "poll"
      BY <3>2 DEF Base, Polls, Quiet
    <3>3. CASE event \in {Error, Overflow}
      <4>1. Fail(s) \in StreamStates
        BY <1>0, StreamFacts
      <4> QED
        BY <1>0, <2>3, <3>1, <3>2, <3>3, <3>a, <4>1 DEF StreamTake, Types
    <3>4. CASE event \notin {Error, Overflow} /\ ~Accepts(s, event)
      <4>1. queue' = [queue EXCEPT ![s] = Tail(queue[s])] /\ UNCHANGED stream
        BY <2>3, <3>4 DEF StreamTake
      <4> QED
        BY <1>0, <3>1, <3>2, <3>a, <4>1 DEF Types
    <3>5. CASE event \notin {Error, Overflow} /\ Accepts(s, event)
      <4>1. event \in Events /\ event.turn \in Nat
        BY <3>1, <3>5 DEF Messages, Events
      <4> DEFINE r == [stream[s] EXCEPT !.turn = event.turn, !.got = Append(@, event),
                                        !.steered = event.kind = "steered",
                                        !.pc = IF event.kind = "turn_finished" THEN "ended" ELSE "reading"]
                 q == IF event.kind = "turn_finished" THEN <<>> ELSE Tail(queue[s])
      <4>2. stream' = [stream EXCEPT ![s] = r] /\ queue' = [queue EXCEPT ![s] = q]
        <5> HIDE DEF r, q
        <5>1. \/ event \in {Error, Overflow}
              \/ ~Accepts(s, event)
              \/ stream' = [stream EXCEPT ![s] = r] /\ queue' = [queue EXCEPT ![s] = q]
          BY <2>3, Zenon DEF StreamTake, r, q
        <5> QED
          BY <3>5, <5>1, Zenon
      <4>3. Append(stream[s].got, event) \in Seq(Events) /\ (event.kind = "steered") \in BOOLEAN
        BY <1>0, <4>1, StreamFacts
      <4>4. r \in StreamStates
        BY <1>0, <4>1, <4>3, StreamFacts, ZenonT(60) DEF StreamStates
      <4>5. q \in Seq(Messages)
        BY <3>1
      <4> HIDE DEF r, q
      <4> QED
        BY <1>0, <3>2, <3>a, <4>2, <4>4, <4>5 DEF Types
    <3> QED
      BY <3>3, <3>4, <3>5
  <2> QED
    BY <2>1, <2>2, <2>3
<1>3. Types'
  BY <1>0, <1>1, <1>2 DEF Types
<1>4. Polls'
  BY <1>1, <1>2 DEF Base, Polls
<1> QED
  BY <1>1, <1>3, <1>4 DEF Base, ReaderInv

LEMMA ProcessBase ==
  ASSUME Base, Crash \/ Spawn \/ Initialize \/ InitializeFails
  PROVE  Base'
<1>0. Types /\ LogInv /\ UNCHANGED <<log, client, lagged, pending, stream, queue>>
  BY DEF Base, Crash, Spawn, Initialize, InitializeFails, serverVars, clientVars
<1>1. CASE Crash
  <2>1. /\ process' = "down" /\ bus' = <<>> /\ inbox' = <<>> /\ UNCHANGED <<gen, next, reader>>
        /\ worker' = [Idle EXCEPT !.turn = worker.turn] /\ process # "down"
    BY <1>1 DEF Crash, clientVars
  <2>2. /\ worker' \in WorkerStates /\ worker'.phase = "idle" /\ worker'.turn = worker.turn
    BY <1>0, <2>1, WorkerFacts DEF Idle, WorkerStates
  <2>3. pipe' \in Seq(Events \cup Replies)
    <3>1. PICK n \in 0..Len(pipe) : pipe' = SubSeq(pipe, 1, n)
      BY <1>1 DEF Crash
    <3>2. pipe \in Seq(Events \cup Replies)
      BY <1>0 DEF Types
    <3> QED
      BY <3>1, <3>2
  <2>4. Types'
    BY <1>0, <2>1, <2>2, <2>3 DEF Types
  <2>5. Numbered'
    BY <1>0, <2>1, <2>2 DEF LogInv, Numbered
  <2>6. InTurns' /\ Unbroken'
    BY <1>0, <2>1, <2>2 DEF LogInv, InTurns, Unbroken
  <2>7. reader
    BY <2>1 DEF Base, ReaderInv
  <2> QED
    BY <1>0, <2>1, <2>2, <2>4, <2>5, <2>6, <2>7 DEF Base, LogInv, ReaderInv, Polls
<1>2. CASE Spawn
  <2>1. /\ process = "down" /\ process' = "starting" /\ gen' = gen + 1 /\ reader' = TRUE
        /\ next' = [t \in Threads |-> 1] /\ UNCHANGED <<worker, bus, pipe, inbox>>
        /\ worker.phase = "idle"
    BY <1>2 DEF Spawn, Base, ReaderInv
  <2>2. Types'
    BY <1>0, <2>1 DEF Types
  <2>3. \A i \in 1..Len(log) : log[i].gen \in Nat /\ log[i].gen <= gen /\ gen \in Nat
    <3>1. log \in Seq(Events) /\ gen \in Nat
      BY <1>0 DEF Types
    <3>2. \A i \in 1..Len(log) : log[i] \in Events
      BY <3>1
    <3>3. \A i \in 1..Len(log) : log[i].gen <= gen
      BY <1>0 DEF LogInv, Numbered
    <3> QED
      BY <3>1, <3>2, <3>3 DEF Events
  <2>4. Numbered'
    BY <1>0, <2>1, <2>3 DEF LogInv, Numbered
  <2>5. InTurns'
    BY <1>0, <2>1 DEF LogInv, InTurns
  <2>6. Unbroken'
    <3>1. log # <<>> => log[Len(log)].gen < gen'
      <4>1. log \in Seq(Events)
        BY <1>0 DEF Types
      <4>2. log # <<>> => Len(log) \in 1..Len(log)
        BY <4>1
      <4> QED
        BY <2>1, <2>3, <4>2
    <3> QED
      BY <1>0, <2>1, <3>1 DEF LogInv, Unbroken
  <2> QED
    BY <1>0, <2>1, <2>2, <2>4, <2>5, <2>6 DEF Base, LogInv, ReaderInv, Polls
<1>3. CASE Initialize
  <2>1. /\ process = "starting" /\ process' = "ready"
        /\ UNCHANGED <<gen, worker, next, bus, pipe, inbox, reader>>
    BY <1>3 DEF Initialize, clientVars
  <2>2. Types' /\ LogInv'
    BY <1>0, <2>1, SameLog DEF Types
  <2> QED
    BY <1>0, <2>1, <2>2 DEF Base, ReaderInv, Polls
<1>4. CASE InitializeFails
  <2>1. /\ process = "starting" /\ process' = "down"
        /\ UNCHANGED <<gen, worker, next, bus, pipe, inbox, reader>>
    BY <1>4 DEF InitializeFails, clientVars, serverVars
  <2>2. Types' /\ LogInv'
    BY <1>0, <2>1, SameLog DEF Types
  <2> QED
    BY <1>0, <2>1, <2>2 DEF Base, ReaderInv, Polls
<1> QED
  BY <1>1, <1>2, <1>3, <1>4

LEMMA QuietBase ==
  ASSUME Base, SideEvent \/ Replay
  PROVE  Base'
<1>0. Types /\ LogInv
  BY DEF Base
<1>1. UNCHANGED <<client, process, gen, worker, bus, log, lagged, pipe, inbox, pending, reader, stream, queue>>
  BY DEF SideEvent, Replay, serverVars, clientVars
<1>2. next' \in [Threads -> Nat] /\ next'["main"] = next["main"]
  BY <1>0 DEF SideEvent, Replay, serverVars, Types, Threads
<1>3. Types' /\ LogInv'
  BY <1>0, <1>1, <1>2, SameLog DEF Types
<1> QED
  BY <1>1, <1>3 DEF Base, ReaderInv, Polls

-----------------------------------------------------------------------------

LEMMA LogFacts ==
  ASSUME Types
  PROVE  /\ Len(log) \in Nat
         /\ \A i \in 1..Len(log) : /\ log[i] \in Events /\ log[i] # Error /\ log[i] # Overflow
                                    /\ log[i] \notin Replies
         /\ Error # Overflow
<1>1. log \in Seq(Events)
  BY DEF Types
<1>2. \A i \in 1..Len(log) : log[i] \in Events
  BY <1>1
<1> QED
  BY <1>1, <1>2, Kinded

LEMMA EnqueueFacts ==
  ASSUME Types, NEW s \in Streams, NEW message, queue'[s] = Enqueue(s, message)
  PROVE  \/ /\ queue'[s] = queue[s] /\ queue[s] # <<>> /\ queue[s][Len(queue[s])] = Overflow
            /\ Len(queue[s]) \in 1..Len(queue[s])
         \/ queue'[s] = <<Overflow>> /\ Len(queue'[s]) = 1 /\ queue'[s][1] = Overflow
         \/ /\ ~(queue[s] # <<>> /\ queue[s][Len(queue[s])] = Overflow)
            /\ Len(queue[s]) \in Nat /\ Len(queue'[s]) = Len(queue[s]) + 1 /\ queue'[s] # <<>>
            /\ \A k \in 1..Len(queue[s]) : queue'[s][k] = queue[s][k]
            /\ queue'[s][Len(queue[s]) + 1] = message
            /\ queue[s] = <<>> => Len(queue[s]) = 0
            /\ queue[s] # <<>> => Len(queue[s]) \in 1..Len(queue[s])
<1>1. queue[s] \in Seq(Messages)
  BY DEF Types
<1>2. /\ queue[s] # <<>> => Len(queue[s]) \in 1..Len(queue[s])
      /\ queue[s] = <<>> => Len(queue[s]) = 0
  BY <1>1
<1>3. CASE queue[s] # <<>> /\ queue[s][Len(queue[s])] = Overflow
  BY <1>2, <1>3 DEF Enqueue, Last
<1>4. CASE ~(queue[s] # <<>> /\ queue[s][Len(queue[s])] = Overflow) /\ Len(queue[s]) = QueueCap
  BY <1>4 DEF Enqueue, Last
<1>5. CASE ~(queue[s] # <<>> /\ queue[s][Len(queue[s])] = Overflow) /\ Len(queue[s]) # QueueCap
  <2>1. queue'[s] = Append(queue[s], message)
    BY <1>5 DEF Enqueue, Last
  <2>2. /\ Len(queue[s]) \in Nat /\ Len(queue'[s]) = Len(queue[s]) + 1
        /\ \A k \in 1..Len(queue[s]) : queue'[s][k] = queue[s][k]
        /\ queue'[s][Len(queue[s]) + 1] = message
    BY <1>1, <2>1
  <2> QED
    BY <1>2, <1>5, <2>1, <2>2
<1> QED
  BY <1>3, <1>4, <1>5

\* What the reader puts into a queue: the next event of the log or, at the end,
\* the error.
Next1(message, r, r2) ==
    \/ message = Error /\ r2 = r
    \/ /\ r2 = r + 1 /\ r2 \in 1..Len(log) /\ message = log[r2] /\ log[r2].gen = gen
       /\ reader'

LEMMA QueueGets ==
  ASSUME Types, Numbered, NEW s \in Streams, NEW r \in Nat, NEW r2 \in Nat, NEW message,
         r <= Len(log), QueueOK(s, r), Next1(message, r, r2),
         queue'[s] = Enqueue(s, message), UNCHANGED <<log, gen>>
  PROVE  QueueOK(s, r2)'
<1>1. r <= r2 /\ r2 <= Len(log) /\ Len(log) \in Nat
  BY LogFacts DEF Next1
<1>2. CASE queue'[s] = queue[s] /\ queue[s] # <<>> /\ queue[s][Len(queue[s])] = Overflow
  <2>1. Len(queue[s]) \in 1..Len(queue[s])
    BY <1>2 DEF Types
  <2>2. Len(queue[s]) = 1
    BY <1>2, <2>1 DEF QueueOK
  <2>3. \A k \in 1..Len(queue[s]) : queue[s][k] = Overflow
    BY <1>2, <2>2
  <2> QED
    BY <1>2, <2>2, <2>3, LogFacts DEF QueueOK
<1>3. CASE queue'[s] = <<Overflow>> /\ Len(queue'[s]) = 1 /\ queue'[s][1] = Overflow
  <2>1. \A k \in 1..Len(queue'[s]) : queue'[s][k] = Overflow
    BY <1>3
  <2>2. queue'[s] # <<>>
    BY <1>3
  <2> QED
    BY <1>3, <2>1, <2>2, LogFacts DEF QueueOK
<1>4. CASE /\ ~(queue[s] # <<>> /\ queue[s][Len(queue[s])] = Overflow)
           /\ Len(queue[s]) \in Nat /\ Len(queue'[s]) = Len(queue[s]) + 1 /\ queue'[s] # <<>>
           /\ \A k \in 1..Len(queue[s]) : queue'[s][k] = queue[s][k]
           /\ queue'[s][Len(queue[s]) + 1] = message
           /\ queue[s] = <<>> => Len(queue[s]) = 0
           /\ queue[s] # <<>> => Len(queue[s]) \in 1..Len(queue[s])
  <2> DEFINE n == Len(queue[s])
  <2>1. \A k \in 1..Len(queue'[s]) : k \in 1..n \/ k = n + 1
    BY <1>4
  <2>2. \A i \in 1..Len(log) : log[i] = message => i = r2 /\ r2 = r + 1 /\ log[i].gen = gen
    BY LogFacts, OnePlace DEF Next1
  <2>3. \A k \in 1..n, i \in 1..Len(log) : queue[s][k] = log[i] => i <= r
    <3>1. SUFFICES ASSUME NEW k \in 1..n, NEW i \in 1..Len(log), queue[s][k] = log[i]
                   PROVE  i <= r
      OBVIOUS
    <3>2. PICK i0 \in 1..r : queue[s][k] = log[i0]
      BY <3>1, LogFacts DEF QueueOK
    <3>3. i0 \in 1..Len(log)
      BY <1>1
    <3>4. i = i0
      BY <3>1, <3>2, <3>3, OnePlace
    <3> QED
      BY <3>4
  <2>4. ASSUME NEW k \in 1..Len(queue'[s])
        PROVE  queue'[s][k] \in {Error, Overflow} \/ \E i \in 1..r2 : queue'[s][k] = log[i]
    <3>1. CASE k \in 1..n
      <4>1. queue'[s][k] = queue[s][k]
        BY <1>4, <3>1
      <4>2. queue[s][k] \in {Error, Overflow} \/ \E i \in 1..r : queue[s][k] = log[i]
        BY <3>1 DEF QueueOK
      <4>3. \A i \in 1..r : i \in 1..r2
        BY <1>1
      <4> QED
        BY <4>1, <4>2, <4>3
    <3>2. CASE k = n + 1
      <4>1. message = Error \/ (r2 \in 1..r2 /\ message = log[r2])
        BY <1>1 DEF Next1
      <4> QED
        BY <1>4, <3>2, <4>1
    <3> QED
      BY <2>1, <3>1, <3>2
  <2>5. ASSUME NEW k \in 1..Len(queue'[s]), NEW l \in 1..Len(queue'[s]),
               NEW i \in 1..Len(log), NEW j \in 1..Len(log),
               k < l, queue'[s][k] = log[i], queue'[s][l] = log[j]
        PROVE  i < j /\ (l = k + 1 => j = i + 1 /\ log[i].gen = log[j].gen)
    <3>1. k \in 1..n /\ queue'[s][k] = queue[s][k] /\ i <= r
      <4>1. k \in 1..n
        BY <1>4, <2>5
      <4> QED
        BY <1>4, <2>3, <2>5, <4>1
    <3>2. CASE l \in 1..n
      <4>1. k \in 1..Len(queue[s]) /\ l \in 1..Len(queue[s]) /\ queue'[s][l] = queue[s][l]
        BY <1>4, <3>1, <3>2
      <4>2. k < l /\ queue[s][k] = log[i] /\ queue[s][l] = log[j]
        BY <2>5, <3>1, <4>1
      <4>3. i < j
        BY <4>1, <4>2 DEF QueueOK
      <4>4. l = k + 1 => j = i + 1 /\ log[i].gen = log[j].gen
        BY <4>1, <4>2 DEF QueueOK
      <4> QED
        BY <4>3, <4>4
    <3>3. CASE l = n + 1
      <4>1. j = r2 /\ r2 = r + 1 /\ log[j].gen = gen
        BY <1>4, <2>2, <2>5, <3>3
      <4>2. ASSUME l = k + 1 PROVE i = r /\ log[i].gen = gen
        <5>1. k = n /\ queue[s] # <<>>
          BY <1>4, <3>1, <3>3, <4>2
        <5> QED
          BY <2>5, <3>1, <5>1 DEF QueueOK
      <4> QED
        BY <3>1, <4>1, <4>2
    <3> QED
      BY <2>1, <3>2, <3>3
  <2>6. ASSUME NEW i \in 1..Len(log), queue'[s][Len(queue'[s])] = log[i]
        PROVE  i = r2 /\ log[i].gen = gen
    BY <1>4, <2>2, <2>6
  <2>7. ASSUME NEW k \in 1..Len(queue'[s]), queue'[s][k] = Overflow PROVE FALSE
    <3>1. message # Overflow
      BY LogFacts DEF Next1
    <3>2. k \in 1..n /\ queue[s][k] = Overflow
      BY <1>4, <2>1, <2>7, <3>1
    <3>3. n = 1
      BY <3>2 DEF QueueOK
    <3> QED
      BY <1>4, <3>2, <3>3
  <2>8. ~reader' => queue'[s][Len(queue'[s])] = Error
    BY <1>4 DEF Next1
  <2> HIDE DEF n
  <2> QED
    BY <1>4, <2>4, <2>5, <2>6, <2>7, <2>8 DEF QueueOK
<1> QED
  BY <1>2, <1>3, <1>4, EnqueueFacts, ZenonT(60)

LEMMA ComingGets ==
  ASSUME Types, Numbered, NEW s \in Streams, NEW r \in Nat, NEW r2 \in Nat, NEW message,
         NEW turn \in Nat, r <= Len(log), QueueOK(s, r), Next1(message, r, r2),
         queue'[s] = Enqueue(s, message), UNCHANGED <<log, gen>>, Coming(s, turn, r)
  PROVE  Coming(s, turn, r2)'
<1>1. PICK p \in 1..Len(log) :
        /\ log[p].kind = "turn_started" /\ log[p].turn = turn
        /\ \/ p > r /\ reader
           \/ \E k \in 1..Len(queue[s]) : queue[s][k] = log[p]
           \/ queue[s] = <<Overflow>>
           \/ \E k \in 1..Len(queue[s]) :
                /\ queue[s][k] = Error
                /\ \A l \in 1..Len(queue[s]), i \in 1..Len(log) :
                     l < k /\ queue[s][l] = log[i] => i < p
  BY DEF Coming
<1> DEFINE Way == \/ p > r2 /\ reader'
                  \/ \E k \in 1..Len(queue'[s]) : queue'[s][k] = log[p]
                  \/ queue'[s] = <<Overflow>>
                  \/ \E k \in 1..Len(queue'[s]) :
                       /\ queue'[s][k] = Error
                       /\ \A l \in 1..Len(queue'[s]), i \in 1..Len(log) :
                            l < k /\ queue'[s][l] = log[i] => i < p
<1>2. SUFFICES Way
  BY <1>1, SMTT(30) DEF Coming
<1>3. CASE queue'[s] = queue[s] /\ queue[s] # <<>> /\ queue[s][Len(queue[s])] = Overflow
  <2>1. queue[s] \in Seq(Messages) /\ Len(queue[s]) \in 1..Len(queue[s])
    BY <1>3 DEF Types
  <2>2. Len(queue[s]) = 1
    BY <1>3, <2>1 DEF QueueOK
  <2>3. queue[s] = <<Overflow>>
    BY <1>3, <2>1, <2>2
  <2> QED
    BY <1>3, <2>3
<1>4. CASE queue'[s] = <<Overflow>> /\ Len(queue'[s]) = 1 /\ queue'[s][1] = Overflow
  BY <1>4
<1>5. CASE /\ ~(queue[s] # <<>> /\ queue[s][Len(queue[s])] = Overflow)
           /\ Len(queue[s]) \in Nat /\ Len(queue'[s]) = Len(queue[s]) + 1 /\ queue'[s] # <<>>
           /\ \A k \in 1..Len(queue[s]) : queue'[s][k] = queue[s][k]
           /\ queue'[s][Len(queue[s]) + 1] = message
           /\ queue[s] = <<>> => Len(queue[s]) = 0
           /\ queue[s] # <<>> => Len(queue[s]) \in 1..Len(queue[s])
  <2> DEFINE n == Len(queue[s])
  <2>0. n + 1 \in 1..Len(queue'[s]) /\ \A k \in 1..n : k \in 1..Len(queue'[s])
    BY <1>5
  <2>1. CASE p > r /\ reader
    <3>1. CASE message = Error /\ r2 = r
      <4>1. queue'[s][n + 1] = Error
        BY <1>5, <3>1
      <4>2. ASSUME NEW l \in 1..Len(queue'[s]), NEW i \in 1..Len(log),
                   l < n + 1, queue'[s][l] = log[i]
            PROVE  i < p
        <5>1. l \in 1..n /\ queue[s][l] = log[i]
          BY <1>5, <4>2
        <5>2. PICK i0 \in 1..r : queue[s][l] = log[i0]
          BY <5>1, LogFacts DEF QueueOK
        <5>3. i0 \in 1..Len(log)
          BY LogFacts
        <5>4. i = i0
          BY <5>1, <5>2, <5>3, OnePlace
        <5> QED
          BY <2>1, <5>4
      <4> QED
        BY <2>0, <4>1, <4>2
    <3>2. CASE r2 = r + 1 /\ message = log[r2] /\ reader'
      <4>1. CASE p = r2
        BY <1>5, <2>0, <3>2, <4>1
      <4>2. CASE p # r2
        BY <2>1, <3>2, <4>2
      <4> QED
        BY <4>1, <4>2
    <3> QED
      BY <3>1, <3>2 DEF Next1
  <2>2. CASE \E k \in 1..n : queue[s][k] = log[p]
    BY <1>5, <2>0, <2>2
  <2>3. CASE queue[s] = <<Overflow>>
    BY <1>5, <2>3
  <2>4. CASE \E k \in 1..n :
               /\ queue[s][k] = Error
               /\ \A l \in 1..n, i \in 1..Len(log) : l < k /\ queue[s][l] = log[i] => i < p
    <3>1. PICK k \in 1..n :
               /\ queue[s][k] = Error
               /\ \A l \in 1..n, i \in 1..Len(log) : l < k /\ queue[s][l] = log[i] => i < p
      BY <2>4
    <3>2. ASSUME NEW l \in 1..Len(queue'[s]), NEW i \in 1..Len(log), l < k, queue'[s][l] = log[i]
          PROVE  i < p
      <4>1. l \in 1..n
        BY <1>5, <3>2
      <4> QED
        BY <1>5, <3>1, <3>2, <4>1
    <3>3. k \in 1..Len(queue'[s]) /\ queue'[s][k] = Error
      BY <1>5, <2>0, <3>1
    <3> QED
      BY <3>2, <3>3
  <2> QED
    BY <1>1, <2>1, <2>2, <2>3, <2>4
<1> HIDE DEF Way
<1> QED
  BY <1>3, <1>4, <1>5, EnqueueFacts, ZenonT(60)

LEMMA GoesOnGets ==
  ASSUME Types, Numbered, NEW s \in Streams, NEW r \in Nat, NEW r2 \in Nat, NEW message,
         r <= Len(log), GoesOn(s, r), Next1(message, r, r2), stream'[s] = stream[s],
         queue'[s] = Enqueue(s, message), UNCHANGED <<log, gen>>
  PROVE  GoesOn(s, r2)'
<1>1. SUFFICES ASSUME NEW g \in 1..Len(log), stream[s].pc = "reading", stream[s].got # <<>>,
                      stream[s].got[Len(stream[s].got)] = log[g]
               PROVE  /\ queue'[s] # <<>>
                      /\ \A i \in 1..Len(log) :
                           queue'[s][1] = log[i] => i = g + 1 /\ log[g].gen = log[i].gen
  BY DEF GoesOn
<1>2. CASE queue'[s] = queue[s] /\ queue[s] # <<>> /\ queue[s][Len(queue[s])] = Overflow
  BY <1>1, <1>2 DEF GoesOn
<1>3. CASE queue'[s] = <<Overflow>> /\ Len(queue'[s]) = 1 /\ queue'[s][1] = Overflow
  BY <1>3, LogFacts
<1>4. CASE /\ ~(queue[s] # <<>> /\ queue[s][Len(queue[s])] = Overflow)
           /\ Len(queue[s]) \in Nat /\ Len(queue'[s]) = Len(queue[s]) + 1 /\ queue'[s] # <<>>
           /\ \A k \in 1..Len(queue[s]) : queue'[s][k] = queue[s][k]
           /\ queue'[s][Len(queue[s]) + 1] = message
           /\ queue[s] = <<>> => Len(queue[s]) = 0
           /\ queue[s] # <<>> => Len(queue[s]) \in 1..Len(queue[s])
  <2>1. CASE queue[s] # <<>>
    <3>1. queue'[s][1] = queue[s][1]
      BY <1>4, <2>1
    <3> QED
      BY <1>1, <1>4, <2>1, <3>1 DEF GoesOn
  <2>2. CASE queue[s] = <<>>
    <3>1. g = r /\ log[g].gen = gen /\ queue'[s][1] = message
      BY <1>1, <1>4, <2>2 DEF GoesOn
    <3>2. \A i \in 1..Len(log) : log[i] = message => i = r2 /\ r2 = r + 1 /\ log[i].gen = gen
      BY LogFacts, OnePlace DEF Next1
    <3> QED
      BY <1>4, <3>1, <3>2
  <2> QED
    BY <2>1, <2>2
<1> QED
  BY <1>2, <1>3, <1>4, EnqueueFacts, Zenon

-----------------------------------------------------------------------------
(* What a step leaves as it is. *)

\* The log only grows, by events that were not in it.
LogGrows ==
    /\ Len(log) \in Nat /\ Len(log') \in Nat /\ Len(log) <= Len(log')
    /\ \A i \in 1..Len(log) : i \in 1..Len(log') /\ log'[i] = log[i]
    /\ \A i \in 1..Len(log'), j \in 1..Len(log) : log'[i] = log[j] => i = j
    /\ \A i \in 1..Len(log') : /\ log'[i] # Error /\ log'[i] # Overflow /\ log'[i] \notin Replies
                               /\ i \in 1..Len(log) \/ log'[i].gen = gen
    /\ gen' = gen

LEMMA GrowsSame ==
  ASSUME Types, Numbered, UNCHANGED <<log, gen>>
  PROVE  LogGrows
<1>1. \A i, j \in 1..Len(log) : log[i] = log[j] => i = j
  BY OnePlace
<1> QED
  BY <1>1, LogFacts DEF LogGrows

LEMMA GrowsAppend ==
  ASSUME Types, Types', Numbered, Numbered', NEW e \in Events, e.gen = gen,
         log' = Append(log, e), UNCHANGED gen
  PROVE  LogGrows /\ Len(log') = Len(log) + 1 /\ log'[Len(log) + 1] = e
<1>1. /\ Len(log') = Len(log) + 1 /\ Len(log) \in Nat
      /\ \A i \in 1..Len(log) : log'[i] = log[i]
      /\ log'[Len(log) + 1] = e
      /\ \A i \in 1..Len(log') : i \in 1..Len(log) \/ i = Len(log) + 1
  BY Appended
<1>2. \A i \in 1..Len(log) : log[i] # e
  <2>1. SUFFICES ASSUME NEW i \in 1..Len(log), log[i] = e PROVE FALSE
    OBVIOUS
  <2>2. i \in 1..Len(log') /\ Len(log) + 1 \in 1..Len(log') /\ i < Len(log) + 1
    BY <1>1
  <2>3. /\ log'[i] = e /\ log'[Len(log) + 1] = e
        /\ e.gen \in Nat /\ e.seq \in Nat
    BY <1>1, <2>1 DEF Events
  <2> QED
    BY <2>2, <2>3 DEF Numbered
<1>3. \A i \in 1..Len(log') : log'[i] # Error /\ log'[i] # Overflow /\ log'[i] \notin Replies
  <2>1. e # Error /\ e # Overflow /\ e \notin Replies
    BY Kinded
  <2> QED
    BY <1>1, <2>1, LogFacts
<1>4. \A i \in 1..Len(log'), j \in 1..Len(log) : log'[i] = log[j] => i = j
  <2>1. SUFFICES ASSUME NEW i \in 1..Len(log'), NEW j \in 1..Len(log), log'[i] = log[j] PROVE i = j
    OBVIOUS
  <2>2. i \in 1..Len(log)
    BY <1>1, <1>2, <2>1
  <2>3. log[i] = log[j]
    BY <1>1, <2>1, <2>2
  <2> QED
    BY <2>2, <2>3, OnePlace
<1>5. \A i \in 1..Len(log') : i \in 1..Len(log) \/ log'[i].gen = gen
  BY <1>1
<1> QED
  BY <1>1, <1>3, <1>4, <1>5 DEF LogGrows

\* An entry of a queue has its place in the log already.
LEMMA QueuePlace ==
  ASSUME LogGrows, NEW s \in Streams, NEW r \in Nat, r <= Len(log), QueueOK(s, r),
         NEW k \in 1..Len(queue[s]), NEW i \in 1..Len(log'), queue[s][k] = log'[i]
  PROVE  i \in 1..Len(log) /\ queue[s][k] = log[i]
<1>1. PICK j \in 1..r : queue[s][k] = log[j]
  BY DEF QueueOK, LogGrows
<1>2. j \in 1..Len(log)
  BY DEF LogGrows
<1>3. i = j
  BY <1>1, <1>2 DEF LogGrows
<1> QED
  BY <1>1, <1>2, <1>3

LEMMA QueueKept ==
  ASSUME Types, LogGrows, NEW s \in Streams, NEW r \in Nat, r <= Len(log), QueueOK(s, r),
         queue'[s] = queue[s], UNCHANGED reader
  PROVE  QueueOK(s, r)'
<1>1. \A k \in 1..Len(queue[s]), i \in 1..Len(log') :
        queue[s][k] = log'[i] => i \in 1..Len(log) /\ queue[s][k] = log[i] /\ log'[i] = log[i]
  BY QueuePlace DEF LogGrows
<1>2. \A k \in 1..Len(queue[s]) :
        queue[s][k] \in {Error, Overflow} \/ \E i \in 1..r : queue[s][k] = log'[i]
  <2>1. \A i \in 1..r : log'[i] = log[i]
    BY DEF LogGrows
  <2> QED
    BY <2>1 DEF QueueOK
<1>3. queue[s] # <<>> => Len(queue[s]) \in 1..Len(queue[s])
  BY DEF Types
<1>4. \A k, l \in 1..Len(queue[s]), i, j \in 1..Len(log') :
         k < l /\ queue[s][k] = log'[i] /\ queue[s][l] = log'[j] => i < j
  BY <1>1 DEF QueueOK
<1>5. \A k, l \in 1..Len(queue[s]), i, j \in 1..Len(log') :
         l = k + 1 /\ queue[s][k] = log'[i] /\ queue[s][l] = log'[j] =>
           j = i + 1 /\ log'[i].gen = log'[j].gen
  BY <1>1 DEF QueueOK
<1>6. \A i \in 1..Len(log') :
         queue[s] # <<>> /\ queue[s][Len(queue[s])] = log'[i] => i = r /\ log'[i].gen = gen'
  BY <1>1, <1>3 DEF QueueOK, LogGrows
<1> QED
  BY <1>2, <1>4, <1>5, <1>6 DEF QueueOK

LEMMA ComingKept ==
  ASSUME LogGrows, NEW s \in Streams, NEW r \in Nat, r <= Len(log), QueueOK(s, r),
         queue'[s] = queue[s], UNCHANGED reader, NEW turn, Coming(s, turn, r)
  PROVE  Coming(s, turn, r)'
<1>1. PICK p \in 1..Len(log) :
        /\ log[p].kind = "turn_started" /\ log[p].turn = turn
        /\ \/ p > r /\ reader
           \/ \E k \in 1..Len(queue[s]) : queue[s][k] = log[p]
           \/ queue[s] = <<Overflow>>
           \/ \E k \in 1..Len(queue[s]) :
                /\ queue[s][k] = Error
                /\ \A l \in 1..Len(queue[s]), i \in 1..Len(log) :
                     l < k /\ queue[s][l] = log[i] => i < p
  BY DEF Coming
<1>2. p \in 1..Len(log') /\ log'[p] = log[p]
  BY DEF LogGrows
<1>3. \A k \in 1..Len(queue[s]), i \in 1..Len(log') :
        queue[s][k] = log'[i] => i \in 1..Len(log) /\ queue[s][k] = log[i]
  BY QueuePlace
<1> DEFINE Way == \/ p > r /\ reader'
                  \/ \E k \in 1..Len(queue'[s]) : queue'[s][k] = log'[p]
                  \/ queue'[s] = <<Overflow>>
                  \/ \E k \in 1..Len(queue'[s]) :
                       /\ queue'[s][k] = Error
                       /\ \A l \in 1..Len(queue'[s]), i \in 1..Len(log') :
                            l < k /\ queue'[s][l] = log'[i] => i < p
<1>4. SUFFICES Way
  <2>1. ASSUME Way PROVE Coming(s, turn, r)'
    BY <1>1, <1>2, <2>1 DEF Coming
  <2> QED
    BY <2>1
<1>5. CASE p > r /\ reader
  BY <1>5
<1>6. CASE \E k \in 1..Len(queue[s]) : queue[s][k] = log[p]
  BY <1>2, <1>6
<1>7. CASE queue[s] = <<Overflow>>
  BY <1>7
<1>8. CASE \E k \in 1..Len(queue[s]) :
             /\ queue[s][k] = Error
             /\ \A l \in 1..Len(queue[s]), i \in 1..Len(log) :
                  l < k /\ queue[s][l] = log[i] => i < p
  <2>1. PICK k \in 1..Len(queue[s]) :
             /\ queue[s][k] = Error
             /\ \A l \in 1..Len(queue[s]), i \in 1..Len(log) :
                  l < k /\ queue[s][l] = log[i] => i < p
    BY <1>8
  <2>2. \A l \in 1..Len(queue[s]), i \in 1..Len(log') :
          l < k /\ queue[s][l] = log'[i] => i < p
    BY <1>3, <2>1
  <2> QED
    BY <2>1, <2>2
<1> QED
  BY <1>1, <1>5, <1>6, <1>7, <1>8

LEMMA GoesOnKept ==
  ASSUME Types, LogGrows, NEW s \in Streams, NEW r \in Nat, r <= Len(log),
         s \in Registered => QueueOK(s, r), GoesOn(s, r), Yielded(s),
         queue'[s] = queue[s], stream'[s] = stream[s]
  PROVE  GoesOn(s, r)'
<1>1. SUFFICES ASSUME NEW g \in 1..Len(log'), stream[s].pc = "reading", stream[s].got # <<>>,
                      stream[s].got[Len(stream[s].got)] = log'[g]
               PROVE  /\ stream[s].turn = log'[g].turn
                      /\ stream[s].steered <=> log'[g].kind = "steered"
                      /\ log'[g].kind # "turn_finished"
                      /\ queue[s] = <<>> => g = r /\ log'[g].gen = gen'
                      /\ \A i \in 1..Len(log') :
                           queue[s] # <<>> /\ queue[s][1] = log'[i] =>
                             i = g + 1 /\ log'[g].gen = log'[i].gen
  BY DEF GoesOn
<1>2. QueueOK(s, r)
  BY <1>1 DEF Registered
<1>3. g \in 1..Len(log) /\ log'[g] = log[g]
  <2>1. PICK p \in 1..Len(log) :
            /\ p + Len(stream[s].got) - 1 <= Len(log)
            /\ \A x \in 1..Len(stream[s].got) : stream[s].got[x] = log[p + x - 1]
    BY <1>1 DEF Yielded
  <2>2. Len(stream[s].got) \in 1..Len(stream[s].got)
    BY <1>1, StreamFacts
  <2>3. /\ p + Len(stream[s].got) - 1 \in 1..Len(log)
        /\ stream[s].got[Len(stream[s].got)] = log[p + Len(stream[s].got) - 1]
    <3> DEFINE n == Len(stream[s].got)
    <3>1. n \in Nat /\ n \in 1..n
      BY <2>2, StreamFacts
    <3>2. stream[s].got[n] = log[p + n - 1] /\ p + n - 1 <= Len(log)
      BY <2>1, <3>1
    <3> QED
      BY <3>1, <3>2 DEF LogGrows
  <2>4. g = p + Len(stream[s].got) - 1
    BY <1>1, <2>3 DEF LogGrows
  <2> QED
    BY <2>3, <2>4 DEF LogGrows
<1>4. /\ stream[s].turn = log[g].turn
      /\ stream[s].steered <=> log[g].kind = "steered"
      /\ log[g].kind # "turn_finished"
      /\ queue[s] = <<>> => g = r /\ log[g].gen = gen
      /\ \A i \in 1..Len(log) :
           queue[s] # <<>> /\ queue[s][1] = log[i] => i = g + 1 /\ log[g].gen = log[i].gen
  BY <1>1, <1>3 DEF GoesOn
<1>5. \A i \in 1..Len(log') : queue[s] # <<>> /\ queue[s][1] = log'[i] =>
        i \in 1..Len(log) /\ queue[s][1] = log[i] /\ log'[i] = log[i]
  <2>1. queue[s] # <<>> => 1 \in 1..Len(queue[s])
    BY StreamFacts
  <2> QED
    BY <1>2, <2>1, QueuePlace DEF LogGrows
<1> QED
  BY <1>3, <1>4, <1>5 DEF LogGrows

\* A stream whose own state a step leaves alone.
LEMMA BeginsKept ==
  ASSUME Types, NEW s \in Streams, NEW r \in Nat, NEW r2 \in Nat, Begins(s, r),
         stream'[s] = stream[s], stream[s].pc = "none" => queue'[s] = queue[s],
         s \in pending' => s \in pending,
         \A turn \in Nat : s \in Registered /\ Coming(s, turn, r) => Coming(s, turn, r2)',
         \A x \in 1..Len(inbox') : inbox'[x] = s => \E y \in 1..Len(inbox) : inbox[y] = s,
         \A a \in 1..Len(pipe') :
            \/ \E b \in 1..Len(pipe) : pipe'[a] = pipe[b]
            \/ pipe'[a] \notin Replies
            \/ pipe'[a].to # s
            \/ /\ stream[s].pc # "none"
               /\ pipe'[a].turn = 0 \/ \E turn \in Nat : pipe'[a].turn = turn /\ Coming(s, turn, r2)'
  PROVE  Begins(s, r2)'
<1>1. /\ stream[s].pc \in {"none", "submitting"} => stream[s].got = <<>>
      /\ stream[s].got = <<>> => ~stream[s].steered
      /\ s \in pending' => stream[s].pc = "submitting"
      /\ stream[s].pc = "reading" /\ stream[s].got = <<>> => stream[s].turn = stream[s].first
  BY DEF Begins
<1>2. ASSUME stream[s].pc = "none"
      PROVE  /\ queue'[s] = <<>>
             /\ \A x \in 1..Len(inbox') : inbox'[x] # s
             /\ \A a \in 1..Len(pipe') : pipe'[a] \in Replies => pipe'[a].to # s
  BY <1>2 DEF Begins
<1>3. ASSUME NEW turn \in Nat,
             stream[s].pc = "reading" /\ stream[s].got = <<>> /\ turn = stream[s].first
      PROVE  Coming(s, turn, r2)'
  <2>1. s \in Registered /\ Coming(s, turn, r)
    BY <1>3 DEF Registered, Begins, Owed
  <2> QED
    BY <2>1
<1>4. ASSUME NEW turn \in Nat, s \in pending', turn # 0,
             NEW a \in 1..Len(pipe'), pipe'[a] = [to |-> s, turn |-> turn]
      PROVE  Coming(s, turn, r2)'
  <2>1. s \in pending /\ s \in Registered
    BY <1>1, <1>4 DEF Registered
  <2>2. pipe'[a] \in Replies /\ pipe'[a].to = s /\ pipe'[a].turn = turn
    BY <1>4 DEF Replies
  <2>3. CASE \E b \in 1..Len(pipe) : pipe'[a] = pipe[b]
    <3>1. Coming(s, turn, r)
      BY <1>4, <2>1, <2>3 DEF Begins, Owed
    <3> QED
      BY <2>1, <3>1
  <2> QED
    BY <1>4, <2>2, <2>3
<1>5. \A turn \in Owed(s)' : Coming(s, turn, r2)'
  BY <1>3, <1>4 DEF Owed
<1> QED
  BY <1>1, <1>2, <1>5 DEF Begins

\* A stream that is over.
LEMMA Retired ==
  ASSUME NEW s \in Streams, NEW r \in Nat, stream'[s].pc \in {"ended", "failed"},
         s \notin pending', stream'[s].got = <<>> => ~stream'[s].steered
  PROVE  s \notin Registered' /\ GoesOn(s, r)' /\ Begins(s, r)'
<1>1. s \notin Registered' /\ GoesOn(s, r)'
  BY DEF Registered, GoesOn
<1>2. Owed(s)' = {}
  BY DEF Owed
<1> QED
  BY <1>1, <1>2 DEF Begins

-----------------------------------------------------------------------------
(* One lemma for each kind of step: the numbers r and m it leads to. *)

\* All streams at once, when the log grows and the reader rests.
LEMMA StreamsKept ==
  ASSUME Base, Base', NEW r \in Nat, NEW m \in Nat, Delivery(r, m), \A s \in Streams : Yielded(s),
         LogGrows, UNCHANGED <<reader, pending, stream, queue>>,
         \A x \in 1..Len(inbox') : \E y \in 1..Len(inbox) : inbox[y] = inbox'[x],
         \A a \in 1..Len(pipe') :
            \/ \E b \in 1..Len(pipe) : pipe'[a] = pipe[b]
            \/ pipe'[a] \notin Replies
            \/ /\ stream[pipe'[a].to].pc # "none"
               /\ \/ pipe'[a].turn = 0
                  \/ \A s \in Streams : s \in Registered =>
                       \E turn \in Nat : pipe'[a].turn = turn /\ Coming(s, turn, r)'
  PROVE  \A s \in Streams : /\ s \in Registered' => QueueOK(s, r)'
                            /\ GoesOn(s, r)' /\ Begins(s, r)'
<1>1. SUFFICES ASSUME NEW s \in Streams
               PROVE  /\ s \in Registered' => QueueOK(s, r)'
                      /\ GoesOn(s, r)' /\ Begins(s, r)'
  OBVIOUS
<1>2. /\ r <= Len(log) /\ Types /\ GoesOn(s, r) /\ Begins(s, r) /\ Yielded(s)
      /\ s \in Registered => QueueOK(s, r)
      /\ stream'[s] = stream[s] /\ queue'[s] = queue[s]
      /\ s \in Registered' => s \in Registered
  BY DEF Delivery, Line, Base, LogGrows, Registered
<1>3. s \in Registered' => QueueOK(s, r)'
  BY <1>2, QueueKept
<1>4. GoesOn(s, r)'
  BY <1>2, GoesOnKept
<1>5. \A turn \in Nat : s \in Registered /\ Coming(s, turn, r) => Coming(s, turn, r)'
  BY <1>2, ComingKept
<1>6. stream[s].pc = "none" \/ ~(s \in Registered) => s \notin pending
  BY <1>2 DEF Begins, Registered
<1>7. Begins(s, r)'
  <2>1. CASE s \in Registered
    <3>1. \A a \in 1..Len(pipe') :
            \/ \E b \in 1..Len(pipe) : pipe'[a] = pipe[b]
            \/ pipe'[a] \notin Replies
            \/ pipe'[a].to # s
            \/ /\ stream[s].pc # "none"
               /\ pipe'[a].turn = 0 \/ \E turn \in Nat : pipe'[a].turn = turn /\ Coming(s, turn, r)'
      BY <2>1
    <3> QED
      BY <1>2, <1>5, <3>1, BeginsKept
  <2>2. CASE s \notin Registered
    <3>1. Owed(s)' = {}
      BY <1>2, <1>6, <2>2 DEF Owed, Registered
    <3>2. stream[s].pc = "none" =>
            /\ \A x \in 1..Len(inbox') : inbox'[x] # s
            /\ \A a \in 1..Len(pipe') : pipe'[a] \in Replies => pipe'[a].to # s
      BY <1>2 DEF Begins
    <3> QED
      BY <1>2, <1>6, <2>2, <3>1, <3>2 DEF Begins, Registered
  <2> QED
    BY <2>1, <2>2
<1> QED
  BY <1>3, <1>4, <1>7

LEMMA SendLine ==
  ASSUME Base, Base', client = "stream", ~lagged', NEW r \in Nat, NEW m \in Nat, Line(r, m),
         NEW e \in Events, e.gen = gen, log' = Append(log, e), Broadcast(e), process = "ready",
         UNCHANGED <<process, gen>>,
         pipe' = pipe \/ \E reply \in Replies : pipe' = Append(pipe, reply)
  PROVE  LogGrows /\ Line(r, m)' /\ Len(log') = Len(log) + 1 /\ log'[Len(log) + 1] = e
<1>1. LogGrows /\ Len(log') = Len(log) + 1 /\ log'[Len(log) + 1] = e
  BY GrowsAppend DEF Base, LogInv
<1>2. /\ bus' = Append(bus, e) /\ bus \in Seq(Events) /\ pipe \in Seq(Events \cup Replies)
      /\ pipe' \in Seq(Events \cup Replies)
  BY DEF Broadcast, Base, Types
<1>3. /\ r <= m /\ m <= Len(log) /\ m + Len(bus) = Len(log)
      /\ \A i \in 1..Len(bus) : bus[i] = log[m + i]
  BY DEF Line
<1>4. /\ Len(bus') = Len(bus) + 1 /\ Len(bus) \in Nat /\ Len(log) \in Nat
      /\ \A i \in 1..Len(bus) : bus'[i] = bus[i]
      /\ bus'[Len(bus) + 1] = e
  BY <1>1, <1>2 DEF LogGrows
<1>5. m + Len(bus') = Len(log') /\ m <= Len(log')
  BY <1>1, <1>3, <1>4
<1>6. \A i \in 1..Len(bus') : bus'[i] = log'[m + i]
  <2>1. SUFFICES ASSUME NEW i \in 1..Len(bus') PROVE bus'[i] = log'[m + i]
    OBVIOUS
  <2>2. CASE i \in 1..Len(bus)
    <3>1. m + i \in 1..Len(log)
      BY <1>3, <1>4, <2>2
    <3> QED
      BY <1>1, <1>3, <1>4, <2>2, <3>1 DEF LogGrows
  <2>3. CASE i = Len(bus) + 1
    <3>1. m + i = Len(log) + 1
      BY <1>3, <1>4, <2>3
    <3> QED
      BY <1>1, <1>4, <2>3, <3>1
  <2>4. i \in 1..Len(bus) \/ i = Len(bus) + 1
    BY <1>4, <2>1
  <2> QED
    BY <2>2, <2>3, <2>4
<1>7. /\ \A a \in 1..Len(pipe) : a \in 1..Len(pipe') /\ pipe'[a] = pipe[a]
      /\ \A a \in 1..Len(pipe') : a \in 1..Len(pipe) \/ pipe'[a] \in Replies
  <2>1. CASE pipe' = pipe
    BY <2>1
  <2>2. CASE \E reply \in Replies : pipe' = Append(pipe, reply)
    BY <1>2, <2>2
  <2> QED
    BY <2>1, <2>2
<1>8. \A a \in 1..Len(pipe'), k \in 1..Len(log') : pipe'[a] = log'[k] =>
        a \in 1..Len(pipe) /\ k \in 1..Len(log) /\ pipe[a] = log[k] /\ pipe'[a] = pipe[a]
  <2>1. SUFFICES ASSUME NEW a \in 1..Len(pipe'), NEW k \in 1..Len(log'), pipe'[a] = log'[k]
                 PROVE  /\ a \in 1..Len(pipe) /\ k \in 1..Len(log) /\ pipe[a] = log[k]
                        /\ pipe'[a] = pipe[a]
    OBVIOUS
  <2>2. a \in 1..Len(pipe) /\ pipe'[a] = pipe[a] /\ pipe[a] \notin Replies
    BY <1>1, <1>7, <2>1 DEF LogGrows
  <2>3. PICK j \in r + 1..m : pipe[a] = log[j]
    BY <2>2 DEF Line
  <2>4. j \in 1..Len(log)
    BY <1>3, <1>4
  <2>5. k = j
    BY <1>1, <2>1, <2>2, <2>3, <2>4 DEF LogGrows
  <2> QED
    BY <2>2, <2>3, <2>4, <2>5
<1>9. \A j \in r + 1..m : j \in 1..Len(log) /\ log'[j] = log[j]
  BY <1>1, <1>3 DEF LogGrows
<1>10. \A a \in 1..Len(pipe') : pipe'[a] \in Replies \/ \E j \in r + 1..m : pipe'[a] = log'[j]
  BY <1>7, <1>9 DEF Line
<1>11. \A j \in r + 1..m : \E a \in 1..Len(pipe') : pipe'[a] = log'[j]
  <2>1. \A j \in r + 1..m : \E a \in 1..Len(pipe) : pipe[a] = log[j]
    BY DEF Line
  <2> QED
    BY <1>7, <1>9, <2>1
<1>12. \A a, b \in 1..Len(pipe'), j, k \in 1..Len(log') :
         a < b /\ pipe'[a] = log'[j] /\ pipe'[b] = log'[k] => j < k
  BY <1>8 DEF Line
<1>13. \A j \in r + 1..Len(log') : log'[j].gen = gen'
  <2>1. SUFFICES ASSUME NEW j \in r + 1..Len(log') PROVE log'[j].gen = gen'
    OBVIOUS
  <2>2. CASE j \in r + 1..Len(log)
    BY <1>1, <1>4, <2>2 DEF Line, LogGrows
  <2>3. CASE j = Len(log) + 1
    BY <1>1, <2>3
  <2> QED
    BY <1>1, <1>4, <2>2, <2>3
<1>14. Line(r, m)'
  BY <1>3, <1>5, <1>6, <1>10, <1>11, <1>12, <1>13 DEF Line
<1> QED
  BY <1>1, <1>14

\* Events of the Turn: StartOther, Continue, Emit, Settle.
LEMMA SendDelivers ==
  ASSUME Base, Base', client = "stream", ~lagged', NEW r \in Nat, NEW m \in Nat, Delivery(r, m),
         \A s \in Streams : Yielded(s), NEW e \in Events, e.gen = gen, log' = Append(log, e),
         Broadcast(e), process = "ready",
         UNCHANGED <<process, gen, pipe, inbox, reader, pending, stream, queue>>
  PROVE  LogGrows /\ Delivery(r, m)'
<1>1. LogGrows /\ Line(r, m)'
  BY SendLine DEF Delivery
<1>2. \A s \in Streams : /\ s \in Registered' => QueueOK(s, r)'
                         /\ GoesOn(s, r)' /\ Begins(s, r)'
  BY <1>1, StreamsKept
<1> QED
  BY <1>1, <1>2 DEF Delivery

LEMMA ReplyLine ==
  ASSUME Base, NEW r \in Nat, NEW m \in Nat, Line(r, m), UNCHANGED <<process, gen, bus, log>>,
         \A a \in 1..Len(pipe) : a \in 1..Len(pipe') /\ pipe'[a] = pipe[a],
         \A a \in 1..Len(pipe') : a \in 1..Len(pipe) \/ pipe'[a] \in Replies
  PROVE  Line(r, m)'
<1>1. /\ \A a \in 1..Len(pipe) : a \in 1..Len(pipe') /\ pipe'[a] = pipe[a]
      /\ \A a \in 1..Len(pipe') : a \in 1..Len(pipe) \/ pipe'[a] \in Replies
  OBVIOUS
<1>2. \A a \in 1..Len(pipe'), k \in 1..Len(log) : pipe'[a] = log[k] =>
        a \in 1..Len(pipe) /\ pipe[a] = log[k] /\ pipe'[a] = pipe[a]
  BY <1>1, LogFacts DEF Base
<1>3. \A a \in 1..Len(pipe') : pipe'[a] \in Replies \/ \E j \in r + 1..m : pipe'[a] = log[j]
  BY <1>1 DEF Line
<1>4. \A j \in r + 1..m :
         \/ \E a \in 1..Len(pipe') : pipe'[a] = log[j]
         \/ /\ process = "down"
            /\ \A a \in 1..Len(pipe'), k \in 1..Len(log) : pipe'[a] = log[k] => k < j
  BY <1>1, <1>2 DEF Line
<1>5. \A a, b \in 1..Len(pipe'), j, k \in 1..Len(log) :
         a < b /\ pipe'[a] = log[j] /\ pipe'[b] = log[k] => j < k
  <2>1. SUFFICES ASSUME NEW a \in 1..Len(pipe'), NEW b \in 1..Len(pipe'),
                        NEW j \in 1..Len(log), NEW k \in 1..Len(log),
                        a < b, pipe'[a] = log[j], pipe'[b] = log[k]
                 PROVE  j < k
    OBVIOUS
  <2>2. /\ a \in 1..Len(pipe) /\ b \in 1..Len(pipe)
        /\ pipe[a] = log[j] /\ pipe[b] = log[k]
    BY <1>2, <2>1
  <2> QED
    BY <2>1, <2>2 DEF Line
<1>6. /\ r <= m /\ m <= Len(log)
      /\ process # "down" => m + Len(bus) = Len(log)
      /\ \A i \in 1..Len(bus) : bus[i] = log[m + i]
      /\ \A j \in r + 1..Len(log) : log[j].gen = gen
  BY DEF Line
<1>7. log' = log /\ bus' = bus /\ process' = process /\ gen' = gen
  OBVIOUS
<1> QED
  BY <1>3, <1>4, <1>5, <1>6, <1>7 DEF Line

LEMMA SubmitDelivers ==
  ASSUME Base, Base', client = "stream", ~lagged', NEW r \in Nat, NEW m \in Nat, Delivery(r, m),
         \A s \in Streams : Yielded(s), NEW s \in Streams, Submit(s)
  PROVE  LogGrows /\ Delivery(r, m)'
<1>1. /\ process = "ready" /\ inbox # <<>> /\ Head(inbox) = s /\ inbox' = Tail(inbox)
      /\ UNCHANGED <<client, process, gen, pending, reader, stream, queue>>
      /\ Types /\ Types' /\ Numbered
  BY DEF Submit, clientVars, Base, LogInv
<1>2. stream[s].pc # "none" /\ \A x \in 1..Len(inbox') : \E y \in 1..Len(inbox) : inbox[y] = inbox'[x]
  <2>1. inbox \in Seq(Streams) /\ inbox # <<>>
    BY <1>1 DEF Types
  <2>2. 1 \in 1..Len(inbox) /\ inbox[1] = s
    BY <1>1, <2>1
  <2>3. \A x \in 1..Len(inbox') : x + 1 \in 1..Len(inbox) /\ inbox'[x] = inbox[x + 1]
    BY <1>1, <2>1
  <2>4. stream[s].pc # "none"
    BY <2>2 DEF Delivery, Begins
  <2> QED
    BY <2>3, <2>4
<1>3. pipe \in Seq(Events \cup Replies) /\ reader
  BY <1>1 DEF Base, ReaderInv, Types
<1>4. CASE worker.phase = "idle" /\ worker.turn < MaxTurns
  <2> DEFINE e == Event("turn_started", worker.turn + 1, next["main"])
             reply == [to |-> s, turn |-> worker.turn + 1]
  <2>1. /\ e \in Events /\ e.gen = gen /\ e.kind = "turn_started" /\ e.turn = worker.turn + 1
        /\ worker.turn + 1 \in Nat
    <3>1. worker.turn + 1 \in Nat /\ next["main"] \in Nat /\ "turn_started" \in Kinds
      BY <1>1, WorkerFacts DEF Kinds
    <3> QED
      BY <1>1, <3>1, EventType
  <2>2. Begin(worker.turn + 1) /\ pipe' = Append(pipe, reply)
    BY <1>4 DEF Submit
  <2>3. log' = Append(log, e) /\ Broadcast(e)
    BY <2>2 DEF Begin, SendEvent
  <2>4. reply \in Replies /\ reply.to = s /\ reply.turn = worker.turn + 1
    BY <2>1 DEF Replies
  <2> HIDE DEF e, reply
  <2>5. LogGrows /\ Line(r, m)' /\ Len(log') = Len(log) + 1 /\ log'[Len(log) + 1] = e
    BY <1>1, <2>1, <2>2, <2>3, <2>4, SendLine DEF Delivery
  <2>a. PICK begun \in Nat : begun = worker.turn + 1
    BY <2>1
  <2>6. \A t \in Streams : Coming(t, begun, r)'
    <3>1. Len(log) + 1 \in 1..Len(log') /\ Len(log) + 1 > r
      BY <2>5 DEF Delivery, Line, LogGrows
    <3>2. reader' /\ log'[Len(log) + 1].kind = "turn_started"
          /\ log'[Len(log) + 1].turn = begun
      BY <1>1, <1>3, <2>1, <2>5, <2>a
    <3> QED
      BY <3>1, <3>2 DEF Coming
  <2>7. \A a \in 1..Len(pipe') :
            \/ \E b \in 1..Len(pipe) : pipe'[a] = pipe[b]
            \/ pipe'[a] = reply
    BY <1>3, <2>2
  <2>8. \A a \in 1..Len(pipe') :
            \/ \E b \in 1..Len(pipe) : pipe'[a] = pipe[b]
            \/ pipe'[a] \notin Replies
            \/ /\ stream[pipe'[a].to].pc # "none"
               /\ \/ pipe'[a].turn = 0
                  \/ \A t \in Streams : t \in Registered =>
                       \E turn \in Nat : pipe'[a].turn = turn /\ Coming(t, turn, r)'
    <3>1. /\ stream[reply.to].pc # "none"
          /\ \A t \in Streams : \E turn \in Nat : reply.turn = turn /\ Coming(t, turn, r)'
      BY <1>2, <2>4, <2>6, <2>a
    <3> QED
      BY <2>7, <3>1
  <2>9. \A t \in Streams : /\ t \in Registered' => QueueOK(t, r)'
                           /\ GoesOn(t, r)' /\ Begins(t, r)'
    BY <1>1, <1>2, <2>5, <2>8, StreamsKept
  <2> QED
    BY <2>5, <2>9 DEF Delivery
<1>5. CASE ~(worker.phase = "idle" /\ worker.turn < MaxTurns)
  <2> DEFINE reply == [to |-> s, turn |-> 0]
  <2>1. /\ pipe' = Append(pipe, reply)
        /\ UNCHANGED <<worker, next, bus, log, lagged>>
    BY <1>5 DEF Submit, serverVars
  <2>2. reply \in Replies /\ reply.to = s /\ reply.turn = 0
    BY DEF Replies
  <2> HIDE DEF reply
  <2>3. LogGrows /\ Line(r, m)'
    <3>1. /\ \A a \in 1..Len(pipe) : a \in 1..Len(pipe') /\ pipe'[a] = pipe[a]
          /\ \A a \in 1..Len(pipe') : a \in 1..Len(pipe) \/ pipe'[a] \in Replies
      BY <1>3, <2>1, <2>2
    <3>2. UNCHANGED <<process, gen, bus, log>>
      BY <1>1, <2>1
    <3> QED
      BY <1>1, <3>1, <3>2, GrowsSame, ReplyLine DEF Delivery
  <2>4. \A a \in 1..Len(pipe') :
            \/ \E b \in 1..Len(pipe) : pipe'[a] = pipe[b]
            \/ pipe'[a] = reply
    BY <1>3, <2>1
  <2>5. \A a \in 1..Len(pipe') :
            \/ \E b \in 1..Len(pipe) : pipe'[a] = pipe[b]
            \/ pipe'[a] \notin Replies
            \/ /\ stream[pipe'[a].to].pc # "none"
               /\ \/ pipe'[a].turn = 0
                  \/ \A t \in Streams : t \in Registered =>
                       \E turn \in Nat : pipe'[a].turn = turn /\ Coming(t, turn, r)'
    BY <1>2, <2>2, <2>4
  <2>6. \A t \in Streams : /\ t \in Registered' => QueueOK(t, r)'
                           /\ GoesOn(t, r)' /\ Begins(t, r)'
    BY <1>1, <1>2, <2>3, <2>5, StreamsKept
  <2> QED
    BY <2>3, <2>6 DEF Delivery
<1> QED
  BY <1>4, <1>5

\* The connection moves one event on.
LEMMA RelayDelivers ==
  ASSUME Base, Base', NEW r \in Nat, NEW m \in Nat, Delivery(r, m),
         \A s \in Streams : Yielded(s), Relay
  PROVE  LogGrows /\ Delivery(r, m + 1)'
<1>1. /\ process = "ready" /\ bus # <<>> /\ bus' = Tail(bus) /\ pipe' = Append(pipe, Head(bus))
      /\ UNCHANGED <<client, process, gen, worker, next, log, lagged, inbox, pending, reader, stream, queue>>
      /\ bus \in Seq(Events) /\ pipe \in Seq(Events \cup Replies)
      /\ Types /\ Numbered
  BY DEF Relay, clientVars, Base, Types, LogInv
<1>2. LogGrows
  BY <1>1, GrowsSame
<1>3. /\ r <= m /\ m <= Len(log) /\ m + Len(bus) = Len(log)
      /\ \A i \in 1..Len(bus) : bus[i] = log[m + i]
      /\ \A a \in 1..Len(pipe) : pipe[a] \in Replies \/ \E j \in r + 1..m : pipe[a] = log[j]
      /\ \A j \in r + 1..m : \E a \in 1..Len(pipe) : pipe[a] = log[j]
      /\ \A a, b \in 1..Len(pipe), j, k \in 1..Len(log) :
           a < b /\ pipe[a] = log[j] /\ pipe[b] = log[k] => j < k
      /\ \A j \in r + 1..Len(log) : log[j].gen = gen
  BY <1>1 DEF Delivery, Line
<1>4. /\ Len(bus) \in Nat /\ Len(bus) >= 1 /\ Len(bus') = Len(bus) - 1
      /\ \A i \in 1..Len(bus') : i + 1 \in 1..Len(bus) /\ bus'[i] = bus[i + 1]
      /\ Head(bus) = bus[1] /\ Head(bus) \in Events /\ 1 \in 1..Len(bus)
  BY <1>1
<1>5. /\ m + 1 \in 1..Len(log) /\ Head(bus) = log[m + 1]
      /\ m + 1 + Len(bus') = Len(log) /\ r <= m + 1 /\ m + 1 <= Len(log)
  <2>1. Len(bus) \in Nat /\ Len(bus) >= 1 /\ Len(bus') = Len(bus) - 1 /\ Len(log) \in Nat
    BY <1>1, <1>4, LogFacts
  <2>2. Head(bus) = log[m + 1]
    BY <1>3, <1>4
  <2>3. r <= m /\ m + Len(bus) = Len(log)
    BY <1>3
  <2> QED
    BY <2>1, <2>2, <2>3
<1>6. \A i \in 1..Len(bus') : bus'[i] = log[m + 1 + i]
  <2>1. SUFFICES ASSUME NEW i \in 1..Len(bus') PROVE bus'[i] = log[m + 1 + i]
    OBVIOUS
  <2>2. bus'[i] = bus[i + 1] /\ i + 1 \in 1..Len(bus) /\ m + (i + 1) = m + 1 + i
    BY <1>4
  <2> QED
    BY <1>3, <2>2
<1>7. /\ Len(pipe) \in Nat /\ Len(pipe') = Len(pipe) + 1
      /\ \A a \in 1..Len(pipe) : a \in 1..Len(pipe') /\ pipe'[a] = pipe[a]
      /\ pipe'[Len(pipe) + 1] = log[m + 1] /\ Len(pipe) + 1 \in 1..Len(pipe')
      /\ \A a \in 1..Len(pipe') : a \in 1..Len(pipe) \/ a = Len(pipe) + 1
  BY <1>1, <1>4, <1>5
<1>8. \A a \in 1..Len(pipe') : pipe'[a] \in Replies \/ \E j \in r + 1..m + 1 : pipe'[a] = log[j]
  <2>1. SUFFICES ASSUME NEW a \in 1..Len(pipe')
                 PROVE  pipe'[a] \in Replies \/ \E j \in r + 1..m + 1 : pipe'[a] = log[j]
    OBVIOUS
  <2>2. \A j \in r + 1..m : j \in r + 1..m + 1
    OBVIOUS
  <2>3. m + 1 \in r + 1..m + 1
    BY <1>3
  <2>4. CASE a \in 1..Len(pipe)
    <3>1. pipe[a] \in Replies \/ \E j \in r + 1..m : pipe[a] = log[j]
      BY <1>3, <2>4
    <3>2. pipe'[a] = pipe[a]
      BY <1>7, <2>4
    <3> QED
      BY <2>2, <3>1, <3>2
  <2>5. CASE a = Len(pipe) + 1
    BY <1>7, <2>3, <2>5
  <2> QED
    BY <1>7, <2>4, <2>5
<1>9. ASSUME NEW j \in r + 1..m + 1
      PROVE  \E a \in 1..Len(pipe') : pipe'[a] = log[j]
  <2>1. j \in r + 1..m \/ j = m + 1
    OBVIOUS
  <2>2. CASE j \in r + 1..m
    <3>1. PICK a \in 1..Len(pipe) : pipe[a] = log[j]
      BY <1>3, <2>2
    <3>2. a \in 1..Len(pipe') /\ pipe'[a] = log[j]
      BY <1>7, <3>1
    <3> QED
      BY <3>2
  <2>3. CASE j = m + 1
    BY <1>7, <2>3
  <2> QED
    BY <2>1, <2>2, <2>3
<1>10. \A a \in 1..Len(pipe), k \in 1..Len(log) : pipe[a] = log[k] => k <= m
  <2>1. SUFFICES ASSUME NEW a \in 1..Len(pipe), NEW k \in 1..Len(log), pipe[a] = log[k]
                 PROVE  k <= m
    OBVIOUS
  <2>2. PICK j \in r + 1..m : pipe[a] = log[j]
    BY <1>1, <1>3, <2>1, LogFacts
  <2>3. j \in 1..Len(log)
    BY <1>3
  <2>4. k = j
    BY <1>1, <2>1, <2>2, <2>3, OnePlace
  <2> QED
    BY <2>4
<1>11. ASSUME NEW a \in 1..Len(pipe'), NEW b \in 1..Len(pipe'),
              NEW j \in 1..Len(log), NEW k \in 1..Len(log),
              a < b, pipe'[a] = log[j], pipe'[b] = log[k]
       PROVE  j < k
  <2>1. a \in 1..Len(pipe) /\ pipe[a] = log[j]
    <3>1. a \in 1..Len(pipe)
      BY <1>7, <1>11
    <3> QED
      BY <1>7, <1>11, <3>1
  <2>2. CASE b \in 1..Len(pipe)
    BY <1>3, <1>7, <1>11, <2>1, <2>2
  <2>3. CASE b = Len(pipe) + 1
    <3>1. k = m + 1
      <4>1. log[k] = log[m + 1]
        BY <1>7, <1>11, <2>3
      <4> QED
        BY <1>1, <1>5, <4>1, OnePlace
    <3>2. j <= m
      BY <1>10, <2>1
    <3> QED
      BY <3>1, <3>2
  <2> QED
    BY <1>7, <2>2, <2>3
<1>12. Line(r, m + 1)'
  <2> DEFINE m2 == m + 1
  <2>1. /\ r <= m2 /\ m2 <= Len(log') /\ m2 + Len(bus') = Len(log')
        /\ \A i \in 1..Len(bus') : bus'[i] = log'[m2 + i]
    BY <1>1, <1>5, <1>6
  <2>2. /\ \A a \in 1..Len(pipe') : pipe'[a] \in Replies \/ \E j \in r + 1..m2 : pipe'[a] = log'[j]
        /\ \A j \in r + 1..m2 : \E a \in 1..Len(pipe') : pipe'[a] = log'[j]
    BY <1>1, <1>8, <1>9
  <2>3. \A a, b \in 1..Len(pipe'), j, k \in 1..Len(log') :
             a < b /\ pipe'[a] = log'[j] /\ pipe'[b] = log'[k] => j < k
    <3>1. log' = log
      BY <1>1
    <3> QED
      BY <1>11, <3>1
  <2>5. \A j \in r + 1..Len(log') : log'[j].gen = gen'
    BY <1>1, <1>3
  <2> HIDE DEF m2
  <2>4. Line(r, m2)'
    BY <2>1, <2>2, <2>3, <2>5 DEF Line
  <2> QED
    BY <2>4 DEF m2
<1>13. \A s \in Streams : /\ s \in Registered' => QueueOK(s, r)'
                          /\ GoesOn(s, r)' /\ Begins(s, r)'
  <2>1. \A a \in 1..Len(pipe') :
            \/ \E b \in 1..Len(pipe) : pipe'[a] = pipe[b]
            \/ pipe'[a] \notin Replies
    BY <1>1, <1>5, <1>7, LogFacts
  <2>2. \A x \in 1..Len(inbox') : \E y \in 1..Len(inbox) : inbox[y] = inbox'[x]
    BY <1>1
  <2> QED
    BY <1>1, <1>2, <2>1, <2>2, StreamsKept
<1> QED
  BY <1>2, <1>12, <1>13 DEF Delivery

LEMMA PipeTail ==
  ASSUME Types, pipe # <<>>, pipe' = Tail(pipe)
  PROVE  /\ 1 \in 1..Len(pipe) /\ Head(pipe) = pipe[1] /\ Head(pipe) \in Events \cup Replies
         /\ \A a \in 1..Len(pipe') : a + 1 \in 1..Len(pipe) /\ pipe'[a] = pipe[a + 1]
         /\ \A b \in 1..Len(pipe) : b = 1 \/ \E a \in 1..Len(pipe') : b = a + 1 /\ pipe'[a] = pipe[b]
<1>1. pipe \in Seq(Events \cup Replies) /\ pipe # <<>>
  BY DEF Types
<1>2. \A b \in 1..Len(pipe) : b = 1 \/ (b - 1 \in 1..Len(pipe') /\ pipe'[b - 1] = pipe[b] /\ b = b - 1 + 1)
  BY <1>1
<1>3. \A b \in 1..Len(pipe) : b = 1 \/ \E a \in 1..Len(pipe') : b = a + 1 /\ pipe'[a] = pipe[b]
  BY <1>2
<1>4. /\ 1 \in 1..Len(pipe) /\ Head(pipe) = pipe[1] /\ Head(pipe) \in Events \cup Replies
      /\ \A a \in 1..Len(pipe') : a + 1 \in 1..Len(pipe) /\ pipe'[a] = pipe[a + 1]
  BY <1>1
<1> QED
  BY <1>3, <1>4

\* The reader has an event before it: the next one of the log.
LEMMA ReadLine ==
  ASSUME Base, NEW r \in Nat, NEW m \in Nat, Line(r, m), pipe # <<>>, pipe' = Tail(pipe),
         Head(pipe) \notin Replies, UNCHANGED <<process, gen, bus, log>>
  PROVE  /\ Line(r + 1, m)' /\ r + 1 \in 1..Len(log) /\ Head(pipe) = log[r + 1]
         /\ log[r + 1].gen = gen
<1>0. /\ r <= m /\ m <= Len(log) /\ Len(log) \in Nat /\ Types /\ Numbered
      /\ \A a \in 1..Len(pipe) : pipe[a] \in Replies \/ \E j \in r + 1..m : pipe[a] = log[j]
      /\ \A j \in r + 1..m :
           \/ \E a \in 1..Len(pipe) : pipe[a] = log[j]
           \/ /\ process = "down"
              /\ \A a \in 1..Len(pipe), k \in 1..Len(log) : pipe[a] = log[k] => k < j
      /\ \A a, b \in 1..Len(pipe), j, k \in 1..Len(log) :
           a < b /\ pipe[a] = log[j] /\ pipe[b] = log[k] => j < k
      /\ \A j \in r + 1..Len(log) : log[j].gen = gen
  BY LogFacts DEF Line, Base, LogInv
<1>1. /\ 1 \in 1..Len(pipe) /\ Head(pipe) = pipe[1]
      /\ \A a \in 1..Len(pipe') : a + 1 \in 1..Len(pipe) /\ pipe'[a] = pipe[a + 1]
      /\ \A b \in 1..Len(pipe) : b = 1 \/ \E a \in 1..Len(pipe') : b = a + 1 /\ pipe'[a] = pipe[b]
  BY <1>0, PipeTail
<1>2. PICK i \in r + 1..m : pipe[1] = log[i]
  BY <1>0, <1>1
<1>3. i \in 1..Len(log) /\ r + 1 \in 1..Len(log) /\ r + 1 \in r + 1..m
  BY <1>0, <1>2
<1>4. i = r + 1
  <2>1. CASE \E a \in 1..Len(pipe) : pipe[a] = log[r + 1]
    <3>1. PICK a \in 1..Len(pipe) : pipe[a] = log[r + 1]
      BY <2>1
    <3>2. CASE a = 1
      BY <1>0, <1>2, <1>3, <3>1, <3>2, OnePlace
    <3>3. CASE a # 1
      <4>1. 1 < a
        BY <3>1, <3>3
      <4>2. i < r + 1
        BY <1>0, <1>1, <1>2, <1>3, <3>1, <4>1
      <4> QED
        BY <1>2, <4>2
    <3> QED
      BY <3>2, <3>3
  <2>2. CASE \A a \in 1..Len(pipe), k \in 1..Len(log) : pipe[a] = log[k] => k < r + 1
    <3>1. i < r + 1
      BY <1>1, <1>2, <1>3, <2>2
    <3> QED
      BY <1>2, <3>1
  <2> QED
    BY <1>0, <1>3, <2>1, <2>2
<1> DEFINE r2 == r + 1
<1>5. /\ r2 \in Nat /\ r2 \in 1..Len(log) /\ pipe[1] = log[r2] /\ r2 <= m
      /\ \A j \in r2 + 1..m : j \in r + 1..m /\ j \in 1..Len(log) /\ r2 < j
      /\ \A j \in r + 1..m : j \in 1..Len(log) /\ (j = r2 \/ j \in r2 + 1..m)
      /\ \A j \in r2 + 1..Len(log) : j \in r + 1..Len(log)
  BY <1>0, <1>2, <1>3, <1>4
<1> HIDE DEF r2
<1>6. ASSUME NEW a \in 1..Len(pipe'), pipe'[a] \notin Replies
      PROVE  \E j \in r2 + 1..m : pipe'[a] = log[j]
  <2>1. /\ a + 1 \in 1..Len(pipe) /\ pipe'[a] = pipe[a + 1] /\ 1 < a + 1
    BY <1>1
  <2>2. PICK j \in r + 1..m : pipe[a + 1] = log[j]
    BY <1>0, <1>6, <2>1
  <2>3. r2 < j
    BY <1>0, <1>1, <1>5, <2>1, <2>2
  <2>4. j \in r2 + 1..m
    BY <1>5, <2>2, <2>3
  <2> QED
    BY <2>1, <2>2, <2>4
<1>7. ASSUME NEW j \in r2 + 1..m
      PROVE  \/ \E a \in 1..Len(pipe') : pipe'[a] = log[j]
             \/ /\ process = "down"
                /\ \A a \in 1..Len(pipe'), k \in 1..Len(log) : pipe'[a] = log[k] => k < j
  <2>1. j \in r + 1..m /\ j \in 1..Len(log) /\ r2 < j
    BY <1>5
  <2>2. CASE \E b \in 1..Len(pipe) : pipe[b] = log[j]
    <3>1. PICK b \in 1..Len(pipe) : pipe[b] = log[j]
      BY <2>2
    <3>2. b # 1
      <4>1. SUFFICES ASSUME b = 1 PROVE FALSE
        OBVIOUS
      <4>2. log[r2] = log[j]
        BY <1>5, <3>1, <4>1
      <4>3. r2 = j
        BY <1>0, <1>5, <2>1, <4>2, OnePlace
      <4> QED
        BY <1>5, <2>1, <4>3
    <3>3. PICK a \in 1..Len(pipe') : b = a + 1 /\ pipe'[a] = pipe[b]
      BY <1>1, <3>1, <3>2
    <3>4. pipe'[a] = log[j]
      BY <3>1, <3>3
    <3> QED
      BY <3>3, <3>4
  <2>3. CASE /\ process = "down"
             /\ \A a \in 1..Len(pipe), k \in 1..Len(log) : pipe[a] = log[k] => k < j
    BY <1>1, <2>3
  <2> QED
    BY <1>0, <2>1, <2>2, <2>3
<1>8. ASSUME NEW a \in 1..Len(pipe'), NEW b \in 1..Len(pipe'),
             NEW j \in 1..Len(log), NEW k \in 1..Len(log),
             a < b, pipe'[a] = log[j], pipe'[b] = log[k]
      PROVE  j < k
  <2>1. /\ a + 1 \in 1..Len(pipe) /\ b + 1 \in 1..Len(pipe) /\ a + 1 < b + 1
        /\ pipe[a + 1] = log[j] /\ pipe[b + 1] = log[k]
    BY <1>1, <1>8
  <2> QED
    BY <1>0, <2>1
<1>9. /\ process # "down" => m + Len(bus) = Len(log)
      /\ \A x \in 1..Len(bus) : bus[x] = log[m + x]
  BY DEF Line
<1>10. \A j \in r2 + 1..Len(log) : log[j].gen = gen
  BY <1>0, <1>5
<1>11. log' = log /\ bus' = bus /\ process' = process /\ gen' = gen
  OBVIOUS
<1>12. Line(r2, m)'
  <2>1. \A a \in 1..Len(pipe') : pipe'[a] \in Replies \/ \E j \in r2 + 1..m : pipe'[a] = log[j]
    BY <1>6
  <2>2. \A j \in r2 + 1..m :
           \/ \E a \in 1..Len(pipe') : pipe'[a] = log[j]
           \/ /\ process = "down"
              /\ \A a \in 1..Len(pipe'), k \in 1..Len(log) : pipe'[a] = log[k] => k < j
    BY <1>7
  <2>3. \A a, b \in 1..Len(pipe'), j, k \in 1..Len(log) :
           a < b /\ pipe'[a] = log[j] /\ pipe'[b] = log[k] => j < k
    BY <1>8
  <2> QED
    BY <1>0, <1>5, <1>9, <1>10, <1>11, <2>1, <2>2, <2>3 DEF Line
<1> QED
  BY <1>0, <1>1, <1>2, <1>3, <1>4, <1>12 DEF r2

LEMMA ReadEventDelivers ==
  ASSUME Base, Base', NEW r \in Nat, NEW m \in Nat, Delivery(r, m), ReadEvent
  PROVE  LogGrows /\ Delivery(r + 1, m)'
<1>1. /\ reader /\ pipe # <<>> /\ pipe' = Tail(pipe) /\ queue' = Publish(Head(pipe))
      /\ UNCHANGED <<client, process, gen, worker, next, bus, log, lagged, inbox, reader, pending, stream>>
      /\ Types /\ Types' /\ Numbered
  BY DEF ReadEvent, serverVars, Base, LogInv
<1>2. Head(pipe) \in Events \cup Replies /\ Head(pipe) \notin Replies
  <2>1. Head(pipe) \in Events \cup Replies
    BY <1>1, PipeTail
  <2> QED
    BY <2>1, Kinded DEF ReadEvent
<1>3. LogGrows
  BY <1>1, GrowsSame
<1>4. /\ Line(r + 1, m)' /\ r + 1 \in 1..Len(log) /\ Head(pipe) = log[r + 1]
      /\ log[r + 1].gen = gen /\ r <= Len(log)
  <2>1. Line(r, m)
    BY DEF Delivery
  <2>2. r <= Len(log)
    BY <1>3, <2>1 DEF Line, LogGrows
  <2>3. UNCHANGED <<process, gen, bus, log>>
    BY <1>1
  <2> QED
    BY <1>1, <1>2, <2>1, <2>2, <2>3, ReadLine
<1> DEFINE message == Head(pipe)
           r2 == r + 1
<1>5. r2 \in Nat /\ Next1(message, r, r2)
  BY <1>1, <1>4 DEF Next1
<1>6. \A s \in Streams : queue'[s] = IF s \in Registered THEN Enqueue(s, message) ELSE queue[s]
  BY <1>1 DEF Publish
<1> HIDE DEF message, r2
<1>7. ASSUME NEW s \in Streams
      PROVE  /\ s \in Registered' => QueueOK(s, r2)'
             /\ GoesOn(s, r2)' /\ Begins(s, r2)'
  <2>1. /\ stream'[s] = stream[s] /\ GoesOn(s, r) /\ Begins(s, r)
        /\ s \in Registered => QueueOK(s, r)
        /\ s \in Registered' => s \in Registered
    BY <1>1 DEF Delivery, Registered
  <2>2. CASE s \in Registered
    <3>1. queue'[s] = Enqueue(s, message) /\ stream[s].pc # "none"
      BY <1>6, <2>2 DEF Registered
    <3>2. QueueOK(s, r2)'
      BY <1>1, <1>4, <1>5, <2>1, <2>2, <3>1, QueueGets
    <3>3. GoesOn(s, r2)'
      BY <1>1, <1>4, <1>5, <2>1, <3>1, GoesOnGets
    <3>4. \A turn \in Nat : Coming(s, turn, r) => Coming(s, turn, r2)'
      BY <1>1, <1>4, <1>5, <2>1, <2>2, <3>1, ComingGets
    <3>5. \A a \in 1..Len(pipe') : \E b \in 1..Len(pipe) : pipe'[a] = pipe[b]
      BY <1>1, PipeTail
    <3>6. \A x \in 1..Len(inbox') : inbox'[x] = s => \E y \in 1..Len(inbox) : inbox[y] = s
      BY <1>1
    <3>7. Begins(s, r2)'
      BY <1>1, <1>5, <2>1, <3>1, <3>4, <3>5, <3>6, BeginsKept
    <3> QED
      BY <3>2, <3>3, <3>7
  <2>3. CASE s \notin Registered
    <3>1. queue'[s] = queue[s]
      BY <1>6, <2>3
    <3>2. GoesOn(s, r2)'
      BY <2>1, <2>3 DEF GoesOn, Registered
    <3>3. \A a \in 1..Len(pipe') : \E b \in 1..Len(pipe) : pipe'[a] = pipe[b]
      BY <1>1, PipeTail
    <3>4. \A x \in 1..Len(inbox') : inbox'[x] = s => \E y \in 1..Len(inbox) : inbox[y] = s
      BY <1>1
    <3>5. Begins(s, r2)'
      BY <1>1, <1>5, <2>1, <2>3, <3>1, <3>3, <3>4, BeginsKept
    <3> QED
      BY <2>1, <2>3, <3>2, <3>5
  <2> QED
    BY <2>2, <2>3
<1>8. Line(r2, m)'
  BY <1>4 DEF r2
<1>9. Delivery(r2, m)'
  BY <1>7, <1>8 DEF Delivery
<1> QED
  BY <1>3, <1>9 DEF r2

LEMMA ReplyTailLine ==
  ASSUME Base, NEW r \in Nat, NEW m \in Nat, Line(r, m), pipe # <<>>, pipe' = Tail(pipe),
         Head(pipe) \in Replies, UNCHANGED <<process, gen, bus, log>>
  PROVE  Line(r, m)'
<1>0. /\ r <= m /\ m <= Len(log) /\ Len(log) \in Nat /\ Types
      /\ \A a \in 1..Len(pipe) : pipe[a] \in Replies \/ \E j \in r + 1..m : pipe[a] = log[j]
      /\ \A j \in r + 1..m :
           \/ \E a \in 1..Len(pipe) : pipe[a] = log[j]
           \/ /\ process = "down"
              /\ \A a \in 1..Len(pipe), k \in 1..Len(log) : pipe[a] = log[k] => k < j
      /\ \A a, b \in 1..Len(pipe), j, k \in 1..Len(log) :
           a < b /\ pipe[a] = log[j] /\ pipe[b] = log[k] => j < k
  BY LogFacts DEF Line, Base
<1>1. /\ 1 \in 1..Len(pipe) /\ Head(pipe) = pipe[1]
      /\ \A a \in 1..Len(pipe') : a + 1 \in 1..Len(pipe) /\ pipe'[a] = pipe[a + 1]
      /\ \A b \in 1..Len(pipe) : b = 1 \/ \E a \in 1..Len(pipe') : b = a + 1 /\ pipe'[a] = pipe[b]
  BY <1>0, PipeTail
<1>2. \A j \in 1..Len(log) : pipe[1] # log[j]
  BY <1>0, <1>1, LogFacts
<1>3. \A a \in 1..Len(pipe') : pipe'[a] \in Replies \/ \E j \in r + 1..m : pipe'[a] = log[j]
  BY <1>0, <1>1
<1>4. ASSUME NEW j \in r + 1..m
      PROVE  \/ \E a \in 1..Len(pipe') : pipe'[a] = log[j]
             \/ /\ process = "down"
                /\ \A a \in 1..Len(pipe'), k \in 1..Len(log) : pipe'[a] = log[k] => k < j
  <2>1. CASE \E b \in 1..Len(pipe) : pipe[b] = log[j]
    <3>1. PICK b \in 1..Len(pipe) : pipe[b] = log[j]
      BY <2>1
    <3>2. j \in 1..Len(log)
      BY <1>0
    <3>3. b # 1
      BY <1>2, <3>1, <3>2
    <3> QED
      BY <1>1, <3>1, <3>3
  <2>2. CASE /\ process = "down"
             /\ \A a \in 1..Len(pipe), k \in 1..Len(log) : pipe[a] = log[k] => k < j
    BY <1>1, <2>2
  <2> QED
    BY <1>0, <2>1, <2>2
<1>5. ASSUME NEW a \in 1..Len(pipe'), NEW b \in 1..Len(pipe'),
             NEW j \in 1..Len(log), NEW k \in 1..Len(log),
             a < b, pipe'[a] = log[j], pipe'[b] = log[k]
      PROVE  j < k
  <2>1. /\ a + 1 \in 1..Len(pipe) /\ b + 1 \in 1..Len(pipe) /\ a + 1 < b + 1
        /\ pipe[a + 1] = log[j] /\ pipe[b + 1] = log[k]
    BY <1>1, <1>5
  <2> QED
    BY <1>0, <2>1
<1>6. /\ process # "down" => m + Len(bus) = Len(log)
      /\ \A x \in 1..Len(bus) : bus[x] = log[m + x]
      /\ \A j \in r + 1..Len(log) : log[j].gen = gen
  BY DEF Line
<1>7. log' = log /\ bus' = bus /\ process' = process /\ gen' = gen
  OBVIOUS
<1>8. \A j \in r + 1..m :
         \/ \E a \in 1..Len(pipe') : pipe'[a] = log[j]
         \/ /\ process = "down"
            /\ \A a \in 1..Len(pipe'), k \in 1..Len(log) : pipe'[a] = log[k] => k < j
  BY <1>4
<1>9. \A a, b \in 1..Len(pipe'), j, k \in 1..Len(log) :
         a < b /\ pipe'[a] = log[j] /\ pipe'[b] = log[k] => j < k
  BY <1>5
<1> QED
  BY <1>0, <1>3, <1>6, <1>7, <1>8, <1>9 DEF Line

LEMMA ReadReplyDelivers ==
  ASSUME Base, Base', NEW r \in Nat, NEW m \in Nat, Delivery(r, m),
         \A s \in Streams : Yielded(s), ReadReply
  PROVE  /\ LogGrows /\ Delivery(r, m)'
         /\ \A s \in Streams : \/ stream'[s] = stream[s]
                               \/ stream[s].got = <<>> /\ stream'[s].got = <<>>
<1> DEFINE reply == Head(pipe)
<1>1. /\ reader /\ pipe # <<>> /\ pipe' = Tail(pipe)
      /\ UNCHANGED <<client, process, gen, worker, next, bus, log, lagged, inbox, reader>>
      /\ Types /\ Types' /\ Numbered
  BY DEF ReadReply, serverVars, Base, LogInv
<1>2. reply \in Replies /\ reply.to \in Streams /\ reply.turn \in Nat
  <2>1. reply \in Events \cup Replies
    BY <1>1, PipeTail
  <2>2. reply \in Replies
    BY <2>1, Kinded DEF ReadReply
  <2> QED
    BY <2>2 DEF Replies
<1> DEFINE next1 == [stream[reply.to] EXCEPT !.pc = IF reply.turn = 0 THEN "ended" ELSE "reading",
                                             !.turn = reply.turn, !.first = reply.turn]
<1>3. /\ pending' = pending \ {reply.to}
      /\ stream' = IF reply.to \notin pending THEN stream ELSE [stream EXCEPT ![reply.to] = next1]
      /\ queue' = [s \in Streams |-> IF stream'[s].pc = "ended" THEN <<>> ELSE queue[s]]
  BY DEF ReadReply
<1>4. /\ next1.pc = IF reply.turn = 0 THEN "ended" ELSE "reading"
      /\ next1.turn = reply.turn /\ next1.first = reply.turn
      /\ next1.got = stream[reply.to].got /\ next1.steered = stream[reply.to].steered
  BY <1>1, <1>2, StreamFacts DEF StreamStates
<1>5. \A s \in Streams :
        \/ stream'[s] = stream[s] /\ (s = reply.to => s \notin pending)
        \/ s = reply.to /\ s \in pending /\ stream'[s] = next1
  BY <1>1, <1>2, <1>3 DEF Types
<1>6. LogGrows
  BY <1>1, GrowsSame
<1>7. Line(r, m)' /\ r <= Len(log)
  <2>1. Line(r, m)
    BY DEF Delivery
  <2>2. r <= Len(log)
    BY <1>6, <2>1 DEF Line, LogGrows
  <2>3. UNCHANGED <<process, gen, bus, log>>
    BY <1>1
  <2> QED
    BY <1>1, <1>2, <2>1, <2>2, <2>3, ReplyTailLine
<1>8. /\ \A a \in 1..Len(pipe') : \E b \in 1..Len(pipe) : pipe'[a] = pipe[b]
      /\ 1 \in 1..Len(pipe) /\ reply = pipe[1]
  BY <1>1, PipeTail
<1> HIDE DEF reply, next1
<1>9. ASSUME NEW s \in Streams
      PROVE  /\ s \in Registered' => QueueOK(s, r)'
             /\ GoesOn(s, r)' /\ Begins(s, r)'
             /\ stream'[s] = stream[s] \/ (stream[s].got = <<>> /\ stream'[s].got = <<>>)
  <2>1. /\ GoesOn(s, r) /\ Begins(s, r)
        /\ (s \in Registered => QueueOK(s, r)) /\ Yielded(s)
    BY DEF Delivery
  <2>2. queue'[s] = IF stream'[s].pc = "ended" THEN <<>> ELSE queue[s]
    BY <1>3
  <2>3. s \in pending => stream[s].pc = "submitting" /\ stream[s].got = <<>> /\ ~stream[s].steered
    BY <2>1 DEF Begins
  <2>4. CASE stream'[s] = stream[s] /\ (s = reply.to => s \notin pending)
    <3>1. CASE stream[s].pc = "ended"
      <4>1. s \notin pending' /\ (stream'[s].got = <<>> => ~stream'[s].steered)
        BY <1>3, <2>1, <2>3, <2>4, <3>1 DEF Begins
      <4>2. stream'[s].pc \in {"ended", "failed"}
        BY <2>4, <3>1
      <4> QED
        BY <2>4, <4>1, <4>2, Retired
    <3>2. CASE stream[s].pc # "ended"
      <4>1. queue'[s] = queue[s] /\ (s \in Registered' => s \in Registered)
        BY <2>2, <2>4, <3>2 DEF Registered
      <4>2. s \in Registered' => QueueOK(s, r)'
        BY <1>1, <1>6, <1>7, <2>1, <4>1, QueueKept
      <4>3. GoesOn(s, r)'
        BY <1>1, <1>6, <1>7, <2>1, <2>4, <4>1, GoesOnKept
      <4>4. \A turn \in Nat : s \in Registered /\ Coming(s, turn, r) => Coming(s, turn, r)'
        BY <1>1, <1>6, <1>7, <2>1, <4>1, ComingKept
      <4>5. s \in pending' => s \in pending
        BY <1>3
      <4>6. \A x \in 1..Len(inbox') : inbox'[x] = s => \E y \in 1..Len(inbox) : inbox[y] = s
        BY <1>1
      <4>7. Begins(s, r)'
        BY <1>1, <1>8, <2>1, <2>4, <4>1, <4>4, <4>5, <4>6, BeginsKept
      <4> QED
        BY <2>4, <4>2, <4>3, <4>7
    <3> QED
      BY <3>1, <3>2
  <2>5. CASE s = reply.to /\ s \in pending /\ stream'[s] = next1
    <3>1. /\ s \notin pending' /\ stream'[s].got = <<>> /\ ~stream'[s].steered
          /\ stream[s].got = <<>>
      BY <1>3, <1>4, <2>3, <2>5
    <3>2. CASE reply.turn = 0
      <4>1. stream'[s].pc \in {"ended", "failed"}
        BY <1>4, <2>5, <3>2
      <4> QED
        BY <3>1, <4>1, Retired
    <3>3. CASE reply.turn # 0
      <4>1. /\ stream'[s].pc = "reading" /\ stream'[s].turn = reply.turn
            /\ stream'[s].first = reply.turn /\ queue'[s] = queue[s] /\ s \in Registered
        BY <1>4, <2>2, <2>3, <2>5, <3>3 DEF Registered
      <4>2. PICK turn \in Nat : turn = reply.turn
        BY <1>2
      <4>3. pipe[1] = [to |-> s, turn |-> turn]
        BY <1>2, <1>8, <2>5, <4>2 DEF Replies
      <4>4. Coming(s, turn, r)
        BY <1>8, <2>1, <2>5, <3>3, <4>2, <4>3 DEF Begins, Owed
      <4>5. Coming(s, turn, r)'
        BY <1>1, <1>6, <1>7, <2>1, <4>1, <4>4, ComingKept
      <4>6. QueueOK(s, r)'
        BY <1>1, <1>6, <1>7, <2>1, <4>1, QueueKept
      <4>7. GoesOn(s, r)'
        BY <3>1 DEF GoesOn
      <4>8. \A t \in Owed(s)' : t = turn
        BY <3>1, <4>1, <4>2 DEF Owed
      <4>9. Begins(s, r)'
        BY <3>1, <4>1, <4>5, <4>8 DEF Begins
      <4> QED
        BY <3>1, <4>6, <4>7, <4>9
    <3> QED
      BY <3>2, <3>3
  <2> QED
    BY <1>5, <2>4, <2>5
<1>10. Delivery(r, m)'
  BY <1>7, <1>9 DEF Delivery
<1> QED
  BY <1>6, <1>9, <1>10

-----------------------------------------------------------------------------
(* The end of a process. *)

LEMMA EndDelivers ==
  ASSUME Base, Base', NEW r \in Nat, NEW m \in Nat, Delivery(r, m),
         \A s \in Streams : Yielded(s), ReadEof \/ Stop
  PROVE  /\ LogGrows /\ Delivery(r, m)'
         /\ \A s \in Streams : stream'[s].got = stream[s].got /\ stream'[s].first = stream[s].first
<1>1. /\ process' = "down" /\ reader' = FALSE /\ pending' = {} /\ pipe' = <<>> /\ bus' = <<>>
      /\ queue' = Publish(Error)
      /\ stream' = [s \in Streams |-> IF s \in pending THEN Fail(s) ELSE stream[s]]
      /\ UNCHANGED <<client, gen, log, lagged>> /\ inbox' \in {inbox, <<>>}
      /\ Types /\ Types' /\ Numbered
  BY DEF ReadEof, Stop, serverVars, Base, ReaderInv, LogInv
<1>2. LogGrows
  BY <1>1, GrowsSame
<1>3. /\ r <= m /\ m <= Len(log) /\ \A j \in r + 1..Len(log) : log[j].gen = gen
  BY DEF Delivery, Line
<1>4. Line(r, m)'
  <2>1. 1..Len(pipe') = {} /\ 1..Len(bus') = {}
    BY <1>1
  <2> QED
    BY <1>1, <1>3, <2>1 DEF Line
<1>5. r <= Len(log)
  BY <1>2, <1>3 DEF LogGrows
<1>6. ASSUME NEW s \in Streams
      PROVE  /\ s \in Registered' => QueueOK(s, r)'
             /\ GoesOn(s, r)' /\ Begins(s, r)'
             /\ stream'[s].got = stream[s].got /\ stream'[s].first = stream[s].first
  <2>1. /\ GoesOn(s, r) /\ Begins(s, r) /\ (s \in Registered => QueueOK(s, r)) /\ Yielded(s)
        /\ s \notin pending'
    BY <1>1 DEF Delivery
  <2>2. CASE s \in pending
    <3>1. stream'[s] = Fail(s)
      BY <1>1, <2>2
    <3>2. stream'[s].got = <<>> => ~stream'[s].steered
      BY <1>1, <2>1, <3>1, StreamFacts DEF Begins
    <3>3. /\ stream'[s].pc \in {"ended", "failed"}
          /\ stream'[s].got = stream[s].got /\ stream'[s].first = stream[s].first
      BY <1>1, <3>1, StreamFacts
    <3> QED
      BY <2>1, <3>2, <3>3, Retired
  <2>3. CASE s \notin pending
    <3>1. stream'[s] = stream[s] /\ (s \in Registered' => s \in Registered)
      BY <1>1, <2>3 DEF Registered
    <3>2. \A x \in 1..Len(inbox') : inbox'[x] = s => \E y \in 1..Len(inbox) : inbox[y] = s
      BY <1>1
    <3>3. \A a \in 1..Len(pipe') : \E b \in 1..Len(pipe) : pipe'[a] = pipe[b]
      BY <1>1
    <3>4. CASE s \in Registered
      <4>1. queue'[s] = Enqueue(s, Error) /\ Next1(Error, r, r) /\ stream[s].pc # "none"
        BY <1>1, <3>4 DEF Publish, Next1, Registered
      <4>2. QueueOK(s, r)'
        BY <1>1, <1>5, <2>1, <3>4, <4>1, QueueGets
      <4>3. GoesOn(s, r)'
        BY <1>1, <1>5, <2>1, <3>1, <4>1, GoesOnGets
      <4>4. \A turn \in Nat : Coming(s, turn, r) => Coming(s, turn, r)'
        BY <1>1, <1>5, <2>1, <3>4, <4>1, ComingGets
      <4>5. Begins(s, r)'
        BY <1>1, <2>1, <3>1, <3>2, <3>3, <4>1, <4>4, BeginsKept
      <4> QED
        BY <3>1, <4>2, <4>3, <4>5
    <3>5. CASE s \notin Registered
      <4>1. queue'[s] = queue[s]
        BY <1>1, <3>5 DEF Publish
      <4>2. GoesOn(s, r)'
        BY <3>1, <3>5 DEF GoesOn, Registered
      <4>3. Begins(s, r)'
        BY <1>1, <2>1, <3>1, <3>2, <3>3, <3>5, <4>1, BeginsKept
      <4> QED
        BY <3>1, <3>5, <4>2, <4>3
    <3> QED
      BY <3>4, <3>5
  <2> QED
    BY <2>2, <2>3
<1> QED
  BY <1>2, <1>4, <1>6 DEF Delivery

LEMMA CrashDelivers ==
  ASSUME Base, Base', NEW r \in Nat, NEW m \in Nat, Delivery(r, m),
         \A s \in Streams : Yielded(s), Crash
  PROVE  LogGrows /\ Delivery(r, m)'
<1>1. /\ process # "down" /\ process' = "down" /\ bus' = <<>> /\ inbox' = <<>>
      /\ UNCHANGED <<client, gen, log, lagged, reader, pending, stream, queue>>
      /\ Types /\ Types' /\ Numbered
  BY DEF Crash, clientVars, Base, LogInv
<1>2. LogGrows
  BY <1>1, GrowsSame
<1>3. PICK n \in 0..Len(pipe) : pipe' = SubSeq(pipe, 1, n)
  BY DEF Crash
<1>4. /\ Len(pipe') = n /\ \A a \in 1..n : a \in 1..Len(pipe) /\ pipe'[a] = pipe[a]
      /\ \A a \in 1..Len(pipe) : a \in 1..n \/ n < a
  <2>1. pipe \in Seq(Events \cup Replies)
    BY <1>1 DEF Types
  <2> QED
    BY <1>3, <2>1
<1>5. /\ r <= m /\ m <= Len(log) /\ Len(log) \in Nat
      /\ \A a \in 1..Len(pipe) : pipe[a] \in Replies \/ \E j \in r + 1..m : pipe[a] = log[j]
      /\ \A j \in r + 1..m : \E a \in 1..Len(pipe) : pipe[a] = log[j]
      /\ \A a, b \in 1..Len(pipe), j, k \in 1..Len(log) :
           a < b /\ pipe[a] = log[j] /\ pipe[b] = log[k] => j < k
      /\ \A j \in r + 1..Len(log) : log[j].gen = gen
  BY <1>1, LogFacts DEF Delivery, Line
<1>6. ASSUME NEW j \in r + 1..m
      PROVE  \/ \E a \in 1..n : pipe'[a] = log[j]
             \/ \A a \in 1..n, k \in 1..Len(log) : pipe'[a] = log[k] => k < j
  <2>1. PICK b \in 1..Len(pipe) : pipe[b] = log[j]
    BY <1>5
  <2>2. CASE b \in 1..n
    BY <1>4, <2>1, <2>2
  <2>3. CASE n < b
    <3>1. SUFFICES ASSUME NEW a \in 1..n, NEW k \in 1..Len(log), pipe'[a] = log[k]
                   PROVE  k < j
      OBVIOUS
    <3>2. /\ a \in 1..Len(pipe) /\ pipe[a] = log[k] /\ a < b
          /\ j \in 1..Len(log)
      BY <1>4, <1>5, <2>3, <3>1
    <3> QED
      BY <1>5, <2>1, <3>2
  <2> QED
    BY <1>4, <2>2, <2>3
<1>7. Line(r, m)'
  <2>1. \A a \in 1..n : pipe'[a] \in Replies \/ \E j \in r + 1..m : pipe'[a] = log[j]
    BY <1>4, <1>5
  <2>2. \A j \in r + 1..m :
           \/ \E a \in 1..n : pipe'[a] = log[j]
           \/ \A a \in 1..n, k \in 1..Len(log) : pipe'[a] = log[k] => k < j
    BY <1>6
  <2>3. ASSUME NEW a \in 1..n, NEW b \in 1..n, NEW j \in 1..Len(log), NEW k \in 1..Len(log),
               a < b, pipe'[a] = log[j], pipe'[b] = log[k]
        PROVE  j < k
    <3>1. a \in 1..Len(pipe) /\ b \in 1..Len(pipe) /\ pipe[a] = log[j] /\ pipe[b] = log[k]
      BY <1>4, <2>3
    <3> QED
      BY <1>5, <2>3, <3>1
  <2>4. 1..Len(bus') = {}
    BY <1>1
  <2>5. log' = log /\ gen' = gen /\ process' = "down"
    BY <1>1
  <2> QED
    BY <1>4, <1>5, <2>1, <2>2, <2>3, <2>4, <2>5 DEF Line
<1>8. \A s \in Streams : /\ s \in Registered' => QueueOK(s, r)'
                         /\ GoesOn(s, r)' /\ Begins(s, r)'
  <2>1. \A a \in 1..Len(pipe') : \E b \in 1..Len(pipe) : pipe'[a] = pipe[b]
    BY <1>4
  <2>2. \A x \in 1..Len(inbox') : \E y \in 1..Len(inbox) : inbox[y] = inbox'[x]
    BY <1>1
  <2> QED
    BY <1>1, <1>2, <2>1, <2>2, StreamsKept
<1> QED
  BY <1>2, <1>7, <1>8 DEF Delivery

\* A new process: everything that was emitted is over and done with, for every
\* queue that is still read ends in a marker.
LEMMA SpawnDelivers ==
  ASSUME Base, Base', NEW r \in Nat, NEW m \in Nat, Delivery(r, m), Spawn
  PROVE  \E n \in Nat : Delivery(n, n)'
<1>1. /\ process = "down" /\ ~reader /\ reader' = TRUE /\ process' = "starting" /\ gen' = gen + 1
      /\ UNCHANGED <<client, log, lagged, bus, pipe, inbox, pending, stream, queue>>
      /\ pipe = <<>> /\ bus = <<>> /\ Types
  BY DEF Spawn, Base, ReaderInv
<1>2. PICK n \in Nat : n = Len(log)
  BY <1>1, LogFacts
<1>3. /\ r <= n /\ \A i \in 1..r : i \in 1..n
      /\ \A i \in 1..Len(log) : /\ log[i] # Error /\ log[i] # Overflow
                                 /\ log[i] \notin {Error, Overflow}
  BY <1>1, <1>2, LogFacts DEF Delivery, Line
<1>4. Line(n, n)'
  <2>1. 1..Len(pipe') = {} /\ 1..Len(bus') = {} /\ Len(bus') = 0 /\ n + 1..n = {}
    BY <1>1
  <2> QED
    BY <1>1, <1>2, <2>1 DEF Line
<1>5. ASSUME NEW s \in Streams
      PROVE  /\ s \in Registered' => QueueOK(s, n)'
             /\ GoesOn(s, n)' /\ Begins(s, n)'
  <2>1. /\ GoesOn(s, r) /\ Begins(s, r) /\ (s \in Registered => QueueOK(s, r))
        /\ (s \in Registered' => s \in Registered)
    BY <1>1 DEF Delivery, Registered
  <2>2. s \in Registered => queue[s] # <<>> /\ queue[s][Len(queue[s])] \in {Error, Overflow}
    BY <1>1, <2>1 DEF QueueOK
  <2>3. ASSUME s \in Registered PROVE QueueOK(s, n)'
    <3>1. \A k \in 1..Len(queue[s]) :
            queue[s][k] \in {Error, Overflow} \/ \E i \in 1..n : queue[s][k] = log[i]
      BY <1>3, <2>1, <2>3 DEF QueueOK
    <3>2. \A i \in 1..Len(log) : queue[s][Len(queue[s])] # log[i]
      BY <1>3, <2>2, <2>3
    <3> QED
      BY <1>1, <2>1, <2>3, <3>1, <3>2 DEF QueueOK
  <2>4. GoesOn(s, n)'
    <3>1. CASE s \in Registered
      BY <1>1, <2>1, <2>2, <3>1 DEF GoesOn
    <3>2. CASE s \notin Registered
      BY <1>1, <3>2 DEF GoesOn, Registered
    <3> QED
      BY <3>1, <3>2
  <2>5. Begins(s, n)'
    <3>1. \A turn \in Nat : Coming(s, turn, r) => Coming(s, turn, n)'
      BY <1>1 DEF Coming
    <3>2. \A a \in 1..Len(pipe') : \E b \in 1..Len(pipe) : pipe'[a] = pipe[b]
      BY <1>1
    <3>3. \A x \in 1..Len(inbox') : inbox'[x] = s => \E y \in 1..Len(inbox) : inbox[y] = s
      BY <1>1
    <3> QED
      BY <1>1, <2>1, <3>1, <3>2, <3>3, BeginsKept
  <2> QED
    BY <2>1, <2>3, <2>4, <2>5
<1> QED
  BY <1>4, <1>5 DEF Delivery

LEMMA LineKept ==
  ASSUME NEW r \in Nat, NEW m \in Nat, Line(r, m), process = "down" => process' = "down",
         UNCHANGED <<gen, bus, log, pipe>>
  PROVE  Line(r, m)'
<1>1. Line(r, m) /\ (process' # "down" => process # "down")
      /\ (process = "down" => process' = "down")
  OBVIOUS
<1>2. log' = log /\ bus' = bus /\ pipe' = pipe /\ gen' = gen
  OBVIOUS
<1>3. \A j \in r + 1..m :
         \/ \E a \in 1..Len(pipe) : pipe[a] = log[j]
         \/ /\ process' = "down"
            /\ \A a \in 1..Len(pipe), k \in 1..Len(log) : pipe[a] = log[k] => k < j
  BY <1>1 DEF Line
<1>4. /\ r <= m /\ m <= Len(log)
      /\ process' # "down" => m + Len(bus) = Len(log)
      /\ \A i \in 1..Len(bus) : bus[i] = log[m + i]
      /\ \A a \in 1..Len(pipe) : pipe[a] \in Replies \/ \E j \in r + 1..m : pipe[a] = log[j]
      /\ \A a, b \in 1..Len(pipe), j, k \in 1..Len(log) :
           a < b /\ pipe[a] = log[j] /\ pipe[b] = log[k] => j < k
      /\ \A j \in r + 1..Len(log) : log[j].gen = gen
  BY <1>1 DEF Line
<1> QED
  BY <1>2, <1>3, <1>4 DEF Line

\* The steps that move nothing between the worker and the streams.
LEMMA QuietDelivers ==
  ASSUME Base, Base', NEW r \in Nat, NEW m \in Nat, Delivery(r, m),
         \A s \in Streams : Yielded(s),
         process = "down" => process' = "down",
         UNCHANGED <<gen, bus, log, pipe, inbox, reader, pending, stream, queue>>
  PROVE  LogGrows /\ Delivery(r, m)'
<1>1. Types /\ Numbered
  BY DEF Base, LogInv
<1>2. LogGrows
  BY <1>1, GrowsSame
<1>3. Line(r, m)'
  BY LineKept DEF Delivery
<1>4. \A s \in Streams : /\ s \in Registered' => QueueOK(s, r)'
                         /\ GoesOn(s, r)' /\ Begins(s, r)'
  BY <1>1, <1>2, StreamsKept
<1> QED
  BY <1>2, <1>3, <1>4 DEF Delivery

-----------------------------------------------------------------------------
(* The consumer of a stream. *)

\* The streams that are not the consumer's.
LEMMA OthersKept ==
  ASSUME Base, NEW r \in Nat, NEW m \in Nat, Delivery(r, m), NEW t \in Streams, Yielded(t),
         UNCHANGED <<log, gen, pipe, reader>>, stream'[t] = stream[t], queue'[t] = queue[t],
         t \in pending' => t \in pending,
         \A x \in 1..Len(inbox') : inbox'[x] = t => \E y \in 1..Len(inbox) : inbox[y] = t
  PROVE  /\ t \in Registered' => QueueOK(t, r)'
         /\ GoesOn(t, r)' /\ Begins(t, r)'
<1>1. LogGrows /\ Types
  BY GrowsSame DEF Base, LogInv
<1>2. /\ r <= Len(log) /\ GoesOn(t, r) /\ Begins(t, r)
      /\ (t \in Registered => QueueOK(t, r))
      /\ (t \in Registered' => t \in Registered)
  BY <1>1 DEF Delivery, Line, LogGrows, Registered
<1>3. t \in Registered' => QueueOK(t, r)'
  BY <1>1, <1>2, QueueKept
<1>4. GoesOn(t, r)'
  BY <1>1, <1>2, GoesOnKept
<1>5. \A turn \in Nat : t \in Registered /\ Coming(t, turn, r) => Coming(t, turn, r)'
  BY <1>1, <1>2, ComingKept
<1>6. \A a \in 1..Len(pipe') : \E b \in 1..Len(pipe) : pipe'[a] = pipe[b]
  OBVIOUS
<1>7. Begins(t, r)'
  BY <1>1, <1>2, <1>5, <1>6, BeginsKept
<1> QED
  BY <1>3, <1>4, <1>7

LEMMA StartDelivers ==
  ASSUME Base, Base', NEW r \in Nat, NEW m \in Nat, Delivery(r, m),
         \A t \in Streams : Yielded(t), NEW s \in Streams, StreamStart(s)
  PROVE  /\ Delivery(r, m)'
         /\ \A t \in Streams : stream'[t].got = stream[t].got /\ stream'[t].first = stream[t].first
<1>1. /\ reader /\ stream[s].pc = "none" /\ pending' = pending \cup {s} /\ inbox' = Append(inbox, s)
      /\ UNCHANGED <<client, process, gen, bus, log, pipe, reader, queue>>
      /\ stream' = [stream EXCEPT ![s] = [stream[s] EXCEPT !.pc = "submitting"]]
      /\ Types
  BY DEF StreamStart, serverVars, Base
<1>2. /\ stream'[s].pc = "submitting" /\ stream'[s].got = stream[s].got
      /\ stream'[s].steered = stream[s].steered /\ stream'[s].first = stream[s].first
      /\ \A t \in Streams : t # s => stream'[t] = stream[t]
  BY <1>1, StreamFacts DEF Types, StreamStates
<1>3. Line(r, m)'
  BY <1>1, LineKept DEF Delivery
<1>4. ASSUME NEW t \in Streams
      PROVE  /\ t \in Registered' => QueueOK(t, r)'
             /\ GoesOn(t, r)' /\ Begins(t, r)'
  <2>1. CASE t = s
    <3>1. Begins(s, r)
      BY DEF Delivery
    <3>2. /\ queue'[s] = <<>> /\ stream'[s].got = <<>> /\ ~stream'[s].steered
          /\ \A a \in 1..Len(pipe) : pipe[a] \in Replies => pipe[a].to # s
      BY <1>1, <1>2, <3>1 DEF Begins
    <3>3. QueueOK(s, r)'
      <4>1. 1..Len(queue'[s]) = {} /\ reader'
        BY <1>1, <3>2
      <4> QED
        BY <3>2, <4>1 DEF QueueOK
    <3>4. GoesOn(s, r)'
      BY <1>2 DEF GoesOn
    <3>5. Owed(s)' = {}
      <4>1. \A turn \in Nat : [to |-> s, turn |-> turn] \in Replies
        BY DEF Replies
      <4>2. \A turn \in Nat, a \in 1..Len(pipe') : pipe'[a] # [to |-> s, turn |-> turn]
        BY <1>1, <3>2, <4>1
      <4> QED
        BY <1>2, <4>2 DEF Owed
    <3>6. Begins(s, r)'
      BY <1>2, <3>2, <3>5 DEF Begins
    <3> QED
      BY <2>1, <3>3, <3>4, <3>6
  <2>2. CASE t # s
    <3>1. \A x \in 1..Len(inbox') : inbox'[x] = t => \E y \in 1..Len(inbox) : inbox[y] = t
      <4>1. inbox \in Seq(Streams)
        BY <1>1 DEF Types
      <4>2. \A x \in 1..Len(inbox') : (x \in 1..Len(inbox) /\ inbox'[x] = inbox[x]) \/ inbox'[x] = s
        BY <1>1, <4>1
      <4> QED
        BY <2>2, <4>2
    <3>2. /\ stream'[t] = stream[t] /\ queue'[t] = queue[t] /\ (t \in pending' => t \in pending)
          /\ UNCHANGED <<log, gen, pipe, reader>>
      BY <1>1, <1>2, <2>2
    <3> QED
      BY <3>1, <3>2, OthersKept
  <2> QED
    BY <2>1, <2>2
<1>5. \A t \in Streams : stream'[t].got = stream[t].got /\ stream'[t].first = stream[t].first
  BY <1>2
<1> QED
  BY <1>3, <1>4, <1>5 DEF Delivery

\* A stream that fails or has come to its end.
LEMMA RetireDelivers ==
  ASSUME Base, Base', NEW r \in Nat, NEW m \in Nat, Delivery(r, m),
         \A t \in Streams : Yielded(t), NEW s \in Streams,
         stream'[s].pc \in {"ended", "failed"}, s \notin pending',
         stream'[s].got = <<>> => ~stream'[s].steered,
         \A t \in Streams : t # s => stream'[t] = stream[t] /\ queue'[t] = queue[t],
         pending' \subseteq pending, UNCHANGED <<process, gen, bus, log, pipe, inbox, reader>>
  PROVE  Delivery(r, m)'
<1>1. Line(r, m)'
  BY LineKept DEF Delivery
<1>2. ASSUME NEW t \in Streams
      PROVE  /\ t \in Registered' => QueueOK(t, r)'
             /\ GoesOn(t, r)' /\ Begins(t, r)'
  <2>1. CASE t = s
    BY <2>1, Retired
  <2>2. CASE t # s
    <3>1. \A x \in 1..Len(inbox') : inbox'[x] = t => \E y \in 1..Len(inbox) : inbox[y] = t
      OBVIOUS
    <3>2. /\ stream'[t] = stream[t] /\ queue'[t] = queue[t] /\ (t \in pending' => t \in pending)
          /\ UNCHANGED <<log, gen, pipe, reader>>
      BY <2>2
    <3> QED
      BY <3>1, <3>2, OthersKept
  <2> QED
    BY <2>1, <2>2
<1> QED
  BY <1>1, <1>2 DEF Delivery

LEMMA TimeoutDelivers ==
  ASSUME Base, Base', NEW r \in Nat, NEW m \in Nat, Delivery(r, m),
         \A t \in Streams : Yielded(t), NEW s \in Streams, StreamTimeout(s)
  PROVE  /\ Delivery(r, m)'
         /\ \A t \in Streams : stream'[t].got = stream[t].got /\ stream'[t].first = stream[t].first
<1>1. /\ pending' = pending \ {s} /\ Types
      /\ UNCHANGED <<client, process, gen, bus, log, pipe, inbox, reader>>
      /\ stream' = [stream EXCEPT ![s] = Fail(s)] /\ queue' = [queue EXCEPT ![s] = <<>>]
  BY DEF StreamTimeout, serverVars, Base
<1>2. /\ stream'[s] = Fail(s)
      /\ \A t \in Streams : t # s => stream'[t] = stream[t] /\ queue'[t] = queue[t]
  BY <1>1 DEF Types
<1>3. /\ stream'[s].pc = "failed" /\ stream'[s].got = stream[s].got
      /\ stream'[s].first = stream[s].first /\ stream'[s].steered = stream[s].steered
  BY <1>1, <1>2, StreamFacts
<1>4. stream'[s].got = <<>> => ~stream'[s].steered
  BY <1>3 DEF Delivery, Begins
<1>5. Delivery(r, m)'
  BY <1>1, <1>2, <1>3, <1>4, RetireDelivers
<1> QED
  BY <1>2, <1>3, <1>5

\* A queue loses its head.
Shifts(s, head) ==
    /\ 1 \in 1..Len(queue[s]) /\ head = queue[s][1]
    /\ \A k \in 1..Len(queue'[s]) :
         k + 1 \in 1..Len(queue[s]) /\ k + 1 # 1 /\ queue'[s][k] = queue[s][k + 1]
    /\ \A k \in 1..Len(queue[s]) :
         k = 1 \/ \E l \in 1..Len(queue'[s]) : k = l + 1 /\ queue'[s][l] = queue[s][k]
    /\ queue'[s] # <<>> => 1 \in 1..Len(queue'[s]) /\ Len(queue'[s]) + 1 = Len(queue[s])
                           /\ Len(queue'[s]) \in 1..Len(queue'[s])
    /\ queue'[s] = <<>> => Len(queue[s]) = 1

LEMMA QueueTail ==
  ASSUME Types, NEW s \in Streams, queue[s] # <<>>, queue'[s] = Tail(queue[s])
  PROVE  Shifts(s, Head(queue[s])) /\ Head(queue[s]) \in Messages
<1>1. queue[s] \in Seq(Messages) /\ queue[s] # <<>>
  BY DEF Types
<1>2. \A k \in 1..Len(queue[s]) :
        k = 1 \/ (k - 1 \in 1..Len(queue'[s]) /\ queue'[s][k - 1] = queue[s][k] /\ k = k - 1 + 1)
  BY <1>1
<1>3. \A k \in 1..Len(queue[s]) :
        k = 1 \/ \E l \in 1..Len(queue'[s]) : k = l + 1 /\ queue'[s][l] = queue[s][k]
  BY <1>2
<1>4. /\ 1 \in 1..Len(queue[s]) /\ Head(queue[s]) = queue[s][1] /\ Head(queue[s]) \in Messages
      /\ \A k \in 1..Len(queue'[s]) :
           k + 1 \in 1..Len(queue[s]) /\ k + 1 # 1 /\ queue'[s][k] = queue[s][k + 1]
  BY <1>1
<1>5. /\ queue'[s] # <<>> => 1 \in 1..Len(queue'[s]) /\ Len(queue'[s]) + 1 = Len(queue[s])
                             /\ Len(queue'[s]) \in 1..Len(queue'[s])
      /\ queue'[s] = <<>> => Len(queue[s]) = 1
  <2>1. Len(queue[s]) \in Nat /\ Len(queue'[s]) = Len(queue[s]) - 1 /\ queue'[s] \in Seq(Messages)
    BY <1>1
  <2>2. \A q \in Seq(Messages) : q = <<>> <=> Len(q) = 0
    OBVIOUS
  <2>3. queue'[s] = <<>> <=> Len(queue'[s]) = 0
    BY <2>1, <2>2
  <2> QED
    BY <2>1, <2>3
<1> QED
  BY <1>3, <1>4, <1>5 DEF Shifts

LEMMA QueueTailOK ==
  ASSUME NEW s \in Streams, NEW r \in Nat, QueueOK(s, r), queue[s] # <<>>,
         NEW head, Shifts(s, head), head \notin {Error, Overflow},
         UNCHANGED <<log, gen, reader>>
  PROVE  QueueOK(s, r)'
<1>1. /\ 1 \in 1..Len(queue[s]) /\ head = queue[s][1]
      /\ \A k \in 1..Len(queue'[s]) :
           k + 1 \in 1..Len(queue[s]) /\ k + 1 # 1 /\ queue'[s][k] = queue[s][k + 1]
      /\ queue'[s] # <<>> => 1 \in 1..Len(queue'[s]) /\ Len(queue'[s]) + 1 = Len(queue[s])
                             /\ Len(queue'[s]) \in 1..Len(queue'[s])
      /\ queue'[s] = <<>> => Len(queue[s]) = 1
  BY DEF Shifts
<1>2. \A k \in 1..Len(queue'[s]) :
        queue'[s][k] \in {Error, Overflow} \/ \E i \in 1..r : queue'[s][k] = log[i]
  <2>1. SUFFICES ASSUME NEW k \in 1..Len(queue'[s])
                 PROVE  queue'[s][k] \in {Error, Overflow} \/ \E i \in 1..r : queue'[s][k] = log[i]
    OBVIOUS
  <2>2. k + 1 \in 1..Len(queue[s]) /\ queue'[s][k] = queue[s][k + 1]
    BY <1>1
  <2>3. queue[s][k + 1] \in {Error, Overflow} \/ \E i \in 1..r : queue[s][k + 1] = log[i]
    BY <2>2 DEF QueueOK
  <2> QED
    BY <2>2, <2>3
<1>3. ASSUME NEW k \in 1..Len(queue'[s]), NEW l \in 1..Len(queue'[s]),
             NEW i \in 1..Len(log), NEW j \in 1..Len(log),
             queue'[s][k] = log[i], queue'[s][l] = log[j]
      PROVE  /\ k < l => i < j
             /\ l = k + 1 => j = i + 1 /\ log[i].gen = log[j].gen
  <2>1. /\ k + 1 \in 1..Len(queue[s]) /\ l + 1 \in 1..Len(queue[s])
        /\ queue[s][k + 1] = log[i] /\ queue[s][l + 1] = log[j]
        /\ (k < l => k + 1 < l + 1) /\ (l = k + 1 => l + 1 = k + 1 + 1)
    BY <1>1, <1>3
  <2>2. k < l => i < j
    BY <2>1 DEF QueueOK
  <2>3. l = k + 1 => j = i + 1 /\ log[i].gen = log[j].gen
    BY <2>1 DEF QueueOK
  <2> QED
    BY <2>2, <2>3
<1>4. \A i \in 1..Len(log) :
         queue'[s] # <<>> /\ queue'[s][Len(queue'[s])] = log[i] => i = r /\ log[i].gen = gen
  BY <1>1 DEF QueueOK
<1>5. \A k \in 1..Len(queue'[s]) : queue'[s][k] # Overflow
  <2>1. SUFFICES ASSUME NEW k \in 1..Len(queue'[s]), queue'[s][k] = Overflow PROVE FALSE
    OBVIOUS
  <2>2. k + 1 \in 1..Len(queue[s]) /\ queue[s][k + 1] = Overflow /\ k + 1 # 1
    BY <1>1, <2>1
  <2>3. Len(queue[s]) = 1
    BY <2>2 DEF QueueOK
  <2> QED
    BY <2>2, <2>3
<1>6. ~reader => queue'[s] # <<>> /\ queue'[s][Len(queue'[s])] \in {Error, Overflow}
  <2>1. ~reader => queue[s][Len(queue[s])] \in {Error, Overflow}
    BY DEF QueueOK
  <2> QED
    BY <1>1, <2>1
<1>7. \A k, l \in 1..Len(queue'[s]), i, j \in 1..Len(log) :
         k < l /\ queue'[s][k] = log[i] /\ queue'[s][l] = log[j] => i < j
  BY <1>3
<1>8. \A k, l \in 1..Len(queue'[s]), i, j \in 1..Len(log) :
         l = k + 1 /\ queue'[s][k] = log[i] /\ queue'[s][l] = log[j] =>
           j = i + 1 /\ log[i].gen = log[j].gen
  <2>1. SUFFICES ASSUME NEW k \in 1..Len(queue'[s]), NEW l \in 1..Len(queue'[s]),
                        NEW i \in 1..Len(log), NEW j \in 1..Len(log), l = k + 1,
                        queue'[s][k] = log[i], queue'[s][l] = log[j]
                 PROVE  j = i + 1 /\ log[i].gen = log[j].gen
    OBVIOUS
  <2> QED
    BY <1>3, <2>1
<1>9. log' = log /\ gen' = gen /\ reader' = reader
  OBVIOUS
<1> QED
  BY <1>2, <1>4, <1>5, <1>6, <1>7, <1>8, <1>9 DEF QueueOK

\* An event of another Turn is not the one that is awaited.
LEMMA ComingTail ==
  ASSUME NEW s \in Streams, NEW r \in Nat, NEW head, Shifts(s, head), head \notin {Error, Overflow},
         UNCHANGED <<log, gen, reader>>,
         NEW turn \in Nat, Coming(s, turn, r), head.turn # turn
  PROVE  Coming(s, turn, r)'
<1>1. PICK p \in 1..Len(log) :
        /\ log[p].kind = "turn_started" /\ log[p].turn = turn
        /\ \/ p > r /\ reader
           \/ \E k \in 1..Len(queue[s]) : queue[s][k] = log[p]
           \/ queue[s] = <<Overflow>>
           \/ \E k \in 1..Len(queue[s]) :
                /\ queue[s][k] = Error
                /\ \A l \in 1..Len(queue[s]), i \in 1..Len(log) :
                     l < k /\ queue[s][l] = log[i] => i < p
  BY DEF Coming
<1>2. /\ 1 \in 1..Len(queue[s]) /\ head = queue[s][1]
      /\ \A k \in 1..Len(queue'[s]) :
           k + 1 \in 1..Len(queue[s]) /\ k + 1 # 1 /\ queue'[s][k] = queue[s][k + 1]
      /\ \A k \in 1..Len(queue[s]) :
           k = 1 \/ \E l \in 1..Len(queue'[s]) : k = l + 1 /\ queue'[s][l] = queue[s][k]
  BY DEF Shifts
<1> DEFINE Way == \/ p > r /\ reader'
                  \/ \E k \in 1..Len(queue'[s]) : queue'[s][k] = log[p]
                  \/ queue'[s] = <<Overflow>>
                  \/ \E k \in 1..Len(queue'[s]) :
                       /\ queue'[s][k] = Error
                       /\ \A l \in 1..Len(queue'[s]), i \in 1..Len(log) :
                            l < k /\ queue'[s][l] = log[i] => i < p
<1>3. SUFFICES Way
  <2>1. /\ p \in 1..Len(log') /\ log'[p].kind = "turn_started" /\ log'[p].turn = turn
        /\ log' = log
    BY <1>1
  <2>2. ASSUME Way PROVE Coming(s, turn, r)'
    BY <2>1, <2>2 DEF Coming
  <2> QED
    BY <2>2
<1>4. CASE p > r /\ reader
  BY <1>4
<1>5. CASE \E k \in 1..Len(queue[s]) : queue[s][k] = log[p]
  <2>1. PICK k \in 1..Len(queue[s]) : queue[s][k] = log[p]
    BY <1>5
  <2>2. k # 1
    BY <1>1, <1>2, <2>1
  <2> QED
    BY <1>2, <2>1, <2>2
<1>6. CASE queue[s] = <<Overflow>>
  BY <1>2, <1>6
<1>7. CASE \E k \in 1..Len(queue[s]) :
             /\ queue[s][k] = Error
             /\ \A l \in 1..Len(queue[s]), i \in 1..Len(log) :
                  l < k /\ queue[s][l] = log[i] => i < p
  <2>1. PICK k \in 1..Len(queue[s]) :
             /\ queue[s][k] = Error
             /\ \A l \in 1..Len(queue[s]), i \in 1..Len(log) :
                  l < k /\ queue[s][l] = log[i] => i < p
    BY <1>7
  <2>2. k # 1
    BY <1>2, <2>1
  <2>3. PICK k2 \in 1..Len(queue'[s]) : k = k2 + 1 /\ queue'[s][k2] = queue[s][k]
    BY <1>2, <2>2
  <2>4. ASSUME NEW l \in 1..Len(queue'[s]), NEW i \in 1..Len(log), l < k2, queue'[s][l] = log[i]
        PROVE  i < p
    <3>1. l + 1 \in 1..Len(queue[s]) /\ queue[s][l + 1] = log[i] /\ l + 1 < k
      BY <1>2, <2>3, <2>4
    <3> QED
      BY <2>1, <3>1
  <2> QED
    BY <2>1, <2>3, <2>4
<1> QED
  BY <1>1, <1>4, <1>5, <1>6, <1>7

\* A stream that has begun finds the next event at the head of its queue and takes it.
LEMMA HeadNext ==
  ASSUME Base, NEW s \in Streams, NEW r \in Nat, GoesOn(s, r), Yielded(s),
         stream[s].pc = "reading", stream[s].got # <<>>, queue[s] # <<>>,
         NEW i \in 1..Len(log), queue[s][1] = log[i]
  PROVE  /\ Accepts(s, log[i])
         /\ \E p \in 1..Len(log) :
              /\ log[p].kind = "turn_started" /\ log[p].turn = stream[s].first
              /\ p + Len(stream[s].got) = i
              /\ \A x \in 1..Len(stream[s].got) : stream[s].got[x] = log[p + x - 1]
<1> DEFINE n == Len(stream[s].got)
<1>1. n \in Nat /\ n \in 1..n
  BY StreamFacts DEF Base
<1>2. PICK p \in 1..Len(log) :
        /\ log[p].kind = "turn_started" /\ log[p].turn = stream[s].first
        /\ p + n - 1 <= Len(log)
        /\ \A x \in 1..n : stream[s].got[x] = log[p + x - 1]
  BY DEF Yielded
<1>3. stream[s].got[n] = log[p + n - 1]
  BY <1>1, <1>2
<1>4. p + n - 1 \in 1..Len(log) /\ Len(log) \in Nat
  BY <1>1, <1>2, LogFacts DEF Base
<1>5. PICK g \in 1..Len(log) : g = p + n - 1
  BY <1>4
<1>6. /\ stream[s].turn = log[g].turn
      /\ stream[s].steered <=> log[g].kind = "steered"
      /\ log[g].kind # "turn_finished"
      /\ i = g + 1 /\ log[g].gen = log[i].gen
  BY <1>3, <1>5 DEF GoesOn
<1>7. p + n = i
  BY <1>1, <1>5, <1>6
<1>8. Accepts(s, log[i])
  <2>1. CASE Final(log[g])
    BY <1>6, <2>1 DEF Final, Accepts
  <2>2. CASE ~Final(log[g])
    <3>1. log[i].turn = log[g].turn
      BY <1>6, <2>2 DEF Base, LogInv, Unbroken
    <3> QED
      BY <1>6, <3>1 DEF Accepts
  <2> QED
    BY <2>1, <2>2
<1> HIDE DEF n
<1>9. \E q \in 1..Len(log) :
              /\ log[q].kind = "turn_started" /\ log[q].turn = stream[s].first
              /\ q + n = i
              /\ \A x \in 1..n : stream[s].got[x] = log[q + x - 1]
  BY <1>2, <1>7
<1> QED
  BY <1>8, <1>9 DEF n

\* The first event that a stream takes is the TurnStarted of its Turn.
LEMMA HeadFirst ==
  ASSUME Base, NEW s \in Streams, NEW r \in Nat, QueueOK(s, r), Begins(s, r),
         stream[s].pc = "reading", stream[s].got = <<>>, 1 \in 1..Len(queue[s]),
         NEW i \in 1..r, i \in 1..Len(log), queue[s][1] = log[i], Accepts(s, log[i])
  PROVE  log[i].kind = "turn_started" /\ log[i].turn = stream[s].first
<1>1. /\ stream[s].turn = stream[s].first /\ ~stream[s].steered /\ stream[s].first \in Nat
      /\ Types /\ InTurns
  BY StreamFacts DEF Begins, Base, LogInv
<1>2. log[i].turn = stream[s].first
  BY <1>1 DEF Accepts
<1>3. Coming(s, stream[s].first, r)
  BY <1>1 DEF Begins, Owed
<1>4. PICK p \in 1..Len(log) :
        /\ log[p].kind = "turn_started" /\ log[p].turn = stream[s].first
        /\ \/ p > r /\ reader
           \/ \E k \in 1..Len(queue[s]) : queue[s][k] = log[p]
           \/ queue[s] = <<Overflow>>
           \/ \E k \in 1..Len(queue[s]) :
                /\ queue[s][k] = Error
                /\ \A l \in 1..Len(queue[s]), j \in 1..Len(log) :
                     l < k /\ queue[s][l] = log[j] => j < p
  BY <1>3 DEF Coming
<1>5. ~(i < p)
  <2>1. SUFFICES ASSUME i < p PROVE FALSE
    OBVIOUS
  <2>2. log[i].turn < log[p].turn
    BY <1>1, <1>4, <2>1 DEF InTurns
  <2> QED
    BY <1>1, <1>2, <1>4, <2>2
<1>6. queue[s][1] # Error /\ queue[s][1] # Overflow
  BY <1>1, LogFacts
<1>7. CASE p > r /\ reader
  BY <1>5, <1>7
<1>8. CASE \E k \in 1..Len(queue[s]) : queue[s][k] = log[p]
  <2>1. PICK k \in 1..Len(queue[s]) : queue[s][k] = log[p]
    BY <1>8
  <2>2. CASE k = 1
    BY <1>2, <1>4, <2>1, <2>2
  <2>3. CASE k # 1
    <3>1. 1 < k
      BY <2>1, <2>3
    <3>2. i < p
      BY <2>1, <3>1 DEF QueueOK
    <3> QED
      BY <1>5, <3>2
  <2> QED
    BY <2>2, <2>3
<1>9. CASE queue[s] = <<Overflow>>
  BY <1>6, <1>9
<1>10. CASE \E k \in 1..Len(queue[s]) :
                /\ queue[s][k] = Error
                /\ \A l \in 1..Len(queue[s]), j \in 1..Len(log) :
                     l < k /\ queue[s][l] = log[j] => j < p
  <2>1. PICK k \in 1..Len(queue[s]) :
                /\ queue[s][k] = Error
                /\ \A l \in 1..Len(queue[s]), j \in 1..Len(log) :
                     l < k /\ queue[s][l] = log[j] => j < p
    BY <1>10
  <2>2. 1 < k
    BY <1>6, <2>1
  <2> QED
    BY <1>5, <2>1, <2>2
<1> QED
  BY <1>4, <1>7, <1>8, <1>9, <1>10

\* The event that is taken continues what was yielded.
LEMMA TakeYields ==
  ASSUME Base, NEW s \in Streams, NEW r \in Nat, QueueOK(s, r), GoesOn(s, r), Begins(s, r),
         Yielded(s), stream[s].pc = "reading", queue[s] # <<>>, 1 \in 1..Len(queue[s]),
         NEW i \in 1..r, i \in 1..Len(log), queue[s][1] = log[i], Accepts(s, log[i]),
         stream'[s].first = stream[s].first, stream'[s].got = Append(stream[s].got, log[i]),
         UNCHANGED log
  PROVE  Yielded(s)'
<1> DEFINE n == Len(stream[s].got)
<1>1. stream[s].got \in Seq(Events) /\ log[i] \in Events
  BY StreamFacts, LogFacts DEF Base
<1>2. /\ n \in Nat /\ Len(stream'[s].got) = n + 1
      /\ \A x \in 1..n : stream'[s].got[x] = stream[s].got[x]
      /\ stream'[s].got[n + 1] = log[i]
      /\ \A x \in 1..n + 1 : x \in 1..n \/ x = n + 1
  BY <1>1
<1>3. PICK p \in 1..Len(log) :
              /\ log[p].kind = "turn_started" /\ log[p].turn = stream[s].first
              /\ p + n = i
              /\ \A x \in 1..n : stream[s].got[x] = log[p + x - 1]
  <2>1. CASE stream[s].got # <<>>
    BY <2>1, HeadNext
  <2>2. CASE stream[s].got = <<>>
    <3>1. n = 0
      BY <2>2
    <3>2. log[i].kind = "turn_started" /\ log[i].turn = stream[s].first
      BY <2>2, HeadFirst
    <3> QED
      BY <3>1, <3>2
  <2> QED
    BY <2>1, <2>2
<1>4. /\ Len(stream'[s].got) = n + 1 /\ p + (n + 1) - 1 = i /\ i <= Len(log)
  BY <1>2, <1>3
<1>5. \A x \in 1..n + 1 : stream'[s].got[x] = log[p + x - 1]
  <2>1. SUFFICES ASSUME NEW x \in 1..n + 1 PROVE stream'[s].got[x] = log[p + x - 1]
    OBVIOUS
  <2>2. CASE x \in 1..n
    BY <1>2, <1>3, <2>2
  <2>3. CASE x = n + 1
    <3>1. p + x - 1 = i
      BY <1>4, <2>3
    <3> QED
      BY <1>2, <2>3, <3>1
  <2> QED
    BY <1>2, <2>2, <2>3
<1> HIDE DEF n
<1> QED
  BY <1>2, <1>3, <1>4, <1>5 DEF Yielded

LEMMA TakeDelivers ==
  ASSUME Base, Base', NEW r \in Nat, NEW m \in Nat, Delivery(r, m),
         \A t \in Streams : Yielded(t), NEW s \in Streams, StreamTake(s)
  PROVE  Delivery(r, m)' /\ \A t \in Streams : Yielded(t)'
<1> DEFINE event == Head(queue[s])
<1>1. /\ stream[s].pc = "reading" /\ queue[s] # <<>> /\ Types /\ s \in Registered
      /\ UNCHANGED <<client, process, gen, bus, log, pipe, inbox, pending, reader>>
  BY DEF StreamTake, serverVars, Base, Registered
<1>2. /\ GoesOn(s, r) /\ Begins(s, r) /\ QueueOK(s, r) /\ Yielded(s) /\ r <= Len(log)
      /\ s \notin pending
  <2>1. GoesOn(s, r) /\ Begins(s, r) /\ QueueOK(s, r) /\ Line(r, m)
    BY <1>1 DEF Delivery
  <2>2. s \notin pending
    BY <1>1, <2>1 DEF Begins
  <2>3. r <= Len(log)
    BY <1>1, <2>1, LogFacts DEF Line
  <2> QED
    BY <2>1, <2>2, <2>3
<1>3. ASSUME NEW t \in Streams, stream'[t].got = stream[t].got, stream'[t].first = stream[t].first
      PROVE  Yielded(t)'
  <2>1. Yielded(t) /\ log' = log
    BY <1>1
  <2> QED
    BY <1>3, <2>1 DEF Yielded
<1>4. queue[s] \in Seq(Messages) /\ event = queue[s][1] /\ 1 \in 1..Len(queue[s])
  BY <1>1, StreamFacts
<1>5. Line(r, m)'
  BY <1>1, LineKept DEF Delivery
<1>6. ASSUME NEW t \in Streams, t # s, stream'[t] = stream[t], queue'[t] = queue[t]
      PROVE  /\ t \in Registered' => QueueOK(t, r)'
             /\ GoesOn(t, r)' /\ Begins(t, r)' /\ Yielded(t)'
  <2>1. \A x \in 1..Len(inbox') : inbox'[x] = t => \E y \in 1..Len(inbox) : inbox[y] = t
    BY <1>1
  <2>2. (t \in pending' => t \in pending) /\ UNCHANGED <<log, gen, pipe, reader>>
    BY <1>1
  <2>3. Yielded(t)'
    BY <1>3, <1>6
  <2> QED
    BY <1>6, <2>1, <2>2, <2>3, OthersKept
<1>7. CASE event \in {Error, Overflow}
  <2>1. stream' = [stream EXCEPT ![s] = Fail(s)] /\ queue' = [queue EXCEPT ![s] = <<>>]
    BY <1>7 DEF StreamTake
  <2>2. /\ stream'[s] = Fail(s)
        /\ \A t \in Streams : t # s => stream'[t] = stream[t] /\ queue'[t] = queue[t]
    BY <1>1, <2>1 DEF Types
  <2>3. /\ stream'[s].pc \in {"ended", "failed"} /\ stream'[s].got = stream[s].got
        /\ stream'[s].first = stream[s].first /\ stream'[s].steered = stream[s].steered
    BY <1>1, <2>2, StreamFacts
  <2>4. stream'[s].got = <<>> => ~stream'[s].steered
    BY <1>2, <2>3 DEF Begins
  <2>5. Delivery(r, m)'
    BY <1>1, <1>2, <2>2, <2>3, <2>4, RetireDelivers
  <2>6. \A t \in Streams : Yielded(t)'
    BY <1>3, <2>2, <2>3
  <2> QED
    BY <2>5, <2>6
<1>8. CASE event \notin {Error, Overflow}
  <2>1. PICK i \in 1..r : event = log[i]
    BY <1>2, <1>4, <1>8 DEF QueueOK
  <2>2. i \in 1..Len(log) /\ log[i] \in Events /\ log[i].turn \in Nat
    <3>1. i \in 1..Len(log)
      BY <1>1, <1>2, <2>1, LogFacts
    <3> QED
      BY <1>1, <3>1, LogFacts DEF Events
  <2>3. CASE ~Accepts(s, event)
    <3>1. queue' = [queue EXCEPT ![s] = Tail(queue[s])] /\ UNCHANGED stream
      BY <1>8, <2>3 DEF StreamTake
    <3>2. queue'[s] = Tail(queue[s]) /\ \A t \in Streams : t # s => queue'[t] = queue[t]
      BY <1>1, <3>1 DEF Types
    <3>3. Shifts(s, event)
      BY <1>1, <3>2, QueueTail
    <3> HIDE DEF event
    <3>4. QueueOK(s, r)'
      BY <1>1, <1>2, <1>8, <3>3, QueueTailOK
    <3>5. stream[s].got = <<>>
      BY <1>1, <1>2, <1>4, <2>1, <2>2, <2>3, HeadNext
    <3>6. GoesOn(s, r)'
      BY <3>1, <3>5 DEF GoesOn
    <3>7. Begins(s, r)'
      <4>1. /\ stream[s].turn = stream[s].first /\ ~stream[s].steered /\ stream[s].first \in Nat
            /\ Coming(s, stream[s].first, r)
        BY <1>1, <1>2, <3>5, StreamFacts DEF Begins, Owed
      <4>2. PICK turn \in Nat : turn = stream[s].first
        BY <4>1
      <4>3. event.turn # turn
        BY <2>3, <4>1, <4>2 DEF Accepts
      <4>4. Coming(s, turn, r)'
        BY <1>1, <1>8, <3>3, <4>1, <4>2, <4>3, ComingTail
      <4>5. \A x \in Owed(s)' : x = turn
        BY <1>1, <1>2, <3>1, <4>2 DEF Owed
      <4> QED
        BY <1>1, <1>2, <3>1, <3>5, <4>1, <4>4, <4>5 DEF Begins
    <3>8. \A t \in Streams : /\ t \in Registered' => QueueOK(t, r)'
                             /\ GoesOn(t, r)' /\ Begins(t, r)' /\ Yielded(t)'
      BY <1>3, <1>6, <3>1, <3>2, <3>4, <3>6, <3>7
    <3> QED
      BY <1>5, <3>8 DEF Delivery
  <2>4. CASE Accepts(s, event)
    <3> DEFINE after == [stream[s] EXCEPT !.turn = event.turn, !.got = Append(@, event),
                                          !.steered = event.kind = "steered",
                                          !.pc = IF event.kind = "turn_finished" THEN "ended" ELSE "reading"]
               rest == IF event.kind = "turn_finished" THEN <<>> ELSE Tail(queue[s])
    <3>1. stream' = [stream EXCEPT ![s] = after] /\ queue' = [queue EXCEPT ![s] = rest]
      <4> HIDE DEF after, rest
      <4>1. \/ event \in {Error, Overflow}
            \/ ~Accepts(s, event)
            \/ stream' = [stream EXCEPT ![s] = after] /\ queue' = [queue EXCEPT ![s] = rest]
        BY Zenon DEF StreamTake, after, rest
      <4> QED
        BY <1>8, <2>4, <4>1, Zenon
    <3>2. /\ after.turn = event.turn /\ after.got = Append(stream[s].got, event)
          /\ after.steered = (event.kind = "steered") /\ after.first = stream[s].first
          /\ after.pc = IF event.kind = "turn_finished" THEN "ended" ELSE "reading"
      BY <1>1, StreamFacts DEF StreamStates
    <3> HIDE DEF after
    <3>3. /\ stream'[s] = after /\ queue'[s] = rest
          /\ \A t \in Streams : t # s => stream'[t] = stream[t] /\ queue'[t] = queue[t]
      BY <1>1, <3>1 DEF Types
    <3>4. /\ stream[s].got \in Seq(Events) /\ stream'[s].got # <<>>
          /\ stream'[s].got[Len(stream'[s].got)] = log[i]
      <4>1. stream[s].got \in Seq(Events) /\ event \in Events
        BY <1>1, <2>1, <2>2, StreamFacts
      <4>2. stream'[s].got = Append(stream[s].got, event)
        BY <3>2, <3>3
      <4> HIDE DEF event
      <4>3. Append(stream[s].got, event) # <<>>
        BY <4>1
      <4>4. Append(stream[s].got, event)[Len(Append(stream[s].got, event))] = event
        BY <4>1
      <4> QED
        BY <2>1, <4>1, <4>2, <4>3, <4>4
    <3>5. Yielded(s)'
      <4>1. /\ queue[s][1] = log[i] /\ Accepts(s, log[i])
            /\ stream'[s].first = stream[s].first /\ stream'[s].got = Append(stream[s].got, log[i])
        BY <1>4, <2>1, <2>4, <3>2, <3>3
      <4> QED
        BY <1>1, <1>2, <1>4, <2>1, <2>2, <4>1, TakeYields
    <3>6. \A t \in Streams : Yielded(t)'
      BY <1>3, <3>3, <3>5
    <3>7. CASE event.kind = "turn_finished"
      <4>1. stream'[s].pc \in {"ended", "failed"}
        BY <3>2, <3>3, <3>7
      <4>2. Delivery(r, m)'
        BY <1>1, <1>2, <3>3, <3>4, <4>1, RetireDelivers
      <4> QED
        BY <3>6, <4>2
    <3>8. CASE event.kind # "turn_finished"
      <4>1. stream'[s].pc = "reading" /\ queue'[s] = Tail(queue[s])
        BY <3>2, <3>3, <3>8
      <4>2. Shifts(s, event)
        BY <1>1, <4>1, QueueTail
      <4> HIDE DEF event
      <4>3. QueueOK(s, r)'
        BY <1>1, <1>2, <1>8, <4>2, QueueTailOK
      <4>4. GoesOn(s, r)'
        <5>1. SUFFICES ASSUME NEW g \in 1..Len(log), stream'[s].got[Len(stream'[s].got)] = log[g]
                       PROVE  /\ stream'[s].turn = log[g].turn
                              /\ stream'[s].steered <=> log[g].kind = "steered"
                              /\ log[g].kind # "turn_finished"
                              /\ queue'[s] = <<>> => g = r /\ log[g].gen = gen
                              /\ \A j \in 1..Len(log) :
                                   queue'[s] # <<>> /\ queue'[s][1] = log[j] =>
                                     j = g + 1 /\ log[g].gen = log[j].gen
          BY <1>1 DEF GoesOn
        <5>2. g = i
          <6>1. log[g] = log[i] /\ Numbered
            BY <3>4, <5>1 DEF Base, LogInv
          <6> QED
            BY <1>1, <2>2, <6>1, OnePlace
        <5>3. queue[s][1] = log[i]
          BY <1>4, <2>1
        <5>4. queue'[s] = <<>> => i = r /\ log[i].gen = gen
          <6>1. queue'[s] = <<>> => queue[s][Len(queue[s])] = log[i]
            BY <4>2, <5>3 DEF Shifts
          <6> QED
            BY <1>1, <1>2, <2>2, <6>1 DEF QueueOK
        <5>5. ASSUME NEW j \in 1..Len(log), queue'[s] # <<>>, queue'[s][1] = log[j]
              PROVE  j = i + 1 /\ log[i].gen = log[j].gen
          <6>1. 2 \in 1..Len(queue[s]) /\ queue[s][2] = log[j] /\ 2 = 1 + 1
            BY <4>2, <5>5 DEF Shifts
          <6> QED
            BY <1>2, <1>4, <2>2, <5>3, <6>1 DEF QueueOK
        <5>6. /\ stream'[s].turn = log[i].turn /\ log[i].kind # "turn_finished"
              /\ stream'[s].steered <=> log[i].kind = "steered"
          BY <2>1, <3>2, <3>3, <3>8
        <5> QED
          BY <5>2, <5>4, <5>5, <5>6
      <4>5. Begins(s, r)'
        <5>1. Owed(s)' = {}
          BY <1>1, <1>2, <3>4 DEF Owed
        <5> QED
          BY <1>1, <1>2, <3>4, <4>1, <5>1 DEF Begins
      <4>6. \A t \in Streams : /\ t \in Registered' => QueueOK(t, r)'
                               /\ GoesOn(t, r)' /\ Begins(t, r)'
        BY <1>6, <3>3, <4>3, <4>4, <4>5
      <4> QED
        BY <1>5, <3>6, <4>6 DEF Delivery
    <3> QED
      BY <3>7, <3>8
  <2> QED
    BY <2>3, <2>4
<1> QED
  BY <1>7, <1>8

-----------------------------------------------------------------------------
(* The steps together. *)

LEMMA YieldedKept ==
  ASSUME LogGrows, NEW s \in Streams, Yielded(s), Types,
         stream'[s].got = stream[s].got, stream'[s].first = stream[s].first
  PROVE  Yielded(s)'
<1>1. CASE stream[s].got = <<>>
  BY <1>1 DEF Yielded
<1>2. CASE stream[s].got # <<>>
  <2> DEFINE n == Len(stream[s].got)
  <2>1. PICK p \in 1..Len(log) :
          /\ log[p].kind = "turn_started" /\ log[p].turn = stream[s].first
          /\ p + n - 1 <= Len(log)
          /\ \A x \in 1..n : stream[s].got[x] = log[p + x - 1]
    BY <1>2 DEF Yielded
  <2>2. n \in Nat
    BY StreamFacts
  <2>3. p \in 1..Len(log') /\ log'[p] = log[p] /\ p + n - 1 <= Len(log')
    BY <2>1, <2>2 DEF LogGrows
  <2>4. \A x \in 1..n : stream[s].got[x] = log'[p + x - 1]
    <3>1. SUFFICES ASSUME NEW x \in 1..n PROVE stream[s].got[x] = log'[p + x - 1]
      OBVIOUS
    <3>2. p + x - 1 \in 1..Len(log)
      BY <2>1, <2>2 DEF LogGrows
    <3> QED
      BY <2>1, <3>2 DEF LogGrows
  <2> HIDE DEF n
  <2>5. Len(stream'[s].got) = n
    BY DEF n
  <2> QED
    BY <2>1, <2>3, <2>4, <2>5 DEF Yielded
<1> QED
  BY <1>1, <1>2

\* The steps in which the worker sends an event and no reply is written.
Sends ==
    \/ StartOther \/ Continue \/ Settle
    \/ \E kind \in {"delta", "tool"} : Emit(kind)

LEMMA SendFacts ==
  ASSUME Base, Sends
  PROVE  /\ process = "ready"
         /\ UNCHANGED <<client, process, gen, pipe, inbox, reader, pending, stream, queue>>
         /\ \E e \in Events : e.gen = gen /\ log' = Append(log, e) /\ Broadcast(e)
<1>1. /\ process = "ready"
      /\ UNCHANGED <<client, process, gen, pipe, inbox, reader, pending, stream, queue>>
  BY DEF Sends, StartOther, Continue, Settle, Emit, clientVars
<1>2. \E kind \in Kinds, turn \in Nat, seq \in Nat : SendEvent(Event(kind, turn, seq))
  <2>1. /\ worker.turn \in Nat /\ worker.turn + 1 \in Nat /\ worker.seq \in Nat
        /\ next["main"] \in Nat
    BY WorkerFacts DEF Base
  <2>2. CASE StartOther \/ Continue
    <3>1. SendEvent(Event("turn_started", worker.turn + 1, next["main"]))
      BY <2>2 DEF StartOther, Continue, Begin
    <3> QED
      BY <2>1, <3>1 DEF Kinds
  <2>3. CASE Settle
    <3>1. SendEvent(Event(worker.last, worker.turn, worker.seq))
      BY <2>3 DEF Settle
    <3>2. worker.last \in Kinds
      BY <2>3, WorkerFacts DEF Settle, Base, LogInv, Unbroken, Kinds
    <3> QED
      BY <2>1, <3>1, <3>2
  <2>4. CASE \E kind \in {"delta", "tool"} : Emit(kind)
    <3>1. PICK kind \in {"delta", "tool"} : Emit(kind)
      BY <2>4
    <3>2. SendEvent(Event(kind, worker.turn, next["main"]))
      BY <3>1 DEF Emit
    <3> QED
      BY <2>1, <3>2 DEF Kinds
  <2> QED
    BY <2>2, <2>3, <2>4 DEF Sends
<1>3. PICK kind \in Kinds, turn \in Nat, seq \in Nat : SendEvent(Event(kind, turn, seq))
  BY <1>2
<1>4. Event(kind, turn, seq) \in Events /\ Event(kind, turn, seq).gen = gen
  BY EventType DEF Base
<1> QED
  BY <1>1, <1>3, <1>4 DEF SendEvent

\* The steps that move nothing between the worker and the streams.
Quiets ==
    \/ \E kind \in {"turn_finished", "steered"} : Finish(kind)
    \/ SideEvent \/ Replay \/ Initialize \/ InitializeFails

LEMMA QuietFacts ==
  ASSUME Quiets
  PROVE  /\ process = "down" => process' = "down"
         /\ UNCHANGED <<client, lagged, gen, bus, log, pipe, inbox, reader, pending, stream, queue>>
  BY DEF Quiets, Finish, SideEvent, Replay, Initialize, InitializeFails, serverVars, clientVars

LEMMA Steps ==
  ASSUME Next
  PROVE  \/ Sends \/ Quiets \/ Relay \/ ReadReply \/ ReadEvent \/ ReadEof \/ Stop \/ Crash \/ Spawn
         \/ \E s \in Streams : Submit(s) \/ StreamStart(s) \/ StreamTimeout(s) \/ StreamTake(s)
  BY DEF Next, Work, EndTurn, Deliver, Sends, Quiets

LEMMA BaseKept ==
  ASSUME Base, Next
  PROVE  Base'
<1>1. CASE Sends
  BY <1>1, BeginBase, SettleBase, EmitBase DEF Sends
<1>2. CASE Quiets
  BY <1>2, FinishBase, QuietBase, ProcessBase DEF Quiets
<1>3. CASE Relay \/ ReadReply \/ ReadEvent \/ ReadEof \/ Stop \/ Crash \/ Spawn
  BY <1>3, RelayBase, ReadBase, EndBase, ProcessBase
<1>4. CASE \E s \in Streams : Submit(s) \/ StreamStart(s) \/ StreamTimeout(s) \/ StreamTake(s)
  BY <1>4, SubmitBase, ClientBase
<1> QED
  BY <1>1, <1>2, <1>3, <1>4, Steps

LEMMA StepDelivers ==
  ASSUME Base, Base', client = "stream", ~lagged', NEW r \in Nat, NEW m \in Nat, Delivery(r, m),
         \A s \in Streams : Yielded(s), Next
  PROVE  /\ \E r2, m2 \in Nat : Delivery(r2, m2)'
         /\ \A s \in Streams : Yielded(s)'
<1>0. Types /\ Numbered /\ r + 1 \in Nat /\ m + 1 \in Nat
  BY DEF Base, LogInv
<1>1. CASE Sends
  <2>1. /\ process = "ready"
        /\ UNCHANGED <<client, process, gen, pipe, inbox, reader, pending, stream, queue>>
        /\ \E e \in Events : e.gen = gen /\ log' = Append(log, e) /\ Broadcast(e)
    BY <1>1, SendFacts
  <2>2. PICK e \in Events : e.gen = gen /\ log' = Append(log, e) /\ Broadcast(e)
    BY <2>1
  <2>3. LogGrows /\ Delivery(r, m)'
    BY <2>1, <2>2, SendDelivers
  <2>4. \A s \in Streams : Yielded(s)'
    BY <1>0, <2>1, <2>3, YieldedKept
  <2> QED
    BY <2>3, <2>4
<1>2. CASE Quiets
  <2>1. /\ process = "down" => process' = "down"
        /\ UNCHANGED <<gen, bus, log, pipe, inbox, reader, pending, stream, queue>>
    BY <1>2, QuietFacts
  <2>2. LogGrows /\ Delivery(r, m)'
    BY <2>1, QuietDelivers
  <2>3. \A s \in Streams : Yielded(s)'
    BY <1>0, <2>1, <2>2, YieldedKept
  <2> QED
    BY <2>2, <2>3
<1>3. CASE Relay
  <2>1. LogGrows /\ Delivery(r, m + 1)' /\ UNCHANGED stream
    BY <1>3, RelayDelivers DEF Relay, clientVars
  <2>2. \A s \in Streams : Yielded(s)'
    BY <1>0, <2>1, YieldedKept
  <2> QED
    BY <1>0, <2>1, <2>2
<1>4. CASE ReadReply
  <2>1. /\ LogGrows /\ Delivery(r, m)'
        /\ \A s \in Streams : \/ stream'[s] = stream[s]
                              \/ stream[s].got = <<>> /\ stream'[s].got = <<>>
    BY <1>4, ReadReplyDelivers
  <2>2. ASSUME NEW s \in Streams PROVE Yielded(s)'
    <3>1. CASE stream'[s] = stream[s]
      BY <1>0, <2>1, <3>1, YieldedKept
    <3>2. CASE stream'[s].got = <<>>
      BY <3>2 DEF Yielded
    <3> QED
      BY <2>1, <3>1, <3>2
  <2> QED
    BY <2>1, <2>2
<1>5. CASE ReadEvent
  <2>1. LogGrows /\ Delivery(r + 1, m)' /\ UNCHANGED stream
    BY <1>5, ReadEventDelivers DEF ReadEvent
  <2>2. \A s \in Streams : Yielded(s)'
    BY <1>0, <2>1, YieldedKept
  <2> QED
    BY <1>0, <2>1, <2>2
<1>6. CASE ReadEof \/ Stop
  <2>1. /\ LogGrows /\ Delivery(r, m)'
        /\ \A s \in Streams : stream'[s].got = stream[s].got /\ stream'[s].first = stream[s].first
    BY <1>6, EndDelivers
  <2>2. \A s \in Streams : Yielded(s)'
    BY <1>0, <2>1, YieldedKept
  <2> QED
    BY <2>1, <2>2
<1>7. CASE Crash
  <2>1. LogGrows /\ Delivery(r, m)' /\ UNCHANGED stream
    BY <1>7, CrashDelivers DEF Crash, clientVars
  <2>2. \A s \in Streams : Yielded(s)'
    BY <1>0, <2>1, YieldedKept
  <2> QED
    BY <2>1, <2>2
<1>8. CASE Spawn
  <2>1. \E n \in Nat : Delivery(n, n)'
    BY <1>8, SpawnDelivers
  <2>2. UNCHANGED <<stream, log>>
    BY <1>8 DEF Spawn
  <2>3. \A s \in Streams : Yielded(s)'
    BY <2>2 DEF Yielded
  <2> QED
    BY <2>1, <2>3
<1>9. CASE \E s \in Streams : Submit(s) \/ StreamStart(s) \/ StreamTimeout(s) \/ StreamTake(s)
  <2>1. PICK s \in Streams : Submit(s) \/ StreamStart(s) \/ StreamTimeout(s) \/ StreamTake(s)
    BY <1>9
  <2>2. CASE Submit(s)
    <3>1. LogGrows /\ Delivery(r, m)' /\ UNCHANGED stream
      BY <2>2, SubmitDelivers DEF Submit, clientVars
    <3>2. \A t \in Streams : Yielded(t)'
      BY <1>0, <3>1, YieldedKept
    <3> QED
      BY <3>1, <3>2
  <2>3. CASE StreamStart(s) \/ StreamTimeout(s)
    <3>1. /\ Delivery(r, m)'
          /\ \A t \in Streams : stream'[t].got = stream[t].got /\ stream'[t].first = stream[t].first
      BY <2>3, StartDelivers, TimeoutDelivers
    <3>2. UNCHANGED <<log, gen>>
      BY <2>3 DEF StreamStart, StreamTimeout, serverVars
    <3>3. LogGrows
      BY <1>0, <3>2, GrowsSame
    <3>4. \A t \in Streams : Yielded(t)'
      BY <1>0, <3>1, <3>3, YieldedKept
    <3> QED
      BY <3>1, <3>4
  <2>4. CASE StreamTake(s)
    BY <2>4, TakeDelivers
  <2> QED
    BY <2>1, <2>2, <2>3, <2>4
<1> QED
  BY <1>1, <1>2, <1>3, <1>4, <1>5, <1>6, <1>7, <1>8, <1>9, Steps

LEMMA InitInv ==
  ASSUME Init
  PROVE  Inv
<1>1. Types
  <2>1. /\ <<>> \in Seq(Events) /\ <<>> \in Seq(Events \cup Replies) /\ <<>> \in Seq(Streams)
        /\ <<>> \in Seq(Messages)
    OBVIOUS
  <2>2. Quiet \in StreamStates /\ Idle \in WorkerStates
    BY <2>1 DEF Quiet, StreamStates, Idle, WorkerStates
  <2> QED
    BY <2>1, <2>2 DEF Init, Types, Threads
<1>2. 1..Len(log) = {} /\ Len(log) = 0 /\ 1..Len(bus) = {} /\ 1..Len(pipe) = {} /\ 1..Len(inbox) = {}
      /\ Len(bus) = 0
  BY DEF Init
<1>3. LogInv
  BY <1>2 DEF Init, Idle, LogInv, Numbered, InTurns, Unbroken
<1>4. ReaderInv /\ Polls
  BY DEF Init, Idle, ReaderInv, Polls
<1>5. \A s \in Streams : stream[s] = Quiet /\ queue[s] = <<>> /\ s \notin pending
  BY DEF Init
<1>6. \A s \in Streams : Yielded(s)
  BY <1>5 DEF Yielded, Quiet
<1>7. Line(0, 0)
  BY <1>2 DEF Line, Init
<1>8. \A s \in Streams : s \notin Registered /\ GoesOn(s, 0) /\ Begins(s, 0)
  BY <1>2, <1>5 DEF Quiet, Registered, GoesOn, Begins, Owed
<1>9. Delivery(0, 0)
  BY <1>7, <1>8 DEF Delivery
<1> QED
  BY <1>1, <1>3, <1>4, <1>6, <1>9 DEF Inv, Delivered

LEMMA NextInv ==
  ASSUME Inv, [Next]_vars
  PROVE  Inv'
<1>1. CASE UNCHANGED vars
  <2>1. UNCHANGED <<client, process, gen, worker, next, bus, pipe, inbox, pending, reader, stream,
                    queue, log, lagged>>
    BY <1>1 DEF vars, serverVars, clientVars
  <2>2. Base'
    <3>1. Types'
      BY <2>1 DEF Inv, Types
    <3>2. LogInv'
      BY <2>1, SameLog DEF Inv
    <3> QED
      BY <2>1, <3>1, <3>2 DEF Inv, Base, ReaderInv, Polls
  <2>3. ASSUME ~lagged' PROVE \A s \in Streams : Yielded(s)'
    BY <2>1, <2>3 DEF Inv, Yielded
  <2>4. ASSUME client' = "stream", ~lagged' PROVE \E r2, m2 \in Nat : Delivery(r2, m2)'
    <3>1. PICK r \in Nat, m \in Nat : Delivery(r, m)
      BY <2>1, <2>4 DEF Inv, Delivered
    <3>2. Delivery(r, m)'
      <4>1. Base /\ \A s \in Streams : Yielded(s)
        BY <2>1, <2>4 DEF Inv, Base
      <4> QED
        BY <2>1, <2>2, <3>1, <4>1, QuietDelivers
    <3> QED
      BY <3>2
  <2> QED
    BY <2>2, <2>3, <2>4 DEF Inv, Base, Delivered
<1>2. CASE Next
  <2>1. Base
    BY DEF Inv, Base
  <2>2. Base'
    BY <1>2, <2>1, BaseKept
  <2>3. client' = client /\ (~lagged' => ~lagged)
    <3>1. CASE Sends
      BY <2>1, <3>1, SendFacts DEF Broadcast
    <3>2. CASE Quiets
      BY <3>2, QuietFacts
    <3>3. CASE \/ Relay \/ ReadReply \/ ReadEvent \/ ReadEof \/ Stop \/ Crash \/ Spawn
               \/ \E s \in Streams : StreamStart(s) \/ StreamTimeout(s) \/ StreamTake(s)
      <4>1. Relay \/ ReadReply \/ ReadEvent \/ ReadEof => UNCHANGED <<client, lagged>>
        BY DEF Relay, ReadReply, ReadEvent, ReadEof, serverVars
      <4>2. Stop \/ Crash \/ Spawn => UNCHANGED <<client, lagged>>
        BY DEF Stop, Crash, Spawn
      <4>3. ASSUME NEW s \in Streams
            PROVE  StreamStart(s) \/ StreamTimeout(s) \/ StreamTake(s) => UNCHANGED <<client, lagged>>
        BY DEF StreamStart, StreamTimeout, StreamTake, serverVars
      <4> QED
        BY <3>3, <4>1, <4>2, <4>3
    <3>4. CASE \E s \in Streams : Submit(s)
      BY <3>4 DEF Submit, Begin, SendEvent, Broadcast, serverVars
    <3> QED
      BY <1>2, <3>1, <3>2, <3>3, <3>4, Steps
  <2>4. CASE client = "stream"
    <3>1. CASE lagged'
      BY <2>2, <3>1 DEF Inv, Base, Delivered
    <3>2. CASE ~lagged'
      <4>1. PICK r \in Nat, m \in Nat : Delivery(r, m)
        BY <2>3, <2>4, <3>2 DEF Inv, Delivered
      <4>2. \A s \in Streams : Yielded(s)
        BY <2>3, <3>2 DEF Inv
      <4>3. /\ \E r2, m2 \in Nat : Delivery(r2, m2)'
            /\ \A s \in Streams : Yielded(s)'
        BY <1>2, <2>1, <2>2, <2>4, <3>2, <4>1, <4>2, StepDelivers
      <4> QED
        BY <2>2, <4>3 DEF Inv, Base, Delivered
    <3> QED
      BY <3>1, <3>2
  <2>5. CASE client = "poll"
    <3>1. \A s \in Streams : stream'[s] = Quiet
      BY <2>2, <2>3, <2>5 DEF Base, Polls
    <3>2. \A s \in Streams : Yielded(s)'
      BY <3>1 DEF Yielded, Quiet
    <3> QED
      BY <2>2, <2>3, <2>5, <3>2 DEF Inv, Base, Delivered
  <2> QED
    BY <2>1, <2>4, <2>5 DEF Base, Types
<1> QED
  BY <1>1, <1>2

(***************************************************************************)
(* The invariant of event delivery: the log is numbered and in Turns, and  *)
(* as long as the broadcast did not lag (serve_connection), what is in the *)
(* pipe, in the queues (_read_loop, _enqueue_stream_message) and on its    *)
(* way to a stream agrees with it.                                         *)
(***************************************************************************)
THEOREM InvHolds == Spec => []Inv
<1>1. Init => Inv
  BY InitInv
<1>2. Inv /\ [Next]_vars => Inv'
  BY NextInv
<1> QED
  BY <1>1, <1>2, PTL DEF Spec

LEMMA InvFaithful ==
  ASSUME Inv
  PROVE  StreamFaithful
<1>1. SUFFICES ASSUME ~lagged, NEW s \in Streams, stream[s].got # <<>>
               PROVE  \E i \in Start(s) :
                        /\ log[i].turn = stream[s].first
                        /\ i + Len(stream[s].got) - 1 <= Len(log)
                        /\ SubSeq(log, i, i + Len(stream[s].got) - 1) = stream[s].got
  BY DEF StreamFaithful
<1> DEFINE got == stream[s].got
           n == Len(got)
<1>2. /\ got \in Seq(Events) /\ n \in Nat /\ 1 \in 1..n /\ log \in Seq(Events) /\ Len(log) \in Nat
      /\ DOMAIN log = 1..Len(log)
  <2>1. Types
    BY DEF Inv
  <2>2. got \in Seq(Events) /\ log \in Seq(Events)
    BY <2>1, StreamFacts DEF Types
  <2> QED
    BY <1>1, <2>2
<1>3. PICK p \in 1..Len(log) :
        /\ log[p].kind = "turn_started" /\ log[p].turn = stream[s].first
        /\ p + n - 1 <= Len(log)
        /\ \A x \in 1..n : got[x] = log[p + x - 1]
  BY <1>1 DEF Inv, Yielded
<1>4. p \in Start(s)
  <2>1. log[p] = got[1]
    BY <1>2, <1>3
  <2> QED
    BY <1>1, <1>2, <1>3, <2>1 DEF Start
<1>5. SubSeq(log, p, p + n - 1) = got
  <2>1. /\ SubSeq(log, p, p + n - 1) \in Seq(Events)
        /\ Len(SubSeq(log, p, p + n - 1)) = n
        /\ \A x \in 1..n : SubSeq(log, p, p + n - 1)[x] = log[p + x - 1]
    <3> HIDE DEF n, got
    <3> QED
      BY <1>2, <1>3
  <2> HIDE DEF n
  <2> DEFINE part == SubSeq(log, p, p + n - 1)
  <2>2. /\ part \in Seq(Events) /\ Len(part) = Len(got)
        /\ \A x \in 1..Len(part) : part[x] = got[x]
    BY <1>3, <2>1 DEF n
  <2> HIDE DEF part, got
  <2>3. part = got
    BY <1>2, <2>2, SeqEqual
  <2> QED
    BY <2>3 DEF part
<1> QED
  BY <1>3, <1>4, <1>5

(***************************************************************************)
(* stream_turn yields the events of its Turn from TurnStarted on, in order *)
(* and without a gap, unless the broadcast channel lagged.                 *)
(***************************************************************************)
THEOREM StreamsAreFaithful == Spec => []StreamFaithful
<1>1. Inv => StreamFaithful
  BY InvFaithful
<1> QED
  BY <1>1, InvHolds, PTL

-----------------------------------------------------------------------------
(* The replay ring and the pages of turn/events. *)

EntryType == [thread : Threads, event : Events]

RingTypes ==
    /\ ring \in Seq(EntryType) /\ latest \in [Threads -> Nat]
    /\ page.cursor \in Nat

\* The first process of a Session starts with nothing.
FirstStart == process = "starting" => file = <<>> /\ log = <<>> /\ page.cursor = 0

\* What was observed of the Thread is behind what the worker numbers next.
Ahead ==
    /\ latest["main"] < next["main"]
    /\ worker.phase = "persisting" => latest["main"] < worker.seq

\* The ring holds the summaries of the Thread from its oldest entry on, in order.
RingSound ==
    /\ \A i \in 1..Len(log) : log[i].seq <= latest["main"]
    /\ \A k \in 1..Len(ring) : ring[k].thread = "main" =>
         ring[k].event.seq \in 1..latest["main"]
    /\ \A j, k \in 1..Len(ring) :
         j < k /\ ring[j].thread = "main" /\ ring[k].thread = "main" =>
           ring[j].event.seq < ring[k].event.seq
    /\ \A i \in 1..Len(log) : IsSummary(log[i]) =>
         \/ \E k \in 1..Len(ring) : ring[k].thread = "main" /\ ring[k].event = log[i]
         \/ \A k \in 1..Len(ring) : ring[k].thread = "main" => log[i].seq < ring[k].event.seq

PageSound ==
    /\ page.cursor <= latest["main"]
    /\ \A i \in 1..Len(log) :
         IsSummary(log[i]) /\ log[i].seq <= page.cursor => log[i] \in page.seen \/ page.gap

ReplayInv == gen = 0 => RingTypes /\ FirstStart /\ Ahead /\ RingSound /\ PageSound

-----------------------------------------------------------------------------

LEMMA NewestFacts ==
  ASSUME NEW s \in Seq(EntryType), NEW x \in EntryType, RingCap \in Nat \ {0}
  PROVE  \E d \in 1..Len(s) + 1 :
           /\ Newest(Append(s, x)) \in Seq(EntryType)
           /\ Len(Newest(Append(s, x))) = Len(s) + 2 - d
           /\ \A k \in 1..Len(s) + 2 - d :
                Newest(Append(s, x))[k] = IF k + d - 1 <= Len(s) THEN s[k + d - 1] ELSE x
<1> DEFINE a == Append(s, x)
           n == Len(s)
           d == IF n + 1 > RingCap THEN n + 1 - RingCap + 1 ELSE 1
<1>1. a \in Seq(EntryType) /\ Len(a) = n + 1 /\ n \in Nat
  OBVIOUS
<1>2. \A k \in 1..n + 1 : a[k] = IF k <= n THEN s[k] ELSE x
  OBVIOUS
<1>3. d \in 1..n + 1
  BY <1>1
<1>4. Newest(a) = SubSeq(a, d, n + 1)
  BY <1>1 DEF Newest
<1> HIDE DEF a, n, d
<1>5. /\ SubSeq(a, d, n + 1) \in Seq(EntryType)
      /\ Len(SubSeq(a, d, n + 1)) = n + 2 - d
  BY <1>1, <1>3
<1>6. \A k \in 1..n + 2 - d : SubSeq(a, d, n + 1)[k] = a[k + d - 1] /\ k + d - 1 \in 1..n + 1
  BY <1>1, <1>3
<1> QED
  BY <1>1, <1>2, <1>3, <1>4, <1>5, <1>6 DEF a, n

\* What a pushed summary makes of the ring.
LEMMA PushFacts ==
  ASSUME ring \in Seq(EntryType), NEW thread \in Threads, NEW event \in Events,
         RingCap \in Nat \ {0}, ring' = Push(ring, thread, event)
  PROVE  \/ /\ ring' = ring
            /\ \E i \in 1..Len(ring) : ring[i].thread = thread /\ ring[i].event.seq = event.seq
         \/ /\ ring' \in Seq(EntryType)
            /\ \E d \in 1..Len(ring) + 1 :
                 /\ Len(ring') = Len(ring) + 2 - d
                 /\ \A k \in 1..Len(ring) + 2 - d :
                      ring'[k] = IF k + d - 1 <= Len(ring) THEN ring[k + d - 1]
                                 ELSE [thread |-> thread, event |-> event]
<1>1. CASE \E i \in DOMAIN ring : ring[i].thread = thread /\ ring[i].event.seq = event.seq
  BY <1>1 DEF Push
<1>2. CASE ~\E i \in DOMAIN ring : ring[i].thread = thread /\ ring[i].event.seq = event.seq
  <2>1. ring' = Newest(Append(ring, [thread |-> thread, event |-> event]))
    BY <1>2 DEF Push
  <2>2. [thread |-> thread, event |-> event] \in EntryType
    BY DEF EntryType
  <2>3. PICK d \in 1..Len(ring) + 1 :
           /\ ring' \in Seq(EntryType)
           /\ Len(ring') = Len(ring) + 2 - d
           /\ \A k \in 1..Len(ring) + 2 - d :
                ring'[k] = IF k + d - 1 <= Len(ring) THEN ring[k + d - 1]
                           ELSE [thread |-> thread, event |-> event]
    <3> DEFINE x == [thread |-> thread, event |-> event]
    <3>1. x \in EntryType /\ ring' = Newest(Append(ring, x))
      BY <2>1, <2>2
    <3> HIDE DEF x
    <3>2. PICK d \in 1..Len(ring) + 1 :
           /\ Newest(Append(ring, x)) \in Seq(EntryType)
           /\ Len(Newest(Append(ring, x))) = Len(ring) + 2 - d
           /\ \A k \in 1..Len(ring) + 2 - d :
                Newest(Append(ring, x))[k] = IF k + d - 1 <= Len(ring) THEN ring[k + d - 1] ELSE x
      BY <3>1, NewestFacts
    <3> QED
      BY <3>1, <3>2 DEF x
  <2> QED
    BY <2>3
<1> QED
  BY <1>1, <1>2

\* The ring as an event of the Thread joins the log.
LEMMA SendRing ==
  ASSUME Types, RingTypes, RingSound, NEW e \in Events, latest["main"] < e.seq,
         SendEvent(e)
  PROVE  /\ ring' \in Seq(EntryType)
         /\ latest' = [latest EXCEPT !["main"] = e.seq]
         /\ RingSound'
<1>1. /\ e.seq \in Nat /\ latest["main"] \in Nat /\ "main" \in Threads /\ latest \in [Threads -> Nat]
  BY DEF Events, RingTypes, Threads
<1>2. latest' = [latest EXCEPT !["main"] = e.seq]
  <2>1. Observe("main", e.seq) = e.seq
    BY <1>1 DEF Observe
  <2>2. latest' = [latest EXCEPT !["main"] = Observe("main", e.seq)]
    BY Zenon DEF SendEvent, Keep
  <2> QED
    BY <2>1, <2>2
<1>3. latest'["main"] = e.seq
  BY <1>1, <1>2
<1>4. /\ Len(log) \in Nat /\ Len(log') = Len(log) + 1
      /\ \A i \in 1..Len(log) : log'[i] = log[i] /\ log[i].seq \in Nat
      /\ log'[Len(log) + 1] = e
      /\ \A i \in 1..Len(log') : i \in 1..Len(log) \/ i = Len(log) + 1
  <2>1. log' = Append(log, e)
    BY DEF SendEvent
  <2> QED
    BY <2>1, Appended DEF Events
<1>5. ring \in Seq(EntryType) /\ Len(ring) \in Nat
  BY DEF RingTypes
<1>6. \A k \in 1..Len(ring) : ring[k].thread = "main" => ring[k].event.seq < e.seq /\ ring[k].event.seq \in Nat
  BY <1>1 DEF RingSound
<1>7. \A i \in 1..Len(log') : log'[i].seq <= latest'["main"]
  BY <1>1, <1>3, <1>4 DEF RingSound
<1>8. CASE ~IsSummary(e)
  <2>1. ring' = ring
    BY <1>8 DEF SendEvent, Keep
  <2>2. \A k \in 1..Len(ring') : ring'[k].thread = "main" => ring'[k].event.seq \in 1..latest'["main"]
    BY <1>1, <1>3, <2>1 DEF RingSound
  <2>3. \A i \in 1..Len(log') : IsSummary(log'[i]) => i \in 1..Len(log) /\ log'[i] = log[i]
    BY <1>4, <1>8
  <2>4. \A i \in 1..Len(log') : IsSummary(log'[i]) =>
         \/ \E k \in 1..Len(ring') : ring'[k].thread = "main" /\ ring'[k].event = log'[i]
         \/ \A k \in 1..Len(ring') : ring'[k].thread = "main" => log'[i].seq < ring'[k].event.seq
    BY <2>1, <2>3 DEF RingSound
  <2>5. \A j, k \in 1..Len(ring') :
         j < k /\ ring'[j].thread = "main" /\ ring'[k].thread = "main" =>
           ring'[j].event.seq < ring'[k].event.seq
    BY <2>1 DEF RingSound
  <2> QED
    BY <1>2, <1>5, <1>7, <2>1, <2>2, <2>4, <2>5 DEF RingSound
<1>9. CASE IsSummary(e)
  <2>1. ring' = Push(ring, "main", e)
    BY <1>9 DEF SendEvent, Keep
  <2>2. ~\E i \in 1..Len(ring) : ring[i].thread = "main" /\ ring[i].event.seq = e.seq
    BY <1>1, <1>6
  <2>3. RingCap \in Nat \ {0}
    BY EventDeliveryAssumption
  <2>4. ring' \in Seq(EntryType)
    BY <1>1, <1>5, <2>1, <2>2, <2>3, PushFacts
  <2>5. PICK d \in 1..Len(ring) + 1 :
           /\ Len(ring') = Len(ring) + 2 - d
           /\ \A k \in 1..Len(ring) + 2 - d :
                ring'[k] = IF k + d - 1 <= Len(ring) THEN ring[k + d - 1]
                           ELSE [thread |-> "main", event |-> e]
    BY <1>1, <1>5, <2>1, <2>2, <2>3, PushFacts
  <2> DEFINE n == Len(ring)
  <2>6. n \in Nat /\ d \in 1..n + 1 /\ Len(ring') = n + 2 - d
    BY <1>5, <2>5
  <2>7. \A k \in 1..Len(ring') :
          \/ k + d - 1 \in 1..n /\ ring'[k] = ring[k + d - 1]
          \/ k = n + 2 - d /\ ring'[k] = [thread |-> "main", event |-> e]
    BY <2>5, <2>6
  <2>8. \A j, k \in 1..Len(ring') : j < k => j + d - 1 \in 1..n /\ ring'[j] = ring[j + d - 1] /\ k \in Nat /\ j \in Nat
    BY <2>6, <2>7
  <2>9. \A l \in 1..n : \/ l < d
                       \/ \E k \in 1..Len(ring') : k + d - 1 = l /\ ring'[k] = ring[l]
    <3> SUFFICES ASSUME NEW l \in 1..n, ~(l < d)
                 PROVE  \E k \in 1..Len(ring') : k + d - 1 = l /\ ring'[k] = ring[l]
      OBVIOUS
    <3>1. l - d + 1 \in 1..Len(ring') /\ (l - d + 1) + d - 1 = l /\ l - d + 1 # n + 2 - d
      BY <2>6
    <3> QED
      BY <2>7, <3>1
  <2>10. n + 2 - d \in 1..Len(ring') /\ ring'[n + 2 - d] = [thread |-> "main", event |-> e]
    <3>1. n + 2 - d \in 1..Len(ring') /\ (n + 2 - d) + d - 1 \notin 1..n
      BY <2>6
    <3> QED
      BY <2>7, <3>1
  <2> HIDE DEF n
  <2>11. \A k \in 1..Len(ring') : ring'[k].thread = "main" => ring'[k].event.seq \in 1..latest'["main"]
    <3> SUFFICES ASSUME NEW k \in 1..Len(ring'), ring'[k].thread = "main"
                 PROVE  ring'[k].event.seq \in 1..latest'["main"]
      OBVIOUS
    <3>1. CASE k + d - 1 \in 1..n /\ ring'[k] = ring[k + d - 1]
      <4>1. ring[k + d - 1].event.seq \in 1..latest["main"]
        BY <3>1 DEF RingSound, n
      <4> QED
        BY <1>1, <1>3, <3>1, <4>1
    <3>2. CASE ring'[k] = [thread |-> "main", event |-> e]
      BY <1>1, <1>3, <3>2
    <3> QED
      BY <2>7, <3>1, <3>2
  <2>12. \A j, k \in 1..Len(ring') :
         j < k /\ ring'[j].thread = "main" /\ ring'[k].thread = "main" =>
           ring'[j].event.seq < ring'[k].event.seq
    <3> SUFFICES ASSUME NEW j \in 1..Len(ring'), NEW k \in 1..Len(ring'), j < k,
                        ring'[j].thread = "main", ring'[k].thread = "main"
                 PROVE  ring'[j].event.seq < ring'[k].event.seq
      OBVIOUS
    <3>1. j + d - 1 \in 1..n /\ ring'[j] = ring[j + d - 1]
      BY <2>8
    <3>2. CASE k + d - 1 \in 1..n /\ ring'[k] = ring[k + d - 1]
      <4>1. j + d - 1 < k + d - 1
        BY <2>6
      <4> QED
        BY <3>1, <3>2, <4>1 DEF RingSound, n
    <3>3. CASE ring'[k] = [thread |-> "main", event |-> e]
      BY <1>6, <3>1, <3>3 DEF n
    <3> QED
      BY <2>7, <3>2, <3>3
  <2>13. ASSUME NEW i \in 1..Len(log'), IsSummary(log'[i])
         PROVE  \/ \E k \in 1..Len(ring') : ring'[k].thread = "main" /\ ring'[k].event = log'[i]
                \/ \A k \in 1..Len(ring') : ring'[k].thread = "main" => log'[i].seq < ring'[k].event.seq
    <3>1. CASE i = Len(log) + 1
      BY <1>4, <2>10, <3>1
    <3>2. CASE i \in 1..Len(log)
      <4>0. log'[i] = log[i] /\ log[i].seq \in Nat /\ log[i].seq < e.seq
        BY <1>1, <1>4, <3>2 DEF RingSound
      <4>1. CASE \E l \in 1..n : ring[l].thread = "main" /\ ring[l].event = log[i]
        <5>1. PICK l \in 1..n : ring[l].thread = "main" /\ ring[l].event = log[i]
          BY <4>1
        <5>2. CASE l < d
          <6>1. ASSUME NEW k \in 1..Len(ring'), ring'[k].thread = "main"
                PROVE  log'[i].seq < ring'[k].event.seq
            <7>1. CASE k + d - 1 \in 1..n /\ ring'[k] = ring[k + d - 1]
              <8>1. l < k + d - 1
                BY <2>6, <5>2
              <8> QED
                BY <4>0, <5>1, <6>1, <7>1, <8>1 DEF RingSound, n
            <7>2. CASE ring'[k] = [thread |-> "main", event |-> e]
              BY <4>0, <7>2
            <7> QED
              BY <2>7, <7>1, <7>2
          <6> QED
            BY <6>1
        <5>3. CASE \E k \in 1..Len(ring') : k + d - 1 = l /\ ring'[k] = ring[l]
          BY <4>0, <5>1, <5>3
        <5> QED
          BY <2>9, <5>2, <5>3
      <4>2. CASE \A l \in 1..n : ring[l].thread = "main" => log[i].seq < ring[l].event.seq
        <5>1. ASSUME NEW k \in 1..Len(ring'), ring'[k].thread = "main"
              PROVE  log'[i].seq < ring'[k].event.seq
          <6>1. CASE k + d - 1 \in 1..n /\ ring'[k] = ring[k + d - 1]
            BY <4>0, <4>2, <5>1, <6>1
          <6>2. CASE ring'[k] = [thread |-> "main", event |-> e]
            BY <4>0, <6>2
          <6> QED
            BY <2>7, <6>1, <6>2
        <5> QED
          BY <5>1
      <4> QED
        BY <2>13, <3>2, <4>0, <4>1, <4>2 DEF RingSound, n
    <3> QED
      BY <1>4, <3>1, <3>2
  <2> QED
    BY <1>2, <1>7, <2>4, <2>11, <2>12, <2>13 DEF RingSound
<1> QED
  BY <1>8, <1>9

\* A summary of the other Thread takes room and nothing else.
LEMMA SideRing ==
  ASSUME RingTypes, RingSound, NEW e \in Events, Keep("side", e), e.kind = "tool", log' = log
  PROVE  /\ ring' \in Seq(EntryType)
         /\ latest' \in [Threads -> Nat] /\ latest'["main"] = latest["main"]
         /\ RingSound'
<1>1. /\ "main" \in Threads /\ "side" \in Threads /\ latest["main"] \in Nat
      /\ latest["side"] \in Nat /\ e.seq \in Nat /\ latest \in [Threads -> Nat]
  BY DEF RingTypes, Threads, Events
<1>2. latest' \in [Threads -> Nat] /\ latest'["main"] = latest["main"]
  <2>1. Observe("side", e.seq) \in Nat
    BY <1>1 DEF Observe
  <2>2. latest' = [latest EXCEPT !["side"] = Observe("side", e.seq)]
    BY Zenon DEF Keep
  <2> QED
    BY <1>1, <2>1, <2>2
<1>3. ring' = Push(ring, "side", e)
  BY DEF Keep, IsSummary
<1>4. ring \in Seq(EntryType) /\ Len(ring) \in Nat
  BY DEF RingTypes
<1>5. CASE ring' = ring
  BY <1>2, <1>4, <1>5 DEF RingSound
<1>6. CASE ring' # ring
  <2>1. RingCap \in Nat \ {0}
    BY EventDeliveryAssumption
  <2>2. ring' \in Seq(EntryType)
    BY <1>1, <1>3, <1>4, <1>6, <2>1, PushFacts
  <2>3. PICK d \in 1..Len(ring) + 1 :
           /\ Len(ring') = Len(ring) + 2 - d
           /\ \A k \in 1..Len(ring) + 2 - d :
                ring'[k] = IF k + d - 1 <= Len(ring) THEN ring[k + d - 1]
                           ELSE [thread |-> "side", event |-> e]
    BY <1>1, <1>3, <1>4, <1>6, <2>1, PushFacts
  <2> DEFINE n == Len(ring)
  <2>4. n \in Nat /\ d \in 1..n + 1 /\ Len(ring') = n + 2 - d
    BY <1>4, <2>3
  <2>5. \A k \in 1..Len(ring') : ring'[k].thread = "main" =>
          k + d - 1 \in 1..n /\ ring'[k] = ring[k + d - 1]
    BY <2>3, <2>4
  <2>6. \A l \in 1..n : \/ l < d
                       \/ \E k \in 1..Len(ring') : k + d - 1 = l /\ ring'[k] = ring[l]
    <3> SUFFICES ASSUME NEW l \in 1..n, ~(l < d)
                 PROVE  \E k \in 1..Len(ring') : k + d - 1 = l /\ ring'[k] = ring[l]
      OBVIOUS
    <3>1. l - d + 1 \in 1..Len(ring') /\ (l - d + 1) + d - 1 = l
      BY <2>4
    <3> QED
      BY <2>3, <2>4, <3>1
  <2> HIDE DEF n
  <2>7. \A k \in 1..Len(ring') : ring'[k].thread = "main" => ring'[k].event.seq \in 1..latest'["main"]
    BY <1>2, <2>5 DEF RingSound, n
  <2>8. \A j, k \in 1..Len(ring') :
         j < k /\ ring'[j].thread = "main" /\ ring'[k].thread = "main" =>
           ring'[j].event.seq < ring'[k].event.seq
    <3> SUFFICES ASSUME NEW j \in 1..Len(ring'), NEW k \in 1..Len(ring'), j < k,
                        ring'[j].thread = "main", ring'[k].thread = "main"
                 PROVE  ring'[j].event.seq < ring'[k].event.seq
      OBVIOUS
    <3>1. j + d - 1 \in 1..n /\ ring'[j] = ring[j + d - 1] /\ k + d - 1 \in 1..n
          /\ ring'[k] = ring[k + d - 1]
      BY <2>5
    <3>2. j + d - 1 < k + d - 1
      BY <2>4
    <3> QED
      BY <3>1, <3>2 DEF RingSound, n
  <2>9. ASSUME NEW i \in 1..Len(log), IsSummary(log[i])
        PROVE  \/ \E k \in 1..Len(ring') : ring'[k].thread = "main" /\ ring'[k].event = log[i]
               \/ \A k \in 1..Len(ring') : ring'[k].thread = "main" => log[i].seq < ring'[k].event.seq
    <3>1. CASE \E l \in 1..n : ring[l].thread = "main" /\ ring[l].event = log[i]
      <4>1. PICK l \in 1..n : ring[l].thread = "main" /\ ring[l].event = log[i]
        BY <3>1
      <4>2. CASE l < d
        <5>1. ASSUME NEW k \in 1..Len(ring'), ring'[k].thread = "main"
              PROVE  log[i].seq < ring'[k].event.seq
          <6>1. l < k + d - 1
            BY <2>4, <4>2
          <6> QED
            BY <2>5, <4>1, <5>1, <6>1 DEF RingSound, n
        <5> QED
          BY <5>1
      <4>3. CASE \E k \in 1..Len(ring') : k + d - 1 = l /\ ring'[k] = ring[l]
        BY <4>1, <4>3
      <4> QED
        BY <2>6, <4>2, <4>3
    <3>2. CASE \A l \in 1..n : ring[l].thread = "main" => log[i].seq < ring[l].event.seq
      BY <2>5, <3>2
    <3> QED
      BY <2>9, <3>1, <3>2 DEF RingSound, n
  <2>10. \A i \in 1..Len(log') : log'[i].seq <= latest'["main"]
    BY <1>2 DEF RingSound
  <2> QED
    BY <1>2, <2>2, <2>7, <2>8, <2>9, <2>10 DEF RingSound
<1> QED
  BY <1>5, <1>6

-----------------------------------------------------------------------------
(* A page. *)

\* A non-empty set of numbers has a least element.
LEMMA LeastNumber ==
  ASSUME NEW T, T \subseteq Nat, T # {}
  PROVE  \E m \in T : \A k \in T : m <= k
<1> DEFINE R == OpToRel(<, Nat)
<1>1. IsWellFoundedOn(R, Nat)
  BY NatLessThanWellFounded
<1> HIDE DEF R
<1>2. PICK m \in T : \A k \in T : ~ (<<k, m>> \in R)
  BY <1>1, WFMin
<1>3. ASSUME NEW k \in T
      PROVE  m <= k
  <2>1. ~ (<<k, m>> \in R) /\ k \in Nat /\ m \in Nat
    BY <1>2
  <2>2. <<k, m>> \in Nat \X Nat /\ <<k, m>>[1] = k /\ <<k, m>>[2] = m
    BY <2>1
  <2>3. k < m => <<k, m>> \in R
    BY <2>2 DEF R, OpToRel
  <2> QED
    BY <2>1, <2>3
<1> QED
  BY <1>3

\* A set of numbers that holds 0 and the successor of each of its members up to n
\* holds the numbers up to n.
LEMMA UpTo ==
  ASSUME NEW S, NEW n \in Nat, 0 \in S, \A k \in 0..n : k \in S /\ k < n => k + 1 \in S
  PROVE  \A k \in 0..n : k \in S
<1> DEFINE T == {k \in 0..n : k \notin S}
<1>1. SUFFICES ASSUME T # {} PROVE FALSE
  OBVIOUS
<1>2. PICK m \in T : \A k \in T : m <= k
  <2>1. T \subseteq Nat /\ T # {}
    BY <1>1
  <2> HIDE DEF T
  <2> QED BY <2>1, LeastNumber
<1>3. m \in 0..n /\ m # 0 /\ m \notin S
  BY <1>2
<1>4. m - 1 \in 0..n /\ m - 1 < n /\ m - 1 \notin T
  BY <1>2, <1>3
<1>5. m - 1 \in S /\ (m - 1) + 1 = m
  BY <1>3, <1>4
<1> QED BY <1>3, <1>4, <1>5

\* t holds the entries of the ring up to n behind a cursor.
KeptUpTo(t, after, n) ==
    /\ t \in Seq(EntryType)
    /\ \A p \in 1..Len(t) : \E k \in 1..n : ring[k] = t[p] /\ IsAfter(ring[k], after)
    /\ \A k \in 1..n : IsAfter(ring[k], after) => \E p \in 1..Len(t) : t[p] = ring[k]
    /\ \A p, q \in 1..Len(t) : p < q => t[p].event.seq < t[q].event.seq

LEMMA KeptStep ==
  ASSUME RingTypes, RingSound, NEW after \in Nat, NEW n \in 1..Len(ring), NEW t,
         KeptUpTo(t, after, n - 1)
  PROVE  KeptUpTo(IF IsAfter(ring[n], after) THEN Append(t, ring[n]) ELSE t, after, n)
<1>1. n \in Nat /\ n - 1 \in Nat /\ ring[n] \in EntryType
      /\ \A k \in 1..n : k \in 1..n - 1 \/ k = n
  BY DEF RingTypes
<1>2. 1..n - 1 \subseteq 1..n /\ n \in 1..n
  BY <1>1
<1>3. CASE ~IsAfter(ring[n], after)
  BY <1>1, <1>2, <1>3 DEF KeptUpTo
<1>4. CASE IsAfter(ring[n], after)
  <2> DEFINE u == Append(t, ring[n])
  <2>1. /\ u \in Seq(EntryType) /\ Len(u) = Len(t) + 1 /\ Len(t) \in Nat
        /\ \A p \in 1..Len(t) : u[p] = t[p]
        /\ u[Len(t) + 1] = ring[n]
        /\ \A p \in 1..Len(u) : p \in 1..Len(t) \/ p = Len(t) + 1
    BY <1>1 DEF KeptUpTo
  <2> HIDE DEF u
  <2>2. ASSUME NEW p \in 1..Len(u)
        PROVE  \E k \in 1..n : ring[k] = u[p] /\ IsAfter(ring[k], after)
    <3>1. CASE p \in 1..Len(t)
      <4>1. PICK k \in 1..n - 1 : ring[k] = t[p] /\ IsAfter(ring[k], after)
        BY <3>1 DEF KeptUpTo
      <4>2. k \in 1..n /\ ring[k] = u[p]
        BY <1>2, <2>1, <3>1, <4>1
      <4> QED
        BY <4>1, <4>2
    <3>2. CASE p = Len(t) + 1
      BY <1>2, <1>4, <2>1, <3>2
    <3> QED
      BY <2>1, <3>1, <3>2
  <2>3. \A k \in 1..n : IsAfter(ring[k], after) => \E p \in 1..Len(u) : u[p] = ring[k]
    <3>1. 1..Len(t) \subseteq 1..Len(u) /\ Len(t) + 1 \in 1..Len(u)
      BY <2>1
    <3> QED
      BY <1>1, <2>1, <3>1 DEF KeptUpTo
  <2>4. \A p \in 1..Len(t) : t[p].event.seq < ring[n].event.seq
    <3> TAKE p \in 1..Len(t)
    <3>1. PICK k \in 1..n - 1 : ring[k] = t[p] /\ IsAfter(ring[k], after)
      BY DEF KeptUpTo
    <3>2. k \in 1..Len(ring) /\ k < n
      BY <1>1, <3>1
    <3> QED
      BY <1>4, <3>1, <3>2 DEF RingSound, IsAfter
  <2>5. \A p, q \in 1..Len(u) : p < q => u[p].event.seq < u[q].event.seq
    <3> SUFFICES ASSUME NEW p \in 1..Len(u), NEW q \in 1..Len(u), p < q
                 PROVE  u[p].event.seq < u[q].event.seq
      OBVIOUS
    <3>1. p \in 1..Len(t) /\ u[p] = t[p]
      BY <2>1
    <3>2. CASE q = Len(t) + 1
      BY <2>1, <2>4, <3>1, <3>2
    <3>3. CASE q \in 1..Len(t)
      BY <2>1, <3>1, <3>3 DEF KeptUpTo
    <3> QED
      BY <2>1, <3>2, <3>3
  <2> QED
    BY <1>4, <2>1, <2>2, <2>3, <2>5 DEF KeptUpTo, u
<1> QED
  BY <1>3, <1>4

\* How far Entries has come.
UpToHolds(f, after, n) ==
    f = [i \in 0..n |-> IF i = 0 THEN <<>>
                         ELSE IF IsAfter(ring[i], after) THEN Append(f[i - 1], ring[i])
                         ELSE f[i - 1]]

LEMMA UpToDefined ==
  ASSUME NEW after, NEW n \in Nat
  PROVE  \E f : UpToHolds(f, after, n)
<1> DEFINE S == {k \in Nat : \E f : UpToHolds(f, after, k)}
<1>1. 0 \in S
  <2> DEFINE g == [i \in 0..0 |-> <<>>]
  <2>1. UpToHolds(g, after, 0)
    BY DEF UpToHolds
  <2> QED
    BY <2>1
<1>2. ASSUME NEW k \in Nat, k \in S PROVE k + 1 \in S
  <2>1. PICK f : UpToHolds(f, after, k)
    BY <1>2
  <2> DEFINE last == IF IsAfter(ring[k + 1], after) THEN Append(f[k], ring[k + 1]) ELSE f[k]
             g == [i \in 0..(k + 1) |-> IF i = k + 1 THEN last ELSE f[i]]
  <2> HIDE DEF last
  <2>2. \A i \in 0..k : f[i] = IF i = 0 THEN <<>>
                               ELSE IF IsAfter(ring[i], after) THEN Append(f[i - 1], ring[i])
                               ELSE f[i - 1]
    BY <2>1 DEF UpToHolds
  <2>3. \A i \in 0..(k + 1) : g[i] = IF i = 0 THEN <<>>
                               ELSE IF IsAfter(ring[i], after) THEN Append(g[i - 1], ring[i])
                               ELSE g[i - 1]
    <3> TAKE i \in 0..(k + 1)
    <3>1. CASE i = k + 1
      <4>1. g[i] = last /\ g[i - 1] = f[k] /\ i # 0
        BY <3>1
      <4> QED
        BY <3>1, <4>1 DEF last
    <3>2. CASE i # k + 1
      <4>1. i \in 0..k /\ g[i] = f[i] /\ (i # 0 => g[i - 1] = f[i - 1])
        BY <3>2
      <4> QED
        BY <2>2, <4>1
    <3> QED
      BY <3>1, <3>2
  <2>4. UpToHolds(g, after, k + 1)
    BY <2>3 DEF UpToHolds
  <2> QED
    BY <2>4
<1> HIDE DEF S
<1>3. \A k \in 0..n : k \in S
  BY <1>1, <1>2, UpTo
<1> QED
  BY <1>3 DEF S

\* Entries are what the ring holds of the Thread behind the cursor, in order.
LEMMA EntriesHold ==
  ASSUME RingTypes, RingSound, NEW after \in Nat
  PROVE  KeptUpTo(Entries(after), after, Len(ring))
<1> DEFINE n == Len(ring)
<1>1. n \in Nat
  BY DEF RingTypes
<1> HIDE DEF n
<1>2. \E f : UpToHolds(f, after, n)
  BY <1>1, UpToDefined
<1>3. PICK f : UpToHolds(f, after, n) /\ Entries(after) = f[n]
  BY <1>2 DEF UpToHolds, Entries, n
<1>4. \A i \in 0..n : f[i] = IF i = 0 THEN <<>>
                             ELSE IF IsAfter(ring[i], after) THEN Append(f[i - 1], ring[i])
                             ELSE f[i - 1]
  BY <1>3 DEF UpToHolds
<1> DEFINE S == {k \in Nat : k <= n => KeptUpTo(f[k], after, k)}
<1>5. 0 \in S
  <2>1. f[0] = <<>> /\ <<>> \in Seq(EntryType) /\ 1..0 = {} /\ Len(<<>>) = 0
    BY <1>1, <1>4
  <2> QED
    BY <2>1 DEF KeptUpTo
<1>6. ASSUME NEW k \in 0..n, k \in S, k < n PROVE k + 1 \in S
  <2>1. k + 1 \in 1..n /\ k + 1 \in Nat /\ k + 1 \in 0..n /\ (k + 1) - 1 = k /\ KeptUpTo(f[k], after, k)
        /\ k + 1 # 0
    BY <1>1, <1>6
  <2>2. f[k + 1] = IF IsAfter(ring[k + 1], after) THEN Append(f[k], ring[k + 1]) ELSE f[k]
    BY <1>4, <2>1
  <2>3. k + 1 \in 1..Len(ring) /\ KeptUpTo(f[k], after, (k + 1) - 1)
    BY <2>1 DEF n
  <2>4. KeptUpTo(f[k + 1], after, k + 1)
    BY <2>2, <2>3, KeptStep
  <2> QED
    BY <2>1, <2>4
<1>7. \A k \in 0..n : k \in S
  <2> HIDE DEF S
  <2> QED
    BY <1>1, <1>5, <1>6, UpTo
<1>8. n \in 0..n
  BY <1>1
<1> QED
  BY <1>3, <1>7, <1>8 DEF n

LEMMA OldestFacts ==
  ASSUME RingTypes, RingSound
  PROVE  /\ Oldest = 0 => \A k \in 1..Len(ring) : ring[k].thread # "main"
         /\ Oldest \in Nat
         /\ \A k \in 1..Len(ring) : ring[k].thread = "main" =>
              Oldest # 0 /\ Oldest <= ring[k].event.seq
         /\ Oldest # 0 => \E k \in 1..Len(ring) : ring[k].thread = "main" /\ ring[k].event.seq = Oldest
<1> DEFINE mine == {ring[i].event.seq : i \in {j \in DOMAIN ring : ring[j].thread = "main"}}
<1>1. DOMAIN ring = 1..Len(ring)
  BY DEF RingTypes
<1>2. \A m \in mine : m \in Nat /\ m # 0
  BY <1>1 DEF RingSound, RingTypes
<1>3. Oldest = IF mine = {} THEN 0 ELSE CHOOSE m \in mine : \A n \in mine : m <= n
  BY DEF Oldest
<1>4. \A k \in 1..Len(ring) : ring[k].thread = "main" => ring[k].event.seq \in mine
  BY <1>1
<1>5. \A m \in mine : \E k \in 1..Len(ring) : ring[k].thread = "main" /\ ring[k].event.seq = m
  BY <1>1
<1> HIDE DEF mine
<1>6. CASE mine = {}
  BY <1>3, <1>4, <1>6
<1>7. CASE mine # {}
  <2>1. mine \subseteq Nat
    BY <1>2
  <2>2. \E m \in mine : \A n \in mine : m <= n
    BY <1>7, <2>1, LeastNumber
  <2>3. Oldest \in mine /\ \A n \in mine : Oldest <= n
    BY <1>3, <1>7, <2>2
  <2> QED
    BY <1>2, <1>4, <1>5, <2>3
<1> QED
  BY <1>6, <1>7

\* A page shows every summary it moves the cursor over, or says what is gone.
LEMMA ReplayPage ==
  ASSUME Types, RingTypes, RingSound, PageSound, Replay
  PROVE  RingTypes' /\ RingSound' /\ PageSound'
<1> DEFINE c == page.cursor
           all == Entries(c)
           data == SubSeq(all, 1, IF Len(all) < PageLimit THEN Len(all) ELSE PageLimit)
<1>1. /\ page' = [cursor |-> NextCursor(data, c),
                  seen |-> page.seen \cup {data[i].event : i \in DOMAIN data},
                  gap |-> page.gap \/ HasGap(c)]
      /\ UNCHANGED <<ring, latest, log>>
  BY DEF Replay, serverVars
<1>2. c \in Nat /\ latest["main"] \in Nat /\ c <= latest["main"] /\ PageLimit \in Nat \ {0}
  BY EventDeliveryAssumption DEF RingTypes, PageSound, Threads
<1>3. KeptUpTo(all, c, Len(ring))
  BY <1>2, EntriesHold
<1> HIDE DEF all, c
<1>4. /\ all \in Seq(EntryType) /\ Len(all) \in Nat
      /\ \A p \in 1..Len(all) : all[p].event.seq \in Nat
      /\ \A p, q \in 1..Len(all) : p < q => all[p].event.seq < all[q].event.seq
  <2>1. all \in Seq(EntryType) /\ Len(all) \in Nat
    BY <1>3 DEF KeptUpTo
  <2>2. \A p \in 1..Len(all) : all[p] \in EntryType
    BY <2>1
  <2>3. \A p, q \in 1..Len(all) : p < q => all[p].event.seq < all[q].event.seq
    BY <1>3 DEF KeptUpTo
  <2> QED
    BY <2>1, <2>2, <2>3 DEF EntryType, Events
<1>5. \A p \in 1..Len(all) : \E k \in 1..Len(ring) : ring[k] = all[p] /\ IsAfter(ring[k], c)
  BY <1>3 DEF KeptUpTo
<1>6. \A p \in 1..Len(all) : c < all[p].event.seq /\ all[p].event.seq <= latest["main"]
  <2> TAKE p \in 1..Len(all)
  <2>1. PICK k \in 1..Len(ring) : ring[k] = all[p] /\ IsAfter(ring[k], c)
    BY <1>5
  <2>2. ring[k].event.seq \in 1..latest["main"] /\ c < ring[k].event.seq
    BY <1>2, <1>4, <2>1 DEF RingSound, IsAfter
  <2> QED
    BY <1>2, <2>1, <2>2
<1>7. /\ data \in Seq(EntryType)
      /\ Len(data) = IF Len(all) < PageLimit THEN Len(all) ELSE PageLimit
      /\ \A p \in 1..Len(data) : data[p] = all[p] /\ p \in 1..Len(all)
  BY <1>2, <1>4
<1>8. DOMAIN data = 1..Len(data) /\ Len(data) \in Nat
  BY <1>7
<1> HIDE DEF data
<1>9. /\ NextCursor(data, c) \in Nat /\ c <= NextCursor(data, c) /\ NextCursor(data, c) <= latest["main"]
      /\ \A p \in 1..Len(all) : all[p].event.seq <= NextCursor(data, c) => p \in 1..Len(data)
  <2>1. CASE Len(data) < PageLimit
    <3>1. NextCursor(data, c) = latest["main"] /\ Len(data) = Len(all)
      BY <1>2, <1>7, <2>1 DEF NextCursor
    <3> QED
      BY <1>2, <3>1
  <2>2. CASE ~(Len(data) < PageLimit)
    <3>1. Len(data) = PageLimit /\ PageLimit \in 1..Len(all)
      BY <1>2, <1>4, <1>7, <2>2
    <3>2. NextCursor(data, c) = all[PageLimit].event.seq
      <4>1. Last(data) = data[Len(data)]
        BY DEF Last
      <4>2. Len(data) \in 1..Len(data)
        BY <1>2, <3>1
      <4> QED
        BY <1>7, <2>2, <3>1, <4>1, <4>2 DEF NextCursor
    <3>3. ASSUME NEW p \in 1..Len(all), all[p].event.seq <= all[PageLimit].event.seq
          PROVE  p \in 1..Len(data)
      <4>1. ~(PageLimit < p)
        BY <1>4, <3>1, <3>3
      <4> QED
        BY <1>2, <3>1, <4>1
    <3>4. all[PageLimit].event.seq \in Nat /\ c < all[PageLimit].event.seq
          /\ all[PageLimit].event.seq <= latest["main"]
      BY <1>4, <1>6, <3>1
    <3> QED
      BY <1>2, <3>2, <3>3, <3>4
  <2> QED
    BY <2>1, <2>2
<1>10. /\ page'.cursor = NextCursor(data, c)
       /\ page'.seen = page.seen \cup {data[i].event : i \in DOMAIN data}
       /\ page.gap => page'.gap
       /\ HasGap(c) => page'.gap
  <2>1. page'.gap <=> page.gap \/ HasGap(c)
    BY <1>1
  <2> QED
    BY <1>1, <2>1
<1>11. ASSUME NEW i \in 1..Len(log), IsSummary(log[i]), log[i].seq <= page'.cursor, ~page'.gap
       PROVE  log[i] \in page'.seen
  <2>1. log[i].seq \in Nat /\ log[i].seq <= latest["main"]
    <3>1. log[i] \in Events
      BY DEF Types
    <3> QED
      BY <3>1 DEF Events, RingSound
  <2>2. CASE log[i].seq <= c
    BY <1>10, <1>11, <2>2 DEF PageSound, c
  <2>3. CASE c < log[i].seq
    <3>1. ~HasGap(c) /\ ~page.gap
      BY <1>10, <1>11
    <3>2. Oldest # 0 /\ Oldest <= log[i].seq
      <4>1. Oldest \in Nat
        BY OldestFacts
      <4>2. Oldest # 0
        BY <1>2, <2>1, <2>3, <3>1 DEF HasGap
      <4>3. ~(c + 1 < Oldest)
        BY <3>1, <4>2 DEF HasGap
      <4> QED
        BY <1>2, <2>1, <2>3, <4>1, <4>2, <4>3
    <3>3. PICK o \in 1..Len(ring) : ring[o].thread = "main" /\ ring[o].event.seq = Oldest
      BY <3>2, OldestFacts
    <3>4. ~(log[i].seq < ring[o].event.seq)
      BY <2>1, <3>2, <3>3, OldestFacts
    <3>5. PICK k \in 1..Len(ring) : ring[k].thread = "main" /\ ring[k].event = log[i]
      BY <1>11, <3>3, <3>4 DEF RingSound
    <3>6. IsAfter(ring[k], c)
      BY <1>2, <2>1, <2>3, <3>5 DEF IsAfter
    <3>7. PICK p \in 1..Len(all) : all[p] = ring[k]
      BY <1>3, <3>6 DEF KeptUpTo
    <3>8. p \in 1..Len(data) /\ data[p].event = log[i]
      BY <1>7, <1>9, <1>10, <1>11, <3>5, <3>7
    <3> QED
      BY <1>8, <1>10, <3>8
  <2> QED
    BY <1>2, <2>1, <2>2, <2>3
<1>12. PageSound'
  <2>1. page'.cursor <= latest'["main"]
    BY <1>1, <1>9, <1>10
  <2>2. \A i \in 1..Len(log') :
          IsSummary(log'[i]) /\ log'[i].seq <= page'.cursor => log'[i] \in page'.seen \/ page'.gap
    BY <1>1, <1>11
  <2> QED
    BY <2>1, <2>2 DEF PageSound
<1> QED
  BY <1>1, <1>9, <1>10, <1>12 DEF RingTypes, RingSound

-----------------------------------------------------------------------------
(* The steps. *)

\* An event of the Thread joins the log and, if it is a summary, the ring.
LEMMA SendReplay ==
  ASSUME Types, ReplayInv, gen = 0, process = "ready", NEW e \in Events, latest["main"] < e.seq,
         SendEvent(e), UNCHANGED <<process, page>>,
         e.seq < next'["main"], worker'.phase # "persisting"
  PROVE  ReplayInv'
<1>1. RingTypes /\ RingSound /\ PageSound
  BY DEF ReplayInv
<1>2. ring' \in Seq(EntryType) /\ latest' = [latest EXCEPT !["main"] = e.seq] /\ RingSound'
  BY <1>1, SendRing
<1>3. e.seq \in Nat /\ latest["main"] \in Nat /\ latest \in [Threads -> Nat] /\ "main" \in Threads
  BY <1>1 DEF Events, RingTypes, Threads
<1>4. latest' \in [Threads -> Nat] /\ latest'["main"] = e.seq
  BY <1>2, <1>3
<1>5. /\ \A i \in 1..Len(log) : log'[i] = log[i]
      /\ log'[Len(log) + 1] = e
      /\ \A i \in 1..Len(log') : i \in 1..Len(log) \/ i = Len(log) + 1
  <2>1. log' = Append(log, e)
    BY DEF SendEvent
  <2> QED
    BY <2>1, Appended
<1>6. page.cursor \in Nat /\ page.cursor <= latest["main"]
  BY <1>1 DEF RingTypes, PageSound
<1>7. RingTypes'
  BY <1>2, <1>4, <1>6 DEF RingTypes
<1>8. PageSound'
  <2>1. page.cursor <= latest'["main"] /\ ~(e.seq <= page.cursor)
    BY <1>3, <1>4, <1>6
  <2>2. \A i \in 1..Len(log') : IsSummary(log'[i]) /\ log'[i].seq <= page.cursor
                               => log'[i] \in page.seen \/ page.gap
    BY <1>1, <1>5, <2>1 DEF PageSound
  <2> QED
    BY <2>1, <2>2 DEF PageSound
<1>9. FirstStart' /\ Ahead'
  BY <1>4 DEF FirstStart, Ahead
<1> QED
  BY <1>2, <1>7, <1>8, <1>9 DEF ReplayInv

\* What was observed is behind the number that is given next.
LEMMA Behind ==
  ASSUME Types, ReplayInv, gen = 0
  PROVE  /\ next["main"] \in Nat /\ latest["main"] \in Nat /\ worker.seq \in Nat
         /\ latest["main"] < next["main"]
         /\ worker.phase = "persisting" => latest["main"] < worker.seq
         /\ next \in [Threads -> Nat] /\ "main" \in Threads
  BY WorkerFacts DEF ReplayInv, Ahead, RingTypes, Types, Threads

LEMMA BeginReplay ==
  ASSUME Types, ReplayInv, gen = 0, process = "ready", UNCHANGED <<process, page>>,
         Begin(worker.turn + 1)
  PROVE  ReplayInv'
<1>1. worker.turn + 1 \in Nat /\ next["main"] \in Nat
  BY WorkerFacts
<1> DEFINE e == Event("turn_started", worker.turn + 1, next["main"])
<1>2. e \in Events /\ e.seq = next["main"]
  BY <1>1, EventType DEF Kinds
<1>3. /\ SendEvent(e)
      /\ worker' = [Idle EXCEPT !.turn = worker.turn + 1, !.phase = "running"]
      /\ next' = [next EXCEPT !["main"] = next["main"] + 1]
  BY DEF Begin
<1> HIDE DEF e
<1>4. worker'.phase # "persisting" /\ next'["main"] = next["main"] + 1
  BY <1>3, Behind DEF Idle
<1> QED
  BY <1>1, <1>2, <1>3, <1>4, Behind, SendReplay

LEMMA EmitReplay ==
  ASSUME Types, ReplayInv, gen = 0, NEW kind \in {"delta", "tool"}, Emit(kind)
  PROVE  ReplayInv'
<1>1. worker.turn \in Nat /\ next["main"] \in Nat
  BY WorkerFacts
<1> DEFINE e == Event(kind, worker.turn, next["main"])
<1>2. e \in Events /\ e.seq = next["main"]
  BY <1>1, EventType DEF Kinds
<1>3. /\ SendEvent(e) /\ process = "ready" /\ UNCHANGED <<process, page>>
      /\ worker.phase = "running"
      /\ worker' = [worker EXCEPT !.body = worker.body + 1]
      /\ next' = [next EXCEPT !["main"] = next["main"] + 1]
  BY DEF Emit
<1> HIDE DEF e
<1>4. worker'.phase # "persisting" /\ next'["main"] = next["main"] + 1
  BY <1>3, Behind DEF Types, WorkerStates
<1> QED
  BY <1>1, <1>2, <1>3, <1>4, Behind, SendReplay

LEMMA SettleReplay ==
  ASSUME Types, LogInv, ReplayInv, gen = 0, Settle
  PROVE  ReplayInv'
<1>1. worker.turn \in Nat /\ worker.seq \in Nat
  BY WorkerFacts
<1>2. /\ worker.phase = "persisting" /\ worker.last \in Kinds /\ worker.seq < next["main"]
  BY WorkerFacts DEF Settle, LogInv, Unbroken, Numbered, Kinds
<1> DEFINE e == Event(worker.last, worker.turn, worker.seq)
<1>3. e \in Events /\ e.seq = worker.seq
  BY <1>1, <1>2, EventType
<1>4. /\ SendEvent(e) /\ process = "ready" /\ UNCHANGED <<process, page, next>>
      /\ worker' = [Idle EXCEPT !.turn = worker.turn,
                                !.phase = IF worker.last = "steered" THEN "steering" ELSE "idle"]
  BY DEF Settle
<1> HIDE DEF e
<1>5. worker'.phase # "persisting"
  BY <1>4 DEF Idle
<1> QED
  BY <1>2, <1>3, <1>4, <1>5, Behind, SendReplay

\* The ring, the log and the page stay as they are.
LEMMA SameReplay ==
  ASSUME ReplayInv, UNCHANGED <<gen, ring, latest, log, page>>, gen = 0 => Ahead',
         process' = "starting" => process = "starting" /\ file' = file
  PROVE  ReplayInv'
  BY DEF ReplayInv, RingTypes, FirstStart, RingSound, PageSound

LEMMA FinishReplay ==
  ASSUME Types, ReplayInv, NEW kind, Finish(kind)
  PROVE  ReplayInv'
<1>1. /\ worker' = [worker EXCEPT !.phase = "persisting", !.last = kind, !.seq = next["main"]]
      /\ next' = [next EXCEPT !["main"] = next["main"] + 1]
      /\ process = "ready"
      /\ UNCHANGED <<gen, ring, latest, log, page, process, file>>
  BY DEF Finish
<1>2. ASSUME gen = 0 PROVE Ahead'
  <2>1. worker'.seq = next["main"] /\ next'["main"] = next["main"] + 1
    BY <1>1, <1>2, Behind DEF Types, WorkerStates
  <2> QED
    BY <1>1, <1>2, <2>1, Behind DEF Ahead
<1> QED
  BY <1>1, <1>2, SameReplay

LEMMA SideReplay ==
  ASSUME Types, ReplayInv, SideEvent
  PROVE  ReplayInv'
<1> SUFFICES ASSUME gen = 0 PROVE ReplayInv'
  BY DEF SideEvent, ReplayInv
<1> DEFINE e == Event("tool", 0, next["side"])
<1>1. next["side"] \in Nat /\ next \in [Threads -> Nat]
  BY DEF Types, Threads
<1>2. e \in Events /\ e.kind = "tool"
  BY <1>1, EventType DEF Kinds
<1>3. /\ Keep("side", e) /\ process = "ready"
      /\ next' = [next EXCEPT !["side"] = next["side"] + 1]
      /\ UNCHANGED <<process, gen, worker, log, page>>
  BY DEF SideEvent
<1> HIDE DEF e
<1>4. next'["main"] = next["main"]
  BY <1>1, <1>3 DEF Threads
<1>5. RingTypes /\ RingSound /\ PageSound /\ Ahead
  BY DEF ReplayInv
<1>6. /\ ring' \in Seq(EntryType) /\ latest' \in [Threads -> Nat] /\ latest'["main"] = latest["main"]
      /\ RingSound'
  BY <1>2, <1>3, <1>5, SideRing
<1>7. RingTypes' /\ FirstStart' /\ Ahead' /\ PageSound'
  BY <1>3, <1>4, <1>5, <1>6 DEF RingTypes, FirstStart, Ahead, PageSound
<1> QED
  BY <1>6, <1>7 DEF ReplayInv

LEMMA InitializeReplay ==
  ASSUME Types, ReplayInv, Initialize
  PROVE  ReplayInv'
<1> SUFFICES ASSUME gen = 0 PROVE ReplayInv'
  BY DEF Initialize, ReplayInv
<1>1. /\ process = "starting" /\ process' = "ready" /\ ring' = file
      /\ latest' = [t \in Threads |-> LatestIn(file, t)]
      /\ UNCHANGED <<gen, worker, next, log, page>>
  BY DEF Initialize
<1>2. file = <<>> /\ log = <<>> /\ page.cursor = 0
  BY <1>1 DEF ReplayInv, FirstStart
<1>3. \A t \in Threads : LatestIn(file, t) = 0
  <2>1. DOMAIN file = {}
    BY <1>2
  <2> QED
    BY <2>1 DEF LatestIn
<1>4. latest' \in [Threads -> Nat] /\ latest'["main"] = 0
  BY <1>1, <1>3 DEF Threads
<1>5. ring' = <<>> /\ <<>> \in Seq(EntryType) /\ 1..Len(ring') = {} /\ 1..Len(log') = {}
  BY <1>1, <1>2
<1>6. RingTypes' /\ RingSound' /\ PageSound' /\ FirstStart'
  BY <1>1, <1>2, <1>4, <1>5 DEF RingTypes, RingSound, PageSound, FirstStart
<1>7. Ahead'
  BY <1>1, <1>4, Behind DEF Ahead
<1> QED
  BY <1>6, <1>7 DEF ReplayInv

LEMMA NextReplay ==
  ASSUME Types, LogInv, ReplayInv, [Next]_vars
  PROVE  ReplayInv'
<1>1. CASE UNCHANGED vars
  <2>1. UNCHANGED <<gen, ring, latest, log, page, process, file, next, worker>>
    BY <1>1 DEF vars, serverVars
  <2> QED
    BY <2>1, SameReplay DEF ReplayInv, Ahead
<1>2. CASE StartOther \/ Continue
  <2>1. /\ process = "ready" /\ Begin(worker.turn + 1) /\ UNCHANGED <<process, page, gen>>
    BY <1>2 DEF StartOther, Continue
  <2> QED
    BY <2>1, BeginReplay DEF ReplayInv
<1>3. CASE Settle
  BY <1>3, SettleReplay DEF Settle, ReplayInv
<1>4. CASE \E kind \in {"delta", "tool"} : Emit(kind)
  BY <1>4, EmitReplay DEF Emit, ReplayInv
<1>5. CASE \E s \in Streams : Submit(s)
  <2>1. PICK s \in Streams : Submit(s)
    BY <1>5
  <2>2. /\ process = "ready" /\ UNCHANGED <<process, page, gen>>
        /\ Begin(worker.turn + 1) \/ UNCHANGED <<serverVars, used>>
    BY <2>1 DEF Submit
  <2>3. CASE Begin(worker.turn + 1)
    BY <2>2, <2>3, BeginReplay DEF ReplayInv
  <2>4. CASE UNCHANGED serverVars
    BY <2>2, <2>4, SameReplay DEF serverVars, ReplayInv, Ahead
  <2> QED
    BY <2>2, <2>3, <2>4
<1>6. CASE Quiets
  <2>1. CASE \E kind \in {"turn_finished", "steered"} : Finish(kind)
    BY <2>1, FinishReplay
  <2>2. CASE SideEvent
    BY <2>2, SideReplay
  <2>3. CASE Replay
    <3>1. process = "ready" /\ UNCHANGED <<gen, process, worker, next>> /\ UNCHANGED latest
      BY <2>3 DEF Replay, serverVars
    <3>2. ASSUME gen = 0 PROVE ReplayInv'
      <4>1. RingTypes' /\ RingSound' /\ PageSound'
        BY <2>3, <3>2, ReplayPage DEF ReplayInv
      <4> QED
        BY <3>1, <3>2, <4>1 DEF ReplayInv, FirstStart, Ahead
    <3> QED
      BY <3>1, <3>2 DEF ReplayInv
  <2>4. CASE Initialize
    BY <2>4, InitializeReplay
  <2>5. CASE InitializeFails
    BY <2>5, SameReplay DEF InitializeFails, serverVars, ReplayInv, Ahead
  <2> QED
    BY <1>6, <2>1, <2>2, <2>3, <2>4, <2>5 DEF Quiets
<1>7. CASE Crash \/ Stop
  <2>1. /\ UNCHANGED <<gen, ring, latest, log, page, next>> /\ process' = "down"
        /\ worker' = [Idle EXCEPT !.turn = worker.turn]
    BY <1>7 DEF Crash, Stop
  <2>2. worker'.phase # "persisting"
    BY <2>1 DEF Idle
  <2> QED
    BY <2>1, <2>2, SameReplay DEF ReplayInv, Ahead
<1>8. CASE Spawn
  BY <1>8 DEF Spawn, ReplayInv, Types
<1>9. CASE \/ Relay \/ ReadReply \/ ReadEvent \/ ReadEof
           \/ \E s \in Streams : StreamStart(s) \/ StreamTimeout(s) \/ StreamTake(s)
  <2>1. UNCHANGED <<gen, ring, latest, log, page, process, file, next, worker>>
    BY <1>9 DEF Relay, ReadReply, ReadEvent, ReadEof, StreamStart, StreamTimeout, StreamTake, serverVars
  <2> QED
    BY <2>1, SameReplay DEF ReplayInv, Ahead
<1> QED
  BY <1>1, <1>2, <1>3, <1>4, <1>5, <1>6, <1>7, <1>8, <1>9, Steps DEF Sends

LEMMA InitReplay == Init => ReplayInv
<1> SUFFICES ASSUME Init PROVE ReplayInv
  OBVIOUS
<1>1. /\ ring = <<>> /\ log = <<>> /\ file = <<>> /\ page.cursor = 0
      /\ <<>> \in Seq(EntryType) /\ 1..Len(ring) = {} /\ 1..Len(log) = {}
      /\ latest = [t \in Threads |-> 0] /\ next = [t \in Threads |-> 1]
      /\ worker.phase # "persisting"
  BY DEF Init, NoPage, Idle
<1>2. latest["main"] = 0 /\ next["main"] = 1 /\ latest \in [Threads -> Nat]
  BY <1>1 DEF Threads
<1> QED
  BY <1>1, <1>2 DEF ReplayInv, RingTypes, FirstStart, Ahead, RingSound, PageSound

(***************************************************************************)
(* What turn/events has moved its cursor past was shown, or the client was *)
(* told of a gap, for any ring, page size and events of other Threads in   *)
(* the first process of a Session (replay_events, handle_turn_events).     *)
(***************************************************************************)
THEOREM PagesMissNothing == Spec => []ReplayComplete
<1>1. Inv /\ ReplayInv => ReplayComplete
  <2> SUFFICES ASSUME Inv, ReplayInv, gen = 0, NEW i \in DOMAIN log, IsSummary(log[i]),
                      log[i].seq <= page.cursor
               PROVE  log[i] \in page.seen \/ page.gap
    BY DEF ReplayComplete
  <2>1. DOMAIN log = 1..Len(log)
    BY DEF Inv, Types
  <2> QED
    BY <2>1 DEF ReplayInv, PageSound
<1>2. Inv /\ ReplayInv /\ [Next]_vars => ReplayInv'
  BY NextReplay DEF Inv
<1> QED
  BY <1>1, <1>2, InitReplay, InvHolds, PTL DEF Spec

=============================================================================
