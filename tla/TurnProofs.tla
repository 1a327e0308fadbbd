----------------------------- MODULE TurnProofs -----------------------------
(***************************************************************************)
(* Theorems about what a Turn uses: one request to the model, for every    *)
(* limit, every table of retry delays and every answer of the provider; the *)
(* images it carries; and the tools it calls, for every table of files,     *)
(* patches and tasks.                                                       *)
(***************************************************************************)
EXTENDS ModelProvider, ImageStore, WorkspaceTools, SequenceTheorems, FiniteSetTheorems,
        WellFoundedInduction, TLAPS

-----------------------------------------------------------------------------
(* One model request. *)

\* What the accumulator had retained grows by the size of every delta, so the
\* deltas of the buffer fit into the limit together.
BufferFits ==
  /\ acc.bytes <= MaxBytes
  /\ \A i \in 1..Len(buffer) : buffer[i].size <= buffer[i].at /\ buffer[i].at <= acc.bytes
  /\ \A i \in 1..Len(buffer) : i > 1 => buffer[i - 1].at + buffer[i].size <= buffer[i].at

\* The forwarder has counted no more than the accumulator had retained at the
\* delta it took last.
ForwarderBehind ==
  /\ forwarder.taken <= Len(buffer)
  /\ forwarder.taken = 0 => forwarder.bytes = 0
  /\ forwarder.taken # 0 => forwarder.bytes <= buffer[forwarder.taken].at

\* Events are taken only from the attempt that completed.
TakenWhenComplete ==
  /\ pc \notin {"emitting", "done"} => forwarder.taken = 0
  /\ pc # "done" => result = "none"
  /\ result = "response" => forwarder.taken = Len(buffer)
  /\ result \notin {"none", "response"} => forwarder.taken = 0

\* A sleep is begun only if it ends within the window, before another attempt.
SleepFits ==
  /\ pc = "waiting" => attempt < MaxAttempts /\ elapsed + RetryDelay(attempt) <= Window
  /\ received \subseteq 1..attempt

Shown ==
  /\ Len(buffer) = Len(acc.reasoning) + Len(acc.text)
  /\ shown = SubSeq(buffer, 1, forwarder.taken)

\* Deltas are numbered as they arrive.  A message item is taken only while no
\* text was streamed, so what it carries is new.
InOrder ==
  /\ \A i \in 1..Len(buffer) : buffer[i].id <= made
  /\ \A i, j \in 1..Len(buffer) : i < j => buffer[i].id < buffer[j].id
  /\ item # <<>> => acc.text # <<>>

RequestInv ==
  /\ TypeOK /\ BufferFits /\ ForwarderBehind /\ TakenWhenComplete /\ SleepFits
  /\ Shown /\ InOrder

-----------------------------------------------------------------------------

Accumulators == [reasoning : Seq(Pieces), text : Seq(Pieces), calls : Nat, bytes : Nat]

\* What a piece makes of the accumulator.
LEMMA ReasoningAccumulated ==
  ASSUME NEW a \in Accumulators, NEW p \in Pieces, NEW n \in Nat
  PROVE  LET b == [a EXCEPT !.reasoning = Append(@, p), !.bytes = @ + n]
         IN /\ b \in Accumulators /\ b.bytes = a.bytes + n /\ b.text = a.text
            /\ Len(b.reasoning) = Len(a.reasoning) + 1
<1> DEFINE b == [a EXCEPT !.reasoning = Append(@, p), !.bytes = @ + n]
<1>1. a.reasoning \in Seq(Pieces) /\ a.bytes + n \in Nat
  BY DEF Accumulators
<1>2. /\ Append(a.reasoning, p) \in Seq(Pieces)
      /\ Len(Append(a.reasoning, p)) = Len(a.reasoning) + 1
  BY <1>1
<1>3. b \in Accumulators /\ b.bytes = a.bytes + n
  BY <1>1, <1>2 DEF Accumulators
<1>4. b.text = a.text /\ b.reasoning = Append(a.reasoning, p)
  BY DEF Accumulators
<1> HIDE DEF b
<1>5. b \in Accumulators /\ b.bytes = a.bytes + n /\ b.text = a.text
      /\ Len(b.reasoning) = Len(a.reasoning) + 1
  BY <1>2, <1>3, <1>4
<1> QED
  BY <1>5 DEF b

LEMMA TextAccumulated ==
  ASSUME NEW a \in Accumulators, NEW p \in Pieces, NEW n \in Nat
  PROVE  LET b == [a EXCEPT !.text = Append(@, p), !.bytes = @ + n]
         IN /\ b \in Accumulators /\ b.bytes = a.bytes + n /\ b.reasoning = a.reasoning
            /\ Len(b.text) = Len(a.text) + 1
<1> DEFINE b == [a EXCEPT !.text = Append(@, p), !.bytes = @ + n]
<1>1. a.text \in Seq(Pieces) /\ a.bytes + n \in Nat
  BY DEF Accumulators
<1>2. /\ Append(a.text, p) \in Seq(Pieces)
      /\ Len(Append(a.text, p)) = Len(a.text) + 1
  BY <1>1
<1>3. b \in Accumulators /\ b.bytes = a.bytes + n
  BY <1>1, <1>2 DEF Accumulators
<1>4. b.reasoning = a.reasoning /\ b.text = Append(a.text, p)
  BY DEF Accumulators
<1> HIDE DEF b
<1>5. b \in Accumulators /\ b.bytes = a.bytes + n /\ b.reasoning = a.reasoning
      /\ Len(b.text) = Len(a.text) + 1
  BY <1>2, <1>3, <1>4
<1> QED
  BY <1>5 DEF b

LEMMA CallAccumulated ==
  ASSUME NEW a \in Accumulators, NEW n \in Nat
  PROVE  LET b == [a EXCEPT !.calls = @ + 1, !.bytes = @ + n]
         IN /\ b \in Accumulators /\ b.bytes = a.bytes + n
            /\ b.reasoning = a.reasoning /\ b.text = a.text
<1>1. a.calls + 1 \in Nat /\ a.bytes + n \in Nat
  BY DEF Accumulators
<1> QED
  BY <1>1 DEF Accumulators

LEMMA RetryDelayType ==
  ASSUME TypeOK, attempt < MaxAttempts
  PROVE  RetryDelay(attempt) \in Nat
  BY ProviderAssumption DEF RetryDelay, TypeOK

\* An error ends the attempt, for another one only if that fits.
LEMMA FailKeeps ==
  ASSUME RequestInv, NEW error \in Errors, Fail(error), pc \in {"sending", "reading"},
         received' \subseteq 1..attempt
  PROVE  RequestInv'
<1>1. PICK d \in Durations : elapsed' = elapsed + d /\ elapsed' \in Nat
  BY ProviderAssumption DEF Fail, RequestInv, TypeOK
<1>2. UNCHANGED <<attempt, connects, acc, buffer, item, made, shown, forwarder>>
  BY DEF Fail, stream, output
<1>3. \/ /\ pc' = "waiting" /\ result' = "none"
         /\ attempt < MaxAttempts /\ elapsed' + RetryDelay(attempt) <= Window
      \/ pc' = "done" /\ result' = error
  BY DEF Fail, Retries
<1>4. forwarder.taken = 0
  BY DEF RequestInv, TakenWhenComplete
<1>5. error \notin {"none", "response"} /\ error \in Results
  BY DEF Errors, ApiErrors, Results
<1>a. pc' \in Pcs /\ result' \in Results
  BY <1>3, <1>5 DEF Pcs, Results
<1>6. TypeOK'
  <2>1. received' \subseteq 1..MaxAttempts
    BY ProviderAssumption DEF RequestInv, TypeOK
  <2> QED
    BY <1>1, <1>2, <1>a, <2>1 DEF RequestInv, TypeOK
<1>7. (BufferFits /\ ForwarderBehind /\ Shown /\ InOrder)'
  BY <1>2 DEF RequestInv, BufferFits, ForwarderBehind, Shown, InOrder
<1>8. TakenWhenComplete'
  BY <1>2, <1>3, <1>4, <1>5 DEF TakenWhenComplete
<1>9. SleepFits'
  BY <1>1, <1>2, <1>3 DEF SleepFits, RetryDelay
<1> QED
  BY <1>6, <1>7, <1>8, <1>9 DEF RequestInv

LEMMA WakeKeeps ==
  ASSUME RequestInv, Wake
  PROVE  RequestInv'
<1>1. attempt < MaxAttempts /\ attempt \in 1..MaxAttempts /\ RetryDelay(attempt) \in Nat
  BY RetryDelayType DEF Wake, RequestInv, SleepFits, TypeOK
<1>2. attempt' \in 1..MaxAttempts /\ elapsed' \in Nat /\ received \subseteq 1..attempt'
  <2>1. /\ attempt' = attempt + 1 /\ elapsed' = elapsed + RetryDelay(attempt)
        /\ received' = received
    BY DEF Wake
  <2>2. elapsed \in Nat /\ received \subseteq 1..attempt /\ MaxAttempts \in Nat
    BY ProviderAssumption DEF RequestInv, SleepFits, TypeOK
  <2>3. attempt' \in 1..MaxAttempts /\ elapsed' \in Nat
    BY <1>1, <2>1, <2>2
  <2>4. 1..attempt \subseteq 1..attempt'
    BY <1>1, <2>1
  <2> QED BY <2>2, <2>3, <2>4
<1>3. acc' \in Accumulators /\ acc'.bytes = 0 /\ Len(acc'.reasoning) = 0 /\ Len(acc'.text) = 0
  BY DEF Wake, EmptyAccumulator, Accumulators
<1>4. forwarder.taken = 0 /\ result = "none"
  BY DEF Wake, RequestInv, TakenWhenComplete
<1>5. TypeOK'
  BY <1>2, <1>3, ProviderAssumption DEF Wake, RequestInv, TypeOK, Accumulators, Pcs, output
<1>6. (BufferFits /\ ForwarderBehind)'
  BY <1>3, <1>4, ProviderAssumption DEF Wake, RequestInv, BufferFits, ForwarderBehind, output
<1>7. (TakenWhenComplete /\ SleepFits)'
  BY <1>2, <1>4 DEF Wake, TakenWhenComplete, SleepFits, output
<1>8. shown' = <<>>
  BY <1>4 DEF Wake, RequestInv, TypeOK, Shown, output
<1>9. Shown'
  BY <1>3, <1>4, <1>8 DEF Wake, Shown, output
<1>10. InOrder'
  BY DEF Wake, InOrder
<1> QED
  BY <1>5, <1>6, <1>7, <1>9, <1>10 DEF RequestInv

\* A step that leaves the stream and the output alone.
LEMMA ControlKeeps ==
  ASSUME RequestInv, UNCHANGED <<attempt, elapsed, acc, buffer, item, made, shown, forwarder>>,
         connects' \in 0..ConnectRetries, received' \subseteq 1..attempt,
         \/ UNCHANGED <<pc, result>>
         \/ pc' \in {"reading", "emitting"} /\ pc \in {"sending", "reading"} /\ UNCHANGED result
         \/ pc' = "done" /\ result' = "cancelled" /\ pc \notin {"emitting", "done"}
         \/ pc' = "done" /\ result' = "response" /\ forwarder.taken = Len(buffer)
  PROVE  RequestInv'
<1>a. pc' \in Pcs /\ result' \in Results
  BY DEF RequestInv, TypeOK, Pcs, Results
<1>b. received' \subseteq 1..MaxAttempts
  BY ProviderAssumption DEF RequestInv, TypeOK
<1>1. TypeOK'
  BY <1>a, <1>b DEF RequestInv, TypeOK
<1>2. (BufferFits /\ ForwarderBehind /\ Shown /\ InOrder)'
  BY DEF RequestInv, BufferFits, ForwarderBehind, Shown, InOrder
<1>3. TakenWhenComplete'
  BY DEF RequestInv, TakenWhenComplete
<1>4. SleepFits'
  BY DEF RequestInv, SleepFits, RetryDelay
<1> QED
  BY <1>1, <1>2, <1>3, <1>4 DEF RequestInv

\* A delta is retained: it joins the accumulator and the buffer.
LEMMA DeltaKeeps ==
  ASSUME RequestInv, pc = "reading", NEW delta \in Deltas,
         acc.bytes + delta.size <= MaxBytes, delta.at = acc.bytes + delta.size,
         acc' \in Accumulators, acc'.bytes = delta.at,
         Len(acc'.reasoning) + Len(acc'.text) = Len(acc.reasoning) + Len(acc.text) + 1,
         buffer' = Append(buffer, delta), item' \in Seq(Pieces),
         delta.id = made + 1, made' = made + 1, item' # <<>> => acc'.text # <<>>,
         UNCHANGED <<pc, attempt, connects, elapsed, shown, forwarder, result, received>>
  PROVE  RequestInv'
<1>0. /\ forwarder.taken = 0 /\ forwarder.bytes = 0 /\ result = "none" /\ acc.bytes \in Nat
      /\ delta.size \in Nat /\ Len(buffer) \in Nat /\ buffer \in Seq(Deltas) /\ shown = <<>>
  BY SubSeqEmpty DEF RequestInv, TypeOK, ForwarderBehind, TakenWhenComplete, Shown, Deltas
<1>1. /\ buffer' \in Seq(Deltas) /\ Len(buffer') = Len(buffer) + 1
      /\ \A i \in 1..Len(buffer) : buffer'[i] = buffer[i]
      /\ buffer'[Len(buffer) + 1] = delta
  BY <1>0
<1>2. TypeOK'
  <2>1. made' \in Nat
    BY DEF RequestInv, TypeOK
  <2> QED
    BY <1>1, <2>1 DEF RequestInv, TypeOK, Accumulators
<1>3. acc'.bytes <= MaxBytes /\ acc.bytes <= acc'.bytes
  BY <1>0
<1>4. ASSUME NEW i \in 1..Len(buffer')
      PROVE  buffer'[i].size <= buffer'[i].at /\ buffer'[i].at <= acc'.bytes
  <2>1. CASE i = Len(buffer) + 1
    BY <1>0, <1>1, <2>1
  <2>2. CASE i \in 1..Len(buffer)
    <3>1. buffer'[i] = buffer[i] /\ buffer[i] \in Deltas
      BY <1>0, <1>1, <2>2
    <3>2. buffer[i].at \in Nat /\ buffer[i].at <= acc.bytes /\ buffer[i].size <= buffer[i].at
      BY <2>2, <3>1 DEF RequestInv, BufferFits, Deltas
    <3>3. acc.bytes \in Nat /\ acc'.bytes \in Nat /\ acc.bytes <= acc'.bytes
      BY <1>0, <1>3
    <3>4. buffer[i].at <= acc'.bytes
      BY <3>2, <3>3
    <3> QED
      BY <3>1, <3>2, <3>4
  <2> QED
    BY <1>0, <1>1, <2>1, <2>2
<1>5. ASSUME NEW i \in 1..Len(buffer'), i > 1
      PROVE  buffer'[i - 1].at + buffer'[i].size <= buffer'[i].at
  <2>1. CASE i = Len(buffer) + 1
    <3>1. i - 1 \in 1..Len(buffer) /\ buffer'[i - 1] = buffer[i - 1] /\ buffer[i - 1] \in Deltas
      BY <1>0, <1>1, <1>5, <2>1
    <3>2. buffer[i - 1].at \in Nat /\ buffer[i - 1].at <= acc.bytes
      BY <3>1 DEF RequestInv, BufferFits, Deltas
    <3> QED
      BY <1>0, <1>1, <2>1, <3>1, <3>2
  <2>2. CASE i \in 1..Len(buffer)
    <3>1. i - 1 \in 1..Len(buffer) /\ buffer'[i - 1] = buffer[i - 1] /\ buffer'[i] = buffer[i]
      BY <1>0, <1>1, <1>5, <2>2
    <3>2. buffer[i - 1].at + buffer[i].size <= buffer[i].at
      BY <1>5, <2>2 DEF RequestInv, BufferFits
    <3> QED
      BY <3>1, <3>2
  <2>3. i = Len(buffer) + 1 \/ i \in 1..Len(buffer)
    BY <1>0, <1>1
  <2> QED
    BY <2>1, <2>2, <2>3
<1>6. BufferFits'
  BY <1>3, <1>4, <1>5 DEF BufferFits
<1>7. (ForwarderBehind /\ TakenWhenComplete)'
  BY <1>0, <1>1 DEF ForwarderBehind, TakenWhenComplete
<1>8. SleepFits'
  BY DEF RequestInv, SleepFits, RetryDelay
<1>9. Shown'
  <2>1. SubSeq(buffer', 1, 0) = <<>>
    BY SubSeqEmpty, 0 < 1, 0 \in Int, 1 \in Int
  <2>2. Len(buffer') = Len(acc'.reasoning) + Len(acc'.text)
    BY <1>1 DEF RequestInv, Shown
  <2> QED
    BY <1>0, <2>1, <2>2 DEF Shown
<1>10. InOrder'
  <2>1. made \in Nat /\ \A i \in 1..Len(buffer) : buffer[i].id \in Nat /\ buffer[i].id <= made
    <3>1. \A i \in 1..Len(buffer) : buffer[i] \in Deltas
      BY <1>0
    <3> QED
      BY <3>1 DEF RequestInv, TypeOK, InOrder, Deltas
  <2>2. ASSUME NEW i \in 1..Len(buffer') PROVE buffer'[i].id <= made'
    BY <1>0, <1>1, <2>1
  <2>3. ASSUME NEW i \in 1..Len(buffer'), NEW j \in 1..Len(buffer'), i < j
        PROVE  buffer'[i].id < buffer'[j].id
    <3>1. i \in 1..Len(buffer) /\ buffer'[i] = buffer[i]
      BY <1>0, <1>1, <2>3
    <3>2. CASE j = Len(buffer) + 1
      BY <1>0, <1>1, <2>1, <3>1, <3>2
    <3>3. CASE j \in 1..Len(buffer)
      BY <1>1, <2>3, <3>1, <3>3 DEF RequestInv, InOrder
    <3> QED
      BY <1>0, <1>1, <3>2, <3>3
  <2> QED
    BY <2>2, <2>3 DEF InOrder
<1> QED
  BY <1>2, <1>6, <1>7, <1>8, <1>9, <1>10 DEF RequestInv

LEMMA ReadReasoningKeeps ==
  ASSUME RequestInv, NEW size \in Sizes, ReadReasoning(size)
  PROVE  RequestInv'
<1>1. CASE TooLarge(size)
  BY <1>1, FailKeeps DEF ReadReasoning, TooLarge, RequestInv, SleepFits, Errors
<1>2. CASE ~TooLarge(size)
  <2> DEFINE delta == Delta("reasoning", made + 1, size, acc.bytes + size)
             piece == Piece(made + 1, size)
  <2>1. size \in Nat /\ acc \in Accumulators /\ made + 1 \in Nat
    BY ProviderAssumption DEF RequestInv, TypeOK, Accumulators
  <2>2. /\ piece \in Pieces /\ delta \in Deltas
        /\ delta.id = made + 1 /\ delta.size = size /\ delta.at = acc.bytes + size
    BY <2>1 DEF Piece, Pieces, Delta, Deltas, Accumulators
  <2>a. acc' = [acc EXCEPT !.reasoning = Append(@, piece), !.bytes = @ + size]
    BY <1>2 DEF ReadReasoning
  <2>3. /\ Retains(size) /\ buffer' = Append(buffer, delta) /\ made' = made + 1
        /\ UNCHANGED <<pc, attempt, connects, elapsed, item, shown, forwarder, result, received>>
    BY <1>2 DEF ReadReasoning, output
  <2> HIDE DEF piece, delta
  <2>4. /\ acc' \in Accumulators /\ acc'.bytes = acc.bytes + size
        /\ Len(acc'.reasoning) = Len(acc.reasoning) + 1 /\ acc'.text = acc.text
    BY <2>1, <2>2, <2>a, ReasoningAccumulated, Zenon
  <2>5. Len(acc'.reasoning) + Len(acc'.text) = Len(acc.reasoning) + Len(acc.text) + 1
    BY <2>1, <2>4 DEF Accumulators
  <2>6. /\ item' \in Seq(Pieces) /\ pc = "reading"
        /\ item' # <<>> => acc'.text # <<>>
    BY <2>3, <2>4 DEF ReadReasoning, RequestInv, TypeOK, InOrder
  <2>7. /\ acc.bytes + delta.size <= MaxBytes /\ delta.at = acc.bytes + delta.size
        /\ acc'.bytes = delta.at
    BY <2>2, <2>3, <2>4 DEF Retains
  <2> QED
    BY <2>2, <2>3, <2>4, <2>5, <2>6, <2>7, DeltaKeeps
<1> QED
  BY <1>1, <1>2

LEMMA ReadTextKeeps ==
  ASSUME RequestInv, NEW size \in Sizes, ReadText(size)
  PROVE  RequestInv'
<1>1. CASE TooLarge(size)
  BY <1>1, FailKeeps DEF ReadText, TooLarge, RequestInv, SleepFits, Errors
<1>2. CASE ~TooLarge(size)
  <2> DEFINE delta == Delta("text", made + 1, size, acc.bytes + size)
             piece == Piece(made + 1, size)
  <2>1. size \in Nat /\ acc \in Accumulators /\ made + 1 \in Nat
    BY ProviderAssumption DEF RequestInv, TypeOK, Accumulators
  <2>2. /\ piece \in Pieces /\ delta \in Deltas
        /\ delta.id = made + 1 /\ delta.size = size /\ delta.at = acc.bytes + size
    BY <2>1 DEF Piece, Pieces, Delta, Deltas, Accumulators
  <2>a. acc' = [acc EXCEPT !.text = Append(@, piece), !.bytes = @ + size]
    BY <1>2 DEF ReadText
  <2>3. /\ Retains(size) /\ buffer' = Append(buffer, delta) /\ made' = made + 1
        /\ item' = Append(item, piece)
        /\ UNCHANGED <<pc, attempt, connects, elapsed, shown, forwarder, result, received>>
    BY <1>2 DEF ReadText, output
  <2> HIDE DEF piece, delta
  <2>4. /\ acc' \in Accumulators /\ acc'.bytes = acc.bytes + size
        /\ Len(acc'.text) = Len(acc.text) + 1 /\ acc'.reasoning = acc.reasoning
    BY <2>1, <2>2, <2>a, TextAccumulated, Zenon
  <2>5. Len(acc'.reasoning) + Len(acc'.text) = Len(acc.reasoning) + Len(acc.text) + 1
    BY <2>1, <2>4 DEF Accumulators
  <2>6. /\ item' \in Seq(Pieces) /\ pc = "reading"
        /\ item' # <<>> => acc'.text # <<>>
    <3>1. acc'.text # <<>>
      BY <2>1, <2>4 DEF Accumulators
    <3> QED
      BY <2>2, <2>3, <3>1 DEF ReadText, RequestInv, TypeOK
  <2>7. /\ acc.bytes + delta.size <= MaxBytes /\ delta.at = acc.bytes + delta.size
        /\ acc'.bytes = delta.at
    BY <2>2, <2>3, <2>4 DEF Retains
  <2> QED
    BY <2>2, <2>3, <2>4, <2>5, <2>6, <2>7, DeltaKeeps
<1> QED
  BY <1>1, <1>2

\* A step that retains bytes or goes on with the stream and keeps no delta.
LEMMA QuietKeeps ==
  ASSUME RequestInv, pc = "reading", acc' \in Accumulators, acc.bytes <= acc'.bytes, acc'.bytes <= MaxBytes,
         acc'.reasoning = acc.reasoning, acc'.text = acc.text,
         item' \in Seq(Pieces), item' # <<>> => item # <<>>, made' \in Nat, made <= made',
         UNCHANGED <<pc, attempt, connects, elapsed, buffer, shown, forwarder, result, received>>
  PROVE  RequestInv'
<1>1. TypeOK'
  BY DEF RequestInv, TypeOK, Accumulators
<1>2. BufferFits'
  <2>1. ASSUME NEW i \in 1..Len(buffer)
        PROVE  buffer[i].at <= acc'.bytes
    <3>1. buffer[i] \in Deltas /\ buffer[i].at <= acc.bytes
      BY DEF RequestInv, TypeOK, BufferFits
    <3>2. buffer[i].at \in Nat /\ acc.bytes \in Nat /\ acc'.bytes \in Nat
      BY <3>1 DEF RequestInv, TypeOK, Deltas, Accumulators
    <3> QED
      BY <3>1, <3>2
  <2> QED
    BY <2>1 DEF RequestInv, BufferFits
<1>3. (ForwarderBehind /\ TakenWhenComplete /\ SleepFits /\ Shown)'
  BY DEF RequestInv, ForwarderBehind, TakenWhenComplete, SleepFits, RetryDelay, Shown
<1>4. InOrder'
  <2>1. ASSUME NEW i \in 1..Len(buffer) PROVE buffer[i].id <= made'
    <3>1. buffer[i] \in Deltas /\ buffer[i].id <= made /\ made \in Nat
      BY DEF RequestInv, TypeOK, InOrder
    <3> QED
      BY <3>1 DEF Deltas
  <2> QED
    BY <2>1 DEF RequestInv, InOrder
<1> QED
  BY <1>1, <1>2, <1>3, <1>4 DEF RequestInv

LEMMA ReadMessageKeeps ==
  ASSUME RequestInv, NEW size \in Sizes, ReadMessage(size)
  PROVE  RequestInv'
<1>1. CASE TooLarge(size)
  BY <1>1, FailKeeps DEF ReadMessage, TooLarge, RequestInv, SleepFits, Errors
<1>2. CASE ~TooLarge(size) /\ TakesMessage
  <2> DEFINE piece == Piece(made + 1, size)
             delta == Delta("text", made + 1, size, acc.bytes + size)
  <2>1. size \in Nat /\ acc \in Accumulators /\ made + 1 \in Nat
    BY ProviderAssumption DEF RequestInv, TypeOK, Accumulators
  <2>2. /\ piece \in Pieces /\ piece.id = made + 1 /\ delta \in Deltas
        /\ delta.id = made + 1 /\ delta.size = size /\ delta.at = acc.bytes + size
    BY <2>1 DEF Piece, Pieces, Delta, Deltas, Accumulators
  <2>a. item = <<>>
    BY <1>2 DEF RequestInv, InOrder, TakesMessage
  <2>b. acc' = [acc EXCEPT !.text = Append(@, piece), !.bytes = @ + size]
    BY <1>2, <2>a DEF ReadMessage
  <2>3. /\ Retains(size) /\ buffer' = Append(buffer, delta) /\ made' = made + 1 /\ item' = <<>>
        /\ UNCHANGED <<pc, attempt, connects, elapsed, shown, forwarder, result, received>>
    BY <1>2, <2>2, <2>a DEF ReadMessage, output
  <2> HIDE DEF piece, delta
  <2>4. /\ acc' \in Accumulators /\ acc'.bytes = acc.bytes + size
        /\ Len(acc'.text) = Len(acc.text) + 1 /\ acc'.reasoning = acc.reasoning
    BY <2>1, <2>2, <2>b, TextAccumulated, Zenon
  <2>5. Len(acc'.reasoning) + Len(acc'.text) = Len(acc.reasoning) + Len(acc.text) + 1
    BY <2>1, <2>4 DEF Accumulators
  <2>6. item' \in Seq(Pieces) /\ pc = "reading"
    BY <2>3 DEF ReadMessage
  <2>7. /\ acc.bytes + delta.size <= MaxBytes /\ delta.at = acc.bytes + delta.size
        /\ acc'.bytes = delta.at
    BY <2>2, <2>3, <2>4 DEF Retains
  <2> QED
    BY <2>2, <2>3, <2>4, <2>5, <2>6, <2>7, DeltaKeeps
<1>3. CASE ~TooLarge(size) /\ ~TakesMessage
  <2>1. /\ UNCHANGED <<acc, pc, attempt, connects, elapsed, buffer, shown, forwarder, result, received>>
        /\ pc = "reading" /\ item' = <<>> /\ made' = (IF item = <<>> THEN made + 1 ELSE made)
    BY <1>3 DEF ReadMessage, output
  <2>2. /\ item' \in Seq(Pieces) /\ made' \in Nat /\ made <= made' /\ acc' \in Accumulators
        /\ acc.bytes <= acc'.bytes /\ acc'.bytes <= MaxBytes
    BY <2>1 DEF RequestInv, TypeOK, BufferFits, Accumulators
  <2> QED
    BY <2>1, <2>2, QuietKeeps
<1> QED
  BY <1>1, <1>2, <1>3

LEMMA ReadCallKeeps ==
  ASSUME RequestInv, NEW size \in Sizes, ReadCall(size)
  PROVE  RequestInv'
<1>1. CASE TooLarge(size)
  BY <1>1, FailKeeps DEF ReadCall, TooLarge, RequestInv, SleepFits, Errors
<1>2. CASE ~TooLarge(size)
  <2>1. /\ size \in Nat /\ acc \in Accumulators /\ MaxBytes \in Nat
        /\ made \in Nat /\ made + 1 \in Nat /\ made <= made + 1
    BY ProviderAssumption DEF RequestInv, TypeOK, Accumulators
  <2>2. /\ acc' = [acc EXCEPT !.calls = @ + 1, !.bytes = @ + size] /\ Retains(size)
        /\ made' = made + 1 /\ pc = "reading"
        /\ UNCHANGED <<pc, attempt, connects, elapsed, buffer, item, shown, forwarder, result, received>>
    BY <1>2 DEF ReadCall, output
  <2>3. /\ acc' \in Accumulators /\ acc'.bytes = acc.bytes + size
        /\ acc'.reasoning = acc.reasoning /\ acc'.text = acc.text
    BY <2>1, <2>2, CallAccumulated, Zenon
  <2>4. /\ acc.bytes <= acc'.bytes /\ acc'.bytes <= MaxBytes
        /\ item' \in Seq(Pieces) /\ made' \in Nat /\ made <= made'
    BY <2>1, <2>2, <2>3 DEF Retains, RequestInv, TypeOK, Accumulators
  <2> QED
    BY <2>2, <2>3, <2>4, QuietKeeps
<1> QED
  BY <1>1, <1>2

\* The forwarder shows every delta: its count stays behind the accumulator's.
LEMMA EmitKeeps ==
  ASSUME RequestInv, Emit
  PROVE  RequestInv'
<1> DEFINE n == forwarder.taken + 1
           delta == buffer[n]
<1>1. /\ forwarder.taken \in Nat /\ forwarder.bytes \in Nat /\ buffer \in Seq(Deltas)
      /\ Len(buffer) \in Nat /\ n \in 1..Len(buffer) /\ MaxBytes \in Nat
  BY ProviderAssumption DEF Emit, RequestInv, TypeOK
<1>2. /\ delta \in Deltas /\ delta.size \in Nat /\ delta.at \in Nat
      /\ delta.size <= delta.at /\ delta.at <= acc.bytes /\ acc.bytes <= MaxBytes /\ acc.bytes \in Nat
  <2>1. delta \in Deltas
    BY <1>1
  <2>2. delta.size \in Nat /\ delta.at \in Nat
    BY <2>1 DEF Deltas
  <2>3. delta.size <= delta.at /\ delta.at <= acc.bytes
    BY <1>1 DEF RequestInv, BufferFits
  <2>4. acc.bytes <= MaxBytes /\ acc.bytes \in Nat
    BY DEF RequestInv, TypeOK, BufferFits
  <2> QED
    BY <2>1, <2>2, <2>3, <2>4
<1>3. forwarder.bytes + delta.size <= delta.at
  <2>1. CASE forwarder.taken = 0
    BY <1>2, <2>1 DEF RequestInv, ForwarderBehind
  <2>2. CASE forwarder.taken # 0
    <3>1. n > 1 /\ n - 1 = forwarder.taken /\ n - 1 \in 1..Len(buffer)
      BY <1>1, <2>2
    <3>2. buffer[n - 1].at + delta.size <= delta.at
      BY <1>1, <3>1 DEF RequestInv, BufferFits
    <3>3. forwarder.bytes <= buffer[n - 1].at /\ buffer[n - 1].at \in Nat
      <4>1. buffer[n - 1] \in Deltas
        BY <1>1, <3>1
      <4>2. forwarder.bytes <= buffer[forwarder.taken].at
        BY <2>2 DEF RequestInv, ForwarderBehind
      <4> QED
        BY <3>1, <4>1, <4>2 DEF Deltas
    <3> QED
      BY <1>1, <1>2, <3>2, <3>3
  <2> QED
    BY <2>1, <2>2
<1>4. Fits(delta.size)
  BY <1>1, <1>2, <1>3 DEF Fits
<1>5. /\ forwarder' = [taken |-> n, bytes |-> forwarder.bytes + delta.size]
      /\ shown' = Append(shown, delta)
      /\ pc = "emitting"
      /\ UNCHANGED <<pc, attempt, connects, elapsed, acc, buffer, item, made, result, received>>
  BY <1>4 DEF Emit, stream
<1>6. SubSeq(buffer, 1, n) = Append(SubSeq(buffer, 1, forwarder.taken), delta)
  <2>1. 1 \in 1..Len(buffer) /\ n \in 1..Len(buffer) /\ n - 1 = forwarder.taken
    BY <1>1
  <2>2. SubSeq(buffer, 1, n) = SubSeq(buffer, 1, n - 1) \o <<buffer[n]>>
    BY <1>1, <2>1, SubSeqRecursiveSecond
  <2>3. SubSeq(buffer, 1, forwarder.taken) \in Seq(Deltas)
    BY DEF RequestInv, TypeOK, Shown
  <2> QED
    BY <1>2, <2>1, <2>2, <2>3, AppendIsConcat
<1>7. /\ forwarder' \in [taken : Nat, bytes : Nat] /\ forwarder'.taken = n
      /\ forwarder'.bytes = forwarder.bytes + delta.size
  BY <1>1, <1>2, <1>5
<1>8. shown' \in Seq(Deltas)
  BY <1>2, <1>5 DEF RequestInv, TypeOK
<1> HIDE DEF n, delta
<1>9. TypeOK'
  BY <1>5, <1>7, <1>8 DEF RequestInv, TypeOK
<1>10. (BufferFits /\ SleepFits /\ InOrder)'
  BY <1>5 DEF RequestInv, BufferFits, SleepFits, RetryDelay, InOrder
<1>11. ForwarderBehind'
  BY <1>1, <1>3, <1>5, <1>7 DEF ForwarderBehind, delta
<1>12. result = "none"
  BY <1>5 DEF RequestInv, TakenWhenComplete
<1>13. TakenWhenComplete'
  BY <1>5, <1>12 DEF TakenWhenComplete
<1>14. Shown'
  BY <1>5, <1>6, <1>7 DEF RequestInv, Shown
<1> QED
  BY <1>9, <1>10, <1>11, <1>13, <1>14 DEF RequestInv

-----------------------------------------------------------------------------

LEMMA InitRequest == RequestInit => RequestInv
<1> SUFFICES ASSUME RequestInit PROVE RequestInv
  OBVIOUS
<1>1. acc \in Accumulators /\ acc.bytes = 0 /\ Len(acc.reasoning) = 0 /\ Len(acc.text) = 0
  BY DEF RequestInit, EmptyAccumulator, Accumulators
<1>2. TypeOK
  BY <1>1, ProviderAssumption DEF RequestInit, TypeOK, Accumulators, Pcs, Results
<1>3. BufferFits /\ ForwarderBehind /\ TakenWhenComplete /\ SleepFits
  BY <1>1, ProviderAssumption DEF RequestInit, BufferFits, ForwarderBehind, TakenWhenComplete, SleepFits
<1>4. Shown
  BY <1>1 DEF RequestInit, Shown
<1>5. InOrder
  BY DEF RequestInit, InOrder
<1> QED
  BY <1>2, <1>3, <1>4, <1>5 DEF RequestInv

LEMMA NextRequest == RequestInv /\ [RequestStep]_requestVars => RequestInv'
<1> SUFFICES ASSUME RequestInv, [RequestStep]_requestVars PROVE RequestInv'
  OBVIOUS
<1>a. /\ attempt \in 1..MaxAttempts /\ connects \in 0..ConnectRetries
      /\ received \subseteq 1..attempt /\ attempt \in 1..attempt
  BY ProviderAssumption DEF RequestInv, TypeOK, SleepFits
<1>1. CASE Wake
  BY <1>1, WakeKeeps
<1>2. CASE ConnectRefused
  <2>1. CASE connects < ConnectRetries
    <3>1. connects' \in 0..ConnectRetries
      BY <1>2, <1>a, <2>1, ProviderAssumption DEF ConnectRefused, Fail
    <3>2. UNCHANGED <<attempt, elapsed, acc, buffer, item, made, shown, forwarder, pc, result, received>>
      BY <1>2, <1>a, <2>1, ProviderAssumption DEF ConnectRefused, stream, output
    <3> QED
      BY <1>a, <3>1, <3>2, ControlKeeps
  <2>2. CASE ~(connects < ConnectRetries)
    <3>1. Fail("Transport") /\ pc = "sending" /\ received' = received
      BY <1>2, <2>2 DEF ConnectRefused
    <3> QED
      BY <1>a, <3>1, FailKeeps DEF Errors
  <2> QED
    BY <2>1, <2>2
<1>3. CASE AnswerBegins
  <2>1. /\ pc = "sending" /\ pc' = "reading" /\ received' \subseteq 1..attempt
        /\ connects' \in 0..ConnectRetries
        /\ UNCHANGED <<attempt, elapsed, acc, buffer, item, made, shown, forwarder, result>>
    BY <1>3, <1>a DEF AnswerBegins, stream, output
  <2> QED
    BY <2>1, ControlKeeps
<1>4. CASE ReadCompleted
  <2>1. /\ pc = "reading" /\ pc' = "emitting" /\ received' \subseteq 1..attempt
        /\ connects' \in 0..ConnectRetries
        /\ UNCHANGED <<attempt, elapsed, acc, buffer, item, made, shown, forwarder, result>>
    BY <1>4, <1>a DEF ReadCompleted, stream, output
  <2> QED
    BY <2>1, ControlKeeps
<1>5. CASE Emit
  BY <1>5, EmitKeeps
<1>6. CASE Return
  <2>1. /\ pc' = "done" /\ result' = "response" /\ forwarder.taken = Len(buffer)
        /\ received' \subseteq 1..attempt /\ connects' \in 0..ConnectRetries
        /\ UNCHANGED <<attempt, elapsed, acc, buffer, item, made, shown, forwarder>>
    BY <1>6, <1>a DEF Return, stream, output
  <2> QED
    BY <2>1, ControlKeeps
<1>7. CASE Cancel
  <2>1. /\ pc' = "done" /\ result' = "cancelled" /\ pc \notin {"emitting", "done"}
        /\ received' \subseteq 1..attempt /\ connects' \in 0..ConnectRetries
        /\ UNCHANGED <<attempt, elapsed, acc, buffer, item, made, shown, forwarder>>
    BY <1>7, <1>a DEF Cancel, stream, output
  <2> QED
    BY <2>1, ControlKeeps
<1>8. CASE \E error \in Errors : SendLost(error) \/ AnswerRefused(error) \/ ReadFails(error)
  <2>1. PICK error \in Errors : SendLost(error) \/ AnswerRefused(error) \/ ReadFails(error)
    BY <1>8
  <2>2. Fail(error) /\ pc \in {"sending", "reading"} /\ received' \subseteq 1..attempt
    BY <1>a, <2>1 DEF SendLost, AnswerRefused, ReadFails
  <2> QED
    BY <2>2, FailKeeps
<1>9. CASE \E size \in Sizes : ReadReasoning(size) \/ ReadText(size) \/ ReadMessage(size) \/ ReadCall(size)
  BY <1>9, ReadReasoningKeeps, ReadTextKeeps, ReadMessageKeeps, ReadCallKeeps
<1>10. CASE UNCHANGED requestVars
  BY <1>10 DEF requestVars, RequestInv, TypeOK, BufferFits, ForwarderBehind, TakenWhenComplete, SleepFits,
               RetryDelay, Shown, InOrder
<1> QED
  BY <1>1, <1>2, <1>3, <1>4, <1>5, <1>6, <1>7, <1>8, <1>9, <1>10 DEF RequestStep

\* The invariant holds whatever the provider answers and however long it takes
\* (complete, complete_once, drain_sse, ModelEventForwarder).
THEOREM RequestInvHolds == RequestSpec => []RequestInv
  BY InitRequest, NextRequest, PTL DEF RequestSpec

\* The observer is shown exactly the answer that is returned, and nothing of
\* the attempts that failed, for every limit and every number of attempts
\* (BufferedModelEvents, ModelEventForwarder::emit).
THEOREM TheAnswerIsShown == RequestSpec => []OnlyAnswerShown
<1>1. RequestInv => OnlyAnswerShown
  <2> SUFFICES ASSUME RequestInv PROVE OnlyAnswerShown
    OBVIOUS
  <2>1. /\ buffer \in Seq(Deltas) /\ Shown
        /\ \A i, j \in DOMAIN buffer : i < j => buffer[i].id < buffer[j].id
    <3>1. buffer \in Seq(Deltas) /\ Shown /\ InOrder
      BY DEF RequestInv, TypeOK
    <3>2. DOMAIN buffer = 1..Len(buffer)
      BY <3>1
    <3> QED
      BY <3>1, <3>2 DEF InOrder
  <2>2. ASSUME result = "response" PROVE shown = buffer
    <3>1. shown = SubSeq(buffer, 1, Len(buffer))
      BY <2>1, <2>2 DEF RequestInv, TakenWhenComplete, Shown
    <3> QED
      BY <2>1, <3>1, SubSeqFull
  <2>3. ASSUME result \notin {"none", "response"} PROVE shown = <<>>
    <3>1. shown = SubSeq(buffer, 1, 0)
      BY <2>1, <2>3 DEF RequestInv, TakenWhenComplete, Shown
    <3> QED
      BY <3>1, SubSeqEmpty, 0 < 1, 0 \in Int, 1 \in Int
  <2> QED
    BY <2>1, <2>2, <2>3 DEF OnlyAnswerShown, Shown
<1> QED
  BY <1>1, RequestInvHolds, PTL

\* Attempts follow one another within the limit and the window for every table
\* of delays and however long each attempt takes (complete, MAX_RETRY_WINDOW).
THEOREM RetriesAreBounded == RequestSpec => RetriesWithinWindow
<1> DEFINE Step == attempt' # attempt =>
                     /\ attempt' = attempt + 1 /\ attempt' <= MaxAttempts
                     /\ elapsed' <= Window
                     /\ attempt' \notin received'
<1>1. ASSUME RequestInv, [RequestStep]_requestVars, attempt' # attempt PROVE Step
  <2>1. Wake
    BY <1>1 DEF RequestStep, requestVars, ConnectRefused, AnswerBegins, ReadCompleted, Emit, Return, Cancel,
                SendLost, AnswerRefused, ReadFails, ReadReasoning, ReadText, ReadMessage, ReadCall,
                TooLarge, Fail
  <2>2. /\ attempt \in Nat /\ MaxAttempts \in Nat /\ attempt < MaxAttempts
        /\ elapsed + RetryDelay(attempt) <= Window /\ received \subseteq 1..attempt
    BY <1>1, <2>1, ProviderAssumption DEF Wake, RequestInv, TypeOK, SleepFits
  <2>3. /\ attempt' = attempt + 1 /\ elapsed' = elapsed + RetryDelay(attempt)
        /\ received' = received
    BY <2>1 DEF Wake
  <2> QED
    BY <2>2, <2>3
<1>2. RequestInv /\ [RequestStep]_requestVars => [Step]_requestVars
  BY <1>1
<1> QED
  BY <1>2, RequestInvHolds, PTL DEF RequestSpec, RetriesWithinWindow

-----------------------------------------------------------------------------
(* The processes the tools start: the shell tool and the background tasks. *)

HandleType ==
  [owner : Nat, state : {"starting", "running", "stopped", "failed"},
   stopped : BOOLEAN, alive : BOOLEAN, ok : BOOLEAN, child : BOOLEAN,
   stopReq : BOOLEAN, mon : {"poll", "seen", "done"}, wrote : Nat, read : Nat,
   log : SUBSET Nat, cut : BOOLEAN, overtaken : BOOLEAN, id : TaskIds]

CommandType ==
  [st : {"idle", "asking", "admitted", "running", "joining", "done"},
   sandbox : {"native", "docker"}, kind : {"read", "write"},
   alive : BOOLEAN, kids : BOOLEAN, stray : BOOLEAN, box : BOOLEAN,
   out : Nat,
   how : {"none", "denied", "spawnFailed", "exit", "cancelled", "timedOut",
          "unconfirmed"},
   text : {"none", "inline", "stored", "preview"}]

ShellTypeOK ==
  /\ fg \in CommandType
  /\ handles \in Seq(HandleType)
  /\ tasks \in [TaskIds -> Nat]
  /\ pending \in Nat
  /\ owner \in Nat /\ thread \in Nat

\* What one handle says of its process, whoever looks.
HandleSound(r) ==
  /\ r.state \in {"stopped", "failed"} => ~r.alive
  /\ r.mon = "seen" => ~r.alive
  /\ r.mon = "done" => ~r.child
  /\ ~r.child => r.stopped /\ (r.state = "running" => r.overtaken)
  /\ r.state = "failed" => ~r.ok /\ ~r.stopReq
  /\ r.log = {i \in 1..r.read : i > r.read - MaxLog}
  /\ r.cut <=> r.read > MaxLog

\* Where the manager finds a handle; h is listed or about to be.
Reachable(h) == h \in Listed \cup {pending} /\ handles[h].owner = owner

TasksPlaced ==
  /\ \A t \in TaskIds : tasks[t] \in {0} \cup Handles
  /\ pending \in {0} \cup Handles
  /\ pending # 0 => /\ tasks[handles[pending].id] = 0
                    /\ ~handles[pending].child => handles[pending].mon = "done"
  /\ \A h \in Handles : handles[h].alive => Reachable(h) \/ handles[h].stopReq

\* What may be left of the foreground command in each of its stages.
CommandSound ==
  /\ fg.box => fg.sandbox = "docker"
  /\ fg.sandbox = "docker" => ~fg.kids /\ ~fg.stray
  /\ fg.st \in {"idle", "asking", "admitted"} => ~PipeHeld /\ ~fg.box
  /\ fg.st = "joining" => ~fg.box /\ ~fg.alive
  /\ fg.st = "running" => (fg.box => fg.alive)
  /\ fg.st = "done" => ~PipeHeld /\ (fg.box => fg.how = "unconfirmed")

HandlesSound == \A h \in Handles : HandleSound(handles[h])

TasksInv == ShellTypeOK /\ HandlesSound /\ TasksPlaced /\ CommandSound

\* The part about the background tasks.
BackgroundInv ==
  /\ handles \in Seq(HandleType) /\ tasks \in [TaskIds -> Nat]
  /\ pending \in Nat /\ owner \in Nat /\ thread \in Nat
  /\ HandlesSound /\ TasksPlaced

ForegroundInv == fg \in CommandType /\ CommandSound

LEMMA TasksInvParts ==
  /\ TasksInv <=> BackgroundInv /\ ForegroundInv
  /\ TasksInv' <=> BackgroundInv' /\ ForegroundInv'
  BY DEF TasksInv, BackgroundInv, ForegroundInv, ShellTypeOK

LEMMA BackgroundKept ==
  ASSUME BackgroundInv, UNCHANGED <<handles, tasks, pending, owner, thread>>
  PROVE  BackgroundInv'
  BY DEF BackgroundInv, HandlesSound, TasksPlaced, Handles, Reachable, Listed, HandleSound

LEMMA ForegroundKept ==
  ASSUME ForegroundInv, UNCHANGED fg
  PROVE  ForegroundInv'
  BY DEF ForegroundInv, CommandSound, PipeHeld

-----------------------------------------------------------------------------
(* The foreground command. *)

LEMMA ForegroundKeeps ==
  ASSUME ForegroundInv,
         \/ \E kind \in {"read", "write"} : ShellAdmission(kind, access.policy)
         \/ ShellAnswer \/ RunShell
         \/ PollExit \/ PollCancelled \/ PollTimeout \/ JoinReaders
         \/ CommandWrites \/ CommandForks \/ CommandExits \/ DescendantExits
         \/ Interrupt
  PROVE  ForegroundInv'
<1>1. ASSUME NEW kind \in {"read", "write"}, ShellAdmission(kind, access.policy)
      PROVE  ForegroundInv'
  <2>1. PICK sandbox \in {"native", "docker"} :
          fg' = [NoCommand EXCEPT !.sandbox = sandbox, !.kind = kind,
                   !.st = IF kind = "read" /\ access.policy \in {"automatic", "trusted"}
                          THEN "admitted" ELSE "asking"]
    BY <1>1 DEF ShellAdmission
  <2> QED BY <2>1, ZenonT(60) DEF NoCommand, ForegroundInv, CommandType, CommandSound, PipeHeld
<1>2. CASE ShellAnswer
  BY <1>2 DEF ShellAnswer, ForegroundInv, CommandType, CommandSound, PipeHeld
<1>3. CASE RunShell
  BY <1>3 DEF RunShell, Spawned, ForegroundInv, CommandType, CommandSound, PipeHeld
<1>4. CASE PollExit
  BY <1>4 DEF PollExit, ForegroundInv, CommandType, CommandSound, PipeHeld
<1>5. ASSUME NEW how \in {"cancelled", "timedOut"}, Terminated(how), fg.st = "running"
      PROVE  ForegroundInv'
  <2>1. \/ fg' = [fg EXCEPT !.st = "joining", !.how = how, !.alive = FALSE,
                           !.kids = FALSE, !.box = FALSE]
        \/ /\ fg.box
           /\ fg' = [fg EXCEPT !.st = "done", !.how = "unconfirmed", !.alive = FALSE,
                              !.kids = FALSE]
    BY <1>5 DEF Terminated
  <2>2. CASE fg' = [fg EXCEPT !.st = "joining", !.how = how, !.alive = FALSE,
                              !.kids = FALSE, !.box = FALSE]
    BY <2>2, <1>5 DEF ForegroundInv, CommandType, CommandSound, PipeHeld
  <2>3. CASE /\ fg.box
             /\ fg' = [fg EXCEPT !.st = "done", !.how = "unconfirmed", !.alive = FALSE,
                                !.kids = FALSE]
    BY <2>3, <1>5 DEF ForegroundInv, CommandType, CommandSound, PipeHeld
  <2> QED BY <2>1, <2>2, <2>3
<1>6. CASE PollCancelled
  BY <1>6, <1>5 DEF PollCancelled
<1>7. CASE PollTimeout
  BY <1>7, <1>5 DEF PollTimeout
<1>8. CASE JoinReaders
  <2>1. /\ fg.st = "joining" /\ ~PipeHeld
        /\ \E text \in {"inline", "stored", "preview"} :
             fg' = [fg EXCEPT !.st = "done", !.text = text]
    BY <1>8 DEF JoinReaders
  <2> QED BY <2>1 DEF ForegroundInv, CommandType, CommandSound, PipeHeld
<1>9. CASE CommandWrites
  BY <1>9 DEF CommandWrites, ForegroundInv, CommandType, CommandSound, PipeHeld
<1>10. CASE CommandForks
  BY <1>10 DEF CommandForks, ForegroundInv, CommandType, CommandSound, PipeHeld
<1>11. CASE CommandExits
  BY <1>11 DEF CommandExits, ForegroundInv, CommandType, CommandSound, PipeHeld
<1>12. CASE DescendantExits
  BY <1>12 DEF DescendantExits, ForegroundInv, CommandType, CommandSound, PipeHeld
<1>13. CASE Interrupt
  BY <1>13, ForegroundKept DEF Interrupt
<1> QED
  BY <1>1, <1>2, <1>3, <1>4, <1>6, <1>7, <1>8, <1>9, <1>10, <1>11, <1>12, <1>13

-----------------------------------------------------------------------------
(* The background tasks. *)

\* A step that touches one handle and nothing else of the tasks.
LEMMA OneHandleKeeps ==
  ASSUME BackgroundInv, NEW h \in Handles, NEW r \in HandleType,
         handles' = [handles EXCEPT ![h] = r],
         UNCHANGED <<tasks, pending, owner, thread>>,
         HandleSound(r), r.id = handles[h].id, r.owner = handles[h].owner,
         r.alive => handles[h].alive,
         handles[h].stopReq => r.stopReq,
         h = pending => (~r.child => r.mon = "done")
  PROVE  BackgroundInv'
<1>1. /\ handles' \in Seq(HandleType) /\ Handles' = Handles
      /\ handles'[h] = r
      /\ \A g \in Handles : g # h => handles'[g] = handles[g]
  BY DEF BackgroundInv, Handles
<1>2. HandlesSound'
  <2> SUFFICES ASSUME NEW g \in Handles PROVE HandleSound(handles'[g])
    BY <1>1 DEF HandlesSound, HandleSound
  <2> QED BY <1>1 DEF BackgroundInv, HandlesSound
<1>3. TasksPlaced'
  BY <1>1 DEF BackgroundInv, TasksPlaced, Reachable, Listed
<1> QED BY <1>1, <1>2, <1>3 DEF BackgroundInv

LEMMA HandleTyped ==
  ASSUME BackgroundInv, NEW h \in Handles
  PROVE  handles[h] \in HandleType /\ HandleSound(handles[h]) /\ h \in 1..Len(handles)
  BY DEF BackgroundInv, HandlesSound, Handles

LEMMA StoppedSound ==
  ASSUME NEW r \in HandleType, HandleSound(r)
  PROVE  /\ Stopped(r) \in HandleType /\ HandleSound(Stopped(r))
         /\ Stopped(r).id = r.id /\ Stopped(r).owner = r.owner
         /\ ~Stopped(r).alive /\ Stopped(r).stopReq
  BY DEF Stopped, HandleType, HandleSound

LEMMA StopFailedSound ==
  ASSUME NEW r \in HandleType, HandleSound(r), r.alive
  PROVE  /\ StopFailed(r) \in HandleType /\ HandleSound(StopFailed(r))
         /\ StopFailed(r).id = r.id /\ StopFailed(r).owner = r.owner
         /\ StopFailed(r).alive /\ StopFailed(r).stopReq
         /\ StopFailed(r).child = r.child /\ StopFailed(r).mon = r.mon
  BY DEF StopFailed, HandleType, HandleSound

\* The log a reader leaves is the tail of what it has read so far, and it was
\* cut when that is more than the tail.
LEMMA TailOfLog ==
  ASSUME NEW m \in Nat, NEW n \in Nat, m < n, MaxLog \in Nat,
         NEW log, log = {i \in 1..m : i > m - MaxLog}
  PROVE  /\ {i \in log \cup (m + 1)..n : i > n - MaxLog} = {i \in 1..n : i > n - MaxLog}
         /\ (m > MaxLog \/ Cardinality(log \cup (m + 1)..n) > MaxLog) <=> n > MaxLog
<1>1. {i \in log \cup (m + 1)..n : i > n - MaxLog} = {i \in 1..n : i > n - MaxLog}
  OBVIOUS
<1>2. CASE m > MaxLog
  BY <1>1, <1>2
<1>3. CASE m <= MaxLog
  <2>1. log \cup (m + 1)..n = 1..n
    BY <1>3
  <2>2. Cardinality(1..n) = n
    BY FS_Interval
  <2>3. (m > MaxLog \/ Cardinality(log \cup (m + 1)..n) > MaxLog) <=> n > MaxLog
    <3>1. Cardinality(log \cup (m + 1)..n) = n
      BY <2>1, <2>2
    <3> QED BY <1>3, <3>1
  <2> QED BY <1>1, <2>3
<1> QED BY <1>2, <1>3

LEMMA ReadLogKeeps ==
  ASSUME BackgroundInv, NEW h \in Handles, ReadLog(h)
  PROVE  BackgroundInv'
<1> DEFINE q == handles[h]
           m == q.read
           n == q.wrote
           whole == q.log \cup (m + 1)..n
           r == [q EXCEPT !.read = n, !.log = {i \in whole : i > n - MaxLog},
                          !.cut = q.cut \/ Cardinality(whole) > MaxLog]
<1>1. q \in HandleType /\ HandleSound(q) /\ MaxLog \in Nat
  BY HandleTyped, ShellBounds
<1>2. m \in Nat /\ n \in Nat /\ m < n /\ q.log = {i \in 1..m : i > m - MaxLog}
  BY <1>1 DEF HandleType, HandleSound, ReadLog
<1>3. handles' = [handles EXCEPT ![h] = r]
  BY DEF ReadLog
<1>4. /\ {i \in whole : i > n - MaxLog} = {i \in 1..n : i > n - MaxLog}
      /\ (m > MaxLog \/ Cardinality(whole) > MaxLog) <=> n > MaxLog
  BY <1>1, <1>2, TailOfLog
<1>5. /\ r.read = n /\ r.log = {i \in 1..n : i > n - MaxLog}
      /\ r.cut <=> n > MaxLog
      /\ r \in HandleType
      /\ \A f \in {"id", "owner", "alive", "stopReq", "child", "mon", "state", "ok",
                   "stopped", "overtaken"} : r[f] = q[f]
  <2>1. q.cut <=> m > MaxLog
    BY <1>1 DEF HandleSound
  <2>2. (q.cut \/ Cardinality(whole) > MaxLog) \in BOOLEAN
    OBVIOUS
  <2>3. {i \in whole : i > n - MaxLog} \in SUBSET Nat
    BY <1>2, <1>4
  <2> HIDE DEF whole, m, n
  <2>4. r.cut <=> n > MaxLog
    BY <1>1, <1>4, <2>1 DEF HandleType
  <2>5. r \in HandleType
    BY <1>1, <1>2, <2>2, <2>3 DEF HandleType
  <2>6. r.read = n /\ r.log = {i \in 1..n : i > n - MaxLog}
    BY <1>1, <1>4 DEF HandleType
  <2>7. \A f \in {"id", "owner", "alive", "stopReq", "child", "mon", "state", "ok",
                  "stopped", "overtaken"} : r[f] = q[f]
    BY <1>1 DEF HandleType
  <2> QED BY <2>4, <2>5, <2>6, <2>7
<1> HIDE DEF r
<1>6. /\ r.id = q.id /\ r.owner = q.owner /\ r.alive = q.alive /\ r.stopReq = q.stopReq
      /\ r.child = q.child /\ r.mon = q.mon /\ r.state = q.state /\ r.ok = q.ok
      /\ r.stopped = q.stopped /\ r.overtaken = q.overtaken
  BY <1>5
<1>7. HandleSound(r)
  BY <1>1, <1>5, <1>6 DEF HandleSound
<1>8. h = pending => (~r.child => r.mon = "done")
  BY <1>6 DEF BackgroundInv, TasksPlaced, Handles
<1>9. UNCHANGED <<tasks, pending, owner, thread>>
  BY DEF ReadLog, HandlesOnly, KeepRuntime
<1> QED BY <1>3, <1>5, <1>6, <1>7, <1>8, <1>9, OneHandleKeeps

LEMMA ProcessKeeps ==
  ASSUME BackgroundInv, NEW h \in Handles,
         \/ TaskWrites(h) \/ \E ok \in BOOLEAN : TaskExits(h, ok)
         \/ MonitorPoll(h) \/ MonitorRecord(h)
  PROVE  BackgroundInv'
<1>1. handles[h] \in HandleType /\ HandleSound(handles[h])
  BY HandleTyped
<1>2. UNCHANGED <<tasks, pending, owner, thread>>
  BY DEF TaskWrites, TaskExits, MonitorPoll, MonitorRecord, HandlesOnly, KeepRuntime
<1>3. h = pending /\ ~handles[h].child => handles[h].mon = "done"
  BY DEF BackgroundInv, TasksPlaced, Handles
<1>4. SUFFICES
        \E r \in HandleType :
          /\ handles' = [handles EXCEPT ![h] = r]
          /\ HandleSound(r) /\ r.id = handles[h].id /\ r.owner = handles[h].owner
          /\ r.alive => handles[h].alive
          /\ handles[h].stopReq => r.stopReq
          /\ h = pending => (~r.child => r.mon = "done")
  BY <1>2, OneHandleKeeps
<1>5. CASE TaskWrites(h)
  <2> DEFINE r == [handles[h] EXCEPT !.wrote = @ + 1]
  <2>1. handles' = [handles EXCEPT ![h] = r]
    BY <1>5 DEF TaskWrites
  <2>2. r \in HandleType /\ HandleSound(r)
    BY <1>1 DEF HandleType, HandleSound
  <2>3. /\ r.id = handles[h].id /\ r.owner = handles[h].owner
        /\ r.alive = handles[h].alive /\ r.stopReq = handles[h].stopReq
        /\ r.child = handles[h].child /\ r.mon = handles[h].mon
    BY <1>1 DEF HandleType
  <2> HIDE DEF r
  <2> QED BY <2>1, <2>2, <2>3, <1>3
<1>6. ASSUME NEW ok \in BOOLEAN, TaskExits(h, ok)
      PROVE  \E r \in HandleType :
          /\ handles' = [handles EXCEPT ![h] = r]
          /\ HandleSound(r) /\ r.id = handles[h].id /\ r.owner = handles[h].owner
          /\ r.alive => handles[h].alive
          /\ handles[h].stopReq => r.stopReq
          /\ h = pending => (~r.child => r.mon = "done")
  <2> DEFINE r == [handles[h] EXCEPT !.alive = FALSE, !.ok = ok]
  <2>1. handles' = [handles EXCEPT ![h] = r] /\ handles[h].alive
    BY <1>6 DEF TaskExits
  <2>2. r \in HandleType /\ HandleSound(r)
    BY <1>1, <2>1 DEF HandleType, HandleSound
  <2>3. /\ r.id = handles[h].id /\ r.owner = handles[h].owner
        /\ r.stopReq = handles[h].stopReq
        /\ r.child = handles[h].child /\ r.mon = handles[h].mon
    BY <1>1 DEF HandleType
  <2> HIDE DEF r
  <2> QED BY <2>1, <2>2, <2>3, <1>3
<1>7. CASE MonitorPoll(h)
  <2>1. CASE ~handles[h].child
    <3> DEFINE r == [handles[h] EXCEPT !.mon = "done"]
    <3>1. handles' = [handles EXCEPT ![h] = r]
      BY <1>7, <2>1 DEF MonitorPoll
    <3>2. r \in HandleType /\ HandleSound(r)
      BY <1>1, <2>1 DEF HandleType, HandleSound
    <3>3. /\ r.id = handles[h].id /\ r.owner = handles[h].owner
          /\ r.alive = handles[h].alive /\ r.stopReq = handles[h].stopReq
          /\ r.mon = "done"
      BY <1>1 DEF HandleType
    <3> HIDE DEF r
    <3> QED BY <3>1, <3>2, <3>3
  <2>2. CASE handles[h].child
    <3> DEFINE r == [handles[h] EXCEPT !.mon = "seen"]
    <3>1. handles' = [handles EXCEPT ![h] = r] /\ ~handles[h].alive
      BY <1>7, <2>2 DEF MonitorPoll
    <3>2. r \in HandleType /\ HandleSound(r)
      BY <1>1, <2>2, <3>1 DEF HandleType, HandleSound
    <3>3. /\ r.id = handles[h].id /\ r.owner = handles[h].owner
          /\ r.alive = handles[h].alive /\ r.stopReq = handles[h].stopReq
          /\ r.child = handles[h].child
      BY <1>1 DEF HandleType
    <3> HIDE DEF r
    <3> QED BY <3>1, <3>2, <3>3, <2>2
  <2> QED BY <2>1, <2>2
<1>8. CASE MonitorRecord(h)
  <2> DEFINE r == [handles[h] EXCEPT !.mon = "done", !.child = FALSE,
                     !.stopped = TRUE,
                     !.state = IF handles[h].stopReq \/ handles[h].ok
                               THEN "stopped" ELSE "failed"]
  <2>1. handles' = [handles EXCEPT ![h] = r] /\ handles[h].mon = "seen"
    BY <1>8 DEF MonitorRecord
  <2>2. r \in HandleType /\ HandleSound(r)
    <3>1. HandleSound(handles[h]) /\ handles[h] \in HandleType
      BY <1>1
    <3>2. r \in HandleType
      BY <3>1 DEF HandleType
    <3>3. /\ r.mon = "done" /\ ~r.child /\ r.stopped /\ r.state \in {"stopped", "failed"}
          /\ r.state = "failed" => ~handles[h].ok /\ ~handles[h].stopReq
      BY <3>1 DEF HandleType
    <3>4. /\ r.alive = handles[h].alive /\ r.ok = handles[h].ok
          /\ r.stopReq = handles[h].stopReq /\ r.log = handles[h].log
          /\ r.read = handles[h].read /\ r.cut = handles[h].cut
      BY <3>1 DEF HandleType
    <3> HIDE DEF r
    <3>5. ~handles[h].alive
      BY <2>1, <3>1 DEF HandleSound
    <3>6. r.log = {i \in 1..r.read : i > r.read - MaxLog} /\ (r.cut <=> r.read > MaxLog)
      BY <3>1, <3>4 DEF HandleSound
    <3> QED BY <3>2, <3>3, <3>4, <3>5, <3>6 DEF HandleSound
  <2>3. /\ r.id = handles[h].id /\ r.owner = handles[h].owner
        /\ r.alive = handles[h].alive /\ r.stopReq = handles[h].stopReq
        /\ r.mon = "done"
    BY <1>1 DEF HandleType
  <2> HIDE DEF r
  <2> QED BY <2>1, <2>2, <2>3
<1> QED BY <1>5, <1>6, <1>7, <1>8

\* What spawn_task hands to the monitor: no name lists it yet.
LEMMA NewHandleKeeps ==
  ASSUME BackgroundInv, NEW t \in TaskIds, pending = 0,
         NEW hs \in Seq(HandleType), Len(hs) = Len(handles),
         \A h \in Handles :
           /\ HandleSound(hs[h]) /\ hs[h].owner = handles[h].owner
           /\ hs[h].alive => handles[h].alive
           /\ handles[h].stopReq => hs[h].stopReq
           /\ h = tasks[t] => hs[h].stopReq,
         handles' = Append(hs, [NewHandle(owner) EXCEPT !.id = t]),
         pending' = Len(handles) + 1,
         tasks' = [tasks EXCEPT ![t] = 0],
         UNCHANGED <<owner, thread>>
  PROVE  BackgroundInv'
<1> DEFINE new == [NewHandle(owner) EXCEPT !.id = t]
           n == Len(handles) + 1
<1>1. /\ new \in HandleType /\ HandleSound(new)
      /\ new.owner = owner /\ new.child /\ new.id = t
  <2>1. new = [owner |-> owner, state |-> "starting", stopped |-> FALSE, alive |-> TRUE,
               ok |-> FALSE, child |-> TRUE, stopReq |-> FALSE, mon |-> "poll",
               wrote |-> 0, read |-> 0, log |-> {}, cut |-> FALSE,
               overtaken |-> FALSE, id |-> t]
    BY DEF NewHandle
  <2> HIDE DEF new
  <2>2. owner \in Nat /\ MaxLog \in Nat
    BY ShellBounds DEF BackgroundInv
  <2>3. new \in HandleType
    BY <2>1, <2>2 DEF HandleType
  <2>4. {} = {i \in 1..0 : i > 0 - MaxLog}
    BY <2>2
  <2>5. HandleSound(new)
    BY <2>1, <2>2, <2>4 DEF HandleSound
  <2> QED BY <2>1, <2>3, <2>5
<1> HIDE DEF new
<1>2. /\ handles \in Seq(HandleType) /\ tasks \in [TaskIds -> Nat]
      /\ Handles = 1..Len(handles) /\ owner \in Nat /\ thread \in Nat
  BY DEF BackgroundInv, Handles
<1>3. handles' = Append(hs, new)
  BY DEF new
<1>4. /\ handles' \in Seq(HandleType)
      /\ Handles' = Handles \cup {n} /\ n \notin Handles
      /\ handles'[n] = new
      /\ \A h \in Handles : handles'[h] = hs[h]
  <2>1. /\ handles' \in Seq(HandleType) /\ Len(handles') = Len(hs) + 1
        /\ \A i \in 1..Len(hs) : handles'[i] = hs[i]
        /\ handles'[Len(hs) + 1] = new
    BY <1>1, <1>3, AppendProperties
  <2>2. DOMAIN handles' = 1..(Len(hs) + 1) /\ Len(hs) \in Nat
    BY <2>1
  <2> QED BY <1>2, <2>1, <2>2 DEF Handles
<1>5. HandlesSound'
  <2> SUFFICES ASSUME NEW h \in Handles' PROVE HandleSound(handles'[h])
    BY DEF HandlesSound, HandleSound
  <2> QED BY <1>1, <1>4
<1>6. /\ tasks' \in [TaskIds -> Nat] /\ tasks'[t] = 0
      /\ \A u \in TaskIds \ {t} : tasks'[u] = tasks[u]
  BY <1>2
<1>7. TasksPlaced'
  <2>1. \A u \in TaskIds : tasks'[u] \in {0} \cup Handles'
    BY <1>4, <1>6 DEF BackgroundInv, TasksPlaced
  <2>2. pending' = n /\ n \in Handles' /\ n # 0
    BY <1>2, <1>4
  <2>3. tasks'[handles'[pending'].id] = 0 /\ handles'[pending'].child
    <3>1. handles'[pending'] = new
      BY <1>4, <2>2
    <3> QED BY <1>1, <1>6, <3>1
  <2>4. ASSUME NEW h \in Handles', handles'[h].alive
        PROVE  \/ h \in Listed' \cup {pending'} /\ handles'[h].owner = owner'
               \/ handles'[h].stopReq
    <3>1. CASE h = n
      BY <3>1, <2>2, <1>4, <1>1
    <3>2. CASE h \in Handles
      <4>1. handles'[h] = hs[h] /\ handles[h].alive
        BY <3>2, <1>4, <2>4
      <4>2. CASE handles[h].stopReq
        BY <4>1, <4>2, <3>2
      <4>3. CASE h \in Listed /\ handles[h].owner = owner
        <5>1. PICK u \in TaskIds : h = tasks[u] /\ h # 0
          BY <4>3 DEF Listed
        <5>2. CASE u = t
          BY <5>1, <5>2, <3>2, <4>1
        <5>3. CASE u # t
          BY <5>1, <5>3, <1>6, <4>1, <4>3, <3>2 DEF Listed
        <5> QED BY <5>2, <5>3
      <4>4. h # 0
        BY <3>2, <1>2
      <4> QED BY <4>1, <4>2, <4>3, <4>4, <3>2 DEF BackgroundInv, TasksPlaced, Reachable
    <3> QED BY <3>1, <3>2, <1>4
  <2> QED BY <2>1, <2>2, <2>3, <2>4 DEF TasksPlaced, Reachable
<1> QED BY <1>2, <1>4, <1>5, <1>6, <1>7 DEF BackgroundInv

LEMMA StartKeeps ==
  ASSUME BackgroundInv, NEW t \in TaskIds, Start(thread, t)
  PROVE  BackgroundInv'
<1>1. /\ pending = 0 /\ tasks[t] = 0 /\ pending' = Len(handles) + 1
      /\ handles' = Append(handles, [NewHandle(owner) EXCEPT !.id = t])
      /\ UNCHANGED <<owner, thread, tasks>>
  BY DEF Start, ManagerFree, Spawn, KeepRuntime
<1>2. tasks' = [tasks EXCEPT ![t] = 0]
  BY <1>1 DEF BackgroundInv
<1>3. \A h \in Handles : /\ HandleSound(handles[h]) /\ h # 0
  BY DEF BackgroundInv, HandlesSound, Handles
<1>4. handles \in Seq(HandleType)
  BY DEF BackgroundInv
<1> QED BY <1>1, <1>2, <1>3, <1>4, NewHandleKeeps

LEMMA MarkRunningKeeps ==
  ASSUME BackgroundInv, MarkRunning
  PROVE  BackgroundInv'
<1> DEFINE p == pending
           q == handles[p]
           r == [q EXCEPT !.state = "running", !.overtaken = (q.mon = "done")]
<1>1. /\ p \in Handles /\ p # 0 /\ tasks[q.id] = 0
      /\ ~q.child => q.mon = "done"
      /\ q \in HandleType /\ HandleSound(q)
  BY HandleTyped DEF MarkRunning, BackgroundInv, TasksPlaced
<1>2. /\ handles' = [handles EXCEPT ![p] = r]
      /\ tasks' = [tasks EXCEPT ![q.id] = p] /\ pending' = 0
      /\ UNCHANGED <<owner, thread>>
  BY DEF MarkRunning, KeepRuntime
<1>3. r \in HandleType /\ HandleSound(r)
  BY <1>1 DEF HandleType, HandleSound
<1>4. /\ r.id = q.id /\ r.owner = q.owner /\ r.alive = q.alive /\ r.stopReq = q.stopReq
  BY <1>1 DEF HandleType
<1> HIDE DEF r
<1>5. /\ handles' \in Seq(HandleType) /\ Handles' = Handles
      /\ handles'[p] = r
      /\ \A g \in Handles : g # p => handles'[g] = handles[g]
  BY <1>1, <1>2, <1>3 DEF BackgroundInv, Handles
<1>6. q.id \in TaskIds /\ tasks' \in [TaskIds -> Nat] /\ tasks'[q.id] = p
      /\ \A u \in TaskIds : u # q.id => tasks'[u] = tasks[u]
  BY <1>1, <1>2 DEF BackgroundInv, HandleType
<1>7. HandlesSound'
  <2> SUFFICES ASSUME NEW g \in Handles PROVE HandleSound(handles'[g])
    BY <1>5 DEF HandlesSound, HandleSound
  <2> QED BY <1>3, <1>5 DEF BackgroundInv, HandlesSound
<1>8. ASSUME NEW g \in Handles, g \in Listed \cup {p} PROVE g \in Listed'
  <2>1. g # 0
    BY DEF BackgroundInv, Handles
  <2>2. CASE g = p
    BY <2>1, <2>2, <1>6 DEF Listed
  <2>3. CASE g \in Listed
    BY <2>1, <2>3, <1>1, <1>6 DEF Listed
  <2> QED BY <1>8, <2>2, <2>3
<1>9. TasksPlaced'
  <2>1. \A u \in TaskIds : tasks'[u] \in {0} \cup Handles'
    BY <1>1, <1>5, <1>6 DEF BackgroundInv, TasksPlaced
  <2>2. ASSUME NEW g \in Handles, handles'[g].alive
        PROVE  \/ g \in Listed' /\ handles'[g].owner = owner
               \/ handles'[g].stopReq
    <3>1. /\ handles[g].alive /\ handles'[g].owner = handles[g].owner
          /\ handles'[g].stopReq = handles[g].stopReq
      BY <2>2, <1>4, <1>5
    <3>2. Reachable(g) \/ handles[g].stopReq
      BY <3>1 DEF BackgroundInv, TasksPlaced
    <3> QED BY <3>1, <3>2, <1>8 DEF Reachable
  <2> QED BY <1>2, <1>5, <2>1, <2>2 DEF TasksPlaced, Reachable
<1> QED BY <1>2, <1>5, <1>6, <1>7, <1>9 DEF BackgroundInv

\* A step of the manager that starts no process: it may stop tasks and take them
\* off its list, when their stop was at least asked for.
LEMMA StopsKeep ==
  ASSUME BackgroundInv, pending = 0, pending' = 0,
         handles' \in Seq(HandleType), Len(handles') = Len(handles),
         \A h \in Handles :
           /\ HandleSound(handles'[h]) /\ handles'[h].owner = handles[h].owner
           /\ handles'[h].alive => handles[h].alive
           /\ handles[h].stopReq => handles'[h].stopReq,
         tasks' \in [TaskIds -> Nat],
         \A u \in TaskIds : \/ tasks'[u] = tasks[u]
                            \/ tasks'[u] = 0 /\ (tasks[u] # 0 => handles'[tasks[u]].stopReq),
         owner' \in Nat, thread' \in Nat,
         owner' = owner \/ \A u \in TaskIds : tasks'[u] = 0
  PROVE  BackgroundInv'
<1>1. Handles' = Handles /\ Handles = 1..Len(handles)
  BY DEF BackgroundInv, Handles
<1>2. HandlesSound'
  <2> SUFFICES ASSUME NEW h \in Handles PROVE HandleSound(handles'[h])
    BY <1>1 DEF HandlesSound, HandleSound
  <2> QED OBVIOUS
<1>3. TasksPlaced'
  <2>1. \A u \in TaskIds : tasks'[u] \in {0} \cup Handles'
    BY <1>1 DEF BackgroundInv, TasksPlaced
  <2>2. ASSUME NEW h \in Handles, handles'[h].alive
        PROVE  \/ h \in Listed' /\ handles'[h].owner = owner'
               \/ handles'[h].stopReq
    <3>1. handles[h].alive /\ h # 0
      BY <2>2, <1>1
    <3>2. CASE handles[h].stopReq
      BY <3>2
    <3>3. CASE h \in Listed /\ handles[h].owner = owner
      <4>1. PICK u \in TaskIds : tasks[u] = h
        BY <3>3 DEF Listed
      <4>2. CASE handles'[tasks[u]].stopReq
        BY <4>1, <4>2
      <4>3. CASE tasks'[u] = tasks[u]
        BY <3>1, <3>3, <4>1, <4>3 DEF Listed
      <4> QED BY <4>1, <4>2, <4>3, <3>1
    <3> QED BY <3>1, <3>2, <3>3 DEF BackgroundInv, TasksPlaced, Reachable
  <2> QED BY <1>1, <2>1, <2>2 DEF TasksPlaced, Reachable
<1> QED BY <1>2, <1>3 DEF BackgroundInv

\* The manager stops a task, or its kill fails.
LEMMA StopOne ==
  ASSUME BackgroundInv, NEW h \in Handles, NEW hs,
         \/ hs = [handles EXCEPT ![h] = Stopped(@)]
         \/ handles[h].alive /\ hs = [handles EXCEPT ![h] = StopFailed(@)]
  PROVE  /\ hs \in Seq(HandleType) /\ Len(hs) = Len(handles)
         /\ hs[h].stopReq
         /\ \A g \in Handles :
              /\ HandleSound(hs[g]) /\ hs[g].owner = handles[g].owner
              /\ hs[g].alive => handles[g].alive
              /\ handles[g].stopReq => hs[g].stopReq
<1>1. handles[h] \in HandleType /\ HandleSound(handles[h])
  BY HandleTyped
<1>2. PICK r \in HandleType :
        /\ hs = [handles EXCEPT ![h] = r]
        /\ HandleSound(r) /\ r.owner = handles[h].owner
        /\ r.alive => handles[h].alive
        /\ r.stopReq
  <2>1. CASE hs = [handles EXCEPT ![h] = Stopped(@)]
    <3>1. hs = [handles EXCEPT ![h] = Stopped(handles[h])]
      BY <2>1
    <3> QED BY <1>1, <3>1, StoppedSound
  <2>2. CASE handles[h].alive /\ hs = [handles EXCEPT ![h] = StopFailed(@)]
    <3>1. hs = [handles EXCEPT ![h] = StopFailed(handles[h])]
      BY <2>2
    <3> QED BY <1>1, <2>2, <3>1, StopFailedSound
  <2> QED BY <2>1, <2>2
<1>3. /\ hs \in Seq(HandleType) /\ Len(hs) = Len(handles) /\ hs[h] = r
      /\ \A g \in Handles : g # h => hs[g] = handles[g]
  BY <1>2 DEF BackgroundInv, Handles
<1> QED BY <1>2, <1>3 DEF BackgroundInv, HandlesSound

LEMMA StopKeeps ==
  ASSUME BackgroundInv, NEW c, NEW t \in TaskIds, Stop(c, t)
  PROVE  BackgroundInv'
<1>1. /\ pending = 0 /\ pending' = 0 /\ tasks[t] \in Handles
      /\ UNCHANGED <<tasks, owner, thread>>
      /\ \/ handles' = [handles EXCEPT ![tasks[t]] = Stopped(@)]
         \/ /\ handles[tasks[t]].alive
            /\ handles' = [handles EXCEPT ![tasks[t]] = StopFailed(@)]
  BY DEF Stop, ManagerFree, KeepRuntime, BackgroundInv, TasksPlaced
<1>2. /\ handles' \in Seq(HandleType) /\ Len(handles') = Len(handles)
      /\ \A g \in Handles :
           /\ HandleSound(handles'[g]) /\ handles'[g].owner = handles[g].owner
           /\ handles'[g].alive => handles[g].alive
           /\ handles[g].stopReq => handles'[g].stopReq
  BY <1>1, StopOne
<1>3. /\ tasks' \in [TaskIds -> Nat] /\ owner' \in Nat /\ thread' \in Nat
      /\ owner' = owner /\ \A u \in TaskIds : tasks'[u] = tasks[u]
  BY <1>1 DEF BackgroundInv
<1> QED BY <1>1, <1>2, <1>3, StopsKeep

LEMMA RestartKeeps ==
  ASSUME BackgroundInv, NEW c, NEW t \in TaskIds, Restart(c, t)
  PROVE  BackgroundInv'
<1>1. /\ pending = 0 /\ tasks[t] \in Handles /\ tasks[t] # 0
      /\ tasks' = [tasks EXCEPT ![t] = 0]
      /\ UNCHANGED <<owner, thread>>
      /\ \/ \E hs : /\ hs = [handles EXCEPT ![tasks[t]] = Stopped(@)]
                    /\ handles' = Append(hs, [NewHandle(owner) EXCEPT !.id = t])
                    /\ pending' = Len(handles) + 1
         \/ /\ pending' = 0
            /\ \/ handles' = [handles EXCEPT ![tasks[t]] = Stopped(@)]
               \/ /\ handles[tasks[t]].alive
                  /\ handles' = [handles EXCEPT ![tasks[t]] = StopFailed(@)]
  <2>1. /\ ManagerFree /\ tasks[t] # 0 /\ tasks' = [tasks EXCEPT ![t] = 0]
        /\ KeepRuntime
        /\ \/ /\ Spawn
              /\ handles' = Append([handles EXCEPT ![tasks[t]] = Stopped(@)],
                                   [NewHandle(owner) EXCEPT !.id = t])
           \/ /\ handles' \in {[handles EXCEPT ![tasks[t]] = Stopped(@)]}
                    \cup IF handles[tasks[t]].alive
                         THEN {[handles EXCEPT ![tasks[t]] = StopFailed(@)]} ELSE {}
              /\ UNCHANGED pending
    BY DEF Restart
  <2>2. tasks[t] \in Handles
    BY <2>1 DEF BackgroundInv, TasksPlaced
  <2>3. CASE /\ Spawn
             /\ handles' = Append([handles EXCEPT ![tasks[t]] = Stopped(@)],
                                  [NewHandle(owner) EXCEPT !.id = t])
    BY <2>1, <2>2, <2>3 DEF ManagerFree, KeepRuntime, Spawn
  <2>4. CASE /\ handles' \in {[handles EXCEPT ![tasks[t]] = Stopped(@)]}
                    \cup IF handles[tasks[t]].alive
                         THEN {[handles EXCEPT ![tasks[t]] = StopFailed(@)]} ELSE {}
             /\ UNCHANGED pending
    <3>1. \/ handles' = [handles EXCEPT ![tasks[t]] = Stopped(@)]
          \/ /\ handles[tasks[t]].alive
             /\ handles' = [handles EXCEPT ![tasks[t]] = StopFailed(@)]
      BY <2>4
    <3> QED BY <2>1, <2>2, <2>4, <3>1 DEF ManagerFree, KeepRuntime
  <2> QED BY <2>1, <2>3, <2>4
<1>2. CASE \E hs : /\ hs = [handles EXCEPT ![tasks[t]] = Stopped(@)]
                   /\ handles' = Append(hs, [NewHandle(owner) EXCEPT !.id = t])
                   /\ pending' = Len(handles) + 1
  <2>1. PICK hs : /\ hs = [handles EXCEPT ![tasks[t]] = Stopped(@)]
                  /\ handles' = Append(hs, [NewHandle(owner) EXCEPT !.id = t])
                  /\ pending' = Len(handles) + 1
    BY <1>2
  <2>2. /\ hs \in Seq(HandleType) /\ Len(hs) = Len(handles)
        /\ hs[tasks[t]].stopReq
        /\ \A g \in Handles :
             /\ HandleSound(hs[g]) /\ hs[g].owner = handles[g].owner
             /\ hs[g].alive => handles[g].alive
             /\ handles[g].stopReq => hs[g].stopReq
    <3>1. tasks[t] \in Handles
      BY <1>1
    <3>2. hs = [handles EXCEPT ![tasks[t]] = Stopped(@)]
      BY <2>1
    <3> QED BY <3>1, <3>2, StopOne
  <2>3. /\ hs \in Seq(HandleType) /\ Len(hs) = Len(handles)
        /\ \A h \in Handles :
             /\ HandleSound(hs[h]) /\ hs[h].owner = handles[h].owner
             /\ hs[h].alive => handles[h].alive
             /\ handles[h].stopReq => hs[h].stopReq
             /\ h = tasks[t] => hs[h].stopReq
    BY <2>2
  <2>4. /\ pending = 0 /\ tasks' = [tasks EXCEPT ![t] = 0]
        /\ UNCHANGED <<owner, thread>>
    BY <1>1
  <2>5. /\ handles' = Append(hs, [NewHandle(owner) EXCEPT !.id = t])
        /\ pending' = Len(handles) + 1
    BY <2>1
  <2> QED BY <2>3, <2>4, <2>5, NewHandleKeeps
<1>3. CASE /\ pending' = 0
           /\ \/ handles' = [handles EXCEPT ![tasks[t]] = Stopped(@)]
              \/ /\ handles[tasks[t]].alive
                 /\ handles' = [handles EXCEPT ![tasks[t]] = StopFailed(@)]
  <2>1. /\ handles' \in Seq(HandleType) /\ Len(handles') = Len(handles)
        /\ handles'[tasks[t]].stopReq
        /\ \A g \in Handles :
             /\ HandleSound(handles'[g]) /\ handles'[g].owner = handles[g].owner
             /\ handles'[g].alive => handles[g].alive
             /\ handles[g].stopReq => handles'[g].stopReq
    BY <1>1, <1>3, StopOne
  <2>2. /\ tasks' \in [TaskIds -> Nat] /\ owner' \in Nat /\ thread' \in Nat
        /\ owner' = owner
        /\ tasks'[t] = 0 /\ \A u \in TaskIds : u # t => tasks'[u] = tasks[u]
    BY <1>1 DEF BackgroundInv
  <2>3. \A u \in TaskIds :
          \/ tasks'[u] = tasks[u]
          \/ tasks'[u] = 0 /\ (tasks[u] # 0 => handles'[tasks[u]].stopReq)
    BY <2>1, <2>2
  <2> QED BY <1>1, <1>3, <2>1, <2>2, <2>3, StopsKeep
<1> QED BY <1>1, <1>2, <1>3

\* Handles of which some are stopped and some fail to be.
LEMMA StopSome ==
  ASSUME BackgroundInv, NEW hs, hs = [h \in Handles |-> hs[h]],
         \A h \in Handles : \/ hs[h] = handles[h]
                            \/ hs[h] = Stopped(handles[h])
                            \/ handles[h].alive /\ hs[h] = StopFailed(handles[h])
  PROVE  /\ hs \in Seq(HandleType) /\ Len(hs) = Len(handles)
         /\ \A h \in Handles :
              /\ HandleSound(hs[h]) /\ hs[h].owner = handles[h].owner
              /\ hs[h].alive => handles[h].alive
              /\ handles[h].stopReq => hs[h].stopReq
<1>1. Handles = 1..Len(handles) /\ Len(handles) \in Nat
  BY DEF BackgroundInv, Handles
<1>2. \A h \in Handles :
        /\ hs[h] \in HandleType
        /\ HandleSound(hs[h]) /\ hs[h].owner = handles[h].owner
        /\ hs[h].alive => handles[h].alive
        /\ handles[h].stopReq => hs[h].stopReq
  <2> TAKE h \in Handles
  <2>1. handles[h] \in HandleType /\ HandleSound(handles[h])
    BY HandleTyped
  <2>2. CASE hs[h] = handles[h]
    BY <2>1, <2>2
  <2>3. CASE hs[h] = Stopped(handles[h])
    BY <2>1, <2>3, StoppedSound
  <2>4. CASE handles[h].alive /\ hs[h] = StopFailed(handles[h])
    BY <2>1, <2>4, StopFailedSound
  <2> QED BY <2>2, <2>3, <2>4
<1>3. hs \in Seq(HandleType) /\ Len(hs) = Len(handles)
  BY <1>1, <1>2
<1> QED BY <1>2, <1>3

LEMMA ClosedKeeps ==
  ASSUME BackgroundInv, Closed, pending = 0, pending' = 0,
         owner' \in Nat, thread' \in Nat
  PROVE  BackgroundInv'
<1>1. tasks' = [t \in TaskIds |-> 0]
  BY DEF Closed
<1>2. handles' = [h \in Handles |-> IF h \in Listed THEN Stopped(handles[h])
                                    ELSE handles[h]]
  BY DEF Closed, CloseAll
<1>3. /\ handles' = [h \in Handles |-> handles'[h]]
      /\ \A h \in Handles : handles'[h] = handles[h] \/ handles'[h] = Stopped(handles[h])
      /\ \A h \in Handles : h \in Listed => handles'[h] = Stopped(handles[h])
  BY <1>2
<1>4. /\ handles' \in Seq(HandleType) /\ Len(handles') = Len(handles)
      /\ \A h \in Handles :
           /\ HandleSound(handles'[h]) /\ handles'[h].owner = handles[h].owner
           /\ handles'[h].alive => handles[h].alive
           /\ handles[h].stopReq => handles'[h].stopReq
  BY <1>3, StopSome
<1>5. \A u \in TaskIds : tasks'[u] = 0 /\ (tasks[u] # 0 => handles'[tasks[u]].stopReq)
  <2> TAKE u \in TaskIds
  <2>1. ASSUME tasks[u] # 0 PROVE handles'[tasks[u]].stopReq
    <3>1. tasks[u] \in Handles /\ tasks[u] \in Listed
      BY <2>1 DEF BackgroundInv, TasksPlaced, Listed
    <3>2. handles[tasks[u]] \in HandleType /\ HandleSound(handles[tasks[u]])
      BY <3>1, HandleTyped
    <3>3. handles'[tasks[u]] = Stopped(handles[tasks[u]])
      BY <3>1, <1>3
    <3> QED BY <3>2, <3>3, StoppedSound
  <2> QED BY <1>1, <2>1
<1>6. tasks' \in [TaskIds -> Nat]
  BY <1>1
<1> QED BY <1>4, <1>5, <1>6, StopsKeep

LEMMA CloseAllFailsKeeps ==
  ASSUME BackgroundInv, CloseAllFails, pending = 0, pending' = 0,
         UNCHANGED <<tasks, owner>>, thread' \in Nat
  PROVE  BackgroundInv'
<1>1. PICK failed \in {h \in Listed : handles[h].alive} :
        \E before \in SUBSET (Listed \ {failed}) :
          handles' = [h \in Handles |-> IF h \in before THEN Stopped(handles[h])
                                        ELSE IF h = failed
                                        THEN StopFailed(handles[h])
                                        ELSE handles[h]]
  BY DEF CloseAllFails
<1>2. PICK before \in SUBSET (Listed \ {failed}) :
        handles' = [h \in Handles |-> IF h \in before THEN Stopped(handles[h])
                                      ELSE IF h = failed
                                      THEN StopFailed(handles[h])
                                      ELSE handles[h]]
  BY <1>1
<1>3. /\ handles' = [h \in Handles |-> handles'[h]]
      /\ \A h \in Handles :
           \/ handles'[h] = handles[h]
           \/ handles'[h] = Stopped(handles[h])
           \/ handles[h].alive /\ handles'[h] = StopFailed(handles[h])
  BY <1>2
<1>4. /\ handles' \in Seq(HandleType) /\ Len(handles') = Len(handles)
      /\ \A h \in Handles :
           /\ HandleSound(handles'[h]) /\ handles'[h].owner = handles[h].owner
           /\ handles'[h].alive => handles[h].alive
           /\ handles[h].stopReq => handles'[h].stopReq
  BY <1>3, StopSome
<1>5. /\ tasks' \in [TaskIds -> Nat] /\ owner' \in Nat /\ owner' = owner
      /\ \A u \in TaskIds : tasks'[u] = tasks[u]
  BY DEF BackgroundInv
<1> QED BY <1>4, <1>5, StopsKeep

LEMMA RuntimeEndsKeeps ==
  ASSUME BackgroundInv, StartNewThread \/ CloseThread
  PROVE  BackgroundInv'
<1>1. pending = 0 /\ pending' = 0 /\ thread \in Nat /\ owner \in Nat
  BY DEF StartNewThread, CloseThread, BetweenCalls, ManagerFree, BackgroundInv
<1>2. \/ Closed /\ owner' \in Nat /\ thread' \in Nat
      \/ CloseAllFails /\ UNCHANGED <<tasks, owner>> /\ thread' \in Nat
  BY <1>1 DEF StartNewThread, CloseThread
<1> QED BY <1>1, <1>2, ClosedKeeps, CloseAllFailsKeeps

-----------------------------------------------------------------------------
(* The whole step. *)

LEMMA InitTasks == Init => TasksInv
<1> SUFFICES ASSUME NEW s \in Scenarios, ShellInit(s.shells) PROVE TasksInv
  BY DEF Init
<1>1. ForegroundInv
  BY DEF ShellInit, NoCommand, ForegroundInv, CommandType, CommandSound, PipeHeld
<1>2. BackgroundInv
  <2>1. handles = << >> /\ Handles = {} /\ tasks = [t \in TaskIds |-> 0]
        /\ pending = 0 /\ owner = 1 /\ thread = 1
    BY DEF ShellInit, Handles
  <2> QED BY <2>1 DEF BackgroundInv, HandlesSound, TasksPlaced
<1> QED BY <1>1, <1>2, TasksInvParts

\* A step of the tools changes the foreground command, the background tasks, or
\* neither.
LEMMA NextTasks == TasksInv /\ [Next]_vars => TasksInv'
<1> SUFFICES ASSUME TasksInv, [Next]_vars PROVE TasksInv'
  OBVIOUS
<1>1. BackgroundInv /\ ForegroundInv
  BY TasksInvParts
<1>2. CASE UNCHANGED shellVars
  BY <1>1, <1>2, BackgroundKept, ForegroundKept, TasksInvParts DEF shellVars
<1>3. ASSUME \/ \E kind \in {"read", "write"} : ShellAdmission(kind, access.policy)
             \/ ShellAnswer \/ RunShell
             \/ PollExit \/ PollCancelled \/ PollTimeout \/ JoinReaders
             \/ CommandWrites \/ CommandForks \/ CommandExits \/ DescendantExits
             \/ Interrupt
      PROVE  TasksInv'
  <2>1. ForegroundInv'
    BY <1>1, <1>3, ForegroundKeeps
  <2>2. UNCHANGED <<handles, tasks, pending, owner, thread>>
    BY <1>3 DEF ShellAdmission, ShellAnswer, RunShell, PollExit, PollCancelled,
       PollTimeout, JoinReaders, CommandWrites, CommandForks, CommandExits,
       DescendantExits, Interrupt, KeepTasks, KeepRuntime
  <2> QED BY <1>1, <2>1, <2>2, BackgroundKept, TasksInvParts
<1>4. ASSUME \/ \E t \in TaskIds : Start(thread, t)
             \/ \E t \in TaskIds, c \in Threads : Stop(c, t) \/ Restart(c, t)
             \/ MarkRunning \/ StartNewThread \/ CloseThread
             \/ \E h \in Handles :
                  \/ ReadLog(h) \/ TaskWrites(h) \/ \E ok \in BOOLEAN : TaskExits(h, ok)
                  \/ MonitorPoll(h) \/ MonitorRecord(h)
      PROVE  TasksInv'
  <2>1. BackgroundInv'
    BY <1>1, <1>4, StartKeeps, StopKeeps, RestartKeeps, MarkRunningKeeps,
       RuntimeEndsKeeps, ReadLogKeeps, ProcessKeeps
  <2>2. UNCHANGED fg
    BY <1>4 DEF Start, Stop, Restart, MarkRunning, StartNewThread, CloseThread,
       ReadLog, TaskWrites, TaskExits, MonitorPoll, MonitorRecord, HandlesOnly,
       KeepCommand
  <2> QED BY <1>1, <2>1, <2>2, ForegroundKept, TasksInvParts
<1>5. ASSUME \/ \E t \in TaskIds : CreateDelay(thread, t) \/ FallsDue(t)
             \/ \E t \in TaskIds, c \in Threads : CancelMarker(c, t)
             \/ \E c \in Threads : ReadMarkers(c)
      PROVE  TasksInv'
  <2>1. UNCHANGED <<fg, handles, tasks, pending, owner, thread>>
    BY <1>5 DEF CreateDelay, FallsDue, CancelMarker, ReadMarkers, MarkerStep,
       KeepCommand, KeepRuntime
  <2> QED BY <1>1, <2>1, BackgroundKept, ForegroundKept, TasksInvParts
<1>6. CASE ShellCall
  BY <1>6, <1>3, <1>4, <1>5 DEF ShellCall
<1>7. CASE ShellPoll
  BY <1>7, <1>3 DEF ShellPoll
<1>8. CASE TaskControl
  BY <1>8, <1>3, <1>4, <1>5 DEF TaskControl
<1>9. CASE Programs
  BY <1>9, <1>3, <1>4, <1>5 DEF Programs
<1>10. CASE Descendants \/ Monitors \/ LogReaders \/ RuntimeEnds
  BY <1>10, <1>3, <1>4 DEF Descendants, Monitors, LogReaders, RuntimeEnds
<1>11. CASE \/ FileCall \/ OthersWrite \/ RuntimeRefresh
            \/ McpLoad \/ McpCall \/ McpWait \/ McpThreads \/ McpRemote
  BY <1>11, <1>2 DEF FileCall, OthersWrite, RuntimeRefresh, McpLoad, McpCall, McpWait,
     McpThreads, McpRemote
<1>12. CASE UNCHANGED vars
  BY <1>12, <1>2 DEF vars
<1> QED BY <1>6, <1>7, <1>8, <1>9, <1>10, <1>11, <1>12 DEF Next

\* A step of the monitor or of the program never loses or invents a process; what
\* is listed as over is over and what runs is listed, however stop, restart,
\* close_all and the monitor interleave (TaskHandle, monitor_process).
THEOREM ProcessesAreShown == Spec => []TasksTruthful
<1>1. TasksInv => TasksTruthful
  <2> SUFFICES ASSUME TasksInv PROVE TasksTruthful
    OBVIOUS
  <2>1. NoStrayProcess
    BY DEF TasksInv, TasksPlaced, CommandSound, NoStrayProcess, Reachable
  <2>2. RecordsTruthful
    BY DEF TasksInv, HandlesSound, HandleSound, RecordsTruthful
  <2> QED BY <2>1, <2>2 DEF TasksTruthful
<1> QED BY <1>1, InitTasks, NextTasks, PTL DEF Spec

-----------------------------------------------------------------------------
(* What the recursive functions of the file tools compute. *)

\* A non-empty set of numbers has a least element.
LEMMA LeastNumber ==
  ASSUME NEW T, T \subseteq Nat, T # {}
  PROVE  \E m \in T : \A k \in T : m <= k
<1> DEFINE R == OpToRel(<, Nat)
<1>1. IsWellFoundedOn(R, Nat)
  BY NatLessThanWellFounded
<1> HIDE DEF R
<1>2. PICK m \in T : \A k \in T : ~ (<<k, m>> \in R)
  BY <1>1, WFMin
<1>3. ASSUME NEW k \in T
      PROVE  m <= k
  <2>1. ~ (<<k, m>> \in R) /\ k \in Nat /\ m \in Nat
    BY <1>2
  <2>2. <<k, m>> \in Nat \X Nat /\ <<k, m>>[1] = k /\ <<k, m>>[2] = m
    BY <2>1
  <2>3. k < m => <<k, m>> \in R
    BY <2>2 DEF R, OpToRel
  <2> QED
    BY <2>1, <2>3
<1> QED
  BY <1>3

\* One that is bounded has a greatest one, which Max finds.
LEMMA Greatest ==
  ASSUME NEW S, S \subseteq Nat, S # {}, NEW b \in Nat, \A x \in S : x <= b
  PROVE  Max(S) \in S /\ \A x \in S : x <= Max(S)
<1> DEFINE T == {m \in Nat : \A x \in S : x <= m}
<1>1. PICK m \in T : \A k \in T : m <= k
  <2>1. T \subseteq Nat /\ b \in T
    OBVIOUS
  <2> HIDE DEF T
  <2> QED
    BY <2>1, LeastNumber
<1>2. m \in S
  <2> SUFFICES ASSUME m \notin S
               PROVE  FALSE
    OBVIOUS
  <2>1. \A x \in S : x < m
    OBVIOUS
  <2>2. m > 0
    <3>1. PICK x \in S : x \in Nat
      OBVIOUS
    <3> QED
      BY <2>1, <3>1
  <2>3. m - 1 \in T
    BY <2>1, <2>2
  <2> QED
    BY <1>1, <2>3
<1>3. m \in S /\ \A x \in S : m >= x
  BY <1>2
<1>4. Max(S) \in S /\ \A x \in S : Max(S) >= x
  BY <1>3 DEF Max
<1> QED
  BY <1>4

\* A set of numbers that holds 0 and the successor of each of its members up to n
\* holds the numbers up to n.
LEMMA UpTo ==
  ASSUME NEW S, NEW n \in Nat, 0 \in S, \A k \in 0..n : k \in S /\ k < n => k + 1 \in S
  PROVE  \A k \in 0..n : k \in S
<1> DEFINE T == {k \in 0..n : k \notin S}
<1>1. SUFFICES ASSUME T # {} PROVE FALSE
  OBVIOUS
<1>2. PICK m \in T : \A k \in T : m <= k
  <2>1. T \subseteq Nat /\ T # {}
    BY <1>1
  <2> HIDE DEF T
  <2> QED BY <2>1, LeastNumber
<1>3. m \in 0..n /\ m # 0 /\ m \notin S
  BY <1>2
<1>4. m - 1 \in 0..n /\ m - 1 < n /\ m - 1 \notin T
  BY <1>2, <1>3
<1>5. m - 1 \in S /\ (m - 1) + 1 = m
  BY <1>3, <1>4
<1> QED BY <1>3, <1>4, <1>5

FlattenUpTo(s, n) ==
  \E f : f = [i \in 1..n |-> IF i = 1 THEN s[i] ELSE f[i - 1] \o s[i]]

LEMMA FlattenDefined ==
  ASSUME NEW s, NEW n \in Nat
  PROVE  FlattenUpTo(s, n)
<1> DEFINE S == {k \in Nat : FlattenUpTo(s, k)}
<1>1. 0 \in S
  <2>1. << >> = [i \in 1..0 |-> IF i = 1 THEN s[i] ELSE << >>[i - 1] \o s[i]]
    OBVIOUS
  <2> QED BY <2>1 DEF FlattenUpTo
<1>2. ASSUME NEW k \in Nat, k \in S PROVE k + 1 \in S
  <2>1. PICK f : f = [i \in 1..k |-> IF i = 1 THEN s[i] ELSE f[i - 1] \o s[i]]
    BY <1>2 DEF FlattenUpTo
  <2> DEFINE last == IF k + 1 = 1 THEN s[k + 1] ELSE f[k] \o s[k + 1]
             g == [i \in 1..(k + 1) |-> IF i = k + 1 THEN last ELSE f[i]]
  <2> HIDE DEF last
  <2>2. \A i \in 1..k : f[i] = IF i = 1 THEN s[i] ELSE f[i - 1] \o s[i]
    BY <2>1
  <2>3. \A i \in 1..(k + 1) : g[i] = IF i = 1 THEN s[i] ELSE g[i - 1] \o s[i]
    <3> TAKE i \in 1..(k + 1)
    <3>1. CASE i = k + 1
      <4>1. g[i] = last
        BY <3>1
      <4>2. i # 1 => g[i - 1] = f[k]
        BY <3>1
      <4> QED BY <3>1, <4>1, <4>2 DEF last
    <3>2. CASE i # k + 1
      <4>1. i \in 1..k /\ g[i] = f[i] /\ (i # 1 => g[i - 1] = f[i - 1])
        BY <3>2
      <4> QED BY <2>2, <4>1
    <3> QED BY <3>1, <3>2
  <2>4. g = [i \in 1..(k + 1) |-> IF i = 1 THEN s[i] ELSE g[i - 1] \o s[i]]
    BY <2>3
  <2> HIDE DEF g
  <2>5. FlattenUpTo(s, k + 1)
    BY <2>4 DEF FlattenUpTo
  <2> QED BY <2>5
<1> HIDE DEF S
<1>3. \A k \in 0..n : k \in S
  BY <1>1, <1>2, UpTo
<1> QED BY <1>3 DEF S

LEMMA Elements ==
  ASSUME NEW X, NEW s \in Seq(X)
  PROVE  Len(s) \in Nat /\ \A i \in 1..Len(s) : s[i] \in X
  OBVIOUS

\* f joins the first n sequences of s one by one.
JoinsStepwise(f, s, n) ==
  \A i \in 1..n : f[i] = IF i = 1 THEN s[i] ELSE f[i - 1] \o s[i]

SequencesOver(s, n, X) == \A i \in 1..n : s[i] \in Seq(X)

JoinsAll(f, s, n, X) ==
  \A k \in 1..n : /\ f[k] \in Seq(X)
                  /\ Range(f[k]) = UNION {Range(s[i]) : i \in 1..k}

LEMMA FlattenStep ==
  ASSUME NEW X, NEW s, NEW f, NEW n \in Nat,
         SequencesOver(s, n, X), JoinsStepwise(f, s, n)
  PROVE  JoinsAll(f, s, n, X)
<1>0. /\ \A i \in 1..n : s[i] \in Seq(X)
      /\ \A i \in 1..n : f[i] = IF i = 1 THEN s[i] ELSE f[i - 1] \o s[i]
  BY DEF SequencesOver, JoinsStepwise
<1> DEFINE Joined(k) == UNION {Range(s[i]) : i \in 1..k}
           Good(k) == f[k] \in Seq(X) /\ Range(f[k]) = Joined(k)
           S == {k \in Nat : k \in 1..n => Good(k)}
<1>1. 0 \in S
  OBVIOUS
<1>2. ASSUME NEW k \in 0..n, k \in S, k < n PROVE k + 1 \in S
  <2>1. k + 1 \in 1..n /\ k + 1 \in Nat /\ s[k + 1] \in Seq(X) /\ (k + 1) - 1 = k
    BY <1>0, <1>2
  <2>2. Joined(k + 1) = Joined(k) \cup Range(s[k + 1])
    <3>1. 1..(k + 1) = 1..k \cup {k + 1}
      BY <1>2
    <3> QED BY <3>1
  <2>3. CASE k = 0
    <3>1. f[k + 1] = s[k + 1]
      BY <1>0, <2>1, <2>3
    <3>2. Joined(k) = {}
      BY <2>3
    <3> HIDE DEF Joined
    <3>3. Good(k + 1)
      BY <2>1, <2>2, <3>1, <3>2
    <3> QED BY <2>1, <3>3
  <2>4. CASE k # 0
    <3>1. Good(k)
      BY <1>2, <2>4
    <3>2. f[k + 1] = f[k] \o s[k + 1]
      <4>1. f[k + 1] = IF k + 1 = 1 THEN s[k + 1] ELSE f[(k + 1) - 1] \o s[k + 1]
        BY <1>0, <2>1, Zenon
      <4>2. k + 1 # 1
        BY <2>4, <1>2
      <4> QED BY <2>1, <4>1, <4>2, Zenon
    <3> DEFINE p == f[k]
               q == s[k + 1]
    <3>3. p \in Seq(X) /\ q \in Seq(X) /\ Range(p) = Joined(k)
      BY <2>1, <3>1
    <3>4. f[k + 1] = p \o q /\ Joined(k + 1) = Joined(k) \cup Range(q)
      BY <2>2, <3>2
    <3> HIDE DEF p, q, Joined
    <3>5. p \o q \in Seq(X) /\ Range(p \o q) = Range(p) \cup Range(q)
      BY <3>3, RangeConcatenation
    <3>6. Good(k + 1)
      BY <3>3, <3>4, <3>5
    <3> QED BY <2>1, <3>6
  <2> QED BY <2>3, <2>4
<1>3. \A k \in 0..n : k \in S
  <2> HIDE DEF S
  <2> QED BY <1>1, <1>2, UpTo
<1>4. \A k \in 1..n : k \in S
  <2> HIDE DEF S
  <2> QED BY <1>3
<1> QED BY <1>4 DEF JoinsAll

\* FlattenSeq joins its sequences: what it holds is what they hold.
LEMMA FlattenHolds ==
  ASSUME NEW X, NEW s \in Seq(Seq(X)), Len(s) # 0
  PROVE  /\ FlattenSeq(s) \in Seq(X)
         /\ Range(FlattenSeq(s)) = UNION {Range(s[i]) : i \in 1..Len(s)}
<1> DEFINE f == CHOOSE f : f = [i \in 1..Len(s) |-> IF i = 1 THEN s[i] ELSE f[i - 1] \o s[i]]
<1>1. FlattenSeq(s) = f[Len(s)]
  BY DEF FlattenSeq
<1>2. Len(s) \in Nat /\ Len(s) \in 1..Len(s) /\ \A i \in 1..Len(s) : s[i] \in Seq(X)
  OBVIOUS
<1>3. \E g : g = [i \in 1..Len(s) |-> IF i = 1 THEN s[i] ELSE g[i - 1] \o s[i]]
  BY <1>2, FlattenDefined DEF FlattenUpTo
<1>4. f = [i \in 1..Len(s) |-> IF i = 1 THEN s[i] ELSE f[i - 1] \o s[i]]
  BY <1>3
<1> HIDE DEF f
<1>5. \A i \in 1..Len(s) : f[i] = IF i = 1 THEN s[i] ELSE f[i - 1] \o s[i]
  BY <1>4
<1>6. \A k \in 1..Len(s) : /\ f[k] \in Seq(X)
                           /\ Range(f[k]) = UNION {Range(s[i]) : i \in 1..k}
  <2> DEFINE m == Len(s)
  <2>1. m \in Nat
    BY <1>2
  <2>3. SequencesOver(s, m, X)
    BY <1>2 DEF SequencesOver
  <2>4. JoinsStepwise(f, s, m)
    BY <1>5 DEF JoinsStepwise
  <2> HIDE DEF m
  <2>2. JoinsAll(f, s, m, X)
    BY <2>1, <2>3, <2>4, FlattenStep
  <2> QED BY <2>2 DEF m, JoinsAll
<1> QED BY <1>1, <1>2, <1>6

\* What a sequence of hunks makes of a file is a text or nothing.
HunksUpTo(lines, hunks, n) ==
  \E f : f = [i \in 0..n |-> IF i = 0 THEN lines ELSE ApplyHunk(f[i - 1], hunks[i])]

LEMMA AfterDefined ==
  ASSUME NEW lines, NEW hunks, NEW n \in Nat
  PROVE  HunksUpTo(lines, hunks, n)
<1> DEFINE S == {k \in Nat : HunksUpTo(lines, hunks, k)}
<1>1. 0 \in S
  <2> DEFINE g == [i \in 0..0 |-> lines]
  <2>1. g = [i \in 0..0 |-> IF i = 0 THEN lines ELSE ApplyHunk(g[i - 1], hunks[i])]
    OBVIOUS
  <2> HIDE DEF g
  <2> QED BY <2>1 DEF HunksUpTo
<1>2. ASSUME NEW k \in Nat, k \in S PROVE k + 1 \in S
  <2>1. PICK f : f = [i \in 0..k |-> IF i = 0 THEN lines ELSE ApplyHunk(f[i - 1], hunks[i])]
    BY <1>2 DEF HunksUpTo
  <2> DEFINE last == ApplyHunk(f[k], hunks[k + 1])
             g == [i \in 0..(k + 1) |-> IF i = k + 1 THEN last ELSE f[i]]
  <2> HIDE DEF last
  <2>2. \A i \in 0..k : f[i] = IF i = 0 THEN lines ELSE ApplyHunk(f[i - 1], hunks[i])
    BY <2>1
  <2>3. \A i \in 0..(k + 1) : g[i] = IF i = 0 THEN lines ELSE ApplyHunk(g[i - 1], hunks[i])
    <3> TAKE i \in 0..(k + 1)
    <3>1. CASE i = k + 1
      <4>1. g[i] = last /\ g[i - 1] = f[k] /\ i # 0
        BY <3>1
      <4> QED BY <3>1, <4>1 DEF last
    <3>2. CASE i # k + 1
      <4>1. i \in 0..k /\ g[i] = f[i] /\ (i # 0 => g[i - 1] = f[i - 1])
        BY <3>2
      <4> QED BY <2>2, <4>1
    <3> QED BY <3>1, <3>2
  <2>4. g = [i \in 0..(k + 1) |-> IF i = 0 THEN lines ELSE ApplyHunk(g[i - 1], hunks[i])]
    BY <2>3
  <2> HIDE DEF g
  <2>5. HunksUpTo(lines, hunks, k + 1)
    BY <2>4 DEF HunksUpTo
  <2> QED BY <2>5
<1> HIDE DEF S
<1>3. \A k \in 0..n : k \in S
  BY <1>1, <1>2, UpTo
<1> QED BY <1>3 DEF S

Maybe(lines) == lines \in Texts \cup {Absent}

LEMMA HunkTyped ==
  ASSUME NEW lines, Maybe(lines), NEW h \in [old : Texts, new : Texts]
  PROVE  Maybe(ApplyHunk(lines, h))
<1>1. CASE lines = Absent
  BY <1>1 DEF ApplyHunk, Maybe
<1>2. CASE lines # Absent /\ h.old = << >>
  BY <1>2 DEF ApplyHunk, Maybe, Texts
<1>3. CASE lines # Absent /\ h.old # << >>
  <2> DEFINE at == FindHunk(lines, h.old)
             i == CHOOSE i \in at : TRUE
  <2>1. lines \in Texts /\ h.old \in Texts /\ h.new \in Texts
    BY <1>3 DEF Maybe
  <2>2. at \subseteq 1..(Len(lines) - Len(h.old) + 1)
    BY DEF FindHunk
  <2>3. ApplyHunk(lines, h) =
          IF Cardinality(at) # 1 THEN Absent
          ELSE SubSeq(lines, 1, i - 1) \o h.new \o SubSeq(lines, i + Len(h.old), Len(lines))
    BY <1>3 DEF ApplyHunk
  <2>4. CASE Cardinality(at) # 1
    BY <2>3, <2>4 DEF Maybe
  <2>5. CASE Cardinality(at) = 1
    <3>1. at # {}
      BY <2>5, FS_EmptySet
    <3>2. i \in at
      BY <3>1
    <3> HIDE DEF i, at
    <3>3. i \in 1..(Len(lines) - Len(h.old) + 1)
      BY <2>2, <3>2
    <3>4. Len(lines) \in Nat /\ Len(h.old) \in Nat /\ Len(h.old) >= 1
      BY <2>1, <1>3 DEF Texts
    <3>5. SubSeq(lines, 1, i - 1) \in Texts
      BY <2>1, <3>3, <3>4 DEF Texts
    <3>6. SubSeq(lines, i + Len(h.old), Len(lines)) \in Texts
      BY <2>1, <3>3, <3>4 DEF Texts
    <3>7. SubSeq(lines, 1, i - 1) \o h.new \o SubSeq(lines, i + Len(h.old), Len(lines)) \in Texts
      BY <2>1, <3>5, <3>6 DEF Texts
    <3> QED BY <2>3, <2>5, <3>7 DEF Maybe
  <2> QED BY <2>4, <2>5
<1> QED BY <1>1, <1>2, <1>3

LEMMA HunkSteps ==
  ASSUME NEW lines, Maybe(lines), NEW hunks, NEW f, NEW n \in Nat,
         \A i \in 1..n : hunks[i] \in [old : Texts, new : Texts],
         \A i \in 0..n : f[i] = IF i = 0 THEN lines ELSE ApplyHunk(f[i - 1], hunks[i])
  PROVE  Maybe(f[n])
<1> DEFINE S == {k \in Nat : k <= n => Maybe(f[k])}
<1>1. 0 \in S
  OBVIOUS
<1>2. ASSUME NEW k \in 0..n, k \in S, k < n PROVE k + 1 \in S
  <2>1. /\ k + 1 \in 1..n /\ k + 1 \in 0..n /\ k + 1 # 0 /\ (k + 1) - 1 = k
        /\ k + 1 \in Nat /\ Maybe(f[k])
    BY <1>2
  <2>2. f[k + 1] = ApplyHunk(f[k], hunks[k + 1])
    BY <2>1
  <2>3. hunks[k + 1] \in [old : Texts, new : Texts]
    BY <2>1
  <2>4. Maybe(f[k + 1])
    BY <2>1, <2>2, <2>3, HunkTyped
  <2> QED BY <2>1, <2>4
<1>3. \A k \in 0..n : k \in S
  <2> HIDE DEF S
  <2> QED BY <1>1, <1>2, UpTo
<1> QED BY <1>3

LEMMA HunksTyped ==
  ASSUME NEW lines, Maybe(lines), NEW hunks \in Seq([old : Texts, new : Texts])
  PROVE  Maybe(ApplyHunks(lines, hunks))
<1> DEFINE f == CHOOSE f : f = [n \in 0..Len(hunks) |->
                                  IF n = 0 THEN lines ELSE ApplyHunk(f[n - 1], hunks[n])]
<1>1. ApplyHunks(lines, hunks) = f[Len(hunks)]
  BY DEF ApplyHunks
<1>2. Len(hunks) \in Nat /\ \A i \in 1..Len(hunks) : hunks[i] \in [old : Texts, new : Texts]
  BY Elements
<1>3. \E g : g = [n \in 0..Len(hunks) |->
                    IF n = 0 THEN lines ELSE ApplyHunk(g[n - 1], hunks[n])]
  <2> DEFINE m == Len(hunks)
  <2>1. m \in Nat
    BY <1>2
  <2> HIDE DEF m
  <2>2. HunksUpTo(lines, hunks, m)
    BY <2>1, AfterDefined
  <2> QED BY <2>2 DEF HunksUpTo, m
<1>4. f = [n \in 0..Len(hunks) |-> IF n = 0 THEN lines ELSE ApplyHunk(f[n - 1], hunks[n])]
  BY <1>3
<1> HIDE DEF f
<1>5. \A i \in 0..Len(hunks) : f[i] = IF i = 0 THEN lines ELSE ApplyHunk(f[i - 1], hunks[i])
  BY <1>4
<1>6. Maybe(f[Len(hunks)])
  BY <1>2, <1>5, HunkSteps
<1> QED BY <1>1, <1>6

LEMMA NoWidth == SumWidth(<< >>) = 0
<1> DEFINE f == CHOOSE f : f = [n \in 0..0 |-> IF n = 0 THEN 0
                                               ELSE f[n - 1] + Width[<< >>[n]]]
           g == [n \in 0..0 |-> 0]
<1>1. g = [n \in 0..0 |-> IF n = 0 THEN 0 ELSE g[n - 1] + Width[<< >>[n]]]
  OBVIOUS
<1>2. f = [n \in 0..0 |-> IF n = 0 THEN 0 ELSE f[n - 1] + Width[<< >>[n]]]
  BY <1>1
<1> HIDE DEF f
<1>3. f[0] = 0
  BY <1>2
<1>4. Len(<< >>) = 0
  OBVIOUS
<1> QED BY <1>3, <1>4 DEF SumWidth, f

\* A patch that distinguishes its files by their number has no file twice.
LEMMA DistinctPaths ==
  ASSUME NEW plan, NEW X, plan \in Seq(X), Cardinality(TargetsOf(plan)) = Len(plan)
  PROVE  \A i, j \in DOMAIN plan : i # j => plan[i].path # plan[j].path
<1> DEFINE D == 1..Len(plan)
           T == TargetsOf(plan)
           f == [i \in D |-> plan[i].path]
<1>1. DOMAIN plan = D /\ T = {plan[i].path : i \in D}
  BY DEF TargetsOf
<1>2. f \in Surjection(D, T)
  BY <1>1 DEF Surjection
<1>3. IsFiniteSet(D) /\ Cardinality(D) = Len(plan)
  <2>1. Len(plan) \in Nat
    OBVIOUS
  <2> DEFINE m == Len(plan)
  <2>2. m \in Nat
    BY <2>1
  <2> HIDE DEF m
  <2>3. IsFiniteSet(1..m) /\ Cardinality(1..m) = m
    <3>1. 1 \in Int /\ m \in Int
      BY <2>2
    <3>2. /\ IsFiniteSet(1..m)
          /\ Cardinality(1..m) = IF 1 > m THEN 0 ELSE m - 1 + 1
      BY <3>1, FS_Interval
    <3> QED BY <2>2, <3>2
  <2> QED BY <2>3 DEF m
<1>4. f \in Injection(D, T)
  <2>1. Cardinality(T) = Cardinality(D)
    BY <1>3
  <2> HIDE DEF D, T, f
  <2> QED BY <1>2, <1>3, <2>1, FS_Surjection
<1>5. \A i, j \in D : f[i] = f[j] => i = j
  BY <1>4 DEF Injection, IsInjective
<1> QED BY <1>1, <1>5

-----------------------------------------------------------------------------
(* What the file tools do to the workspace. *)

MaybeTexts == Texts \cup {Absent}

EffectType == [path : Paths, before : MaybeTexts, after : MaybeTexts]

CallType ==
  [tool : {"none", "read_file", "read_image", "apply_patch"},
   st : {"idle", "asking", "admitted", "checking", "applying", "rolling", "done"},
   name : Names \cup {NoOp.name}, limit : Nat, patch : Seq(Operations),
   targets : SUBSET Paths, approved : BOOLEAN, plan : Seq(EffectType), at : Nat,
   result : {"none", "refused", "denied", "read", "failed", "applied", "rolledBack",
             "rollbackFailed"}]

FileTypeOK ==
  /\ files \in [Paths -> MaybeTexts]
  /\ resolve \in [Names -> Paths]
  /\ op \in CallType
  /\ op.tool = "read_file" => op.limit # 0
  /\ foreign \in [early : SUBSET Paths, late : SUBSET Paths]

\* An operation that leaves every file it names in place.
LeavesFiles(o) == \/ o.kind = "add" /\ o.lines # Absent
                  \/ o.kind = "update" /\ o.to = o.name

\* What an effect of a patch may do under the access of the Turn.
EffectAllowed(e) ==
  /\ files[e.path] = e.before
  /\ access.locked => IsSessionArtifact(e.path)

LEMMA OneEffect ==
  ASSUME NEW X, NEW e \in X
  PROVE  <<e>> \in Seq(X) /\ Range(<<e>>) = {e} /\ <<e>> # << >>
  BY DEF Range

LEMMA TwoEffects ==
  ASSUME NEW X, NEW e \in X, NEW f \in X
  PROVE  <<e, f>> \in Seq(X) /\ Range(<<e, f>>) = {e, f} /\ <<e, f>> # << >>
<1>1. DOMAIN <<e, f>> = {1, 2}
  OBVIOUS
<1> QED BY <1>1 DEF Range

LEMMA NoEffect ==
  ASSUME NEW X
  PROVE  << >> \in Seq(X) /\ Range(<< >>) = {}
  BY DEF Range

LEMMA NotEmpty ==
  ASSUME NEW X, NEW s \in Seq(X), Range(s) = {}
  PROVE  s = << >>
<1>1. 1 \notin DOMAIN s
  BY DEF Range
<1> QED BY <1>1

\* The effects of one operation on the files as they are.
LEMMA EffectsFacts ==
  ASSUME files \in [Paths -> MaybeTexts], resolve \in [Names -> Paths],
         NEW o \in Operations
  PROVE  /\ Effects(o) \in Seq(EffectType)
         /\ \A e \in Range(Effects(o)) : EffectAllowed(e)
         /\ LeavesFiles(o) => \A e \in Range(Effects(o)) : e.after # Absent
         /\ Effects(o) # << >> /\ (\A e \in Range(Effects(o)) : e.after # Absent)
              => LeavesFiles(o)
<1> DEFINE p == resolve[o.name]
           q == resolve[o.to]
           updated == ApplyHunks(files[p], o.hunks)
           readable == MutatePath(p) /\ p \notin Images /\ updated # Absent
           Fact(s) == /\ s \in Seq(EffectType)
                      /\ \A e \in Range(s) : EffectAllowed(e)
                      /\ LeavesFiles(o) => \A e \in Range(s) : e.after # Absent
                      /\ s # << >> /\ (\A e \in Range(s) : e.after # Absent)
                           => LeavesFiles(o)
<1>1. /\ p \in Paths /\ q \in Paths
      /\ files[p] \in MaybeTexts /\ files[q] \in MaybeTexts
      /\ o.lines \in MaybeTexts /\ Absent \in MaybeTexts
      /\ o.hunks \in Seq([old : Texts, new : Texts])
      /\ o.kind \in {"add", "delete", "update"}
  BY DEF Operations, MaybeTexts
<1>2. updated \in MaybeTexts
  <2>1. Maybe(files[p])
    BY <1>1 DEF Maybe, MaybeTexts
  <2>2. Maybe(updated)
    BY <1>1, <2>1, HunksTyped
  <2> QED BY <2>2 DEF Maybe, MaybeTexts
<1>3. /\ o.kind = "add" => Effects(o) = IF CreatePath(p) /\ files[p] = Absent
                                        THEN <<Effect(p, Absent, o.lines)>> ELSE << >>
      /\ o.kind = "delete" => Effects(o) = IF MutatePath(p)
                                           THEN <<Effect(p, files[p], Absent)>> ELSE << >>
      /\ o.kind = "update" /\ o.to = o.name =>
           Effects(o) = IF readable THEN <<Effect(p, files[p], updated)>> ELSE << >>
      /\ o.kind = "update" /\ o.to # o.name =>
           Effects(o) = IF readable /\ p # q /\ CreatePath(q) /\ files[q] = Absent
                        THEN <<Effect(p, files[p], Absent), Effect(q, Absent, updated)>>
                        ELSE << >>
  BY DEF Effects
<1> HIDE DEF updated, p, q
<1>4. Fact(<< >>)
  BY NoEffect
<1>5. /\ MutatePath(p) => (access.locked => IsSessionArtifact(p))
      /\ CreatePath(p) => (access.locked => IsSessionArtifact(p))
      /\ CreatePath(q) => (access.locked => IsSessionArtifact(q))
  BY DEF MutatePath, CreatePath
<1>6. \A r \in Paths, b, a \in MaybeTexts :
        /\ Effect(r, b, a) \in EffectType
        /\ Effect(r, b, a).after = a
        /\ (files[r] = b /\ (access.locked => IsSessionArtifact(r)))
             => EffectAllowed(Effect(r, b, a))
  BY DEF Effect, EffectType, EffectAllowed
<1>7. CASE o.kind = "add"
  <2>1. CASE CreatePath(p) /\ files[p] = Absent
    <3> DEFINE e == Effect(p, Absent, o.lines)
    <3>1. e \in EffectType /\ EffectAllowed(e) /\ e.after = o.lines
      BY <1>1, <1>5, <1>6, <2>1
    <3>2. Effects(o) = <<e>>
      BY <1>3, <1>7, <2>1
    <3> HIDE DEF e
    <3>3. <<e>> \in Seq(EffectType) /\ Range(<<e>>) = {e}
      BY <3>1, OneEffect
    <3> QED BY <1>7, <3>1, <3>2, <3>3 DEF LeavesFiles
  <2>2. CASE ~(CreatePath(p) /\ files[p] = Absent)
    BY <1>3, <1>4, <1>7, <2>2
  <2> QED BY <2>1, <2>2
<1>8. CASE o.kind = "delete"
  <2>1. CASE MutatePath(p)
    <3> DEFINE e == Effect(p, files[p], Absent)
    <3>1. e \in EffectType /\ EffectAllowed(e) /\ e.after = Absent
      BY <1>1, <1>5, <1>6, <2>1
    <3>2. Effects(o) = <<e>>
      BY <1>3, <1>8, <2>1
    <3> HIDE DEF e
    <3>3. <<e>> \in Seq(EffectType) /\ Range(<<e>>) = {e}
      BY <3>1, OneEffect
    <3> QED BY <1>8, <3>1, <3>2, <3>3 DEF LeavesFiles
  <2>2. CASE ~MutatePath(p)
    BY <1>3, <1>4, <1>8, <2>2
  <2> QED BY <2>1, <2>2
<1>9. CASE o.kind = "update" /\ o.to = o.name
  <2>1. CASE readable
    <3> DEFINE e == Effect(p, files[p], updated)
    <3>1. e \in EffectType /\ EffectAllowed(e) /\ e.after = updated /\ updated # Absent
      BY <1>1, <1>2, <1>5, <1>6, <2>1
    <3>2. Effects(o) = <<e>>
      BY <1>3, <1>9, <2>1
    <3> HIDE DEF e
    <3>3. <<e>> \in Seq(EffectType) /\ Range(<<e>>) = {e}
      BY <3>1, OneEffect
    <3> QED BY <1>9, <3>1, <3>2, <3>3 DEF LeavesFiles
  <2>2. CASE ~readable
    BY <1>3, <1>4, <1>9, <2>2
  <2> QED BY <2>1, <2>2
<1>10. CASE o.kind = "update" /\ o.to # o.name
  <2>1. CASE readable /\ p # q /\ CreatePath(q) /\ files[q] = Absent
    <3> DEFINE e == Effect(p, files[p], Absent)
               f == Effect(q, Absent, updated)
    <3>1. /\ e \in EffectType /\ EffectAllowed(e) /\ e.after = Absent
          /\ f \in EffectType /\ EffectAllowed(f)
      BY <1>1, <1>2, <1>5, <1>6, <2>1
    <3>2. Effects(o) = <<e, f>>
      BY <1>3, <1>10, <2>1
    <3> HIDE DEF e, f
    <3>3. <<e, f>> \in Seq(EffectType) /\ Range(<<e, f>>) = {e, f}
      BY <3>1, TwoEffects
    <3> QED BY <1>10, <3>1, <3>2, <3>3 DEF LeavesFiles
  <2>2. CASE ~(readable /\ p # q /\ CreatePath(q) /\ files[q] = Absent)
    BY <1>3, <1>4, <1>10, <2>2
  <2> QED BY <2>1, <2>2
<1> QED BY <1>1, <1>7, <1>8, <1>9, <1>10

\* The plan of a patch has the effects of its operations.
LEMMA PlanTyped ==
  ASSUME files \in [Paths -> MaybeTexts], resolve \in [Names -> Paths],
         NEW ops \in Seq(Operations)
  PROVE  /\ PlanOf(ops) \in Seq(EffectType)
         /\ TargetsOf(PlanOf(ops)) \subseteq Paths
         /\ ops # << >> => Range(PlanOf(ops)) = UNION {Range(Effects(ops[i])) : i \in DOMAIN ops}
<1> DEFINE s == [i \in DOMAIN ops |-> Effects(ops[i])]
<1>1. DOMAIN ops = 1..Len(ops) /\ Len(ops) \in Nat /\ \A i \in 1..Len(ops) : ops[i] \in Operations
  <2>1. Len(ops) \in Nat /\ \A i \in 1..Len(ops) : ops[i] \in Operations
    BY Elements
  <2> QED BY <2>1
<1>2. \A i \in 1..Len(ops) : Effects(ops[i]) \in Seq(EffectType)
  BY <1>1, EffectsFacts
<1>3. /\ s \in Seq(Seq(EffectType)) /\ Len(s) = Len(ops)
      /\ \A i \in 1..Len(ops) : s[i] = Effects(ops[i])
  BY <1>1, <1>2
<1>4. PlanOf(ops) = FlattenSeq(s)
  BY DEF PlanOf
<1> HIDE DEF s
<1>5. CASE ops = << >>
  <2>1. Len(s) = 0
    BY <1>3, <1>5
  <2>2. FlattenSeq(s) = s
    BY <2>1 DEF FlattenSeq
  <2>3. s = << >>
    BY <1>3, <2>1
  <2>4. PlanOf(ops) = << >>
    BY <1>4, <2>2, <2>3
  <2>5. << >> \in Seq(EffectType)
    BY NoEffect
  <2>6. TargetsOf(<< >>) = {}
    BY DEF TargetsOf
  <2> QED BY <1>5, <2>4, <2>5, <2>6
<1>6. CASE ops # << >>
  <2>1. Len(s) # 0
    BY <1>3, <1>6
  <2>2. /\ PlanOf(ops) \in Seq(EffectType)
        /\ Range(PlanOf(ops)) = UNION {Range(s[i]) : i \in 1..Len(s)}
    BY <1>3, <1>4, <2>1, FlattenHolds
  <2>3. UNION {Range(s[i]) : i \in 1..Len(s)} = UNION {Range(Effects(ops[i])) : i \in DOMAIN ops}
    BY <1>1, <1>3
  <2>4. \A i \in DOMAIN PlanOf(ops) : PlanOf(ops)[i] \in EffectType
    <3> DEFINE plan == PlanOf(ops)
    <3>1. plan \in Seq(EffectType)
      BY <2>2
    <3> HIDE DEF plan
    <3>2. \A i \in DOMAIN plan : plan[i] \in EffectType
      BY <3>1
    <3> QED BY <3>2 DEF plan
  <2>5. TargetsOf(PlanOf(ops)) \subseteq Paths
    BY <2>4 DEF TargetsOf, EffectType
  <2> QED BY <2>2, <2>3, <2>5
<1> QED BY <1>5, <1>6

\* A prepared patch: its plan is not empty, names no file twice and fits the files
\* as they are; whether it removes a file does not depend on them.
LEMMA PlanFacts ==
  ASSUME files \in [Paths -> MaybeTexts], resolve \in [Names -> Paths],
         NEW ops \in Seq(Operations), Prepared(ops), NEW plan, plan = PlanOf(ops)
  PROVE  /\ plan \in Seq(EffectType) /\ Len(plan) \in Nat \ {0}
         /\ \A i, j \in DOMAIN plan : i # j => plan[i].path # plan[j].path
         /\ \A i \in DOMAIN plan : EffectAllowed(plan[i])
         /\ (\A e \in Range(plan) : e.after # Absent)
              <=> \A i \in DOMAIN ops : LeavesFiles(ops[i])
<1>1. /\ ops # << >>
      /\ \A i \in DOMAIN ops : Effects(ops[i]) # << >>
      /\ Cardinality(TargetsOf(plan)) = Len(plan)
  <2>1. Len(ops) \in 1..MaxFiles
    BY DEF Prepared, WellFormed
  <2>2. ops # << >>
    BY <2>1
  <2> QED BY <2>2 DEF Prepared
<1>2. /\ plan \in Seq(EffectType)
      /\ Range(plan) = UNION {Range(Effects(ops[i])) : i \in DOMAIN ops}
  BY <1>1, PlanTyped
<1>3. \A i \in DOMAIN ops : ops[i] \in Operations
  BY Elements
<1>4. \A i \in DOMAIN ops :
        /\ Effects(ops[i]) \in Seq(EffectType)
        /\ \A e \in Range(Effects(ops[i])) : EffectAllowed(e)
        /\ LeavesFiles(ops[i]) => \A e \in Range(Effects(ops[i])) : e.after # Absent
        /\ (\A e \in Range(Effects(ops[i])) : e.after # Absent) => LeavesFiles(ops[i])
  BY <1>1, <1>3, EffectsFacts
<1>5. \A e \in Range(plan) : EffectAllowed(e)
  BY <1>2, <1>4
<1>6. (\A e \in Range(plan) : e.after # Absent) <=> \A i \in DOMAIN ops : LeavesFiles(ops[i])
  BY <1>2, <1>4
<1>7. \A i \in DOMAIN plan : EffectAllowed(plan[i])
  BY <1>5 DEF Range
<1>8. Len(plan) # 0
  <2>1. SUFFICES ASSUME Len(plan) = 0 PROVE FALSE
    OBVIOUS
  <2>2. Range(plan) = {}
    BY <1>2, <2>1 DEF Range
  <2>3. 1 \in DOMAIN ops
    BY <1>1
  <2>4. Range(Effects(ops[1])) = {}
    BY <1>2, <2>2, <2>3
  <2>5. Effects(ops[1]) \in Seq(EffectType) /\ Effects(ops[1]) # << >>
    BY <1>1, <1>4, <2>3
  <2> QED BY <2>4, <2>5, NotEmpty
<1>9. \A i, j \in DOMAIN plan : i # j => plan[i].path # plan[j].path
  BY <1>1, <1>2, DistinctPaths
<1>10. Len(plan) \in Nat \ {0}
  BY <1>2, <1>8
<1> QED BY <1>2, <1>6, <1>7, <1>9, <1>10

-----------------------------------------------------------------------------
(* The invariant. *)

\* How far the patch in flight has come, whatever the others wrote meanwhile.
PatchProgress ==
  LET n == Len(op.plan)
      P(i) == op.plan[i].path
  IN  /\ ~overwrote
      /\ \A i, j \in 1..n : i # j => P(i) # P(j)
      /\ op.st \in {"idle", "asking", "admitted"} => n = 0
      /\ op.st \in {"checking", "applying", "rolling"} =>
           op.tool = "apply_patch" /\ op.at \in 1..n
      /\ op.st = "checking" =>
           /\ \A i \in 1..n : P(i) \notin foreign.early \cup foreign.late
                                => files[P(i)] = op.plan[i].before
           /\ \A p \in foreign.early : \E i \in op.at..n : P(i) = p
      /\ op.st = "applying" =>
           /\ foreign.early = {}
           /\ \A i \in 1..n : P(i) \notin foreign.late =>
                files[P(i)] = IF i < op.at THEN op.plan[i].after ELSE op.plan[i].before
      /\ op.st = "rolling" =>
           /\ Undone # {}
           /\ \A i \in (1..n) \ {op.at} :
                P(i) \notin foreign.late /\ (i < op.at => P(i) \notin op.targets)
                => files[P(i)] = op.plan[i].before
      /\ op.st = "done" /\ op.tool = "apply_patch" =>
           \A i \in 1..n : P(i) \notin foreign.early \cup foreign.late =>
             /\ op.result = "applied" => files[P(i)] = op.plan[i].after
             /\ op.result = "failed" => files[P(i)] = op.plan[i].before
             /\ op.result = "rolledBack" /\ i # op.at => files[P(i)] = op.plan[i].before

\* The patch in flight is about the files it was admitted for.
Targeted ==
  op.st \in {"checking", "applying"} =>
    \A i \in DOMAIN op.plan : op.plan[i].path \in op.targets

\* What was found when the call was admitted, and again when it ran.
CallAdmitted ==
  /\ Targeted
  /\ op.st = "admitted" /\ op.tool = "apply_patch" /\ ~op.approved =>
       /\ \A p \in op.targets : IsSessionArtifact(p) \/ IsWritePath(p)
       /\ \A i \in DOMAIN op.patch : LeavesFiles(op.patch[i])
  /\ op.st = "checking" =>
       \A i \in DOMAIN op.plan :
         LET e == op.plan[i]
         IN  /\ e.path \in op.targets
             /\ access.locked => IsSessionArtifact(e.path)
             /\ op.approved \/ /\ e.after # Absent
                               /\ IsSessionArtifact(e.path) \/ IsWritePath(e.path)

\* The pages read so far show the text up to the announced offset.
WalkSound ==
  /\ walk = [path |-> walk.path, text |-> walk.text, same |-> walk.same,
             seen |-> walk.seen, next |-> walk.next]
  /\ walk.next \in Nat
  /\ walk.same \in BOOLEAN
  /\ walk.same => /\ walk.text \in Texts
                  /\ walk.next <= Len(walk.text)
                  /\ walk.seen = [i \in 1..(IF walk.next = 0 THEN Len(walk.text)
                                            ELSE walk.next) |-> i]

BudgetSound ==
  /\ budget = [bytes |-> budget.bytes, stale |-> budget.stale]
  /\ budget.bytes <= SkillWidth

FilesInv == FileTypeOK /\ PatchProgress /\ CallAdmitted /\ WalkSound /\ BudgetSound

\* The part of the invariant that a call in flight is about.
CallInv == FileTypeOK /\ PatchProgress /\ CallAdmitted

LEMMA InitFiles == Init => FilesInv
<1> SUFFICES ASSUME NEW s \in Scenarios, FileInit(s.access, s.files) PROVE FilesInv
  BY DEF Init
<1>1. /\ files = Initial /\ resolve = Resolved /\ op = NoOp
      /\ budget = [bytes |-> 0, stale |-> FALSE]
      /\ walk = [path |-> CHOOSE p \in Paths : TRUE, text |-> << >>, same |-> FALSE,
                 seen |-> << >>, next |-> 0]
      /\ foreign = [early |-> {}, late |-> {}]
      /\ overwrote = FALSE
  BY DEF FileInit
<1>2. << >> \in Seq(Operations) /\ << >> \in Seq(EffectType) /\ Len(<< >>) = 0
  OBVIOUS
<1>3. NoOp \in CallType /\ NoOp.plan = << >> /\ NoOp.st = "idle" /\ NoOp.tool = "none"
  BY <1>2 DEF NoOp, CallType
<1>4. FileTypeOK
  BY <1>1, <1>3, TextsAssumption, ResolvedAssumption DEF FileTypeOK, MaybeTexts
<1>5. PatchProgress
  BY <1>1, <1>2, <1>3 DEF PatchProgress
<1>6. CallAdmitted
  BY <1>1, <1>3 DEF CallAdmitted, Targeted
<1>7. WalkSound /\ BudgetSound
  BY <1>1, FileBounds DEF WalkSound, BudgetSound
<1> QED BY <1>4, <1>5, <1>6, <1>7 DEF FilesInv

LEMMA WalkKept ==
  ASSUME WalkSound, UNCHANGED walk
  PROVE  WalkSound'
  BY DEF WalkSound

LEMMA BudgetKept ==
  ASSUME BudgetSound, UNCHANGED budget
  PROVE  BudgetSound'
  BY DEF BudgetSound

LEMMA CallKept ==
  ASSUME CallInv, UNCHANGED <<files, resolve, access, op, foreign, overwrote>>
  PROVE  CallInv'
  BY DEF CallInv, FileTypeOK, PatchProgress, CallAdmitted, Targeted, Undone, IsSessionArtifact,
     IsWritePath, LeavesFiles

-----------------------------------------------------------------------------
(* A call is admitted, answered or read. *)

\* A call without a plan has nothing to keep.
LEMMA NothingPlanned ==
  ASSUME CallInv, op' \in CallType, op'.plan = << >>,
         op'.st \in {"asking", "admitted", "done"},
         op'.tool = "read_file" => op'.limit # 0,
         UNCHANGED <<files, resolve, access, foreign, overwrote>>,
         op'.st = "admitted" /\ op'.tool = "apply_patch" /\ ~op'.approved =>
           /\ \A p \in op'.targets : IsSessionArtifact(p) \/ IsWritePath(p)
           /\ \A i \in DOMAIN op'.patch : LeavesFiles(op'.patch[i])
  PROVE  CallInv'
<1>1. Len(op'.plan) = 0
  OBVIOUS
<1>2. FileTypeOK'
  BY DEF CallInv, FileTypeOK
<1>3. PatchProgress'
  BY <1>1 DEF CallInv, PatchProgress
<1>4. CallAdmitted'
  BY DEF CallAdmitted, Targeted, IsSessionArtifact, IsWritePath, LeavesFiles
<1> QED BY <1>2, <1>3, <1>4 DEF CallInv

LEMMA ReadAdmissionKeeps ==
  ASSUME CallInv, NEW tool \in {"read_file", "read_image"}, NEW n \in Names,
         NEW limit \in Nat, tool = "read_file" => limit # 0, ReadAdmission(tool, n, limit)
  PROVE  CallInv'
<1> DEFINE f == LocalFile(n)
<1>1. /\ op' = [NoOp EXCEPT !.tool = tool, !.name = n, !.limit = limit,
                   !.targets = {f.path},
                   !.st = IF ~f.ok THEN "done"
                          ELSE IF f.approval THEN "asking" ELSE "admitted",
                   !.result = IF f.ok THEN "none" ELSE "refused"]
      /\ UNCHANGED <<files, resolve, access, foreign, overwrote>>
  BY DEF ReadAdmission
<1>2. f.path \in Paths
  BY DEF LocalFile, CallInv, FileTypeOK
<1>3. << >> \in Seq(Operations) /\ << >> \in Seq(EffectType)
  OBVIOUS
<1> HIDE DEF f
<1>4. op' \in CallType /\ op'.plan = << >> /\ op'.st \in {"asking", "admitted", "done"}
      /\ op'.tool = tool /\ op'.limit = limit
  BY <1>1, <1>2, <1>3 DEF NoOp, CallType
<1> QED BY <1>1, <1>4, NothingPlanned

LEMMA PatchAdmissionKeeps ==
  ASSUME CallInv, NEW ops \in Patches, PatchAdmission(ops)
  PROVE  CallInv'
<1> DEFINE plan == PlanOf(ops)
<1>1. /\ op' = [NoOp EXCEPT !.tool = "apply_patch", !.patch = ops,
                    !.targets = TargetsOf(plan),
                    !.st = IF ~Prepared(ops) THEN "done"
                           ELSE IF PatchNeedsApproval(plan) THEN "asking"
                           ELSE "admitted",
                    !.result = IF Prepared(ops) THEN "none" ELSE "refused"]
      /\ UNCHANGED <<files, resolve, access, foreign, overwrote>>
  BY DEF PatchAdmission
<1>2. ops \in Seq(Operations)
  BY PatchesAssumption
<1>3. plan \in Seq(EffectType) /\ TargetsOf(plan) \subseteq Paths
  BY <1>2, PlanTyped DEF CallInv, FileTypeOK
<1>4. << >> \in Seq(Operations) /\ << >> \in Seq(EffectType)
  OBVIOUS
<1>5. ASSUME Prepared(ops), ~PatchNeedsApproval(plan)
      PROVE  /\ \A p \in TargetsOf(plan) : IsSessionArtifact(p) \/ IsWritePath(p)
             /\ \A i \in DOMAIN ops : LeavesFiles(ops[i])
  <2>1. /\ \A e \in Range(plan) : IsSessionArtifact(e.path) \/ IsWritePath(e.path)
        /\ \A e \in Range(plan) : e.after # Absent
    BY <1>5 DEF PatchNeedsApproval
  <2>2. \A p \in TargetsOf(plan) : \E e \in Range(plan) : p = e.path
    BY DEF TargetsOf, Range
  <2>3. \A i \in DOMAIN ops : LeavesFiles(ops[i])
    <3>1. (\A e \in Range(plan) : e.after # Absent)
            <=> \A i \in DOMAIN ops : LeavesFiles(ops[i])
      BY <1>2, <1>5, PlanFacts DEF CallInv, FileTypeOK
    <3> QED BY <2>1, <3>1
  <2> QED BY <2>1, <2>2, <2>3
<1> HIDE DEF plan
<1>6. /\ op' \in CallType /\ op'.plan = << >> /\ op'.st \in {"asking", "admitted", "done"}
      /\ op'.st = "admitted" => Prepared(ops) /\ ~PatchNeedsApproval(plan)
      /\ op'.targets = TargetsOf(plan) /\ op'.patch = ops /\ op'.tool = "apply_patch"
  BY <1>1, <1>2, <1>3, <1>4 DEF NoOp, CallType
<1> QED BY <1>1, <1>5, <1>6, NothingPlanned

LEMMA AnswerKeeps ==
  ASSUME CallInv, Approve \/ Deny
  PROVE  CallInv'
<1>1. /\ op.st = "asking" /\ UNCHANGED <<files, resolve, access, foreign, overwrote>>
      /\ \/ op' = [op EXCEPT !.st = "admitted", !.approved = TRUE]
         \/ op' = [op EXCEPT !.st = "done", !.result = "denied"]
  BY DEF Approve, Deny, Finish
<1>2. op \in CallType
  BY DEF CallInv, FileTypeOK
<1>3. /\ op' \in CallType /\ op'.plan = op.plan /\ op'.st \in {"admitted", "done"}
      /\ op'.tool = op.tool /\ op'.limit = op.limit
      /\ op'.st = "admitted" => op'.approved
  BY <1>1, <1>2 DEF CallType
<1>4. op.plan = << >>
  <2>1. Len(op.plan) = 0
    BY <1>1 DEF CallInv, PatchProgress
  <2>2. op.plan \in Seq(EffectType)
    BY <1>2 DEF CallType
  <2> QED BY <2>1, <2>2
<1>5. op.tool = "read_file" => op.limit # 0
  BY DEF CallInv, FileTypeOK
<1> QED BY <1>1, <1>3, <1>4, <1>5, NothingPlanned

\* A call that ends before it has a plan.
LEMMA EndsUnplanned ==
  ASSUME CallInv, op.st = "admitted",
         NEW outcome \in {"read", "failed"}, Finish(outcome),
         UNCHANGED <<files, resolve, access, foreign, overwrote>>
  PROVE  CallInv'
<1>1. op' = [op EXCEPT !.st = "done", !.result = outcome] /\ op \in CallType
  BY DEF Finish, CallInv, FileTypeOK
<1>2. /\ op' \in CallType /\ op'.plan = op.plan /\ op'.st = "done"
      /\ op'.tool = op.tool /\ op'.limit = op.limit
  BY <1>1 DEF CallType
<1>3. op.plan = << >>
  <2>1. Len(op.plan) = 0
    BY DEF CallInv, PatchProgress
  <2>2. op.plan \in Seq(EffectType)
    BY <1>1 DEF CallType
  <2> QED BY <2>1, <2>2
<1>4. op.tool = "read_file" => op.limit # 0
  BY DEF CallInv, FileTypeOK
<1> QED BY <1>2, <1>3, <1>4, NothingPlanned

LEMMA MinOfTwo ==
  ASSUME NEW a \in Nat, NEW b \in Nat
  PROVE  /\ Min({a, b}) \in {a, b}
         /\ Min({a, b}) <= a /\ Min({a, b}) <= b
<1>1. \E x \in {a, b} : \A y \in {a, b} : x <= y
  OBVIOUS
<1>2. Min({a, b}) \in {a, b} /\ \A y \in {a, b} : Min({a, b}) <= y
  BY <1>1 DEF Min
<1> QED BY <1>2

\* Where a page begins and ends: it does not go back, and it announces another
\* page unless it shows the end of the text.
LEMMA PageFacts ==
  ASSUME NEW text \in Texts, NEW offset \in Nat, NEW limit \in Nat \ {0}
  PROVE  LET page == Page(text, offset, limit)
             n == Len(text)
         IN  \E from, stop \in 0..n :
               /\ from <= stop /\ (from < n => from < stop)
               /\ from = IF offset <= n THEN offset ELSE n
               /\ page.first = from + 1 /\ page.last = stop
               /\ page.next = IF stop < n THEN stop ELSE 0
<1> DEFINE n == Len(text)
           end == Min({offset + limit, n})
           from == Min({offset, n})
           K == {k \in 0..(end - from) : SumWidth(SubSeq(text, from + 1, from + k)) <= PageWidth}
           whole == Max(K)
           stop == Min({from + whole + 1, end})
<1>1. n \in Nat
  BY DEF Texts
<1>2. /\ from \in Nat /\ from <= n
      /\ from = IF offset <= n THEN offset ELSE n
  <2> HIDE DEF n
  <2>1. from \in {offset, n} /\ from <= offset /\ from <= n
    BY <1>1, MinOfTwo
  <2> QED BY <1>1, <2>1
<1>3. end \in Nat /\ end <= n /\ from <= end /\ (from < n => from < end)
  <2> HIDE DEF n, from
  <2>1. offset + limit \in Nat
    OBVIOUS
  <2>2. end \in {offset + limit, n} /\ end <= n
    BY <1>1, <2>1, MinOfTwo
  <2> QED BY <1>1, <1>2, <2>1, <2>2
<1>4. whole \in Nat
  <2>1. SubSeq(text, from + 1, from + 0) = << >>
    <3> HIDE DEF from, n
    <3> QED BY <1>1, <1>2 DEF Texts
  <2>2. SumWidth(SubSeq(text, from + 1, from + 0)) <= PageWidth
    <3>1. 0 <= PageWidth
      BY FileBounds
    <3> HIDE DEF from
    <3> QED BY <2>1, <3>1, NoWidth
  <2> HIDE DEF from, end
  <2>3. 0 \in 0..(end - from)
    BY <1>2, <1>3
  <2>4. 0 \in K
    BY <2>2, <2>3
  <2>5. K \subseteq Nat /\ \A x \in K : x <= end - from
    OBVIOUS
  <2>6. end - from \in Nat
    BY <1>2, <1>3
  <2> HIDE DEF K
  <2>7. Max(K) \in K
    BY <2>4, <2>5, <2>6, Greatest
  <2> QED BY <2>5, <2>7
<1>5. stop \in Nat /\ stop <= n /\ from <= stop /\ (from < n => from < stop)
  <2> HIDE DEF n, from, end, whole
  <2>1. from + whole + 1 \in Nat
    BY <1>2, <1>4
  <2>2. stop \in {from + whole + 1, end}
    BY <1>3, <2>1, MinOfTwo
  <2>3. stop <= end
    BY <1>3, <2>1, MinOfTwo
  <2> QED BY <1>1, <1>2, <1>3, <1>4, <2>1, <2>2, <2>3
<1>6. /\ Page(text, offset, limit).first = from + 1
      /\ Page(text, offset, limit).last = stop
      /\ Page(text, offset, limit).next = IF stop < n THEN stop ELSE 0
  BY DEF Page
<1> HIDE DEF from, stop, n
<1>7. from \in 0..n /\ stop \in 0..n
  BY <1>1, <1>2, <1>5
<1> QED BY <1>2, <1>5, <1>6, <1>7 DEF n

\* Reading on, or anew, keeps the pages in step with the text.
LEMMA WalkAfterSound ==
  ASSUME WalkSound, NEW p \in Paths, files[p] \in Texts, NEW limit \in Nat \ {0},
         walk' = WalkAfter(p, Page(files[p], Offset(p), limit))
  PROVE  WalkSound'
<1> DEFINE page == Page(files[p], Offset(p), limit)
           n == Len(files[p])
<1>1. Offset(p) \in Nat
  BY DEF Offset, WalkSound
<1>2. PICK from \in 0..n, stop \in 0..n :
        /\ from <= stop /\ (from < n => from < stop)
        /\ from = IF Offset(p) <= n THEN Offset(p) ELSE n
        /\ page.first = from + 1 /\ page.last = stop
        /\ page.next = IF stop < n THEN stop ELSE 0
  BY <1>1, PageFacts
<1>3. n \in Nat
  BY DEF Texts
<1> DEFINE lines == [i \in 1..(page.last - page.first + 1) |-> page.first + i - 1]
<1>4. lines = [i \in 1..(stop - from) |-> from + i]
  <2> HIDE DEF page, n
  <2>1. /\ page.last - page.first + 1 = stop - from
        /\ \A i \in 1..(stop - from) : page.first + i - 1 = from + i
    BY <1>2, <1>3
  <2> QED BY <2>1
<1>5. walk' = IF page.first = 1
              THEN [path |-> p, text |-> files[p], same |-> TRUE, seen |-> lines,
                    next |-> page.next]
              ELSE [walk EXCEPT !.same = @ /\ files[p] = walk.text,
                                !.seen = @ \o lines, !.next = page.next]
  BY DEF WalkAfter
<1> HIDE DEF page, lines
<1>6. CASE page.first = 1
  <2>1. from = 0
    <3> HIDE DEF n
    <3> QED BY <1>2, <1>3, <1>6
  <2>2. lines = [i \in 1..stop |-> i]
    <3> HIDE DEF n
    <3>1. from = 0 /\ stop \in Nat
      BY <1>2, <1>3, <2>1
    <3>2. stop - from = stop /\ \A i \in 1..stop : from + i = i
      BY <3>1
    <3> QED BY <1>4, <3>2
  <2>3. /\ walk' = [path |-> p, text |-> files[p], same |-> TRUE, seen |-> lines,
                    next |-> page.next]
    BY <1>5, <1>6
  <2>4. /\ page.next \in Nat /\ page.next <= n
        /\ stop = IF page.next = 0 THEN n ELSE page.next
    <3> HIDE DEF n
    <3> QED BY <1>2, <1>3
  <2> QED BY <2>2, <2>3, <2>4 DEF WalkSound
<1>7. CASE page.first # 1
  <2> DEFINE same == walk.same /\ files[p] = walk.text
  <2>1. walk' = [path |-> walk.path, text |-> walk.text, same |-> same,
                 seen |-> walk.seen \o lines, next |-> page.next]
    <3>1. walk' = [walk EXCEPT !.same = same, !.seen = walk.seen \o lines, !.next = page.next]
      BY <1>5, <1>7
    <3>2. walk = [path |-> walk.path, text |-> walk.text, same |-> walk.same,
                  seen |-> walk.seen, next |-> walk.next]
      BY DEF WalkSound
    <3> HIDE DEF same
    <3> QED BY <3>1, <3>2
  <2>2. page.next \in Nat /\ page.next <= n
    <3> HIDE DEF n
    <3> QED BY <1>2, <1>3
  <2>3. same \in BOOLEAN
    BY DEF WalkSound
  <2>4. ASSUME same
        PROVE  walk.seen \o lines = [i \in 1..(IF page.next = 0 THEN n ELSE page.next) |-> i]
    <3>1. from # 0 /\ Offset(p) # 0 /\ walk.path = p /\ Offset(p) = walk.next
      <4> HIDE DEF n
      <4> QED BY <1>1, <1>2, <1>3, <1>7 DEF Offset
    <3>2. /\ walk.next \in Nat /\ walk.next # 0 /\ walk.next <= n
          /\ walk.seen = [i \in 1..walk.next |-> i]
      BY <2>4, <3>1 DEF WalkSound
    <3>3. from = walk.next
      <4> HIDE DEF n
      <4> QED BY <1>2, <1>3, <3>1, <3>2
    <3>4. walk.seen \o lines = [i \in 1..stop |-> i]
      <4> DEFINE a == [i \in 1..from |-> i]
                 b == [i \in 1..(stop - from) |-> from + i]
                 c == [i \in 1..stop |-> i]
      <4>1. from \in Nat /\ stop \in Nat /\ from <= stop
        <5> HIDE DEF n
        <5> QED BY <1>2, <1>3
      <4>2. a \in Seq(Nat) /\ b \in Seq(Nat) /\ Len(a) = from /\ Len(b) = stop - from
        BY <4>1
      <4>3. a \o b = c
        BY <4>1, <4>2
      <4> QED BY <1>4, <3>2, <3>3, <4>3
    <3>5. stop = IF page.next = 0 THEN n ELSE page.next
      <4> HIDE DEF n
      <4> QED BY <1>2, <1>3, <3>1
    <3> QED BY <3>4, <3>5
  <2>5. same => walk.text = files[p]
    OBVIOUS
  <2> HIDE DEF same, n
  <2> DEFINE seen == walk.seen \o lines
  <2>6. same => seen = [i \in 1..(IF page.next = 0 THEN n ELSE page.next) |-> i]
    BY <2>4
  <2>7. walk' = [path |-> walk.path, text |-> walk.text, same |-> same,
                 seen |-> seen, next |-> page.next]
    BY <2>1
  <2> HIDE DEF seen
  <2> QED BY <2>2, <2>3, <2>5, <2>6, <2>7 DEF WalkSound, n
<1> QED BY <1>6, <1>7

LEMMA ReadPageKeeps ==
  ASSUME FilesInv, ReadPage
  PROVE  FilesInv'
<1> DEFINE f == LocalFile(op.name)
           page == Page(files[f.path], Offset(f.path), op.limit)
           counted == SkillAllows(f.path)
           gives == /\ VerifyAdmittedPath(f)
                    /\ f.path \notin Images
                    /\ counted => BudgetAfter(page.size) <= SkillWidth
<1>1. /\ op.st = "admitted" /\ op.tool = "read_file"
      /\ IF gives THEN /\ Finish("read")
                       /\ walk' = WalkAfter(f.path, page)
                       /\ budget' = IF counted
                                    THEN [bytes |-> BudgetAfter(page.size), stale |-> FALSE]
                                    ELSE budget
         ELSE Finish("failed") /\ UNCHANGED <<walk, budget>>
      /\ UNCHANGED <<files, resolve, access, foreign, overwrote>>
  BY DEF ReadPage
<1>2. CallInv'
  BY <1>1, EndsUnplanned DEF FilesInv, CallInv
<1>3. CASE ~gives
  BY <1>1, <1>2, <1>3, WalkKept, BudgetKept DEF FilesInv, CallInv
<1>4. CASE gives
  <2>1. BudgetSound'
    <3> DEFINE size == BudgetAfter(page.size)
    <3>1. /\ counted => size <= SkillWidth
          /\ budget' = IF counted THEN [bytes |-> size, stale |-> FALSE] ELSE budget
      BY <1>1, <1>4
    <3> HIDE DEF size, counted
    <3> QED BY <3>1 DEF BudgetSound, FilesInv
  <2>2. f.path \in op.targets /\ f.ok /\ op.targets \subseteq Paths
        /\ op.limit \in Nat \ {0}
    BY <1>1, <1>4 DEF VerifyAdmittedPath, FilesInv, FileTypeOK, CallType
  <2>3. f.path \in Paths /\ files[f.path] \in Texts
    <3>1. f.path \in Paths /\ files[f.path] # Absent
      BY <2>2 DEF LocalFile
    <3> QED BY <3>1 DEF FilesInv, FileTypeOK, MaybeTexts
  <2>4. walk' = WalkAfter(f.path, page)
    BY <1>1, <1>4
  <2> HIDE DEF f
  <2>5. WalkSound'
    BY <2>2, <2>3, <2>4, WalkAfterSound DEF FilesInv
  <2> QED BY <1>2, <2>1, <2>5 DEF FilesInv, CallInv
<1> QED BY <1>3, <1>4

LEMMA ReadImageKeeps ==
  ASSUME CallInv, ReadImage
  PROVE  CallInv'
<1>1. PICK outcome \in {"read", "failed"} : Finish(outcome)
  BY DEF ReadImage
<1> QED BY <1>1, EndsUnplanned DEF ReadImage

-----------------------------------------------------------------------------
(* A patch runs. *)

LEMMA PrepareKeeps ==
  ASSUME CallInv, PatchPrepare
  PROVE  CallInv'
<1> DEFINE plan == PlanOf(op.patch)
<1>1. /\ op.st = "admitted" /\ op.tool = "apply_patch"
      /\ IF Prepared(op.patch) /\ op.targets = TargetsOf(plan)
         THEN op' = [op EXCEPT !.st = "checking", !.plan = plan, !.at = 1]
         ELSE Finish("failed")
      /\ foreign' = [early |-> {}, late |-> {}]
      /\ UNCHANGED <<files, resolve, access, overwrote>>
  BY DEF PatchPrepare
<1>2. op \in CallType /\ op.patch \in Seq(Operations)
  BY DEF CallInv, FileTypeOK, CallType
<1>3. CASE ~(Prepared(op.patch) /\ op.targets = TargetsOf(plan))
  <2>1. op' = [op EXCEPT !.st = "done", !.result = "failed"]
    BY <1>1, <1>3 DEF Finish
  <2>2. /\ op' \in CallType /\ op'.plan = op.plan /\ op'.st = "done"
        /\ op'.tool = op.tool
    BY <1>2, <2>1 DEF CallType
  <2>3. Len(op'.plan) = 0
    BY <1>1, <2>2 DEF CallInv, PatchProgress
  <2>4. FileTypeOK'
    BY <1>1, <2>2 DEF CallInv, FileTypeOK
  <2>5. PatchProgress'
    BY <1>1, <2>2, <2>3 DEF CallInv, PatchProgress
  <2>6. CallAdmitted'
    BY <2>2 DEF CallAdmitted, Targeted
  <2> QED BY <2>4, <2>5, <2>6 DEF CallInv
<1>4. CASE Prepared(op.patch) /\ op.targets = TargetsOf(plan)
  <2>1. op' = [op EXCEPT !.st = "checking", !.plan = plan, !.at = 1]
    BY <1>1, <1>4
  <2>2. /\ plan \in Seq(EffectType) /\ Len(plan) \in Nat \ {0}
        /\ \A i, j \in DOMAIN plan : i # j => plan[i].path # plan[j].path
        /\ \A i \in DOMAIN plan : EffectAllowed(plan[i])
        /\ (\A e \in Range(plan) : e.after # Absent)
             <=> \A i \in DOMAIN op.patch : LeavesFiles(op.patch[i])
    BY <1>2, <1>4, PlanFacts DEF CallInv, FileTypeOK
  <2>3. \A i \in DOMAIN plan : plan[i].path \in op.targets
    BY <1>4 DEF TargetsOf
  <2> HIDE DEF plan
  <2>4. DOMAIN plan = 1..Len(plan)
    BY <2>2
  <2>5. /\ op' \in CallType /\ op'.plan = plan /\ op'.at = 1 /\ op'.st = "checking"
        /\ op'.tool = "apply_patch" /\ op'.targets = op.targets
        /\ op'.approved = op.approved
    BY <1>1, <1>2, <2>1, <2>2 DEF CallType
  <2>6. FileTypeOK'
    BY <1>1, <2>5 DEF CallInv, FileTypeOK
  <2>7. PatchProgress'
    <3>1. \A i \in 1..Len(plan) : files[plan[i].path] = plan[i].before
      BY <2>2, <2>4 DEF EffectAllowed
    <3>2. 1 \in 1..Len(plan)
      BY <2>2
    <3> QED BY <1>1, <2>2, <2>4, <2>5, <3>1, <3>2 DEF CallInv, PatchProgress
  <2>8. CallAdmitted'
    <3>1. ASSUME NEW i \in DOMAIN plan
          PROVE  LET e == plan[i]
                 IN  /\ e.path \in op.targets
                     /\ access.locked => IsSessionArtifact(e.path)
                     /\ op.approved \/ /\ e.after # Absent
                                       /\ IsSessionArtifact(e.path) \/ IsWritePath(e.path)
      <4>1. plan[i].path \in op.targets /\ EffectAllowed(plan[i]) /\ plan[i] \in Range(plan)
        BY <2>2, <2>3 DEF Range
      <4>2. CASE op.approved
        BY <4>1, <4>2 DEF EffectAllowed
      <4>3. CASE ~op.approved
        <5>1. /\ \A p \in op.targets : IsSessionArtifact(p) \/ IsWritePath(p)
              /\ \A j \in DOMAIN op.patch : LeavesFiles(op.patch[j])
          BY <1>1, <4>3 DEF CallInv, CallAdmitted, Targeted
        <5>2. plan[i].after # Absent
          BY <2>2, <4>1, <5>1
        <5> QED BY <4>1, <5>1, <5>2 DEF EffectAllowed
      <4> QED BY <4>2, <4>3
    <3>2. UNCHANGED access
      BY <1>1
    <3> QED BY <2>3, <2>5, <3>1, <3>2 DEF CallAdmitted, Targeted, IsSessionArtifact, IsWritePath
  <2> QED BY <2>6, <2>7, <2>8 DEF CallInv
<1> QED BY <1>3, <1>4

\* What every step of a running patch needs to know of the effect it is at.
LEMMA AtEffect ==
  ASSUME CallInv, op.st \in {"checking", "applying"}
  PROVE  /\ op \in CallType /\ op.tool = "apply_patch"
         /\ op.plan \in Seq(EffectType) /\ Len(op.plan) \in Nat
         /\ op.at \in 1..Len(op.plan) /\ op.at \in Nat
         /\ op.plan[op.at] \in EffectType
         /\ op.plan[op.at].path \in Paths
         /\ op.plan[op.at].before \in MaybeTexts /\ op.plan[op.at].after \in MaybeTexts
<1>1. op \in CallType /\ op.plan \in Seq(EffectType) /\ op.at \in Nat
  BY DEF CallInv, FileTypeOK, CallType
<1>2. op.tool = "apply_patch" /\ op.at \in 1..Len(op.plan)
  BY DEF CallInv, PatchProgress
<1>3. op.plan[op.at] \in EffectType /\ Len(op.plan) \in Nat
  <2> DEFINE plan == op.plan
  <2>1. plan \in Seq(EffectType) /\ op.at \in 1..Len(plan)
    BY <1>1, <1>2
  <2> HIDE DEF plan
  <2>2. Len(plan) \in Nat /\ \A i \in 1..Len(plan) : plan[i] \in EffectType
    BY <2>1, Elements
  <2> QED BY <2>1, <2>2 DEF plan
<1> QED BY <1>1, <1>2, <1>3 DEF EffectType

LEMMA CheckKeeps ==
  ASSUME CallInv, PatchCheck
  PROVE  CallInv'
<1> DEFINE e == op.plan[op.at]
           n == Len(op.plan)
<1>1. /\ op.st = "checking"
      /\ IF files[e.path] # e.before THEN Finish("failed")
         ELSE op' = IF op.at < n THEN [op EXCEPT !.at = @ + 1]
                    ELSE [op EXCEPT !.st = "applying", !.at = 1]
      /\ foreign' = IF files[e.path] = e.before
                    THEN [foreign EXCEPT !.early = @ \ {e.path}] ELSE foreign
      /\ UNCHANGED <<files, resolve, access, overwrote>>
  BY DEF PatchCheck
<1>2. /\ op \in CallType /\ op.tool = "apply_patch" /\ n \in Nat
      /\ op.at \in 1..n /\ op.at \in Nat /\ e \in EffectType
  BY <1>1, AtEffect
<1>3. foreign \in [early : SUBSET Paths, late : SUBSET Paths]
  BY DEF CallInv, FileTypeOK
<1>4. /\ ~overwrote
      /\ \A i, j \in 1..n : i # j => op.plan[i].path # op.plan[j].path
      /\ \A i \in 1..n : op.plan[i].path \notin foreign.early \cup foreign.late
           => files[op.plan[i].path] = op.plan[i].before
      /\ \A p \in foreign.early : \E i \in op.at..n : op.plan[i].path = p
  BY <1>1 DEF CallInv, PatchProgress
<1>5. CASE files[e.path] # e.before
  <2>1. op' = [op EXCEPT !.st = "done", !.result = "failed"] /\ UNCHANGED foreign
    BY <1>1, <1>5 DEF Finish
  <2>2. /\ op' \in CallType /\ op'.plan = op.plan /\ op'.at = op.at
        /\ op'.st = "done" /\ op'.result = "failed" /\ op'.tool = "apply_patch"
    BY <1>2, <2>1 DEF CallType
  <2>3. FileTypeOK'
    BY <1>1, <2>1, <2>2 DEF CallInv, FileTypeOK
  <2>4. PatchProgress'
    <3>1. UNCHANGED <<files, foreign, overwrote>>
      BY <1>1, <2>1
    <3> QED BY <1>4, <2>2, <3>1 DEF PatchProgress
  <2>5. CallAdmitted'
    BY <2>2 DEF CallAdmitted, Targeted
  <2> QED BY <2>3, <2>4, <2>5 DEF CallInv
<1>6. CASE files[e.path] = e.before
  <2>1. foreign' = [foreign EXCEPT !.early = foreign.early \ {e.path}]
    BY <1>1, <1>6
  <2>2. /\ foreign'.early = foreign.early \ {e.path} /\ foreign'.late = foreign.late
        /\ foreign' \in [early : SUBSET Paths, late : SUBSET Paths]
    BY <1>3, <2>1
  <2>3. \A i \in 1..n : op.plan[i].path \notin foreign'.early \cup foreign'.late
          => files[op.plan[i].path] = op.plan[i].before
    <3> TAKE i \in 1..n
    <3>1. CASE i = op.at
      BY <1>6, <3>1
    <3>2. CASE i # op.at
      <4>1. op.plan[i].path # e.path
        BY <1>2, <1>4, <3>2
      <4> QED BY <1>4, <2>2, <4>1
    <3> QED BY <3>1, <3>2
  <2>4. \A p \in foreign'.early : \E i \in op.at..n : i # op.at /\ op.plan[i].path = p
    <3> SUFFICES ASSUME NEW p \in foreign'.early
                 PROVE  \E i \in op.at..n : i # op.at /\ op.plan[i].path = p
      OBVIOUS
    <3>1. p \in foreign.early /\ p # e.path
      BY <2>2
    <3>2. PICK i \in op.at..n : op.plan[i].path = p
      BY <1>4, <3>1
    <3>3. i # op.at
      BY <3>1, <3>2
    <3> QED BY <3>2, <3>3
  <2>5. CASE op.at < n
    <3>1. op' = [op EXCEPT !.at = op.at + 1]
      BY <1>1, <1>6, <2>5
    <3>2. /\ op' \in CallType /\ op'.plan = op.plan /\ op'.at = op.at + 1
          /\ op'.st = "checking" /\ op'.tool = "apply_patch"
          /\ op'.targets = op.targets /\ op'.approved = op.approved
      <4> DEFINE step == op.at + 1
      <4>1. step \in Nat /\ op' = [op EXCEPT !.at = step]
        BY <1>2, <3>1
      <4> HIDE DEF step
      <4>2. /\ op' \in CallType /\ op'.plan = op.plan /\ op'.at = step
            /\ op'.st = op.st /\ op'.tool = op.tool
            /\ op'.targets = op.targets /\ op'.approved = op.approved
        BY <1>2, <4>1 DEF CallType
      <4> QED BY <1>1, <1>2, <4>2 DEF step
    <3>3. FileTypeOK'
      BY <1>1, <2>2, <3>2 DEF CallInv, FileTypeOK
    <3>4. \A p \in foreign'.early : \E i \in (op.at + 1)..n : op.plan[i].path = p
      <4> HIDE DEF n
      <4> QED BY <1>2, <2>4
    <3>5. op.at + 1 \in 1..n
      <4> HIDE DEF n
      <4> QED BY <1>2, <2>5
    <3>6. PatchProgress'
      <4>1. /\ Len(op'.plan) = n /\ op'.at \in 1..n
            /\ op'.st = "checking" /\ op'.tool = "apply_patch"
        BY <3>2, <3>5
      <4>0. files' = files /\ overwrote' = overwrote
        BY <1>1
      <4>2. /\ ~overwrote'
            /\ \A i, j \in 1..n : i # j => op'.plan[i].path # op'.plan[j].path
        BY <1>4, <3>2, <4>0
      <4>3. \A i \in 1..n : op'.plan[i].path \notin foreign'.early \cup foreign'.late
              => files'[op'.plan[i].path] = op'.plan[i].before
        BY <2>3, <3>2, <4>0
      <4>4. \A p \in foreign'.early : \E i \in op'.at..n : op'.plan[i].path = p
        BY <3>2, <3>4
      <4> HIDE DEF n
      <4> QED BY <4>1, <4>2, <4>3, <4>4 DEF PatchProgress
    <3>7. CallAdmitted'
      BY <1>1, <3>2 DEF CallInv, CallAdmitted, Targeted, IsSessionArtifact, IsWritePath
    <3> QED BY <3>3, <3>6, <3>7 DEF CallInv
  <2>6. CASE ~(op.at < n)
    <3>1. op' = [op EXCEPT !.st = "applying", !.at = 1]
      BY <1>1, <1>6, <2>6
    <3>2. /\ op' \in CallType /\ op'.plan = op.plan /\ op'.at = 1
          /\ op'.st = "applying" /\ op'.tool = "apply_patch" /\ op'.targets = op.targets
      BY <1>2, <3>1 DEF CallType
    <3>3. FileTypeOK'
      BY <1>1, <2>2, <3>2 DEF CallInv, FileTypeOK
    <3>4. foreign'.early = {}
      <4> HIDE DEF n
      <4> QED BY <1>2, <2>4, <2>6
    <3>5. 1 \in 1..n /\ \A i \in 1..n : ~(i < 1)
      <4> HIDE DEF n
      <4> QED BY <1>2
    <3>6. PatchProgress'
      BY <1>1, <1>4, <2>3, <3>2, <3>4, <3>5 DEF PatchProgress
    <3>7. CallAdmitted'
      BY <1>1, <3>2 DEF CallInv, CallAdmitted, Targeted
    <3> QED BY <3>3, <3>6, <3>7 DEF CallInv
  <2> QED BY <2>5, <2>6
<1> QED BY <1>5, <1>6

\* What is known of the files while the effects are applied.
LEMMA WhileApplying ==
  ASSUME CallInv, op.st = "applying"
  PROVE  /\ ~overwrote /\ foreign.early = {}
         /\ foreign \in [early : SUBSET Paths, late : SUBSET Paths]
         /\ \A i, j \in 1..Len(op.plan) : i # j => op.plan[i].path # op.plan[j].path
         /\ \A i \in 1..Len(op.plan) : op.plan[i].path \notin foreign.late =>
              files[op.plan[i].path] = IF i < op.at THEN op.plan[i].after ELSE op.plan[i].before
  BY DEF CallInv, PatchProgress, FileTypeOK

LEMMA EffectKeeps ==
  ASSUME CallInv, PatchEffect
  PROVE  CallInv'
<1> DEFINE e == op.plan[op.at]
           n == Len(op.plan)
<1>1. /\ op.st = "applying"
      /\ files' = [files EXCEPT ![e.path] = e.after]
      /\ overwrote' = (overwrote \/ e.path \in foreign.early)
      /\ foreign' = [foreign EXCEPT !.late = @ \ {e.path}]
      /\ IF op.at = n THEN Finish("applied") ELSE op' = [op EXCEPT !.at = @ + 1]
      /\ UNCHANGED <<resolve, access>>
  BY DEF PatchEffect
<1>2. /\ op \in CallType /\ op.tool = "apply_patch" /\ n \in Nat
      /\ op.at \in 1..n /\ op.at \in Nat /\ e \in EffectType
      /\ e.path \in Paths /\ e.after \in MaybeTexts
  BY <1>1, AtEffect
<1>3. /\ ~overwrote /\ foreign.early = {}
      /\ foreign \in [early : SUBSET Paths, late : SUBSET Paths]
      /\ \A i, j \in 1..n : i # j => op.plan[i].path # op.plan[j].path
      /\ \A i \in 1..n : op.plan[i].path \notin foreign.late =>
           files[op.plan[i].path] = IF i < op.at THEN op.plan[i].after ELSE op.plan[i].before
  BY <1>1, WhileApplying
<1>4. foreign' = [foreign EXCEPT !.late = foreign.late \ {e.path}]
  BY <1>1
<1>5. /\ ~overwrote' /\ foreign'.early = {} /\ foreign'.late = foreign.late \ {e.path}
      /\ foreign' \in [early : SUBSET Paths, late : SUBSET Paths]
  BY <1>1, <1>3, <1>4
<1>6. /\ files \in [Paths -> MaybeTexts] /\ files' \in [Paths -> MaybeTexts]
      /\ files'[e.path] = e.after
      /\ \A p \in Paths : p # e.path => files'[p] = files[p]
  BY <1>1, <1>2 DEF CallInv, FileTypeOK
<1>7. \A i \in 1..n : op.plan[i].path \notin foreign'.late =>
        files'[op.plan[i].path] = IF i < op.at + 1 THEN op.plan[i].after
                                  ELSE op.plan[i].before
  <2> TAKE i \in 1..n
  <2>1. CASE i = op.at
    BY <1>2, <1>6, <2>1
  <2>2. CASE i # op.at
    <3>1. op.plan[i].path # e.path
      BY <1>2, <1>3, <2>2
    <3>2. op.plan[i].path \in Paths
      <4> DEFINE plan == op.plan
      <4>1. plan \in Seq(EffectType) /\ i \in 1..Len(plan)
        BY <1>2 DEF CallType
      <4> HIDE DEF plan
      <4>2. plan[i] \in EffectType
        BY <4>1, Elements
      <4> QED BY <4>2 DEF plan, EffectType
    <3>3. files'[op.plan[i].path] = files[op.plan[i].path]
      BY <1>6, <3>1, <3>2
    <3>4. i < op.at + 1 <=> i < op.at
      <4> HIDE DEF n
      <4> QED BY <1>2, <2>2
    <3> QED BY <1>3, <1>5, <3>1, <3>3, <3>4
  <2> QED BY <2>1, <2>2
<1>8. CASE op.at = n
  <2>1. op' = [op EXCEPT !.st = "done", !.result = "applied"]
    BY <1>1, <1>8 DEF Finish
  <2>2. /\ op' \in CallType /\ op'.plan = op.plan /\ op'.at = op.at
        /\ op'.st = "done" /\ op'.result = "applied" /\ op'.tool = "apply_patch"
    BY <1>2, <2>1 DEF CallType
  <2>3. FileTypeOK'
    BY <1>1, <1>5, <1>6, <2>2 DEF CallInv, FileTypeOK
  <2>4. \A i \in 1..n : i < op.at + 1
    <3> HIDE DEF n
    <3> QED BY <1>2, <1>8
  <2>5. \A i \in 1..n : op.plan[i].path \notin foreign'.late =>
          files'[op.plan[i].path] = op.plan[i].after
    BY <1>7, <2>4
  <2>6. PatchProgress'
    BY <1>3, <1>5, <2>2, <2>5 DEF PatchProgress
  <2>7. CallAdmitted'
    BY <2>2 DEF CallAdmitted, Targeted
  <2> QED BY <2>3, <2>6, <2>7 DEF CallInv
<1>9. CASE op.at # n
  <2>1. op' = [op EXCEPT !.at = op.at + 1]
    BY <1>1, <1>9
  <2>2. /\ op' \in CallType /\ op'.plan = op.plan /\ op'.at = op.at + 1
        /\ op'.st = "applying" /\ op'.tool = "apply_patch" /\ op'.targets = op.targets
    <3>1. op \in CallType /\ op.at + 1 \in Nat /\ op.st = "applying" /\ op.tool = "apply_patch"
      BY <1>1, <1>2
    <3> HIDE DEF n
    <3> QED BY <2>1, <3>1 DEF CallType
  <2>3. FileTypeOK'
    BY <1>1, <1>5, <1>6, <2>2 DEF CallInv, FileTypeOK
  <2>4. op.at + 1 \in 1..n
    <3> HIDE DEF n
    <3> QED BY <1>2, <1>9
  <2>5. PatchProgress'
    BY <1>3, <1>5, <1>7, <2>2, <2>4 DEF PatchProgress
  <2>6. CallAdmitted'
    BY <1>1, <2>2 DEF CallInv, CallAdmitted, Targeted
  <2> QED BY <2>3, <2>5, <2>6 DEF CallInv
<1> QED BY <1>8, <1>9

\* The set of effects a rollback has still to undo.
LEMMA SomeUndone ==
  ASSUME NEW m \in Nat, NEW S, S \subseteq 1..(m - 1), S # {}
  PROVE  Max(S) \in S /\ Max(S) \in 1..(m - 1)
<1>1. S \subseteq Nat /\ \A x \in S : x <= m
  OBVIOUS
<1> QED BY <1>1, Greatest

LEMMA EffectFailsKeeps ==
  ASSUME CallInv, PatchEffectFails
  PROVE  CallInv'
<1> DEFINE e == op.plan[op.at]
           n == Len(op.plan)
<1>1. /\ op.st = "applying"
      /\ \/ UNCHANGED files
         \/ \E rest \in Leftovers(e) : files' = [files EXCEPT ![e.path] = rest]
      /\ op' = IF op.at = 1 THEN [op EXCEPT !.st = "done", !.result = "rolledBack"]
               ELSE [op EXCEPT !.st = "rolling"]
      /\ UNCHANGED <<resolve, access, foreign, overwrote>>
  BY DEF PatchEffectFails, StartRollback
<1>2. /\ op \in CallType /\ op.tool = "apply_patch" /\ n \in Nat
      /\ op.at \in 1..n /\ op.at \in Nat /\ e \in EffectType
      /\ e.path \in Paths /\ e.after \in MaybeTexts
  BY <1>1, AtEffect
<1>3. /\ ~overwrote /\ foreign.early = {}
      /\ foreign \in [early : SUBSET Paths, late : SUBSET Paths]
      /\ \A i, j \in 1..n : i # j => op.plan[i].path # op.plan[j].path
      /\ \A i \in 1..n : op.plan[i].path \notin foreign.late =>
           files[op.plan[i].path] = IF i < op.at THEN op.plan[i].after ELSE op.plan[i].before
  BY <1>1, WhileApplying
<1>4. \A i \in 1..n : op.plan[i].path \in Paths
  <2> DEFINE plan == op.plan
  <2>1. plan \in Seq(EffectType)
    BY <1>2 DEF CallType
  <2> HIDE DEF plan
  <2>2. \A i \in 1..Len(plan) : plan[i] \in EffectType
    BY <2>1, Elements
  <2> QED BY <2>2 DEF plan, EffectType
<1>5. /\ files \in [Paths -> MaybeTexts] /\ files' \in [Paths -> MaybeTexts]
      /\ \A p \in Paths : p # e.path => files'[p] = files[p]
  <2>1. files \in [Paths -> MaybeTexts]
    BY DEF CallInv, FileTypeOK
  <2>2. CASE UNCHANGED files
    BY <2>1, <2>2
  <2>3. CASE \E rest \in Leftovers(e) : files' = [files EXCEPT ![e.path] = rest]
    <3>1. PICK rest \in Leftovers(e) : files' = [files EXCEPT ![e.path] = rest]
      BY <2>3
    <3>2. rest \in MaybeTexts
      <4>1. CASE rest = files[e.path]
        BY <1>2, <2>1, <4>1
      <4>2. CASE e.after # Absent /\ \E k \in 0..(Len(e.after) - 1) : rest = SubSeq(e.after, 1, k)
        <5> DEFINE text == e.after
        <5>1. text \in Texts
          BY <1>2, <4>2 DEF MaybeTexts
        <5>2. PICK k \in 0..(Len(text) - 1) : rest = SubSeq(text, 1, k)
          BY <4>2
        <5> HIDE DEF text
        <5>3. Len(text) \in Nat /\ k \in Nat /\ k <= Len(text)
          BY <5>1, <5>2 DEF Texts
        <5>4. rest \in Texts
          BY <5>1, <5>2, <5>3 DEF Texts
        <5> QED BY <5>4 DEF MaybeTexts
      <4>3. \/ rest = files[e.path]
            \/ e.after # Absent /\ \E k \in 0..(Len(e.after) - 1) : rest = SubSeq(e.after, 1, k)
        BY <3>1 DEF Leftovers
      <4> QED BY <4>1, <4>2, <4>3
    <3> QED BY <1>2, <2>1, <3>1, <3>2
  <2> QED BY <1>1, <2>2, <2>3
<1>6. \A i \in 1..n : i # op.at => files'[op.plan[i].path] = files[op.plan[i].path]
  BY <1>2, <1>3, <1>4, <1>5
<1>7. \A i \in 1..n : i > op.at /\ op.plan[i].path \notin foreign.late
        => files'[op.plan[i].path] = op.plan[i].before
  <2> TAKE i \in 1..n
  <2>1. i > op.at => ~(i < op.at) /\ i # op.at
    <3> HIDE DEF n
    <3> QED BY <1>2
  <2> QED BY <1>3, <1>6, <2>1
<1>8. CASE op.at = 1
  <2>1. op' = [op EXCEPT !.st = "done", !.result = "rolledBack"]
    BY <1>1, <1>8
  <2>2. /\ op' \in CallType /\ op'.plan = op.plan /\ op'.at = op.at
        /\ op'.st = "done" /\ op'.result = "rolledBack" /\ op'.tool = "apply_patch"
    BY <1>2, <2>1 DEF CallType
  <2>3. FileTypeOK'
    BY <1>1, <1>5, <2>2 DEF CallInv, FileTypeOK
  <2>4. \A i \in 1..n : i # op.at => i > op.at
    <3> HIDE DEF n
    <3> QED BY <1>2, <1>8
  <2>5. UNCHANGED <<foreign, overwrote>>
    BY <1>1
  <2>6. PatchProgress'
    BY <1>3, <1>7, <2>2, <2>4, <2>5 DEF PatchProgress
  <2>7. CallAdmitted'
    BY <2>2 DEF CallAdmitted, Targeted
  <2> QED BY <2>3, <2>6, <2>7 DEF CallInv
<1>9. CASE op.at # 1
  <2>1. op' = [op EXCEPT !.st = "rolling"]
    BY <1>1, <1>9
  <2>2. /\ op' \in CallType /\ op'.plan = op.plan /\ op'.at = op.at
        /\ op'.st = "rolling" /\ op'.tool = "apply_patch" /\ op'.targets = op.targets
    BY <1>2, <2>1 DEF CallType
  <2>3. FileTypeOK'
    BY <1>1, <1>5, <2>2 DEF CallInv, FileTypeOK
  <2>4. \A i \in 1..n : op.plan[i].path \in op.targets
    BY <1>1, <1>2 DEF CallInv, CallAdmitted, Targeted
  <2>5. Undone' # {}
    <3>1. 1 \in 1..(op.at - 1) /\ 1 \in 1..n
      <4> HIDE DEF n
      <4> QED BY <1>2, <1>9
    <3> QED BY <2>2, <2>4, <3>1 DEF Undone
  <2>6. \A i \in (1..n) \ {op.at} :
          op.plan[i].path \notin foreign.late /\ (i < op.at => op.plan[i].path \notin op.targets)
          => files'[op.plan[i].path] = op.plan[i].before
    <3> TAKE i \in (1..n) \ {op.at}
    <3>1. i < op.at \/ i > op.at
      <4> HIDE DEF n
      <4> QED BY <1>2
    <3> QED BY <1>7, <2>4, <3>1
  <2>7. UNCHANGED <<foreign, overwrote>>
    BY <1>1
  <2>8. PatchProgress'
    BY <1>2, <1>3, <2>2, <2>5, <2>6, <2>7 DEF PatchProgress
  <2>9. CallAdmitted'
    BY <2>2 DEF CallAdmitted, Targeted
  <2> QED BY <2>3, <2>8, <2>9 DEF CallInv
<1> QED BY <1>8, <1>9

\* What is known of the files while the effects are undone.
LEMMA WhileRolling ==
  ASSUME CallInv, op.st = "rolling"
  PROVE  /\ ~overwrote /\ op \in CallType /\ op.tool = "apply_patch"
         /\ foreign \in [early : SUBSET Paths, late : SUBSET Paths]
         /\ files \in [Paths -> MaybeTexts]
         /\ Len(op.plan) \in Nat /\ op.at \in Nat /\ op.at \in 1..Len(op.plan)
         /\ \A i \in 1..Len(op.plan) : op.plan[i] \in EffectType
         /\ \A i, j \in 1..Len(op.plan) : i # j => op.plan[i].path # op.plan[j].path
         /\ \A i \in (1..Len(op.plan)) \ {op.at} :
              op.plan[i].path \notin foreign.late
              /\ (i < op.at => op.plan[i].path \notin op.targets)
              => files[op.plan[i].path] = op.plan[i].before
         /\ Max(Undone) \in Undone /\ Max(Undone) \in 1..Len(op.plan) /\ Max(Undone) < op.at
<1>1. op \in CallType /\ op.tool = "apply_patch" /\ op.at \in 1..Len(op.plan)
  BY DEF CallInv, FileTypeOK, PatchProgress
<1>2. Len(op.plan) \in Nat /\ \A i \in 1..Len(op.plan) : op.plan[i] \in EffectType
  <2> DEFINE plan == op.plan
  <2>1. plan \in Seq(EffectType)
    BY <1>1 DEF CallType
  <2> HIDE DEF plan
  <2>2. Len(plan) \in Nat /\ \A i \in 1..Len(plan) : plan[i] \in EffectType
    BY <2>1, Elements
  <2> QED BY <2>2 DEF plan
<1>3. op.at \in Nat
  BY <1>1, <1>2
<1>4. Undone # {} /\ Undone \subseteq 1..(op.at - 1)
  BY DEF CallInv, PatchProgress, Undone
<1>5. Max(Undone) \in Undone /\ Max(Undone) \in 1..(op.at - 1)
  BY <1>3, <1>4, SomeUndone
<1>6. Max(Undone) \in 1..Len(op.plan) /\ Max(Undone) < op.at
  <2> DEFINE m == Max(Undone)
             n == Len(op.plan)
  <2>1. m \in 1..(op.at - 1) /\ op.at \in 1..n /\ n \in Nat /\ op.at \in Nat
    BY <1>1, <1>2, <1>3, <1>5
  <2> HIDE DEF m, n
  <2>2. m \in 1..n /\ m < op.at
    BY <2>1
  <2> QED BY <2>2 DEF m, n
<1> QED BY <1>1, <1>2, <1>3, <1>5, <1>6 DEF CallInv, PatchProgress, FileTypeOK

LEMMA RollbackKeeps ==
  ASSUME CallInv, PatchRollback
  PROVE  CallInv'
<1> DEFINE u == Max(Undone)
           e == op.plan[u]
           n == Len(op.plan)
           last == Undone = {u}
<1>1. /\ op.st = "rolling"
      /\ files' = [files EXCEPT ![e.path] = e.before]
      /\ foreign' = [foreign EXCEPT !.late = foreign.late \ {e.path}]
      /\ op' = [op EXCEPT !.targets = op.targets \ {e.path},
                   !.st = IF last THEN "done" ELSE "rolling",
                   !.result = IF last THEN "rolledBack" ELSE "none"]
      /\ UNCHANGED <<resolve, access, overwrote>>
  BY DEF PatchRollback
<1>2. /\ ~overwrote /\ op \in CallType /\ op.tool = "apply_patch"
      /\ foreign \in [early : SUBSET Paths, late : SUBSET Paths]
      /\ files \in [Paths -> MaybeTexts]
      /\ n \in Nat /\ op.at \in Nat /\ op.at \in 1..n
      /\ \A i \in 1..n : op.plan[i] \in EffectType
      /\ \A i, j \in 1..n : i # j => op.plan[i].path # op.plan[j].path
      /\ \A i \in (1..n) \ {op.at} :
           op.plan[i].path \notin foreign.late
           /\ (i < op.at => op.plan[i].path \notin op.targets)
           => files[op.plan[i].path] = op.plan[i].before
      /\ u \in Undone /\ u \in 1..n /\ u < op.at
  BY <1>1, WhileRolling
<1> HIDE DEF u
<1>3. e.path \in Paths /\ e.before \in MaybeTexts /\ e.path \in op.targets
  BY <1>2 DEF EffectType, Undone
<1>4. /\ files' \in [Paths -> MaybeTexts] /\ files'[e.path] = e.before
      /\ \A p \in Paths : p # e.path => files'[p] = files[p]
  BY <1>1, <1>2, <1>3
<1>5. /\ foreign'.early = foreign.early /\ foreign'.late = foreign.late \ {e.path}
      /\ foreign' \in [early : SUBSET Paths, late : SUBSET Paths]
  BY <1>1, <1>2
<1>6. /\ op' \in CallType /\ op'.plan = op.plan /\ op'.at = op.at
      /\ op'.targets = op.targets \ {e.path} /\ op'.tool = "apply_patch"
      /\ op'.st = IF last THEN "done" ELSE "rolling"
      /\ op'.result = IF last THEN "rolledBack" ELSE "none"
  <2>1. op.targets \ {e.path} \in SUBSET Paths
    BY <1>2 DEF CallType
  <2> DEFINE left1 == op.targets \ {e.path}
             l == last
  <2>2. /\ left1 \in SUBSET Paths
        /\ op' = [op EXCEPT !.targets = left1, !.st = IF l THEN "done" ELSE "rolling",
                   !.result = IF l THEN "rolledBack" ELSE "none"]
    BY <1>1, <2>1
  <2> HIDE DEF left1, l, last, e, n
  <2>3. /\ op' \in CallType /\ op'.plan = op.plan /\ op'.at = op.at
        /\ op'.targets = left1 /\ op'.tool = "apply_patch"
        /\ op'.st = IF l THEN "done" ELSE "rolling"
        /\ op'.result = IF l THEN "rolledBack" ELSE "none"
    BY <1>2, <2>2 DEF CallType
  <2> QED BY <2>3 DEF left1, l
<1>7. FileTypeOK'
  BY <1>1, <1>4, <1>5, <1>6 DEF CallInv, FileTypeOK
<1>8. \A i \in (1..n) \ {op.at} :
        op.plan[i].path \notin foreign'.late
        /\ (i < op.at => op.plan[i].path \notin op'.targets)
        => files'[op.plan[i].path] = op.plan[i].before
  <2> TAKE i \in (1..n) \ {op.at}
  <2>1. CASE i = u
    BY <1>4, <2>1
  <2>2. CASE i # u
    <3>1. op.plan[i].path # e.path /\ op.plan[i].path \in Paths
      BY <1>2, <2>2 DEF EffectType
    <3>2. files'[op.plan[i].path] = files[op.plan[i].path]
      BY <1>4, <3>1
    <3> QED BY <1>2, <1>5, <1>6, <3>1, <3>2
  <2> QED BY <2>1, <2>2
<1>9. Undone' = Undone \ {u}
  <2>1. \A i \in 1..(op.at - 1) : op.plan[i].path = e.path <=> i = u
    <3>1. \A i \in 1..(op.at - 1) : i \in 1..n
      <4> HIDE DEF n
      <4> QED BY <1>2
    <3> QED BY <1>2, <3>1
  <2>2. Undone' = {i \in 1..(op.at - 1) : op.plan[i].path \in op.targets \ {e.path}}
    BY <1>6 DEF Undone
  <2> HIDE DEF e
  <2> QED BY <2>1, <2>2 DEF Undone
<1>10. CallAdmitted'
  BY <1>6 DEF CallAdmitted, Targeted
<1>11. CASE last
  <2>1. op'.st = "done" /\ op'.result = "rolledBack"
    BY <1>6, <1>11
  <2>2. \A i \in (1..n) \ {op.at} : op.plan[i].path \notin foreign'.late
          => files'[op.plan[i].path] = op.plan[i].before
    <3> TAKE i \in (1..n) \ {op.at}
    <3>1. i < op.at => op.plan[i].path \notin op'.targets
      <4>1. Undone' = {}
        BY <1>9, <1>11
      <4>2. i < op.at => i \in 1..(op.at - 1)
        <5> HIDE DEF n
        <5> QED BY <1>2
      <4> QED BY <1>6, <4>1, <4>2 DEF Undone
    <3> QED BY <1>8, <3>1
  <2>3. UNCHANGED overwrote
    BY <1>1
  <2>4. PatchProgress'
    BY <1>2, <1>6, <2>1, <2>2, <2>3 DEF PatchProgress
  <2> QED BY <1>7, <1>10, <2>4 DEF CallInv
<1>12. CASE ~last
  <2>1. op'.st = "rolling"
    BY <1>6, <1>12
  <2>2. Undone' # {}
    BY <1>2, <1>9, <1>12
  <2>3. UNCHANGED overwrote
    BY <1>1
  <2>4. PatchProgress'
    BY <1>2, <1>6, <1>8, <2>1, <2>2, <2>3 DEF PatchProgress
  <2> QED BY <1>7, <1>10, <2>4 DEF CallInv
<1> QED BY <1>11, <1>12

LEMMA RollbackFailsKeeps ==
  ASSUME CallInv, PatchRollbackFails
  PROVE  CallInv'
<1> DEFINE e == op.plan[Max(Undone)]
<1>1. /\ op.st = "rolling"
      /\ \E rest \in IF e.before = Absent THEN {files[e.path]}
                     ELSE {files[e.path], << >>} :
           files' = [files EXCEPT ![e.path] = rest]
      /\ op' = [op EXCEPT !.st = "done", !.result = "rollbackFailed"]
      /\ UNCHANGED <<resolve, access, foreign, overwrote>>
  BY DEF PatchRollbackFails, Finish
<1>2. /\ ~overwrote /\ op \in CallType /\ op.tool = "apply_patch"
      /\ files \in [Paths -> MaybeTexts]
      /\ \A i, j \in 1..Len(op.plan) : i # j => op.plan[i].path # op.plan[j].path
      /\ e \in EffectType
  BY <1>1, WhileRolling
<1>3. files' \in [Paths -> MaybeTexts]
  <2>1. PICK rest \in {files[e.path], << >>} : files' = [files EXCEPT ![e.path] = rest]
    BY <1>1
  <2>2. << >> \in MaybeTexts /\ files[e.path] \in MaybeTexts
    BY <1>2 DEF MaybeTexts, Texts, EffectType
  <2> QED BY <1>2, <2>1, <2>2
<1>4. /\ op' \in CallType /\ op'.plan = op.plan /\ op'.tool = "apply_patch"
      /\ op'.st = "done" /\ op'.result = "rollbackFailed"
  BY <1>1, <1>2 DEF CallType
<1>5. FileTypeOK'
  BY <1>1, <1>3, <1>4 DEF CallInv, FileTypeOK
<1>6. PatchProgress'
  BY <1>1, <1>2, <1>4 DEF PatchProgress
<1>7. CallAdmitted'
  BY <1>4 DEF CallAdmitted, Targeted
<1> QED BY <1>5, <1>6, <1>7 DEF CallInv

-----------------------------------------------------------------------------
(* The others. *)

LEMMA ForeignWriteKeeps ==
  ASSUME CallInv, NEW p \in Paths, NEW text \in ForeignTexts, ForeignWrite(p, text)
  PROVE  CallInv'
<1> DEFINE n == Len(op.plan)
           early == op.st = "checking" /\ \E i \in op.at..n : op.plan[i].path = p
<1>1. /\ files' = [files EXCEPT ![p] = text]
      /\ foreign' = IF early THEN [foreign EXCEPT !.early = foreign.early \cup {p}]
                    ELSE [foreign EXCEPT !.late = foreign.late \cup {p}]
      /\ UNCHANGED <<resolve, access, op, overwrote>>
  BY DEF ForeignWrite
<1>2. foreign \in [early : SUBSET Paths, late : SUBSET Paths] /\ files \in [Paths -> MaybeTexts]
  BY DEF CallInv, FileTypeOK
<1>3. /\ files' \in [Paths -> MaybeTexts]
      /\ \A q : q \in Paths /\ q # p => files'[q] = files[q]
  <2>1. text \in MaybeTexts
    BY TextsAssumption DEF MaybeTexts
  <2> QED BY <1>1, <1>2, <2>1
<1>4. /\ early => foreign'.early = foreign.early \cup {p} /\ foreign'.late = foreign.late
      /\ ~early => foreign'.early = foreign.early /\ foreign'.late = foreign.late \cup {p}
      /\ foreign' \in [early : SUBSET Paths, late : SUBSET Paths]
  <2> HIDE DEF early
  <2>1. CASE early
    <3>1. foreign' = [foreign EXCEPT !.early = foreign.early \cup {p}]
      BY <1>1, <2>1
    <3> QED BY <1>2, <2>1, <3>1
  <2>2. CASE ~early
    <3>1. foreign' = [foreign EXCEPT !.late = foreign.late \cup {p}]
      BY <1>1, <2>2
    <3> QED BY <1>2, <2>2, <3>1
  <2> QED BY <2>1, <2>2
<1>5. \A i \in 1..n : op.plan[i].path \in Paths
  <2> DEFINE plan == op.plan
  <2>1. plan \in Seq(EffectType)
    BY DEF CallInv, FileTypeOK, CallType
  <2> HIDE DEF plan
  <2>2. \A i \in 1..Len(plan) : plan[i] \in EffectType
    BY <2>1, Elements
  <2> QED BY <2>2 DEF plan, EffectType
<1>6. \A i \in 1..n : op.plan[i].path # p => files'[op.plan[i].path] = files[op.plan[i].path]
  BY <1>3, <1>5
<1>7. FileTypeOK'
  BY <1>1, <1>3, <1>4 DEF CallInv, FileTypeOK
<1>8. CallAdmitted'
  BY <1>1 DEF CallInv, CallAdmitted, Targeted, IsSessionArtifact, IsWritePath, LeavesFiles
<1>9. PatchProgress'
  <2>1. UNCHANGED <<op, overwrote>>
    BY <1>1
  <2>2. CASE op.st = "checking"
    <3>1. \A i \in 1..n : op.plan[i].path \notin foreign'.early \cup foreign'.late
            => files'[op.plan[i].path] = op.plan[i].before
      BY <1>4, <1>6, <2>2 DEF CallInv, PatchProgress
    <3>2. \A q \in foreign'.early : \E i \in op.at..n : op.plan[i].path = q
      BY <1>4, <2>2 DEF CallInv, PatchProgress
    <3> QED BY <2>1, <2>2, <3>1, <3>2 DEF CallInv, PatchProgress
  <2>3. CASE op.st # "checking"
    <3>1. foreign'.early = foreign.early /\ foreign'.late = foreign.late \cup {p}
      BY <1>4, <2>3
    <3>2. Undone' = Undone
      BY <2>1 DEF Undone
    <3>3. \A i \in 1..n : op.plan[i].path \notin foreign'.late =>
            /\ op.plan[i].path \notin foreign.late
            /\ files'[op.plan[i].path] = files[op.plan[i].path]
      BY <1>6, <3>1
    <3> QED BY <2>1, <2>3, <3>1, <3>2, <3>3 DEF CallInv, PatchProgress
  <2> QED BY <2>2, <2>3
<1> QED BY <1>7, <1>8, <1>9 DEF CallInv

LEMMA RetargetKeeps ==
  ASSUME CallInv, NEW n \in Names, NEW p \in Paths, ForeignRetarget(n, p)
  PROVE  CallInv'
<1>1. /\ resolve' = [resolve EXCEPT ![n] = p]
      /\ UNCHANGED <<files, access, op, foreign, overwrote>>
  BY DEF ForeignRetarget
<1>2. FileTypeOK'
  BY <1>1 DEF CallInv, FileTypeOK
<1>3. PatchProgress' /\ CallAdmitted'
  BY <1>1 DEF CallInv, PatchProgress, CallAdmitted, Targeted, Undone, IsSessionArtifact,
     IsWritePath, LeavesFiles
<1> QED BY <1>2, <1>3 DEF CallInv

LEMMA FileToolKeeps ==
  ASSUME FilesInv, FileToolStep
  PROVE  FilesInv'
<1>1. CallInv /\ WalkSound /\ BudgetSound
  BY DEF FilesInv, CallInv
<1>2. CASE ReadPage
  BY <1>2, ReadPageKeeps
<1>3. CASE ~ReadPage
  <2>1. CallInv'
    <3>1. ASSUME NEW n \in Names, NEW limit \in PageLines, ReadAdmission("read_file", n, limit)
          PROVE  CallInv'
      <4>1. limit \in Nat /\ limit # 0 /\ "read_file" \in {"read_file", "read_image"}
        BY PageLinesAssumption
      <4> QED BY <1>1, <3>1, <4>1, ReadAdmissionKeeps
    <3>2. ASSUME NEW n \in Names, ReadAdmission("read_image", n, 0)
          PROVE  CallInv'
      <4>1. 0 \in Nat /\ "read_image" # "read_file" /\ "read_image" \in {"read_file", "read_image"}
        OBVIOUS
      <4> QED BY <1>1, <3>2, <4>1, ReadAdmissionKeeps
    <3> QED BY <1>1, <1>3, <3>1, <3>2, PatchAdmissionKeeps, AnswerKeeps, ReadImageKeeps,
            PrepareKeeps, CheckKeeps, EffectKeeps, EffectFailsKeeps, RollbackKeeps,
            RollbackFailsKeeps DEF FileToolStep
  <2>2. UNCHANGED <<walk, budget>>
    BY <1>3 DEF FileToolStep, ReadAdmission, PatchAdmission, Approve, Deny, ReadImage,
       PatchPrepare, PatchCheck, PatchEffect, PatchEffectFails, PatchRollback,
       PatchRollbackFails
  <2> QED BY <1>1, <2>1, <2>2, WalkKept, BudgetKept DEF FilesInv, CallInv
<1> QED BY <1>2, <1>3

LEMMA NextFiles == FilesInv /\ [Next]_vars => FilesInv'
<1> SUFFICES ASSUME FilesInv, [Next]_vars PROVE FilesInv'
  OBVIOUS
<1>1. CallInv /\ WalkSound /\ BudgetSound
  BY DEF FilesInv, CallInv
<1>2. CASE UNCHANGED fileVars
  BY <1>1, <1>2, CallKept, WalkKept, BudgetKept DEF fileVars, FilesInv, CallInv
<1>3. CASE FileCall
  BY <1>3, FileToolKeeps DEF FileCall
<1>4. CASE OthersWrite
  <2>1. CallInv'
    <3>1. CASE \E p \in Paths, text \in ForeignTexts : ForeignWrite(p, text)
      BY <1>1, <3>1, ForeignWriteKeeps
    <3>2. CASE \E r \in Retargets : ForeignRetarget(r[1], r[2])
      <4>1. PICK r \in Retargets : ForeignRetarget(r[1], r[2])
        BY <3>2
      <4>2. r[1] \in Names /\ r[2] \in Paths
        BY ResolvedAssumption
      <4> QED BY <1>1, <4>1, <4>2, RetargetKeeps
    <3> QED BY <1>4, <3>1, <3>2 DEF OthersWrite, ForeignStep
  <2>2. UNCHANGED <<walk, budget>>
    BY <1>4 DEF OthersWrite, ForeignStep, ForeignWrite, ForeignRetarget
  <2> QED BY <1>1, <2>1, <2>2, WalkKept, BudgetKept DEF FilesInv, CallInv
<1>5. CASE RuntimeRefresh
  <2>1. UNCHANGED <<files, resolve, access, op, foreign, overwrote, walk>>
    BY <1>5 DEF RuntimeRefresh, RefreshSkills, NextTurn
  <2>2. UNCHANGED budget \/ budget' = [budget EXCEPT !.stale = TRUE]
    BY <1>5 DEF RuntimeRefresh, RefreshSkills, NextTurn
  <2>3. BudgetSound'
    BY <1>1, <2>2 DEF BudgetSound
  <2> QED BY <1>1, <2>1, <2>3, CallKept, WalkKept DEF FilesInv, CallInv
<1>6. CASE \/ ShellCall \/ ShellPoll \/ TaskControl
           \/ Programs \/ Descendants \/ Monitors \/ LogReaders \/ RuntimeEnds
           \/ McpLoad \/ McpCall \/ McpWait \/ McpThreads \/ McpRemote
  BY <1>6, <1>2 DEF ShellCall, ShellPoll, TaskControl, Programs, Descendants, Monitors,
     LogReaders, RuntimeEnds, McpLoad, McpCall, McpWait, McpThreads, McpRemote, fileVars
<1>7. CASE UNCHANGED vars
  BY <1>7, <1>2 DEF vars
<1> QED BY <1>3, <1>4, <1>5, <1>6, <1>7 DEF Next

LEMMA FilesInvHolds == Spec => []FilesInv
  BY InitFiles, NextFiles, PTL DEF Spec

\* A patch is all or nothing, it never replaces what another process wrote before its
\* last check, and the pages of an unchanged file are the file (apply_plan, read_page).
THEOREM FilesAsReported == Spec => []FilesTruthful
<1>1. FilesInv => FilesTruthful
  <2> SUFFICES ASSUME FilesInv PROVE FilesTruthful
    OBVIOUS
  <2>1. DOMAIN op.plan = 1..Len(op.plan)
    <3> DEFINE plan == op.plan
    <3>1. plan \in Seq(EffectType)
      BY DEF FilesInv, FileTypeOK, CallType
    <3> HIDE DEF plan
    <3>2. DOMAIN plan = 1..Len(plan)
      BY <3>1
    <3> QED BY <3>2 DEF plan
  <2>2. PatchAtomic
    BY <2>1 DEF FilesInv, PatchProgress, PatchAtomic
  <2>3. PagesComplete
    BY DEF FilesInv, WalkSound, PagesComplete
  <2> QED BY <2>2, <2>3 DEF FilesTruthful
<1> QED BY <1>1, FilesInvHolds, PTL

\* What a call reads or writes was admitted for this call, as it resolves when it runs,
\* and Skill files are read within the budget of the Turn (verify_admitted_path,
\* execute_after_admission, SkillReadBudget::record).
THEOREM CallsAsAdmitted == Spec => CallsStayAdmitted
<1> DEFINE Step ==
      /\ op.result # "read" /\ op'.result = "read" =>
            LET f == LocalFile(op.name)
            IN  f.path \in op.targets /\ (f.approval => op.approved)
      /\ op.st = "checking" /\ op'.st = "applying" =>
            \A e \in Range(op.plan) :
                /\ e.path \in op.targets
                /\ access.locked => IsSessionArtifact(e.path)
                /\ op.approved \/ /\ e.after # Absent
                                  /\ IsSessionArtifact(e.path) \/ IsWritePath(e.path)
      /\ budget'.bytes <= SkillWidth
<1>1. ASSUME FilesInv, FilesInv', [Next]_vars PROVE [Step]_fileVars
  <2>1. budget'.bytes <= SkillWidth
    BY <1>1 DEF FilesInv, BudgetSound
  <2>2. ASSUME op.st = "checking"
        PROVE  \A e \in Range(op.plan) :
                /\ e.path \in op.targets
                /\ access.locked => IsSessionArtifact(e.path)
                /\ op.approved \/ /\ e.after # Absent
                                  /\ IsSessionArtifact(e.path) \/ IsWritePath(e.path)
    BY <1>1, <2>2 DEF FilesInv, CallAdmitted, Range
  <2>3. ASSUME op.result # "read", op'.result = "read"
        PROVE  LET f == LocalFile(op.name)
               IN  f.path \in op.targets /\ (f.approval => op.approved)
    <3>1. op \in CallType
      BY <1>1 DEF FilesInv, FileTypeOK
    <3>2. op' # op
      BY <2>3
    <3>3. FileCall
      BY <1>1, <3>2 DEF Next, vars, fileVars, OthersWrite, ForeignStep, ForeignWrite,
         ForeignRetarget, RuntimeRefresh, RefreshSkills, NextTurn, ShellCall, ShellPoll,
         TaskControl, Programs, Descendants, Monitors, LogReaders, RuntimeEnds, McpLoad,
         McpCall, McpWait, McpThreads, McpRemote
    <3>4. FileToolStep
      BY <3>3 DEF FileCall
    <3>5. CASE ReadPage \/ ReadImage
      BY <2>3, <3>1, <3>5 DEF ReadPage, ReadImage, VerifyAdmittedPath, Finish, CallType
    <3>6. CASE \/ \E n \in Names, limit \in PageLines : ReadAdmission("read_file", n, limit)
               \/ \E n \in Names : ReadAdmission("read_image", n, 0)
               \/ \E ops \in Patches : PatchAdmission(ops)
      <4>1. op'.result \in {"none", "refused"}
        BY <3>6 DEF ReadAdmission, PatchAdmission, NoOp
      <4> QED BY <2>3, <4>1
    <3>7. CASE Approve \/ Deny \/ PatchPrepare \/ PatchCheck \/ PatchEffect
               \/ PatchEffectFails \/ PatchRollback \/ PatchRollbackFails
      <4>1. op'.result \in {op.result, "denied", "failed", "applied", "rolledBack", "none",
                            "rollbackFailed"}
        BY <3>1, <3>7 DEF Approve, Deny, PatchPrepare, PatchCheck, PatchEffect,
           PatchEffectFails, StartRollback, PatchRollback, PatchRollbackFails, Finish,
           CallType
      <4> QED BY <2>3, <4>1
    <3> QED BY <3>4, <3>5, <3>6, <3>7 DEF FileToolStep
  <2> QED BY <2>1, <2>2, <2>3
<1> QED BY <1>1, FilesInvHolds, PTL DEF Spec, CallsStayAdmitted

-----------------------------------------------------------------------------
(* The MCP servers. *)

McpTool == [exposed : STRING, inst : Nat]

ThreadType ==
  [label : DOMAIN Listing, config : ServerEntries,
   st : {"connecting", "serving", "remote", "ended"}, startup : {"none", "ok", "error"},
   queue : Seq(Nat), failures : Nat, tripped : BOOLEAN, streak : Nat]

McpCallType ==
  [inst : Nat, requested : BOOLEAN, ran : BOOLEAN, st : {"asking", "waiting", "done"},
   result : {"none", "deferred", "denied", "open", "ok", "failed", "timeout"}]

LoadType ==
  [st : {"none", "approving", "waiting"}, kind : {"start", "retry"},
   todo : Seq(ServerEntries), pending : Seq(Nat), tools : Seq(McpTool),
   loaded : SUBSET DOMAIN Listing]

McpTypeOK ==
  /\ status \in [enabled : SUBSET DOMAIN Listing, retry : Seq(ServerEntries), count : Nat]
  /\ mcpTools \in Seq(McpTool) /\ load \in LoadType
  /\ inst \in Seq(ThreadType) /\ calls \in Seq(McpCallType)

OneEach(servers) ==
  \A i, j \in 1..Len(servers) : i # j => servers[i].label # servers[j].label

LabelOf(i) == inst[i].label

\* A server is enabled, or it is offered for a retry; the load in progress is about
\* servers of the second kind, each of which it has yet to ask for, waits for, has
\* loaded, or dropped.
LoadSound ==
  /\ OneEach(status.retry) /\ OneEach(load.todo)
  /\ status.enabled \cap Labels(status.retry) = {}
  /\ \A i \in ServerThreads : LabelOf(i) \in status.enabled \cup Labels(status.retry)
  /\ Labels(load.todo) \cup load.loaded \subseteq Labels(status.retry)
  /\ Labels(load.todo) \cap load.loaded = {}
  /\ \A k \in 1..Len(load.pending) :
       /\ load.pending[k] \in ServerThreads
       /\ LabelOf(load.pending[k]) \in Labels(status.retry)
       /\ LabelOf(load.pending[k]) \notin Labels(load.todo) \cup load.loaded
  /\ \A j, k \in 1..Len(load.pending) :
       j # k => LabelOf(load.pending[j]) # LabelOf(load.pending[k])
  /\ load.st = "none" => load = NoLoad

\* The tools of a label are those of one thread, which serves.
OneThread(tools, labels) ==
  /\ \A t \in Range(tools) :
       /\ t.inst \in ServerThreads /\ LabelOf(t.inst) \in labels
       /\ inst[t.inst].st \in {"serving", "remote"}
  /\ \A t, u \in Range(tools) : LabelOf(t.inst) = LabelOf(u.inst) => t.inst = u.inst

ToolsSound ==
  /\ status.count = Len(mcpTools)
  /\ OneThread(mcpTools, status.enabled) /\ OneThread(load.tools, load.loaded)
  /\ \A k \in 1..Len(load.pending) :
       inst[load.pending[k]].startup = "ok" => inst[load.pending[k]].st \in {"serving", "remote"}

\* Only the call at the head of a queue may have reached the server.
Waits(i) ==
  /\ \A p \in 1..Len(inst[i].queue) :
       /\ inst[i].queue[p] \in DOMAIN calls
       /\ calls[inst[i].queue[p]].st # "asking"
       /\ calls[inst[i].queue[p]].result \in {"none", "timeout"}
       /\ calls[inst[i].queue[p]].requested => p = 1 /\ inst[i].st = "remote"
  /\ inst[i].st = "remote" => inst[i].queue # << >> /\ ~inst[i].tripped

BreakerSound(b) ==
  /\ b.streak <= b.failures /\ b.streak <= Threshold
  /\ b.failures >= Threshold /\ b.streak > 0 => b.tripped

CallSound(k) ==
  /\ k.st = "asking" => ~k.requested /\ k.result = "none"
  /\ k.result \in {"open", "deferred", "denied"} => k.st = "done" /\ ~k.requested
  /\ k.result = "ok" => k.ran
  /\ k.inst \in ServerThreads

CallsSound ==
  /\ \A i \in ServerThreads : Waits(i) /\ BreakerSound(inst[i])
  /\ \A i, j \in ServerThreads :
       \A p \in 1..Len(inst[i].queue), q \in 1..Len(inst[j].queue) :
         inst[i].queue[p] = inst[j].queue[q] => i = j /\ p = q
  /\ \A c \in DOMAIN calls : CallSound(calls[c])

McpInv == McpTypeOK /\ LoadSound /\ ToolsSound /\ CallsSound

-----------------------------------------------------------------------------
(* What the recursive functions of the MCP loader compute. *)

\* How far Kept has come.
KeepsUpTo(f, s, at, n) ==
  f = [i \in 0..n |-> IF i = 0 THEN << >>
                      ELSE IF i \in at THEN Append(f[i - 1], s[i]) ELSE f[i - 1]]

LEMMA KeepsDefined ==
  ASSUME NEW s, NEW at, NEW n \in Nat
  PROVE  \E f : KeepsUpTo(f, s, at, n)
<1> DEFINE S == {k \in Nat : \E f : KeepsUpTo(f, s, at, k)}
<1>1. 0 \in S
  <2> DEFINE g == [i \in 0..0 |-> << >>]
  <2>1. KeepsUpTo(g, s, at, 0)
    BY DEF KeepsUpTo
  <2> QED BY <2>1
<1>2. ASSUME NEW k \in Nat, k \in S PROVE k + 1 \in S
  <2>1. PICK f : KeepsUpTo(f, s, at, k)
    BY <1>2
  <2> DEFINE final == IF k + 1 \in at THEN Append(f[k], s[k + 1]) ELSE f[k]
             g == [i \in 0..(k + 1) |-> IF i = k + 1 THEN final ELSE f[i]]
  <2> HIDE DEF final
  <2>2. \A i \in 0..k : f[i] = IF i = 0 THEN << >>
                               ELSE IF i \in at THEN Append(f[i - 1], s[i]) ELSE f[i - 1]
    BY <2>1 DEF KeepsUpTo
  <2>3. \A i \in 0..(k + 1) : g[i] = IF i = 0 THEN << >>
                               ELSE IF i \in at THEN Append(g[i - 1], s[i]) ELSE g[i - 1]
    <3> TAKE i \in 0..(k + 1)
    <3>1. CASE i = k + 1
      <4>1. g[i] = final /\ g[i - 1] = f[k] /\ i # 0
        BY <3>1
      <4> QED BY <3>1, <4>1 DEF final
    <3>2. CASE i # k + 1
      <4>1. i \in 0..k /\ g[i] = f[i] /\ (i # 0 => g[i - 1] = f[i - 1])
        BY <3>2
      <4> QED BY <2>2, <4>1
    <3> QED BY <3>1, <3>2
  <2>4. KeepsUpTo(g, s, at, k + 1)
    BY <2>3 DEF KeepsUpTo
  <2> QED BY <2>4
<1> HIDE DEF S
<1>3. \A k \in 0..n : k \in S
  BY <1>1, <1>2, UpTo
<1> QED BY <1>3 DEF S

\* t holds the elements of s at the positions of a set up to n, each once.
Selected(t, s, at, n, X) ==
  /\ t \in Seq(X)
  /\ \A p \in 1..Len(t) : \E k \in 1..n : k \in at /\ t[p] = s[k]
  /\ \A k \in 1..n : k \in at => \E p \in 1..Len(t) : t[p] = s[k]
  /\ \A p, q \in 1..Len(t) : p # q => \E j, k \in 1..n : j # k /\ t[p] = s[j] /\ t[q] = s[k]

LEMMA SelectedStep ==
  ASSUME NEW X, NEW s, NEW at, NEW n \in Nat, n # 0, s[n] \in X, NEW t,
         Selected(t, s, at, n - 1, X)
  PROVE  Selected(IF n \in at THEN Append(t, s[n]) ELSE t, s, at, n, X)
<1>1. 1..n - 1 \subseteq 1..n /\ n \in 1..n /\ \A k \in 1..n : k \in 1..n - 1 \/ k = n
  OBVIOUS
<1>2. CASE n \notin at
  <2>1. \A p \in 1..Len(t) : \E k \in 1..n : k \in at /\ t[p] = s[k]
    BY <1>1 DEF Selected
  <2>2. \A k \in 1..n : k \in at => \E p \in 1..Len(t) : t[p] = s[k]
    BY <1>1, <1>2 DEF Selected
  <2>3. ASSUME NEW p \in 1..Len(t), NEW q \in 1..Len(t), p # q
        PROVE  \E j, k \in 1..n : j # k /\ t[p] = s[j] /\ t[q] = s[k]
    <3>1. PICK j \in 1..n - 1, k \in 1..n - 1 : j # k /\ t[p] = s[j] /\ t[q] = s[k]
      BY <2>3 DEF Selected
    <3> QED BY <1>1, <3>1
  <2>4. Selected(t, s, at, n, X)
    BY <2>1, <2>2, <2>3 DEF Selected
  <2> QED BY <1>2, <2>4
<1>3. CASE n \in at
  <2> DEFINE u == Append(t, s[n])
  <2>1. /\ u \in Seq(X) /\ Len(u) = Len(t) + 1 /\ Len(t) \in Nat
        /\ \A p \in 1..Len(t) : u[p] = t[p]
        /\ u[Len(t) + 1] = s[n]
        /\ \A p \in 1..Len(u) : p \in 1..Len(t) \/ p = Len(t) + 1
    BY DEF Selected
  <2> HIDE DEF u
  <2>2. ASSUME NEW p \in 1..Len(u)
        PROVE  \E k \in 1..n : k \in at /\ u[p] = s[k]
    <3>1. CASE p \in 1..Len(t)
      <4>1. PICK k \in 1..n - 1 : k \in at /\ t[p] = s[k]
        BY <3>1 DEF Selected
      <4> QED BY <1>1, <2>1, <3>1, <4>1
    <3>2. CASE p = Len(t) + 1
      BY <1>1, <1>3, <2>1, <3>2
    <3> QED BY <2>1, <3>1, <3>2
  <2>3. ASSUME NEW k \in 1..n, k \in at
        PROVE  \E p \in 1..Len(u) : u[p] = s[k]
    <3>1. 1..Len(t) \subseteq 1..Len(u) /\ Len(t) + 1 \in 1..Len(u)
      BY <2>1
    <3>2. CASE k \in 1..n - 1
      <4>1. PICK p \in 1..Len(t) : t[p] = s[k]
        BY <2>3, <3>2 DEF Selected
      <4> QED BY <2>1, <3>1, <4>1
    <3>3. CASE k = n
      BY <2>1, <3>1, <3>3
    <3> QED BY <1>1, <3>2, <3>3
  <2>4. ASSUME NEW p \in 1..Len(u), NEW q \in 1..Len(u), p # q
        PROVE  \E j, k \in 1..n : j # k /\ u[p] = s[j] /\ u[q] = s[k]
    <3>1. CASE p \in 1..Len(t) /\ q \in 1..Len(t)
      <4>1. PICK j \in 1..n - 1, k \in 1..n - 1 : j # k /\ t[p] = s[j] /\ t[q] = s[k]
        BY <2>4, <3>1 DEF Selected
      <4> QED BY <1>1, <2>1, <3>1, <4>1
    <3>2. CASE p \in 1..Len(t) /\ q = Len(t) + 1
      <4>1. PICK j \in 1..n - 1 : t[p] = s[j]
        BY <3>2 DEF Selected
      <4>2. j # n
        OBVIOUS
      <4> QED BY <1>1, <2>1, <3>2, <4>1, <4>2
    <3>3. CASE q \in 1..Len(t) /\ p = Len(t) + 1
      <4>1. PICK k \in 1..n - 1 : t[q] = s[k]
        BY <3>3 DEF Selected
      <4>2. k # n
        OBVIOUS
      <4> QED BY <1>1, <2>1, <3>3, <4>1, <4>2
    <3> QED BY <2>1, <2>4, <3>1, <3>2, <3>3
  <2>5. Selected(u, s, at, n, X)
    BY <2>1, <2>2, <2>3, <2>4 DEF Selected
  <2> QED BY <1>3, <2>5 DEF u
<1> QED BY <1>2, <1>3

LEMMA KeptHolds ==
  ASSUME NEW X, NEW s \in Seq(X), NEW at
  PROVE  Selected(Kept(s, at), s, at, Len(s), X)
<1> DEFINE n == Len(s)
<1>1. n \in Nat /\ \A i \in 1..n : s[i] \in X
  OBVIOUS
<1> HIDE DEF n
<1>2. \E f : KeepsUpTo(f, s, at, n)
  BY <1>1, KeepsDefined
<1>3. PICK f : KeepsUpTo(f, s, at, n) /\ Kept(s, at) = f[n]
  BY <1>2 DEF KeepsUpTo, Kept, n
<1>4. \A i \in 0..n : f[i] = IF i = 0 THEN << >>
                             ELSE IF i \in at THEN Append(f[i - 1], s[i]) ELSE f[i - 1]
  BY <1>3 DEF KeepsUpTo
<1> DEFINE S == {k \in Nat : k <= n => Selected(f[k], s, at, k, X)}
<1>5. 0 \in S
  <2>1. f[0] = << >> /\ << >> \in Seq(X) /\ 1..0 = {} /\ Len(<< >>) = 0
    BY <1>1, <1>4
  <2> QED BY <2>1 DEF Selected
<1>6. ASSUME NEW k \in 0..n, k \in S, k < n PROVE k + 1 \in S
  <2>1. /\ k + 1 \in 1..n /\ k + 1 \in Nat /\ k + 1 \in 0..n /\ (k + 1) - 1 = k
        /\ Selected(f[k], s, at, k, X) /\ k + 1 # 0
    BY <1>1, <1>6
  <2>2. f[k + 1] = IF k + 1 \in at THEN Append(f[k], s[k + 1]) ELSE f[k]
    BY <1>4, <2>1
  <2>3. s[k + 1] \in X /\ Selected(f[k], s, at, (k + 1) - 1, X)
    BY <1>1, <2>1
  <2>4. Selected(f[k + 1], s, at, k + 1, X)
    <3> DEFINE m == k + 1
    <3>1. /\ m \in Nat /\ m # 0 /\ s[m] \in X /\ Selected(f[k], s, at, m - 1, X)
          /\ f[m] = IF m \in at THEN Append(f[k], s[m]) ELSE f[k]
      BY <2>1, <2>2, <2>3
    <3> HIDE DEF m
    <3>2. Selected(IF m \in at THEN Append(f[k], s[m]) ELSE f[k], s, at, m, X)
      BY <3>1, SelectedStep
    <3>3. Selected(f[m], s, at, m, X)
      BY <3>1, <3>2
    <3> QED BY <3>3 DEF m
  <2> QED BY <2>1, <2>4
<1>7. \A k \in 0..n : k \in S
  <2> HIDE DEF S
  <2> QED BY <1>1, <1>5, <1>6, UpTo
<1>8. n \in 0..n
  BY <1>1
<1> QED BY <1>3, <1>7, <1>8 DEF n

\* How far Discovered has come.
DiscoversUpTo(f, entries, n) ==
  f = [i \in 0..n |-> IF i = 0 THEN << >> ELSE PushMcpServer(f[i - 1], entries[i])]

LEMMA DiscoversDefined ==
  ASSUME NEW entries, NEW n \in Nat
  PROVE  \E f : DiscoversUpTo(f, entries, n)
<1> DEFINE S == {k \in Nat : \E f : DiscoversUpTo(f, entries, k)}
<1>1. 0 \in S
  <2> DEFINE g == [i \in 0..0 |-> << >>]
  <2>1. DiscoversUpTo(g, entries, 0)
    BY DEF DiscoversUpTo
  <2> QED BY <2>1
<1>2. ASSUME NEW k \in Nat, k \in S PROVE k + 1 \in S
  <2>1. PICK f : DiscoversUpTo(f, entries, k)
    BY <1>2
  <2> DEFINE final == PushMcpServer(f[k], entries[k + 1])
             g == [i \in 0..(k + 1) |-> IF i = k + 1 THEN final ELSE f[i]]
  <2> HIDE DEF final
  <2>2. \A i \in 0..k : f[i] = IF i = 0 THEN << >> ELSE PushMcpServer(f[i - 1], entries[i])
    BY <2>1 DEF DiscoversUpTo
  <2>3. \A i \in 0..(k + 1) : g[i] = IF i = 0 THEN << >> ELSE PushMcpServer(g[i - 1], entries[i])
    <3> TAKE i \in 0..(k + 1)
    <3>1. CASE i = k + 1
      <4>1. g[i] = final /\ g[i - 1] = f[k] /\ i # 0
        BY <3>1
      <4> QED BY <3>1, <4>1 DEF final
    <3>2. CASE i # k + 1
      <4>1. i \in 0..k /\ g[i] = f[i] /\ (i # 0 => g[i - 1] = f[i - 1])
        BY <3>2
      <4> QED BY <2>2, <4>1
    <3> QED BY <3>1, <3>2
  <2>4. DiscoversUpTo(g, entries, k + 1)
    BY <2>3 DEF DiscoversUpTo
  <2> QED BY <2>4
<1> HIDE DEF S
<1>3. \A k \in 0..n : k \in S
  BY <1>1, <1>2, UpTo
<1> QED BY <1>3 DEF S

Servers(s) == s \in Seq(ServerEntries) /\ OneEach(s)

LEMMA PushKeeps ==
  ASSUME NEW servers, Servers(servers), NEW e \in ServerEntries
  PROVE  Servers(PushMcpServer(servers, e))
<1>1. CASE PushMcpServer(servers, e) = servers
  BY <1>1
<1>2. CASE PushMcpServer(servers, e) # servers
  <2>1. PushMcpServer(servers, e) = Append(servers, e) /\ e.label \notin Labels(servers)
    BY <1>2 DEF PushMcpServer
  <2> DEFINE t == Append(servers, e)
  <2>2. /\ t \in Seq(ServerEntries) /\ Len(t) = Len(servers) + 1 /\ Len(servers) \in Nat
        /\ \A p \in 1..Len(servers) : t[p] = servers[p]
        /\ t[Len(servers) + 1] = e
        /\ \A p \in 1..Len(t) : p \in 1..Len(servers) \/ p = Len(servers) + 1
    BY DEF Servers
  <2> HIDE DEF t
  <2>3. \A p \in 1..Len(servers) : servers[p].label # e.label
    <3>1. DOMAIN servers = 1..Len(servers)
      BY DEF Servers
    <3> QED BY <2>1, <3>1 DEF Labels, Range
  <2>4. OneEach(t)
    BY <2>2, <2>3 DEF OneEach, Servers
  <2> QED BY <2>1, <2>2, <2>4 DEF Servers, t
<1> QED BY <1>1, <1>2

LEMMA DiscoveredHolds ==
  ASSUME NEW entries \in Seq(ServerEntries)
  PROVE  Servers(Discovered(entries))
<1> DEFINE n == Len(entries)
<1>1. n \in Nat /\ \A i \in 1..n : entries[i] \in ServerEntries
  OBVIOUS
<1> HIDE DEF n
<1>2. \E f : DiscoversUpTo(f, entries, n)
  BY <1>1, DiscoversDefined
<1>3. PICK f : DiscoversUpTo(f, entries, n) /\ Discovered(entries) = f[n]
  BY <1>2 DEF DiscoversUpTo, Discovered, n
<1>4. \A i \in 0..n : f[i] = IF i = 0 THEN << >> ELSE PushMcpServer(f[i - 1], entries[i])
  BY <1>3 DEF DiscoversUpTo
<1> DEFINE S == {k \in Nat : k <= n => Servers(f[k])}
<1>5. 0 \in S
  <2>1. f[0] = << >> /\ << >> \in Seq(ServerEntries) /\ 1..Len(<< >>) = {}
    BY <1>1, <1>4
  <2> QED BY <2>1 DEF Servers, OneEach
<1>6. ASSUME NEW k \in 0..n, k \in S, k < n PROVE k + 1 \in S
  <2>1. /\ k + 1 \in 1..n /\ k + 1 \in Nat /\ k + 1 \in 0..n /\ (k + 1) - 1 = k
        /\ Servers(f[k]) /\ k + 1 # 0
    BY <1>1, <1>6
  <2>2. f[k + 1] = PushMcpServer(f[k], entries[k + 1])
    BY <1>4, <2>1
  <2>3. Servers(f[k + 1])
    BY <1>1, <2>1, <2>2, PushKeeps
  <2> QED BY <2>1, <2>3
<1>7. \A k \in 0..n : k \in S
  <2> HIDE DEF S
  <2> QED BY <1>1, <1>5, <1>6, UpTo
<1>8. n \in 0..n
  BY <1>1
<1> QED BY <1>3, <1>7, <1>8 DEF n

\* How far Collect has come.
CollectsUpTo(f, tools, remote, i, n) ==
  f = [k \in 0..n |->
        IF k = 0 THEN tools
        ELSE AddTool(f[k - 1], [exposed |-> remote[k].exposed, inst |-> i])]

LEMMA CollectsDefined ==
  ASSUME NEW tools, NEW remote, NEW i, NEW n \in Nat
  PROVE  \E f : CollectsUpTo(f, tools, remote, i, n)
<1> DEFINE S == {k \in Nat : \E f : CollectsUpTo(f, tools, remote, i, k)}
           tool(k) == [exposed |-> remote[k].exposed, inst |-> i]
<1>1. 0 \in S
  <2> DEFINE g == [k \in 0..0 |-> tools]
  <2>1. CollectsUpTo(g, tools, remote, i, 0)
    BY DEF CollectsUpTo
  <2> QED BY <2>1
<1>2. ASSUME NEW k \in Nat, k \in S PROVE k + 1 \in S
  <2>1. PICK f : CollectsUpTo(f, tools, remote, i, k)
    BY <1>2
  <2> DEFINE final == AddTool(f[k], tool(k + 1))
             g == [j \in 0..(k + 1) |-> IF j = k + 1 THEN final ELSE f[j]]
  <2> HIDE DEF final
  <2>2. \A j \in 0..k : f[j] = IF j = 0 THEN tools ELSE AddTool(f[j - 1], tool(j))
    BY <2>1 DEF CollectsUpTo
  <2> HIDE DEF tool
  <2>3. \A j \in 0..(k + 1) : g[j] = IF j = 0 THEN tools ELSE AddTool(g[j - 1], tool(j))
    <3> TAKE j \in 0..(k + 1)
    <3>1. CASE j = k + 1
      <4>1. g[j] = final /\ g[j - 1] = f[k] /\ j # 0
        BY <3>1
      <4> QED BY <3>1, <4>1 DEF final
    <3>2. CASE j # k + 1
      <4>1. j \in 0..k /\ g[j] = f[j] /\ (j # 0 => g[j - 1] = f[j - 1])
        BY <3>2
      <4> QED BY <2>2, <4>1
    <3> QED BY <3>1, <3>2
  <2>4. CollectsUpTo(g, tools, remote, i, k + 1)
    BY <2>3 DEF CollectsUpTo, tool
  <2> QED BY <2>4
<1> HIDE DEF S
<1>3. \A k \in 0..n : k \in S
  BY <1>1, <1>2, UpTo
<1> QED BY <1>3 DEF S

\* Tools of which those that tools does not hold belong to thread i.
Adds(more, tools, i) ==
  /\ more \in Seq(McpTool)
  /\ \A t \in Range(more) : t \in Range(tools) \/ t.inst = i

LEMMA AddKeeps ==
  ASSUME NEW tools, NEW i \in Nat, NEW so, Adds(so, tools, i), NEW name \in STRING
  PROVE  Adds(AddTool(so, [exposed |-> name, inst |-> i]), tools, i)
<1> DEFINE t == [exposed |-> name, inst |-> i]
<1>1. t \in McpTool /\ t.inst = i
  BY DEF McpTool
<1> HIDE DEF t
<1>2. AddTool(so, t) = so \/ AddTool(so, t) = Append(so, t)
  BY DEF AddTool
<1>3. CASE AddTool(so, t) = Append(so, t)
  <2> DEFINE u == Append(so, t)
  <2>1. /\ u \in Seq(McpTool) /\ DOMAIN u = 1..Len(u) /\ DOMAIN so = 1..Len(so)
        /\ \A p \in 1..Len(u) : (p \in 1..Len(so) /\ u[p] = so[p]) \/ u[p] = t
    BY <1>1 DEF Adds
  <2> HIDE DEF u
  <2>2. \A x \in Range(u) : x \in Range(so) \/ x = t
    BY <2>1 DEF Range
  <2>3. Adds(u, tools, i)
    BY <1>1, <2>1, <2>2 DEF Adds
  <2> QED BY <1>3, <2>3 DEF t, u
<1> QED BY <1>2, <1>3 DEF t

LEMMA RemoteTyped ==
  ASSUME NEW label \in DOMAIN Listing
  PROVE  RemoteTools(label) \in Seq(ListedTools)
<1>1. Listing[label] \in Seq(ListedTools)
  BY ListingAssumption
<1> DEFINE at == {k \in DOMAIN Listing[label] : Listing[label][k].fits}
           fitting == Kept(Listing[label], at)
<1>2. fitting \in Seq(ListedTools)
  <2> HIDE DEF at
  <2> QED BY <1>1, KeptHolds DEF Selected
<1>3. RemoteTools(label)
        = SubSeq(fitting, 1, IF Len(fitting) < MaxTools THEN Len(fitting) ELSE MaxTools)
  BY DEF RemoteTools
<1> HIDE DEF fitting
<1>4. MaxTools \in Nat
  BY McpBounds
<1> QED BY <1>2, <1>3, <1>4

LEMMA CollectHolds ==
  ASSUME NEW tools \in Seq(McpTool), NEW i \in Nat, inst[i].label \in DOMAIN Listing
  PROVE  Adds(Collect(tools, i).tools, tools, i)
<1> DEFINE remote == RemoteTools(inst[i].label)
           n == Len(remote)
<1>1. remote \in Seq(ListedTools)
  BY RemoteTyped
<1>2. n \in Nat /\ \A k \in 1..n : remote[k].exposed \in STRING
  <2> HIDE DEF remote
  <2>1. n \in Nat /\ \A k \in 1..n : remote[k] \in ListedTools
    BY <1>1
  <2> QED BY <2>1 DEF ListedTools
<1> HIDE DEF remote, n
<1>3. \E f : CollectsUpTo(f, tools, remote, i, n)
  BY <1>2, CollectsDefined
<1>4. PICK f : CollectsUpTo(f, tools, remote, i, n) /\ Collect(tools, i).tools = f[n]
  BY <1>3 DEF CollectsUpTo, Collect, remote, n
<1>5. \A k \in 0..n :
        f[k] = IF k = 0 THEN tools
               ELSE AddTool(f[k - 1], [exposed |-> remote[k].exposed, inst |-> i])
  BY <1>4 DEF CollectsUpTo
<1> DEFINE S == {k \in Nat : k <= n => Adds(f[k], tools, i)}
<1>6. 0 \in S
  <2>1. f[0] = tools
    <3>1. 0 \in 0..n
      BY <1>2
    <3> QED BY <1>5, <3>1
  <2>2. Adds(tools, tools, i)
    BY DEF Adds
  <2> QED BY <2>1, <2>2
<1>7. ASSUME NEW k \in 0..n, k \in S, k < n PROVE k + 1 \in S
  <2>1. /\ k + 1 \in 1..n /\ k + 1 \in Nat /\ k + 1 \in 0..n /\ (k + 1) - 1 = k
        /\ Adds(f[k], tools, i) /\ k + 1 # 0
    BY <1>2, <1>7
  <2>2. f[k + 1] = AddTool(f[k], [exposed |-> remote[k + 1].exposed, inst |-> i])
    BY <1>5, <2>1
  <2>3. remote[k + 1].exposed \in STRING
    BY <1>2, <2>1
  <2>4. Adds(f[k + 1], tools, i)
    BY <2>1, <2>2, <2>3, AddKeeps
  <2> QED BY <2>1, <2>4
<1>8. \A k \in 0..n : k \in S
  <2> HIDE DEF S
  <2> QED BY <1>2, <1>6, <1>7, UpTo
<1>9. n \in 0..n
  BY <1>2
<1> QED BY <1>4, <1>8, <1>9

\* A thread a tool belongs to goes on serving, and one that reported tools serves.
StillServes(i, r) ==
  /\ (\E t \in Range(load.tools) \cup Range(mcpTools) : t.inst = i)
       => r.st \in {"serving", "remote"}
  /\ i \in Range(load.pending) /\ r.startup = "ok" => r.st \in {"serving", "remote"}

LEMMA ThreadStep ==
  ASSUME McpInv, NEW i \in ServerThreads, NEW r \in ThreadType, KeepLoad,
         inst' = [inst EXCEPT ![i] = r], r.label = inst[i].label, StillServes(i, r)
  PROVE  /\ inst' \in Seq(ThreadType) /\ ServerThreads' = ServerThreads /\ inst'[i] = r
         /\ \A j \in ServerThreads : j # i => inst'[j] = inst[j]
         /\ LoadSound' /\ ToolsSound'
<1>1. inst \in Seq(ThreadType) /\ ServerThreads = 1..Len(inst)
  BY DEF McpInv, McpTypeOK, ServerThreads
<1>2. /\ inst' \in Seq(ThreadType) /\ ServerThreads' = ServerThreads /\ inst'[i] = r
      /\ \A j \in ServerThreads : j # i => inst'[j] = inst[j]
  <2>1. inst' \in Seq(ThreadType) /\ Len(inst') = Len(inst) /\ inst'[i] = r
        /\ \A j \in 1..Len(inst) : j # i => inst'[j] = inst[j]
    BY <1>1
  <2>2. DOMAIN inst' = 1..Len(inst')
    BY <2>1
  <2> QED BY <1>1, <2>1, <2>2 DEF ServerThreads
<1>3. \A j \in ServerThreads : inst'[j].label = inst[j].label
  BY <1>2
<1>4. status' = status /\ mcpTools' = mcpTools /\ load' = load
  BY DEF KeepLoad
<1>5. LoadSound'
  <2>1. LoadSound
    BY DEF McpInv
  <2>2. /\ status'.retry = status.retry /\ status'.enabled = status.enabled
        /\ load'.todo = load.todo /\ load'.pending = load.pending
        /\ load'.loaded = load.loaded /\ load'.st = load.st
    BY <1>4
  <2>3. /\ \A j \in ServerThreads : inst'[j].label \in status.enabled \cup Labels(status.retry)
        /\ \A k \in 1..Len(load.pending) :
             /\ load.pending[k] \in ServerThreads
             /\ inst'[load.pending[k]].label \in Labels(status.retry)
             /\ inst'[load.pending[k]].label \notin Labels(load.todo) \cup load.loaded
        /\ \A j, k \in 1..Len(load.pending) :
             j # k => inst'[load.pending[j]].label # inst'[load.pending[k]].label
    BY <1>3, <2>1 DEF LoadSound, LabelOf
  <2>4. OneEach(status.retry)' /\ OneEach(load.todo)'
    BY <2>1, <2>2 DEF LoadSound, OneEach
  <2>5. Labels(status.retry)' = Labels(status.retry) /\ Labels(load.todo)' = Labels(load.todo)
    BY <2>2 DEF Labels
  <2> QED BY <1>2, <1>4, <2>1, <2>2, <2>3, <2>4, <2>5 DEF LoadSound, LabelOf
<1>6. ToolsSound'
  <2>0. ToolsSound
    BY DEF McpInv
  <2>1. ASSUME NEW tools, NEW labels, OneThread(tools, labels),
               \A t \in Range(tools) : t \in Range(load.tools) \cup Range(mcpTools)
        PROVE  /\ \A t \in Range(tools) :
                    /\ t.inst \in ServerThreads /\ inst'[t.inst].label \in labels
                    /\ inst'[t.inst].st \in {"serving", "remote"}
               /\ \A t, u \in Range(tools) :
                    inst'[t.inst].label = inst'[u.inst].label => t.inst = u.inst
    BY <1>2, <1>3, <2>1 DEF OneThread, LabelOf, StillServes
  <2>2. OneThread(mcpTools, status.enabled)'
    <3>1. OneThread(mcpTools, status.enabled)
      BY <2>0 DEF ToolsSound
    <3>2. \A t \in Range(mcpTools) : t \in Range(load.tools) \cup Range(mcpTools)
      OBVIOUS
    <3>3. status'.enabled = status.enabled
      BY <1>4
    <3>4. /\ \A t \in Range(mcpTools) :
               /\ t.inst \in ServerThreads /\ inst'[t.inst].label \in status.enabled
               /\ inst'[t.inst].st \in {"serving", "remote"}
          /\ \A t, u \in Range(mcpTools) :
               inst'[t.inst].label = inst'[u.inst].label => t.inst = u.inst
      BY <2>1, <3>1, <3>2
    <3>5. Range(mcpTools)' = Range(mcpTools) /\ ServerThreads' = ServerThreads
      BY <1>2, <1>4, <3>3 DEF Range
    <3> QED BY <1>4, <3>3, <3>4, <3>5 DEF OneThread, LabelOf
  <2>3. OneThread(load.tools, load.loaded)'
    <3>1. OneThread(load.tools, load.loaded)
      BY <2>0 DEF ToolsSound
    <3>2. \A t \in Range(load.tools) : t \in Range(load.tools) \cup Range(mcpTools)
      OBVIOUS
    <3>3. load'.tools = load.tools /\ load'.loaded = load.loaded
      BY <1>4
    <3>4. /\ \A t \in Range(load.tools) :
               /\ t.inst \in ServerThreads /\ inst'[t.inst].label \in load.loaded
               /\ inst'[t.inst].st \in {"serving", "remote"}
          /\ \A t, u \in Range(load.tools) :
               inst'[t.inst].label = inst'[u.inst].label => t.inst = u.inst
      BY <2>1, <3>1, <3>2
    <3>5. Range(load.tools)' = Range(load.tools) /\ ServerThreads' = ServerThreads
      BY <1>2, <1>4, <3>3 DEF Range
    <3> QED BY <1>4, <3>3, <3>4, <3>5 DEF OneThread, LabelOf
  <2>4. ASSUME NEW k \in 1..Len(load.pending), inst'[load.pending[k]].startup = "ok"
        PROVE  inst'[load.pending[k]].st \in {"serving", "remote"}
    <3>1. load.pending[k] \in ServerThreads
      BY DEF McpInv, LoadSound
    <3>2. load.pending[k] \in Range(load.pending)
      <4>1. load.pending \in Seq(Nat)
        BY DEF McpInv, McpTypeOK, LoadType
      <4>2. DOMAIN load.pending = 1..Len(load.pending)
        BY <4>1
      <4> QED BY <4>2 DEF Range
    <3>3. CASE load.pending[k] = i
      BY <1>2, <2>4, <3>2, <3>3 DEF StillServes
    <3>4. CASE load.pending[k] # i
      BY <1>2, <2>0, <2>4, <3>1, <3>4 DEF ToolsSound
    <3> QED BY <3>3, <3>4
  <2> QED BY <1>4, <2>0, <2>2, <2>3, <2>4 DEF ToolsSound
<1> QED BY <1>2, <1>5, <1>6

LEMMA CallStep ==
  ASSUME McpInv, NEW c \in DOMAIN calls, NEW k \in McpCallType, calls' = [calls EXCEPT ![c] = k]
  PROVE  /\ calls' \in Seq(McpCallType) /\ DOMAIN calls' = DOMAIN calls /\ calls'[c] = k
         /\ \A d \in DOMAIN calls : d # c => calls'[d] = calls[d]
<1>1. calls \in Seq(McpCallType) /\ DOMAIN calls = 1..Len(calls)
  BY DEF McpInv, McpTypeOK
<1>2. /\ calls' \in Seq(McpCallType) /\ Len(calls') = Len(calls) /\ calls'[c] = k
      /\ \A d \in 1..Len(calls) : d # c => calls'[d] = calls[d]
  BY <1>1
<1>3. DOMAIN calls' = 1..Len(calls')
  BY <1>2
<1> QED BY <1>1, <1>2, <1>3

LEMMA TypesOf ==
  ASSUME McpInv
  PROVE  /\ \A i \in ServerThreads :
              /\ inst[i] \in ThreadType /\ inst[i].queue \in Seq(Nat)
              /\ inst[i].label \in DOMAIN Listing
              /\ inst[i].failures \in Nat /\ inst[i].streak \in Nat /\ inst[i].tripped \in BOOLEAN
         /\ \A c \in DOMAIN calls :
              /\ calls[c] \in McpCallType /\ calls[c].inst \in ServerThreads
              /\ calls[c].requested \in BOOLEAN /\ calls[c].ran \in BOOLEAN
<1>1. inst \in Seq(ThreadType) /\ calls \in Seq(McpCallType)
  BY DEF McpInv, McpTypeOK
<1>2. /\ \A i \in ServerThreads : inst[i] \in ThreadType
      /\ \A c \in DOMAIN calls : calls[c] \in McpCallType
  BY <1>1 DEF ServerThreads
<1>3. \A c \in DOMAIN calls : calls[c].inst \in ServerThreads
  BY DEF McpInv, CallsSound, CallSound
<1> QED BY <1>2, <1>3 DEF ThreadType, McpCallType

\* The facts about the threads and the calls that a step changes.
ThreadIs(i, r) == inst'[i] = r /\ \A j \in ServerThreads : j # i => inst'[j] = inst[j]
CallIs(c, k) == calls'[c] = k /\ \A d \in DOMAIN calls : d # c => calls'[d] = calls[d]

\* A step of a thread that touches no call.
LEMMA QuietThread ==
  ASSUME McpInv, NEW i \in ServerThreads, NEW r, ServerThreads' = ServerThreads, ThreadIs(i, r),
         calls' = calls, r.queue = inst[i].queue, r.st = "remote" <=> inst[i].st = "remote",
         r.tripped => inst[i].tripped, BreakerSound(r)
  PROVE  CallsSound'
<1>1. CallsSound
  BY DEF McpInv
<1>2. \A j \in ServerThreads : inst'[j].queue = inst[j].queue
  BY DEF ThreadIs
<1>3. ASSUME NEW j \in ServerThreads
      PROVE  Waits(j)' /\ BreakerSound(inst[j])'
  <2>1. inst'[j].st = "remote" <=> inst[j].st = "remote"
    BY DEF ThreadIs
  <2>2. inst'[j].tripped => inst[j].tripped
    BY DEF ThreadIs
  <2>3. Waits(j)'
    BY <1>1, <1>2, <2>1, <2>2 DEF CallsSound, Waits
  <2>4. BreakerSound(inst[j])'
    BY <1>1 DEF CallsSound, BreakerSound, ThreadIs
  <2> QED BY <2>3, <2>4
<1>4. \A c \in DOMAIN calls : CallSound(calls[c])'
  BY <1>1 DEF CallsSound, CallSound
<1>5. ASSUME NEW j \in ServerThreads, NEW k \in ServerThreads,
             NEW p \in 1..Len(inst'[j].queue), NEW q \in 1..Len(inst'[k].queue),
             inst'[j].queue[p] = inst'[k].queue[q]
      PROVE  j = k /\ p = q
  <2>1. inst'[j].queue = inst[j].queue /\ inst'[k].queue = inst[k].queue
    BY <1>2
  <2> QED BY <1>1, <1>5, <2>1 DEF CallsSound
<1>6. ServerThreads' = ServerThreads /\ DOMAIN calls' = DOMAIN calls /\ calls' = calls
  OBVIOUS
<1> QED BY <1>3, <1>4, <1>5, <1>6 DEF CallsSound

\* The head of a queue is answered or was given up; the calls behind it are untouched.
LEMMA AnswerStep ==
  ASSUME McpInv, NEW i \in ServerThreads, NEW r, ServerThreads' = ServerThreads, ThreadIs(i, r),
         inst[i].queue # << >>, r.queue = Tail(inst[i].queue), r.st = "serving",
         BreakerSound(r), NEW k, DOMAIN calls' = DOMAIN calls, CallIs(Head(inst[i].queue), k),
         CallSound(k)
  PROVE  CallsSound'
<1> DEFINE q == inst[i].queue
           c == Head(q)
           m == Len(q)
<1>1. /\ CallsSound /\ q \in Seq(Nat) /\ m \in Nat /\ m >= 1 /\ c = q[1]
      /\ Len(Tail(q)) = m - 1 /\ \A p \in 1..(m - 1) : Tail(q)[p] = q[p + 1]
  <2>1. q \in Seq(Nat) /\ q # << >>
    BY TypesOf
  <2> HIDE DEF q
  <2> QED BY <2>1 DEF McpInv
<1> HIDE DEF c, m
<1>2. \A j \in ServerThreads : \A p \in 1..Len(inst[j].queue) :
        inst[j].queue[p] = c => j = i /\ p = 1
  <2>1. 1 \in 1..m
    BY <1>1
  <2> QED BY <1>1, <2>1 DEF CallsSound, m
<1>3. ASSUME NEW j \in ServerThreads, j # i
      PROVE  Waits(j)' /\ BreakerSound(inst[j])'
  <2>1. inst'[j] = inst[j]
    BY <1>3 DEF ThreadIs
  <2>2. Waits(j) /\ BreakerSound(inst[j])
    BY <1>1 DEF CallsSound
  <2>3. \A p \in 1..Len(inst[j].queue) : calls'[inst[j].queue[p]] = calls[inst[j].queue[p]]
    BY <1>2, <1>3, <2>2 DEF Waits, CallIs, c
  <2> QED BY <2>1, <2>2, <2>3 DEF Waits, BreakerSound
<1>4. Waits(i)' /\ BreakerSound(inst[i])'
  <2>1. inst'[i] = r /\ Waits(i)
    BY <1>1 DEF ThreadIs, CallsSound
  <2>2. ASSUME NEW p \in 1..(m - 1)
        PROVE  /\ Tail(q)[p] \in DOMAIN calls /\ calls'[Tail(q)[p]].st # "asking"
               /\ calls'[Tail(q)[p]].result \in {"none", "timeout"}
               /\ ~calls'[Tail(q)[p]].requested
    <3>1. p + 1 \in 1..m /\ p + 1 # 1 /\ Tail(q)[p] = q[p + 1]
      BY <1>1
    <3>2. q[p + 1] # c /\ q[p + 1] \in DOMAIN calls
      BY <1>2, <2>1, <3>1 DEF Waits, m
    <3>3. calls'[q[p + 1]] = calls[q[p + 1]]
      BY <3>2 DEF CallIs, c
    <3>4. calls[q[p + 1]].st # "asking" /\ calls[q[p + 1]].result \in {"none", "timeout"}
          /\ ~calls[q[p + 1]].requested
      BY <2>1, <3>1 DEF Waits, m
    <3> QED BY <3>1, <3>2, <3>3, <3>4
  <2>3. Waits(i)'
    BY <1>1, <2>1, <2>2 DEF Waits
  <2> QED BY <2>1, <2>3 DEF BreakerSound
<1>5. \A d \in DOMAIN calls : CallSound(calls[d])'
  <2>1. \A d \in DOMAIN calls : CallSound(calls[d])
    BY <1>1 DEF CallsSound
  <2>2. \A d \in DOMAIN calls : calls'[d] = k \/ calls'[d] = calls[d]
    BY DEF CallIs
  <2> QED BY <2>1, <2>2 DEF CallSound
<1>6. \A h, j \in ServerThreads :
        \A p \in 1..Len(inst'[h].queue), s \in 1..Len(inst'[j].queue) :
          inst'[h].queue[p] = inst'[j].queue[s] => h = j /\ p = s
  <2> DEFINE at(j, p) == IF j = i THEN p + 1 ELSE p
  <2>1. ASSUME NEW j \in ServerThreads, NEW p \in 1..Len(inst'[j].queue)
        PROVE  at(j, p) \in 1..Len(inst[j].queue) /\ inst'[j].queue[p] = inst[j].queue[at(j, p)]
    <3>1. CASE j = i
      <4>1. inst'[j].queue = Tail(q) /\ p \in 1..(m - 1)
        BY <1>1, <3>1 DEF ThreadIs
      <4>2. Tail(q)[p] = q[p + 1] /\ p + 1 \in 1..m
        BY <1>1, <4>1
      <4> QED BY <3>1, <4>1, <4>2 DEF m
    <3>2. CASE j # i
      BY <3>2 DEF ThreadIs
    <3> QED BY <3>1, <3>2
  <2>2. ASSUME NEW h \in ServerThreads, NEW j \in ServerThreads,
               NEW p \in 1..Len(inst'[h].queue), NEW s \in 1..Len(inst'[j].queue),
               inst'[h].queue[p] = inst'[j].queue[s]
        PROVE  h = j /\ p = s
    <3>1. inst[h].queue[at(h, p)] = inst[j].queue[at(j, s)]
      BY <2>1, <2>2
    <3> HIDE DEF at
    <3>2. h = j /\ at(h, p) = at(j, s)
      <4>1. at(h, p) \in 1..Len(inst[h].queue) /\ at(j, s) \in 1..Len(inst[j].queue)
        BY <2>1
      <4>2. PICK x : x = at(h, p)
        OBVIOUS
      <4>3. PICK y : y = at(j, s)
        OBVIOUS
      <4>4. h = j /\ x = y
        BY <1>1, <3>1, <4>1, <4>2, <4>3 DEF CallsSound
      <4> QED BY <4>2, <4>3, <4>4
    <3> QED
      <4>1. p \in Int /\ s \in Int
        OBVIOUS
      <4> QED BY <3>2, <4>1 DEF at
  <2> QED BY <2>2
<1> QED BY <1>3, <1>4, <1>5, <1>6 DEF CallsSound

LEMMA ReplyStep ==
  ASSUME McpInv, NEW c \in DOMAIN calls, NEW answer \in {"open", "ok", "failed", "timeout"},
         Reply(c, answer)
  PROVE  /\ calls' \in Seq(McpCallType) /\ DOMAIN calls' = DOMAIN calls
         /\ \E k : /\ CallIs(c, k) /\ k.inst = calls[c].inst
                   /\ k.requested = calls[c].requested /\ k.ran = calls[c].ran
                   /\ k = calls[c] \/ (k.st = "done" /\ k.result = answer)
<1>1. calls[c] \in McpCallType
  BY TypesOf
<1>2. CASE calls[c].st = "waiting"
  <2> DEFINE k == [calls[c] EXCEPT !.st = "done", !.result = answer]
  <2>1. calls' = [calls EXCEPT ![c] = k]
    BY <1>2, Zenon DEF Reply
  <2>2. /\ k \in McpCallType /\ k.inst = calls[c].inst /\ k.requested = calls[c].requested
        /\ k.ran = calls[c].ran /\ k.st = "done" /\ k.result = answer
    BY <1>1 DEF McpCallType
  <2> HIDE DEF k
  <2> QED BY <2>1, <2>2, CallStep DEF CallIs
<1>3. CASE calls[c].st # "waiting"
  <2>1. calls' = calls
    BY <1>3 DEF Reply
  <2> QED BY <2>1 DEF CallIs, McpInv, McpTypeOK
<1> QED BY <1>2, <1>3

LEMMA TypesKept ==
  ASSUME McpInv, KeepLoad, inst' \in Seq(ThreadType), calls' \in Seq(McpCallType)
  PROVE  McpTypeOK'
  BY DEF McpInv, McpTypeOK, KeepLoad

\* A step of a thread that touches no call.
LEMMA QuietStep ==
  ASSUME McpInv, NEW i \in ServerThreads, NEW r \in ThreadType, KeepLoad, calls' = calls,
         inst' = [inst EXCEPT ![i] = r], r.label = inst[i].label, StillServes(i, r),
         r.queue = inst[i].queue, r.st = "remote" <=> inst[i].st = "remote",
         r.tripped => inst[i].tripped, BreakerSound(r)
  PROVE  McpInv'
<1>1. /\ inst' \in Seq(ThreadType) /\ ServerThreads' = ServerThreads /\ ThreadIs(i, r)
      /\ LoadSound' /\ ToolsSound'
  BY ThreadStep DEF ThreadIs
<1>2. CallsSound'
  BY <1>1, QuietThread
<1>3. calls' \in Seq(McpCallType)
  BY DEF McpInv, McpTypeOK
<1> QED BY <1>1, <1>2, <1>3, TypesKept DEF McpInv

LEMMA ThreadFacts ==
  ASSUME McpInv, NEW i \in ServerThreads
  PROVE  /\ inst[i] \in ThreadType /\ Waits(i) /\ BreakerSound(inst[i])
         /\ (\E t \in Range(load.tools) \cup Range(mcpTools) : t.inst = i)
              => inst[i].st \in {"serving", "remote"}
         /\ i \in Range(load.pending) /\ inst[i].startup = "ok"
              => inst[i].st \in {"serving", "remote"}
<1>1. inst[i] \in ThreadType /\ Waits(i) /\ BreakerSound(inst[i])
  BY TypesOf DEF McpInv, CallsSound
<1>2. load.pending \in Seq(Nat)
  BY DEF McpInv, McpTypeOK, LoadType
<1>3. DOMAIN load.pending = 1..Len(load.pending)
  BY <1>2
<1>4. i \in Range(load.pending) /\ inst[i].startup = "ok" => inst[i].st \in {"serving", "remote"}
  BY <1>3 DEF McpInv, ToolsSound, Range
<1>5. (\E t \in Range(load.tools) \cup Range(mcpTools) : t.inst = i)
        => inst[i].st \in {"serving", "remote"}
  BY DEF McpInv, ToolsSound, OneThread
<1> QED BY <1>1, <1>4, <1>5

LEMMA ConnectsStep ==
  ASSUME McpInv, NEW i \in ServerThreads, Connects(i)
  PROVE  McpInv'
<1> DEFINE r == IF i \in Range(load.pending)
                THEN [inst[i] EXCEPT !.st = "serving", !.startup = "ok"]
                ELSE [inst[i] EXCEPT !.st = "ended"]
<1>1. inst' = [inst EXCEPT ![i] = r] /\ inst[i].st = "connecting" /\ calls' = calls /\ KeepLoad
  BY Zenon DEF Connects
<1>2. inst[i] \in ThreadType
  BY TypesOf
<1>3. /\ r \in ThreadType /\ r.label = inst[i].label /\ r.queue = inst[i].queue
      /\ r.st \in {"serving", "ended"} /\ r.tripped = inst[i].tripped
      /\ r.streak = inst[i].streak /\ r.failures = inst[i].failures
      /\ i \in Range(load.pending) => r.st = "serving"
  BY <1>2 DEF ThreadType
<1> HIDE DEF r
<1>4. StillServes(i, r) /\ BreakerSound(r)
  BY <1>1, <1>3, ThreadFacts DEF StillServes, BreakerSound
<1> QED BY <1>1, <1>3, <1>4, QuietStep

LEMMA ConnectFailsStep ==
  ASSUME McpInv, NEW i \in ServerThreads, ConnectFails(i)
  PROVE  McpInv'
<1> DEFINE r == [inst[i] EXCEPT !.st = "ended", !.startup = "error"]
<1>1. inst' = [inst EXCEPT ![i] = r] /\ inst[i].st = "connecting" /\ calls' = calls /\ KeepLoad
  BY Zenon DEF ConnectFails
<1>2. inst[i] \in ThreadType
  BY TypesOf
<1>3. /\ r \in ThreadType /\ r.label = inst[i].label /\ r.queue = inst[i].queue
      /\ r.st = "ended" /\ r.startup = "error" /\ r.tripped = inst[i].tripped
      /\ r.streak = inst[i].streak /\ r.failures = inst[i].failures
  BY <1>2 DEF ThreadType
<1> HIDE DEF r
<1>4. StillServes(i, r) /\ BreakerSound(r)
  BY <1>1, <1>3, ThreadFacts DEF StillServes, BreakerSound
<1> QED BY <1>1, <1>3, <1>4, QuietStep

LEMMA ServerEndsStep ==
  ASSUME McpInv, NEW i \in ServerThreads, ServerEnds(i)
  PROVE  McpInv'
<1> DEFINE r == [inst[i] EXCEPT !.st = "ended"]
<1>1. /\ inst' = [inst EXCEPT ![i] = r] /\ inst[i].st = "serving" /\ calls' = calls /\ KeepLoad
      /\ ~Held(i)
  BY Zenon DEF ServerEnds
<1>2. inst[i] \in ThreadType
  BY TypesOf
<1>3. /\ r \in ThreadType /\ r.label = inst[i].label /\ r.queue = inst[i].queue
      /\ r.st = "ended" /\ r.tripped = inst[i].tripped
      /\ r.streak = inst[i].streak /\ r.failures = inst[i].failures
  BY <1>2 DEF ThreadType
<1> HIDE DEF r
<1>4. StillServes(i, r) /\ BreakerSound(r)
  BY <1>1, <1>3, ThreadFacts DEF StillServes, BreakerSound, Held
<1> QED BY <1>1, <1>3, <1>4, QuietStep

LEMMA CooldownStep ==
  ASSUME McpInv, NEW i \in ServerThreads, CooldownPasses(i)
  PROVE  McpInv'
<1> DEFINE r == [inst[i] EXCEPT !.tripped = FALSE, !.streak = 0]
<1>1. inst' = [inst EXCEPT ![i] = r] /\ calls' = calls /\ KeepLoad
  BY Zenon DEF CooldownPasses
<1>2. inst[i] \in ThreadType
  BY TypesOf
<1>3. /\ r \in ThreadType /\ r.label = inst[i].label /\ r.queue = inst[i].queue
      /\ r.st = inst[i].st /\ r.startup = inst[i].startup /\ ~r.tripped
      /\ r.streak = 0 /\ r.failures = inst[i].failures /\ inst[i].failures \in Nat
  BY <1>2 DEF ThreadType
<1> HIDE DEF r
<1>4. StillServes(i, r)
  BY <1>3, ThreadFacts DEF StillServes
<1>5. BreakerSound(r)
  BY <1>3, McpBounds DEF BreakerSound
<1> QED BY <1>1, <1>3, <1>4, <1>5, QuietStep

\* The thread takes a call from its queue and answers it.
LEMMA AnswersStep ==
  ASSUME McpInv, NEW i \in ServerThreads, NEW r \in ThreadType, KeepLoad,
         inst' = [inst EXCEPT ![i] = r], r.label = inst[i].label, inst[i].queue # << >>,
         r.queue = Tail(inst[i].queue), r.st = "serving", BreakerSound(r),
         NEW answer \in {"open", "ok", "failed", "timeout"},
         Reply(Head(inst[i].queue), answer),
         answer = "open" => ~calls[Head(inst[i].queue)].requested,
         answer = "ok" => calls[Head(inst[i].queue)].ran
  PROVE  McpInv'
<1> DEFINE c == Head(inst[i].queue)
<1>1. StillServes(i, r)
  BY DEF StillServes
<1>2. /\ inst' \in Seq(ThreadType) /\ ServerThreads' = ServerThreads /\ ThreadIs(i, r)
      /\ LoadSound' /\ ToolsSound'
  BY <1>1, ThreadStep DEF ThreadIs
<1>3. c \in DOMAIN calls
  <2>1. inst[i].queue \in Seq(Nat) /\ Waits(i)
    BY TypesOf DEF McpInv, CallsSound
  <2>2. c = inst[i].queue[1] /\ 1 \in 1..Len(inst[i].queue)
    BY <2>1
  <2> QED BY <2>1, <2>2 DEF Waits
<1> HIDE DEF c
<1>4. Reply(c, answer)
  BY DEF c
<1>5. /\ calls' \in Seq(McpCallType) /\ DOMAIN calls' = DOMAIN calls
      /\ \E k : /\ CallIs(c, k) /\ k.inst = calls[c].inst
                /\ k.requested = calls[c].requested /\ k.ran = calls[c].ran
                /\ k = calls[c] \/ (k.st = "done" /\ k.result = answer)
  BY <1>3, <1>4, ReplyStep
<1>6. PICK k : /\ CallIs(c, k) /\ k.inst = calls[c].inst
               /\ k.requested = calls[c].requested /\ k.ran = calls[c].ran
               /\ k = calls[c] \/ (k.st = "done" /\ k.result = answer)
  BY <1>5
<1>7. CallSound(k)
  <2>1. CallSound(calls[c])
    BY <1>3 DEF McpInv, CallsSound
  <2>2. answer = "open" => ~calls[c].requested
    BY DEF c
  <2>3. answer = "ok" => calls[c].ran
    BY DEF c
  <2> QED BY <1>6, <2>1, <2>2, <2>3 DEF CallSound
<1>8. CallsSound'
  BY <1>2, <1>5, <1>6, <1>7, AnswerStep DEF c
<1> QED BY <1>2, <1>5, <1>8, TypesKept DEF McpInv

LEMMA BreakerRefusesStep ==
  ASSUME McpInv, NEW i \in ServerThreads, BreakerRefuses(i)
  PROVE  McpInv'
<1> DEFINE r == [inst[i] EXCEPT !.queue = Tail(inst[i].queue)]
<1>1. /\ inst' = [inst EXCEPT ![i] = r] /\ KeepLoad /\ inst[i].queue # << >>
      /\ inst[i].st = "serving" /\ Reply(Head(inst[i].queue), "open")
  BY Zenon DEF BreakerRefuses
<1>2. inst[i] \in ThreadType /\ inst[i].queue \in Seq(Nat)
  BY TypesOf
<1>3. Tail(inst[i].queue) \in Seq(Nat)
  BY <1>1, <1>2
<1>4. /\ r \in ThreadType /\ r.label = inst[i].label /\ r.queue = Tail(inst[i].queue)
      /\ r.st = "serving" /\ r.tripped = inst[i].tripped
      /\ r.streak = inst[i].streak /\ r.failures = inst[i].failures
  BY <1>1, <1>2, <1>3 DEF ThreadType
<1> HIDE DEF r
<1>5. BreakerSound(r)
  BY <1>4, ThreadFacts DEF BreakerSound
<1>6. ~calls[Head(inst[i].queue)].requested
  <2>1. Head(inst[i].queue) = inst[i].queue[1] /\ 1 \in 1..Len(inst[i].queue)
    BY <1>1, <1>2
  <2> QED BY <1>1, <2>1, ThreadFacts DEF Waits
<1> QED BY <1>1, <1>4, <1>5, <1>6, AnswersStep

LEMMA RemoteEndsStep ==
  ASSUME McpInv, NEW i \in ServerThreads, NEW answer \in {"ok", "failed", "timeout"},
         NEW b \in ThreadType, BreakerSound(b), b.label = inst[i].label,
         b.queue = inst[i].queue, RemoteEnds(i, answer, b),
         answer = "ok" => calls[Head(inst[i].queue)].ran
  PROVE  McpInv'
<1> DEFINE r == [b EXCEPT !.st = "serving", !.queue = Tail(b.queue)]
<1>1. /\ inst' = [inst EXCEPT ![i] = r] /\ KeepLoad /\ inst[i].st = "remote"
      /\ Reply(Head(inst[i].queue), answer)
  BY Zenon DEF RemoteEnds
<1>2. inst[i].queue \in Seq(Nat) /\ inst[i].queue # << >>
  BY <1>1, TypesOf, ThreadFacts DEF Waits
<1>3. Tail(b.queue) \in Seq(Nat)
  BY <1>2
<1>4. /\ r \in ThreadType /\ r.label = inst[i].label /\ r.queue = Tail(inst[i].queue)
      /\ r.st = "serving" /\ r.tripped = b.tripped
      /\ r.streak = b.streak /\ r.failures = b.failures
  BY <1>3 DEF ThreadType
<1> HIDE DEF r
<1>5. BreakerSound(r)
  BY <1>4 DEF BreakerSound
<1> QED BY <1>1, <1>2, <1>4, <1>5, AnswersStep

LEMMA SuccessSound ==
  ASSUME NEW b \in ThreadType
  PROVE  /\ RecordSuccess(b) \in ThreadType /\ BreakerSound(RecordSuccess(b))
         /\ RecordSuccess(b).label = b.label /\ RecordSuccess(b).queue = b.queue
<1> DEFINE r == [b EXCEPT !.failures = 0, !.tripped = FALSE, !.streak = 0]
<1>1. /\ r \in ThreadType /\ r.label = b.label /\ r.queue = b.queue /\ r.failures = 0
      /\ r.streak = 0
  BY DEF ThreadType
<1>2. RecordSuccess(b) = r
  BY DEF RecordSuccess
<1> HIDE DEF r
<1> QED BY <1>1, <1>2, McpBounds DEF BreakerSound

\* A closed breaker has not seen Threshold failures since the last cool-down.
LEMMA FailureSound ==
  ASSUME NEW b \in ThreadType, BreakerSound(b), ~b.tripped
  PROVE  /\ RecordFailure(b) \in ThreadType /\ BreakerSound(RecordFailure(b))
         /\ RecordFailure(b).label = b.label /\ RecordFailure(b).queue = b.queue
<1> DEFINE r == [b EXCEPT !.failures = b.failures + 1, !.streak = b.streak + 1,
                          !.tripped = b.failures + 1 >= Threshold]
<1>1. /\ b.failures \in Nat /\ b.streak \in Nat /\ b.failures + 1 \in Nat /\ b.streak + 1 \in Nat
      /\ (b.failures + 1 >= Threshold) \in BOOLEAN
  BY DEF ThreadType
<1>2. /\ r \in ThreadType /\ r.label = b.label /\ r.queue = b.queue
      /\ r.failures = b.failures + 1 /\ r.streak = b.streak + 1
      /\ r.tripped = (b.failures + 1 >= Threshold)
  BY <1>1 DEF ThreadType
<1>3. RecordFailure(b) = r
  BY DEF RecordFailure
<1> HIDE DEF r
<1>4. r.tripped <=> b.failures + 1 >= Threshold
  BY <1>2
<1>5. BreakerSound(r)
  BY <1>1, <1>2, <1>4, McpBounds DEF BreakerSound
<1> QED BY <1>2, <1>3, <1>5

LEMMA RemoteAnswersStep ==
  ASSUME McpInv, NEW i \in ServerThreads, RemoteAnswers(i)
  PROVE  McpInv'
  BY RemoteEndsStep, SuccessSound, TypesOf DEF RemoteAnswers

LEMMA RemoteFailsStep ==
  ASSUME McpInv, NEW i \in ServerThreads, RemoteFails(i) \/ ProtocolTimeout(i)
  PROVE  McpInv'
<1>1. inst[i].st = "remote"
  BY DEF RemoteFails, ProtocolTimeout, RemoteEnds
<1>2. inst[i] \in ThreadType /\ BreakerSound(inst[i]) /\ ~inst[i].tripped
  BY <1>1, ThreadFacts DEF Waits
<1> QED BY <1>2, RemoteEndsStep, FailureSound DEF RemoteFails, ProtocolTimeout

LEMMA LoadFrame ==
  ASSUME McpInv, UNCHANGED <<status, mcpTools, load, inst>>
  PROVE  LoadSound' /\ ToolsSound'
<1>1. /\ status' = status /\ mcpTools' = mcpTools /\ load' = load /\ inst' = inst
  OBVIOUS
<1>2. LoadSound /\ ToolsSound
  BY DEF McpInv
<1>3. LoadSound'
  BY <1>1, <1>2, Zenon DEF LoadSound, OneEach, Labels, LabelOf, ServerThreads
<1>4. ToolsSound'
  <2>1. /\ status'.count = status.count /\ status'.enabled = status.enabled
        /\ load'.tools = load.tools /\ load'.loaded = load.loaded /\ load'.pending = load.pending
    BY <1>1
  <2>2. OneThread(mcpTools, status.enabled)'
    BY <1>1, <1>2, <2>1 DEF ToolsSound, OneThread, LabelOf, ServerThreads
  <2>3. OneThread(load.tools, load.loaded)'
    <3>1. OneThread(load.tools, load.loaded)
      BY <1>2 DEF ToolsSound
    <3>2. Range(load.tools)' = Range(load.tools)
      BY <2>1 DEF Range
    <3> QED BY <1>1, <2>1, <3>1, <3>2 DEF OneThread, LabelOf, ServerThreads
  <2> QED BY <1>1, <1>2, <2>1, <2>2, <2>3 DEF ToolsSound
<1> QED BY <1>3, <1>4

\* A call changes and no queue does.
LEMMA CallOnly ==
  ASSUME McpInv, KeepLoad, inst' = inst, NEW c \in DOMAIN calls, NEW k \in McpCallType,
         calls' = [calls EXCEPT ![c] = k], CallSound(k), k.requested = calls[c].requested,
         calls[c].st # "asking" /\ calls[c].result \in {"none", "timeout"}
           => k.st # "asking" /\ k.result \in {"none", "timeout"}
  PROVE  McpInv'
<1>1. calls' \in Seq(McpCallType) /\ DOMAIN calls' = DOMAIN calls /\ CallIs(c, k)
  BY CallStep DEF CallIs
<1>2. LoadSound' /\ ToolsSound'
  BY LoadFrame DEF KeepLoad
<1>3. CallsSound /\ inst' \in Seq(ThreadType) /\ ServerThreads' = ServerThreads
  BY DEF McpInv, McpTypeOK, ServerThreads
<1>4. CallsSound'
  <2>1. \A d \in DOMAIN calls : CallSound(calls[d])'
    <3>1. \A d \in DOMAIN calls : CallSound(calls[d])
      BY <1>3 DEF CallsSound
    <3>2. \A d \in DOMAIN calls : calls'[d] = k \/ calls'[d] = calls[d]
      BY <1>1 DEF CallIs
    <3> QED BY <1>3, <3>1, <3>2 DEF CallSound
  <2>2. ASSUME NEW j \in ServerThreads PROVE Waits(j)' /\ BreakerSound(inst[j])'
    <3>1. Waits(j) /\ BreakerSound(inst[j])
      BY <1>3 DEF CallsSound
    <3>2. \A p \in 1..Len(inst[j].queue) :
            LET d == inst[j].queue[p]
            IN  /\ d \in DOMAIN calls /\ calls'[d].st # "asking"
                /\ calls'[d].result \in {"none", "timeout"}
                /\ calls'[d].requested = calls[d].requested
      <4> TAKE p \in 1..Len(inst[j].queue)
      <4> DEFINE d == inst[j].queue[p]
      <4>1. d \in DOMAIN calls /\ calls[d].st # "asking" /\ calls[d].result \in {"none", "timeout"}
        BY <3>1 DEF Waits
      <4> HIDE DEF d
      <4>2. /\ d \in DOMAIN calls /\ calls'[d].st # "asking"
            /\ calls'[d].result \in {"none", "timeout"}
            /\ calls'[d].requested = calls[d].requested
        BY <1>1, <4>1 DEF CallIs
      <4> QED BY <4>2 DEF d
    <3>3. Waits(j)'
      BY <1>1, <3>1, <3>2 DEF Waits
    <3> QED BY <3>1, <3>3 DEF BreakerSound
  <2> QED BY <1>1, <1>3, <2>1, <2>2 DEF CallsSound
<1> QED BY <1>1, <1>2, <1>3, <1>4, TypesKept DEF McpInv

LEMMA RemoteExecutesStep ==
  ASSUME McpInv, NEW c \in DOMAIN calls, RemoteExecutes(c)
  PROVE  McpInv'
<1> DEFINE k == [calls[c] EXCEPT !.ran = TRUE]
<1>1. calls' = [calls EXCEPT ![c] = k] /\ KeepLoad /\ inst' = inst
  BY Zenon DEF RemoteExecutes
<1>2. calls[c] \in McpCallType /\ CallSound(calls[c])
  BY TypesOf DEF McpInv, CallsSound
<1>3. /\ k \in McpCallType /\ k.inst = calls[c].inst /\ k.requested = calls[c].requested
      /\ k.st = calls[c].st /\ k.result = calls[c].result /\ k.ran
  BY <1>2 DEF McpCallType
<1> HIDE DEF k
<1>4. CallSound(k)
  BY <1>2, <1>3 DEF CallSound
<1> QED BY <1>1, <1>3, <1>4, CallOnly

LEMMA CallTimesOutStep ==
  ASSUME McpInv, CallTimesOut
  PROVE  McpInv'
<1>1. PICK c \in DOMAIN calls :
        /\ calls[c].st = "waiting" /\ KeepLoad /\ inst' = inst
        /\ calls' = [calls EXCEPT ![c].st = "done", ![c].result = "timeout"]
  BY Zenon DEF CallTimesOut
<1> DEFINE k == [calls[c] EXCEPT !.st = "done", !.result = "timeout"]
<1>2. calls' = [calls EXCEPT ![c] = k]
  BY <1>1, Zenon
<1>3. calls[c] \in McpCallType /\ CallSound(calls[c])
  BY TypesOf DEF McpInv, CallsSound
<1>4. /\ k \in McpCallType /\ k.inst = calls[c].inst /\ k.requested = calls[c].requested
      /\ k.st = "done" /\ k.result = "timeout"
  BY <1>3 DEF McpCallType
<1> HIDE DEF k
<1>5. CallSound(k)
  BY <1>3, <1>4 DEF CallSound
<1> QED BY <1>1, <1>2, <1>4, <1>5, CallOnly

LEMMA McpAnswerStep ==
  ASSUME McpInv, NEW yes, McpAnswer(yes)
  PROVE  McpInv'
<1>1. PICK c \in DOMAIN calls :
        /\ calls[c].st = "asking" /\ KeepLoad
        /\ IF yes
           THEN /\ calls' = [calls EXCEPT ![c].st = "waiting"]
                /\ inst' = [inst EXCEPT ![calls[c].inst].queue = Append(@, c)]
           ELSE /\ calls' = [calls EXCEPT ![c].st = "done", ![c].result = "denied"]
                /\ UNCHANGED inst
  BY Zenon DEF McpAnswer
<1>2. calls[c] \in McpCallType /\ CallSound(calls[c]) /\ calls[c].inst \in ServerThreads
  BY TypesOf DEF McpInv, CallsSound
<1>3. CASE ~yes
  <2> DEFINE k == [calls[c] EXCEPT !.st = "done", !.result = "denied"]
  <2>1. calls' = [calls EXCEPT ![c] = k] /\ inst' = inst
    BY <1>1, <1>3, Zenon
  <2>2. /\ k \in McpCallType /\ k.inst = calls[c].inst /\ k.requested = calls[c].requested
        /\ k.st = "done" /\ k.result = "denied"
    BY <1>2 DEF McpCallType
  <2> HIDE DEF k
  <2>3. CallSound(k)
    BY <1>1, <1>2, <2>2 DEF CallSound
  <2> QED BY <1>1, <2>1, <2>2, <2>3, CallOnly
<1>4. CASE yes
  <2>0. PICK i \in ServerThreads : i = calls[c].inst
    BY <1>2
  <2> DEFINE k == [calls[c] EXCEPT !.st = "waiting"]
             r == [inst[i] EXCEPT !.queue = Append(inst[i].queue, c)]
  <2>1. calls' = [calls EXCEPT ![c] = k] /\ inst' = [inst EXCEPT ![i] = r]
    BY <1>1, <1>4, <2>0, Zenon
  <2>2. /\ k \in McpCallType /\ k.inst = calls[c].inst /\ k.requested = calls[c].requested
        /\ k.st = "waiting" /\ k.result = calls[c].result
    BY <1>2 DEF McpCallType
  <2> HIDE DEF k
  <2>3. calls' \in Seq(McpCallType) /\ DOMAIN calls' = DOMAIN calls /\ CallIs(c, k)
    BY <2>1, <2>2, CallStep DEF CallIs
  <2>4. i \in ServerThreads /\ inst[i] \in ThreadType /\ inst[i].queue \in Seq(Nat)
    BY TypesOf
  <2>5. Append(inst[i].queue, c) \in Seq(Nat)
    <3>1. calls \in Seq(McpCallType)
      BY DEF McpInv, McpTypeOK
    <3>2. c \in Nat
      BY <3>1
    <3> QED BY <2>4, <3>2
  <2>6. /\ r \in ThreadType /\ r.label = inst[i].label /\ r.queue = Append(inst[i].queue, c)
        /\ r.st = inst[i].st /\ r.startup = inst[i].startup /\ r.tripped = inst[i].tripped
        /\ r.streak = inst[i].streak /\ r.failures = inst[i].failures
    BY <2>4, <2>5 DEF ThreadType
  <2> HIDE DEF r
  <2>7. StillServes(i, r)
    BY <2>4, <2>6, ThreadFacts DEF StillServes
  <2>8. /\ inst' \in Seq(ThreadType) /\ ServerThreads' = ServerThreads /\ ThreadIs(i, r)
        /\ LoadSound' /\ ToolsSound'
    BY <1>1, <2>1, <2>4, <2>6, <2>7, ThreadStep DEF ThreadIs
  <2> DEFINE m == Len(inst[i].queue)
  <2>9. /\ m \in Nat /\ Len(r.queue) = m + 1 /\ r.queue[m + 1] = c
        /\ \A p \in 1..m : r.queue[p] = inst[i].queue[p]
    <3>1. r.queue = Append(inst[i].queue, c) /\ inst[i].queue \in Seq(Nat)
      BY <2>4, <2>6
    <3> QED BY <3>1
  <2> HIDE DEF m
  <2>10. \A p \in 1..(m + 1) : p \in 1..m \/ p = m + 1
    BY <2>9
  <2>11. CallsSound /\ \A j \in ServerThreads : Waits(j) /\ BreakerSound(inst[j])
    BY DEF McpInv, CallsSound
  <2>12. \A j \in ServerThreads : \A p \in 1..Len(inst[j].queue) :
           /\ inst[j].queue[p] \in DOMAIN calls /\ inst[j].queue[p] # c
           /\ calls'[inst[j].queue[p]] = calls[inst[j].queue[p]]
    BY <1>1, <2>3, <2>11 DEF Waits, CallIs
  <2>13. ASSUME NEW j \in ServerThreads, j # i PROVE Waits(j)' /\ BreakerSound(inst[j])'
    <3>1. inst'[j] = inst[j]
      BY <2>8, <2>13 DEF ThreadIs
    <3>2. Waits(j) /\ BreakerSound(inst[j])
      BY <2>11
    <3> QED BY <2>3, <2>12, <3>1, <3>2 DEF Waits, BreakerSound
  <2>14. Waits(i)' /\ BreakerSound(inst[i])'
    <3>1. inst'[i] = r /\ Waits(i) /\ BreakerSound(inst[i])
      BY <2>4, <2>8, <2>11 DEF ThreadIs
    <3>2. /\ calls'[c] = k /\ c \in DOMAIN calls /\ k.st # "asking"
          /\ k.result \in {"none", "timeout"} /\ ~k.requested
      BY <1>1, <1>2, <2>2, <2>3 DEF CallIs, CallSound
    <3>3. ASSUME NEW p \in 1..(m + 1)
          PROVE  /\ r.queue[p] \in DOMAIN calls /\ calls'[r.queue[p]].st # "asking"
                 /\ calls'[r.queue[p]].result \in {"none", "timeout"}
                 /\ calls'[r.queue[p]].requested => p = 1 /\ r.st = "remote"
      <4>1. CASE p = m + 1
        BY <2>9, <3>2, <4>1
      <4>2. CASE p \in 1..m
        <5>1. r.queue[p] = inst[i].queue[p] /\ p \in 1..Len(inst[i].queue)
          BY <2>9, <4>2 DEF m
        <5>2. calls'[inst[i].queue[p]] = calls[inst[i].queue[p]]
          BY <2>4, <2>12, <5>1
        <5> QED BY <2>6, <3>1, <5>1, <5>2 DEF Waits
      <4> QED BY <2>10, <4>1, <4>2
    <3>4. r.queue # << >> /\ (r.st = "remote" => ~r.tripped)
      <4>1. r.queue # << >>
        <5>1. Len(r.queue) # 0 /\ Len(<< >>) = 0
          BY <2>9
        <5> QED BY <5>1
      <4> QED BY <2>6, <3>1, <4>1 DEF Waits
    <3>5. Waits(i)'
      <4>1. inst'[i].queue = r.queue /\ inst'[i].st = r.st /\ inst'[i].tripped = r.tripped
        BY <3>1
      <4>2. \A p \in 1..Len(inst'[i].queue) :
              /\ inst'[i].queue[p] \in DOMAIN calls' /\ calls'[inst'[i].queue[p]].st # "asking"
              /\ calls'[inst'[i].queue[p]].result \in {"none", "timeout"}
              /\ calls'[inst'[i].queue[p]].requested => p = 1 /\ inst'[i].st = "remote"
        BY <2>3, <2>9, <3>3, <4>1
      <4> QED BY <3>4, <4>1, <4>2, Zenon DEF Waits
    <3>6. BreakerSound(r)
      BY <2>6, <3>1 DEF BreakerSound
    <3>7. BreakerSound(inst[i])'
      BY <3>1, <3>6, Zenon DEF BreakerSound
    <3> QED BY <3>5, <3>7
  <2>15. \A d \in DOMAIN calls : CallSound(calls[d])'
    <3>1. \A d \in DOMAIN calls : CallSound(calls[d])
      BY <2>11 DEF CallsSound
    <3>2. \A d \in DOMAIN calls : calls'[d] = k \/ calls'[d] = calls[d]
      BY <2>3 DEF CallIs
    <3>3. CallSound(k)
      BY <1>1, <1>2, <2>2 DEF CallSound
    <3> QED BY <2>8, <3>1, <3>2, <3>3 DEF CallSound
  <2>16. ASSUME NEW h \in ServerThreads, NEW j \in ServerThreads,
                NEW p \in 1..Len(inst'[h].queue), NEW s \in 1..Len(inst'[j].queue),
                inst'[h].queue[p] = inst'[j].queue[s]
         PROVE  h = j /\ p = s
    <3>1. ASSUME NEW g \in ServerThreads, NEW t \in 1..Len(inst'[g].queue)
          PROVE  \/ /\ t \in 1..Len(inst[g].queue) /\ inst'[g].queue[t] = inst[g].queue[t]
                    /\ inst'[g].queue[t] # c
                 \/ g = i /\ t = m + 1 /\ inst'[g].queue[t] = c
      <4>1. CASE g # i
        <5>1. inst'[g] = inst[g]
          BY <2>8, <4>1 DEF ThreadIs
        <5> QED BY <2>12, <5>1
      <4>2. CASE g = i
        <5>1. inst'[g] = r /\ t \in 1..(m + 1)
          BY <2>8, <2>9, <4>2 DEF ThreadIs
        <5>2. CASE t = m + 1
          BY <2>9, <4>2, <5>1, <5>2
        <5>3. CASE t \in 1..m
          BY <2>9, <2>12, <4>2, <5>1, <5>3 DEF m
        <5> QED BY <2>10, <5>1, <5>2, <5>3
      <4> QED BY <4>1, <4>2
    <3>2. CASE inst'[h].queue[p] = c
      BY <2>16, <3>1, <3>2
    <3>3. CASE inst'[h].queue[p] # c
      <4>1. /\ p \in 1..Len(inst[h].queue) /\ s \in 1..Len(inst[j].queue)
            /\ inst[h].queue[p] = inst[j].queue[s]
        BY <2>16, <3>1, <3>3
      <4> QED BY <2>11, <4>1 DEF CallsSound
    <3> QED BY <3>2, <3>3
  <2>17. CallsSound'
    <3>1. \A j \in ServerThreads : Waits(j)' /\ BreakerSound(inst[j])'
      BY <2>13, <2>14
    <3>2. \A h, j \in ServerThreads :
            \A p \in 1..Len(inst'[h].queue), s \in 1..Len(inst'[j].queue) :
              inst'[h].queue[p] = inst'[j].queue[s] => h = j /\ p = s
      BY <2>16
    <3> QED BY <2>3, <2>8, <2>15, <3>1, <3>2 DEF CallsSound
  <2> QED BY <1>1, <2>3, <2>8, <2>17, TypesKept DEF McpInv
<1> QED BY <1>3, <1>4

LEMMA CallRemoteStep ==
  ASSUME McpInv, NEW i \in ServerThreads, CallRemote(i)
  PROVE  McpInv'
<1>1. inst[i].queue \in Seq(Nat) /\ inst[i].queue # << >> /\ inst[i].st = "serving"
      /\ ~inst[i].tripped /\ inst[i] \in ThreadType
  BY TypesOf DEF CallRemote
<1>2. PICK c : c = Head(inst[i].queue)
  OBVIOUS
<1>3. c = inst[i].queue[1] /\ 1 \in 1..Len(inst[i].queue)
  BY <1>1, <1>2
<1>4. CallsSound /\ Waits(i) /\ BreakerSound(inst[i])
  BY ThreadFacts DEF McpInv
<1>5. c \in DOMAIN calls /\ calls[c].st # "asking" /\ calls[c].result \in {"none", "timeout"}
  BY <1>3, <1>4 DEF Waits
<1> DEFINE k == [calls[c] EXCEPT !.requested = TRUE]
           r == [inst[i] EXCEPT !.st = "remote"]
<1>6. inst' = [inst EXCEPT ![i] = r] /\ calls' = [calls EXCEPT ![c] = k] /\ KeepLoad
  BY <1>2, Zenon DEF CallRemote
<1>7. /\ k \in McpCallType /\ k.inst = calls[c].inst /\ k.requested /\ k.st = calls[c].st
      /\ k.result = calls[c].result /\ k.ran = calls[c].ran
  BY <1>5, TypesOf DEF McpCallType
<1>8. /\ r \in ThreadType /\ r.label = inst[i].label /\ r.queue = inst[i].queue
      /\ r.st = "remote" /\ ~r.tripped
      /\ r.streak = inst[i].streak /\ r.failures = inst[i].failures
  BY <1>1 DEF ThreadType
<1> HIDE DEF k, r
<1>9. /\ inst' \in Seq(ThreadType) /\ ServerThreads' = ServerThreads /\ ThreadIs(i, r)
      /\ LoadSound' /\ ToolsSound'
  <2>1. StillServes(i, r)
    BY <1>8 DEF StillServes
  <2> QED BY <1>6, <1>8, <2>1, ThreadStep DEF ThreadIs
<1>10. calls' \in Seq(McpCallType) /\ DOMAIN calls' = DOMAIN calls /\ CallIs(c, k)
  BY <1>5, <1>6, <1>7, CallStep DEF CallIs
<1>11. \A j \in ServerThreads : inst'[j].queue = inst[j].queue
  BY <1>8, <1>9 DEF ThreadIs
<1>12. \A j \in ServerThreads : \A p \in 1..Len(inst[j].queue) :
         inst[j].queue[p] = c => j = i /\ p = 1
  BY <1>3, <1>4 DEF CallsSound
<1>13. ASSUME NEW j \in ServerThreads
       PROVE  Waits(j)' /\ BreakerSound(inst[j])'
  <2>1. Waits(j) /\ BreakerSound(inst[j])
    BY <1>4 DEF CallsSound
  <2>2. BreakerSound(inst[j])'
    <3>1. CASE j = i
      <4>1. inst'[j].streak = inst[j].streak /\ inst'[j].failures = inst[j].failures
            /\ ~inst'[j].tripped /\ ~inst[j].tripped
        BY <1>1, <1>8, <1>9, <3>1 DEF ThreadIs
      <4> QED BY <2>1, <4>1 DEF BreakerSound
    <3>2. CASE j # i
      <4>1. inst'[j] = inst[j]
        BY <1>9, <3>2 DEF ThreadIs
      <4> QED BY <2>1, <4>1 DEF BreakerSound
    <3> QED BY <3>1, <3>2
  <2>3. ASSUME NEW p \in 1..Len(inst[j].queue)
        PROVE  LET d == inst[j].queue[p]
               IN  /\ d \in DOMAIN calls /\ calls'[d].st # "asking"
                   /\ calls'[d].result \in {"none", "timeout"}
                   /\ calls'[d].requested => p = 1 /\ inst'[j].st = "remote"
    <3>1. PICK d : d = inst[j].queue[p]
      OBVIOUS
    <3>2. /\ d \in DOMAIN calls /\ calls[d].st # "asking" /\ calls[d].result \in {"none", "timeout"}
          /\ calls[d].requested => p = 1 /\ inst[j].st = "remote"
      BY <2>1, <3>1 DEF Waits
    <3>3. CASE d = c
      <4>1. j = i /\ p = 1
        BY <1>12, <3>1, <3>3
      <4>2. inst'[j].st = "remote" /\ calls'[d] = k
        BY <1>8, <1>9, <1>10, <3>3, <4>1 DEF ThreadIs, CallIs
      <4> QED BY <1>5, <1>7, <3>1, <3>2, <4>1, <4>2
    <3>4. CASE d # c
      <4>1. calls'[d] = calls[d]
        BY <1>10, <3>2, <3>4 DEF CallIs
      <4>2. inst[j].st = "remote" => inst'[j].st = "remote"
        BY <1>8, <1>9 DEF ThreadIs
      <4> QED BY <3>1, <3>2, <4>1, <4>2
    <3> QED BY <3>3, <3>4
  <2>4. inst'[j].st = "remote" => inst'[j].queue # << >> /\ ~inst'[j].tripped
    <3>1. CASE j = i
      BY <1>1, <1>8, <1>9, <3>1 DEF ThreadIs
    <3>2. CASE j # i
      BY <1>9, <2>1, <3>2 DEF ThreadIs, Waits
    <3> QED BY <3>1, <3>2
  <2>5. Waits(j)'
    BY <1>10, <1>11, <2>3, <2>4 DEF Waits
  <2> QED BY <2>2, <2>5
<1>14. \A d \in DOMAIN calls : CallSound(calls[d])'
  <2>1. \A d \in DOMAIN calls : CallSound(calls[d])
    BY <1>4 DEF CallsSound
  <2>2. \A d \in DOMAIN calls : calls'[d] = k \/ calls'[d] = calls[d]
    BY <1>10 DEF CallIs
  <2>3. CallSound(k)
    BY <1>5, <1>7, <2>1 DEF CallSound
  <2> QED BY <1>9, <2>1, <2>2, <2>3 DEF CallSound
<1>15. CallsSound'
  <2>1. \A h, j \in ServerThreads :
          \A p \in 1..Len(inst'[h].queue), s \in 1..Len(inst'[j].queue) :
            inst'[h].queue[p] = inst'[j].queue[s] => h = j /\ p = s
    <3> SUFFICES ASSUME NEW h \in ServerThreads, NEW j \in ServerThreads,
                        NEW p \in 1..Len(inst'[h].queue), NEW s \in 1..Len(inst'[j].queue),
                        inst'[h].queue[p] = inst'[j].queue[s]
                 PROVE  h = j /\ p = s
      OBVIOUS
    <3>1. inst'[h].queue = inst[h].queue /\ inst'[j].queue = inst[j].queue
      BY <1>11
    <3> QED BY <1>4, <3>1 DEF CallsSound
  <2>2. DOMAIN calls' = DOMAIN calls /\ ServerThreads' = ServerThreads
    BY <1>9, <1>10
  <2> QED BY <1>13, <1>14, <2>1, <2>2, ZenonT(30) DEF CallsSound
<1> QED BY <1>6, <1>9, <1>10, <1>15, TypesKept DEF McpInv

LEMMA McpAdmissionStep ==
  ASSUME McpInv, NEW name, NEW locked, McpAdmission(name, locked)
  PROVE  McpInv'
<1> DEFINE named == {k \in DOMAIN mcpTools : mcpTools[k].exposed = name}
           first == CHOOSE k \in named : \A j \in named : k <= j
<1>1. named # {} /\ UNCHANGED <<status, mcpTools, load, inst>>
  BY DEF McpAdmission
<1>2. mcpTools \in Seq(McpTool) /\ calls \in Seq(McpCallType)
  BY DEF McpInv, McpTypeOK
<1>3. first \in DOMAIN mcpTools
  <2>1. named \subseteq Nat
    BY <1>2
  <2> HIDE DEF named
  <2>2. \E k \in named : \A j \in named : k <= j
    BY <1>1, <2>1, LeastNumber
  <2>3. first \in named
    BY <2>2
  <2> QED BY <2>3 DEF named
<1>4. PICK i : i = mcpTools[first].inst
  OBVIOUS
<1>5. i \in ServerThreads /\ i \in Nat
  <2> HIDE DEF first
  <2>1. mcpTools[first] \in Range(mcpTools)
    BY <1>3 DEF Range
  <2>2. mcpTools[first] \in McpTool
    BY <1>2, <1>3
  <2> QED BY <1>4, <2>1, <2>2 DEF McpInv, ToolsSound, OneThread, McpTool
<1>6. PICK st, outcome : /\ st \in {"done", "asking"} /\ outcome \in {"deferred", "none"}
                         /\ st = "asking" => outcome = "none"
                         /\ outcome = "deferred" => st = "done"
                         /\ calls' = Append(calls, [inst |-> i, requested |-> FALSE, ran |-> FALSE,
                                                    st |-> st, result |-> outcome])
  <2> HIDE DEF first
  <2>1. CASE locked
    <3>1. calls' = Append(calls, [inst |-> i, requested |-> FALSE, ran |-> FALSE,
                                  st |-> "done", result |-> "deferred"])
      BY <1>4, <2>1, Zenon DEF McpAdmission, first, named
    <3> QED BY <3>1
  <2>2. CASE ~locked
    <3>1. calls' = Append(calls, [inst |-> i, requested |-> FALSE, ran |-> FALSE,
                                  st |-> "asking", result |-> "none"])
      BY <1>4, <2>2, Zenon DEF McpAdmission, first, named
    <3> QED BY <3>1
  <2> QED BY <2>1, <2>2
<1> HIDE DEF first, named
<1>7. PICK k : /\ k \in McpCallType /\ CallSound(k) /\ calls' = Append(calls, k)
  <2> DEFINE k == [inst |-> i, requested |-> FALSE, ran |-> FALSE, st |-> st, result |-> outcome]
  <2>1. k \in McpCallType
    BY <1>5, <1>6 DEF McpCallType
  <2>2. CallSound(k)
    BY <1>5, <1>6 DEF CallSound
  <2>3. calls' = Append(calls, k)
    BY <1>6
  <2> HIDE DEF k
  <2> QED BY <2>1, <2>2, <2>3
<1>8. /\ calls' \in Seq(McpCallType)
      /\ \A d \in DOMAIN calls : d \in DOMAIN calls' /\ calls'[d] = calls[d]
      /\ \A d \in DOMAIN calls' : d \in DOMAIN calls \/ calls'[d] = k
  <2> DEFINE n == Len(calls)
  <2>1. /\ n \in Nat /\ DOMAIN calls = 1..n /\ calls' \in Seq(McpCallType) /\ DOMAIN calls' = 1..(n + 1)
        /\ \A d \in 1..n : calls'[d] = calls[d]
        /\ calls'[n + 1] = k
    BY <1>2, <1>7
  <2> HIDE DEF n
  <2>2. \A d \in 1..(n + 1) : d \in 1..n \/ d = n + 1
    BY <2>1
  <2>3. \A d \in 1..n : d \in 1..(n + 1)
    BY <2>1
  <2> QED BY <2>1, <2>2, <2>3
<1>9. McpTypeOK' /\ LoadSound' /\ ToolsSound'
  BY <1>1, <1>8, LoadFrame DEF McpInv, McpTypeOK
<1>10. CallsSound'
  <2>1. CallsSound /\ inst' = inst /\ ServerThreads' = ServerThreads
    BY <1>1 DEF McpInv, ServerThreads
  <2>2. ASSUME NEW j \in ServerThreads PROVE Waits(j)' /\ BreakerSound(inst[j])'
    <3>1. Waits(j) /\ BreakerSound(inst[j])
      BY <2>1 DEF CallsSound
    <3> QED BY <1>8, <2>1, <3>1 DEF Waits, BreakerSound
  <2>3. \A d \in DOMAIN calls' : CallSound(calls'[d])
    BY <1>7, <1>8, <2>1 DEF CallsSound
  <2>4. \A d \in DOMAIN calls' : CallSound(calls[d])'
    BY <2>1, <2>3 DEF CallSound
  <2> QED BY <2>1, <2>2, <2>4 DEF CallsSound
<1> QED BY <1>9, <1>10 DEF McpInv

LEMMA CallsFrame ==
  ASSUME McpInv, UNCHANGED <<inst, calls>>
  PROVE  CallsSound'
<1>1. CallsSound /\ inst' = inst /\ calls' = calls
  BY DEF McpInv
<1>2. \A i \in ServerThreads : Waits(i)' /\ BreakerSound(inst[i])'
  <2>1. \A i \in ServerThreads : Waits(i) /\ BreakerSound(inst[i])
    BY <1>1 DEF CallsSound
  <2> QED BY <1>1, <2>1 DEF Waits, BreakerSound
<1>3. \A c \in DOMAIN calls : CallSound(calls[c])'
  BY <1>1 DEF CallsSound, CallSound, ServerThreads
<1>4. ServerThreads' = ServerThreads
  BY <1>1 DEF ServerThreads
<1> QED BY <1>1, <1>2, <1>3, <1>4 DEF CallsSound

LEMMA LoadTypes ==
  ASSUME McpInv
  PROVE  /\ load \in LoadType /\ load.todo \in Seq(ServerEntries) /\ load.pending \in Seq(Nat)
         /\ load.tools \in Seq(McpTool) /\ load.loaded \in SUBSET DOMAIN Listing
         /\ inst \in Seq(ThreadType) /\ ServerThreads = 1..Len(inst) /\ mcpTools \in Seq(McpTool)
         /\ status \in [enabled : SUBSET DOMAIN Listing, retry : Seq(ServerEntries), count : Nat]
         /\ status.retry \in Seq(ServerEntries) /\ status.enabled \in SUBSET DOMAIN Listing
         /\ status.count \in Nat
<1>1. /\ load \in LoadType /\ inst \in Seq(ThreadType) /\ mcpTools \in Seq(McpTool)
      /\ status \in [enabled : SUBSET DOMAIN Listing, retry : Seq(ServerEntries), count : Nat]
  BY DEF McpInv, McpTypeOK
<1>2. load.todo \in Seq(ServerEntries) /\ load.pending \in Seq(Nat)
      /\ load.tools \in Seq(McpTool) /\ load.loaded \in SUBSET DOMAIN Listing
  BY <1>1 DEF LoadType
<1>3. status.retry \in Seq(ServerEntries) /\ status.enabled \in SUBSET DOMAIN Listing
      /\ status.count \in Nat
  BY <1>1
<1>4. ServerThreads = 1..Len(inst)
  BY <1>1 DEF ServerThreads
<1> QED BY <1>1, <1>2, <1>3, <1>4

\* What is left of a list of servers.
LEMMA TailServers ==
  ASSUME NEW s \in Seq(ServerEntries), s # << >>, OneEach(s)
  PROVE  /\ Tail(s) \in Seq(ServerEntries) /\ OneEach(Tail(s)) /\ Head(s) \in ServerEntries
         /\ Head(s).label \in Labels(s) /\ Labels(Tail(s)) = Labels(s) \ {Head(s).label}
<1> DEFINE n == Len(s)
           t == Tail(s)
<1>1. /\ n \in Nat /\ n >= 1 /\ t \in Seq(ServerEntries) /\ Len(t) = n - 1 /\ Head(s) = s[1]
      /\ DOMAIN s = 1..n /\ DOMAIN t = 1..(n - 1) /\ s[1] \in ServerEntries
      /\ \A p \in 1..(n - 1) : t[p] = s[p + 1]
  OBVIOUS
<1> HIDE DEF t
<1>2. \A i, j \in 1..n : i # j => s[i].label # s[j].label
  BY DEF OneEach
<1> HIDE DEF n
<1>3. \A p \in 1..(n - 1) : p + 1 \in 1..n /\ p + 1 # 1
  BY <1>1
<1>4. \A p \in 1..n : p = 1 \/ (p - 1 \in 1..(n - 1) /\ (p - 1) + 1 = p)
  BY <1>1
<1>5. OneEach(t)
  <2>1. \A i, j \in 1..(n - 1) : i # j => i + 1 # j + 1
    OBVIOUS
  <2> QED BY <1>1, <1>2, <1>3, <2>1 DEF OneEach
<1>6. 1 \in 1..n
  BY <1>1
<1>7. Labels(s) = {s[p].label : p \in 1..n} /\ Labels(t) = {t[p].label : p \in 1..(n - 1)}
  BY <1>1 DEF Labels, Range
<1>8. Head(s).label \in Labels(s)
  BY <1>1, <1>6, <1>7
<1>9. Labels(t) \subseteq Labels(s) \ {Head(s).label}
  BY <1>1, <1>2, <1>3, <1>6, <1>7
<1>10. ASSUME NEW x \in Labels(s) \ {Head(s).label} PROVE x \in Labels(t)
  <2>1. PICK p \in 1..n : x = s[p].label
    BY <1>7
  <2>2. p # 1
    BY <1>1, <2>1
  <2>3. p - 1 \in 1..(n - 1) /\ (p - 1) + 1 = p
    BY <1>4, <2>2
  <2>4. t[p - 1] = s[p]
    BY <1>1, <2>3
  <2> QED BY <1>7, <2>1, <2>3, <2>4
<1> QED BY <1>1, <1>5, <1>8, <1>9, <1>10 DEF t

LEMMA ApproveServerStep ==
  ASSUME McpInv, ApproveServer
  PROVE  McpInv'
<1> DEFINE e == Head(load.todo)
           n == Len(inst)
           r == NewThread(e)
<1>1. /\ load.todo # << >> /\ load.st = "approving" /\ inst' = Append(inst, r)
      /\ load' = [load EXCEPT !.todo = Tail(@), !.pending = Append(@, n + 1)]
      /\ status' = status /\ mcpTools' = mcpTools /\ calls' = calls
  BY Zenon DEF ApproveServer
<1>2. /\ load \in LoadType /\ load.todo \in Seq(ServerEntries) /\ load.pending \in Seq(Nat)
      /\ inst \in Seq(ThreadType) /\ ServerThreads = 1..n /\ n \in Nat
  BY LoadTypes
<1>3. LoadSound /\ ToolsSound /\ CallsSound
  BY DEF McpInv
<1>4. /\ Tail(load.todo) \in Seq(ServerEntries) /\ OneEach(Tail(load.todo))
      /\ e \in ServerEntries /\ e.label \in Labels(load.todo)
      /\ Labels(Tail(load.todo)) = Labels(load.todo) \ {e.label}
  BY <1>1, <1>2, <1>3, TailServers DEF LoadSound
<1> HIDE DEF e
<1>5. /\ r \in ThreadType /\ r.label = e.label /\ r.startup = "none" /\ r.queue = << >>
      /\ r.st = "connecting" /\ BreakerSound(r)
  <2>1. e.label \in DOMAIN Listing
    BY <1>4 DEF ServerEntries
  <2>2. << >> \in Seq(Nat)
    OBVIOUS
  <2> QED BY <1>4, <2>1, <2>2, McpBounds DEF NewThread, ThreadType, BreakerSound
<1> HIDE DEF r
<1>6. /\ inst' \in Seq(ThreadType) /\ ServerThreads' = 1..(n + 1) /\ inst'[n + 1] = r
      /\ \A j \in 1..n : inst'[j] = inst[j]
      /\ \A j \in 1..(n + 1) : j \in 1..n \/ j = n + 1
      /\ \A j \in 1..n : j \in 1..(n + 1)
      /\ n + 1 \in 1..(n + 1) /\ n + 1 \in Nat /\ n + 1 \notin 1..n
  <2>1. /\ inst' \in Seq(ThreadType) /\ Len(inst') = n + 1 /\ inst'[n + 1] = r
        /\ \A j \in 1..n : inst'[j] = inst[j]
    BY <1>1, <1>2, <1>5
  <2>2. DOMAIN inst' = 1..(n + 1)
    BY <2>1
  <2> HIDE DEF n
  <2> QED BY <1>2, <2>1, <2>2 DEF ServerThreads
<1> HIDE DEF n
<1> DEFINE waiting == Append(load.pending, n + 1)
           m == Len(load.pending)
<1>7. /\ waiting \in Seq(Nat) /\ Len(waiting) = m + 1 /\ m \in Nat
      /\ waiting[m + 1] = n + 1 /\ \A k \in 1..m : waiting[k] = load.pending[k]
      /\ \A k \in 1..(m + 1) : k \in 1..m \/ k = m + 1
  BY <1>2, <1>6
<1> HIDE DEF waiting
<1>8. /\ load' \in LoadType /\ load'.todo = Tail(load.todo) /\ load'.pending = waiting
      /\ load'.tools = load.tools /\ load'.loaded = load.loaded /\ load'.st = "approving"
  BY <1>1, <1>2, <1>4, <1>7 DEF LoadType, waiting
<1>9. McpTypeOK'
  BY <1>1, <1>6, <1>8 DEF McpInv, McpTypeOK
<1>10. \A j \in 1..n : inst'[j].label = inst[j].label
  BY <1>6
<1>11. e.label \in Labels(status.retry) /\ e.label \notin load.loaded
  BY <1>3, <1>4 DEF LoadSound
<1>12. \A k \in 1..m : /\ load.pending[k] \in 1..n
                       /\ inst[load.pending[k]].label \in Labels(status.retry)
                       /\ inst[load.pending[k]].label \notin Labels(load.todo) \cup load.loaded
  BY <1>2, <1>3 DEF LoadSound, LabelOf, m
<1>16. \A k \in 1..(m + 1) :
         /\ waiting[k] \in 1..(n + 1)
         /\ \/ /\ k \in 1..m /\ waiting[k] = load.pending[k] /\ waiting[k] \in 1..n
               /\ inst'[waiting[k]] = inst[waiting[k]]
            \/ k = m + 1 /\ inst'[waiting[k]] = r
  <2> TAKE k \in 1..(m + 1)
  <2>1. CASE k \in 1..m
    <3>1. waiting[k] = load.pending[k] /\ waiting[k] \in 1..n
      BY <1>7, <1>12, <2>1
    <3> QED BY <1>6, <2>1, <3>1
  <2>2. CASE k = m + 1
    BY <1>6, <1>7, <2>2
  <2> QED BY <1>7, <2>1, <2>2
<1>13. LoadSound'
  <2>1. OneEach(status.retry)' /\ OneEach(load.todo)'
    BY <1>1, <1>3, <1>4, <1>8 DEF LoadSound, OneEach
  <2>2. Labels(status.retry)' = Labels(status.retry) /\ Labels(load.todo)' = Labels(load.todo) \ {e.label}
    BY <1>1, <1>4, <1>8 DEF Labels
  <2>3. \A j \in 1..(n + 1) : inst'[j].label \in status.enabled \cup Labels(status.retry)
    <3>1. \A j \in 1..n : inst[j].label \in status.enabled \cup Labels(status.retry)
      BY <1>2, <1>3 DEF LoadSound, LabelOf
    <3> QED BY <1>5, <1>6, <1>10, <1>11, <3>1
  <2>4. \A k \in 1..(m + 1) :
          /\ waiting[k] \in 1..(n + 1) /\ inst'[waiting[k]].label \in Labels(status.retry)
          /\ inst'[waiting[k]].label \notin (Labels(load.todo) \ {e.label}) \cup load.loaded
    <3> TAKE k \in 1..(m + 1)
    <3>1. CASE inst'[waiting[k]] = r
      BY <1>5, <1>11, <1>16, <3>1
    <3>2. CASE k \in 1..m /\ waiting[k] = load.pending[k] /\ inst'[waiting[k]] = inst[waiting[k]]
      BY <1>12, <1>16, <3>2
    <3> QED BY <1>16, <3>1, <3>2
  <2>5. \A j, k \in 1..(m + 1) : j # k => inst'[waiting[j]].label # inst'[waiting[k]].label
    <3>1. \A j, k \in 1..m : j # k => inst[load.pending[j]].label # inst[load.pending[k]].label
      BY <1>3 DEF LoadSound, LabelOf, m
    <3>2. \A k \in 1..m : inst[load.pending[k]].label # e.label
      BY <1>4, <1>12
    <3>3. \A k \in 1..(m + 1) :
            \/ k \in 1..m /\ inst'[waiting[k]].label = inst[load.pending[k]].label
            \/ k = m + 1 /\ inst'[waiting[k]].label = e.label
      BY <1>5, <1>16
    <3> HIDE DEF m
    <3> QED BY <3>1, <3>2, <3>3
  <2>6. status'.enabled = status.enabled /\ (status.enabled \cap Labels(status.retry) = {})
    BY <1>1, <1>3 DEF LoadSound
  <2>7. (Labels(load.todo) \ {e.label}) \cup load.loaded \subseteq Labels(status.retry)
        /\ (Labels(load.todo) \ {e.label}) \cap load.loaded = {}
    BY <1>3 DEF LoadSound
  <2> QED BY <1>6, <1>7, <1>8, <2>1, <2>2, <2>3, <2>4, <2>5, <2>6, <2>7 DEF LoadSound, LabelOf
<1>14. ToolsSound'
  <2>1. ASSUME NEW tools, NEW labels, OneThread(tools, labels)
        PROVE  /\ \A t \in Range(tools) :
                    /\ t.inst \in 1..(n + 1) /\ inst'[t.inst].label \in labels
                    /\ inst'[t.inst].st \in {"serving", "remote"}
               /\ \A t, u \in Range(tools) :
                    inst'[t.inst].label = inst'[u.inst].label => t.inst = u.inst
    <3>1. ASSUME NEW t \in Range(tools)
          PROVE  /\ t.inst \in 1..(n + 1) /\ inst'[t.inst] = inst[t.inst]
                 /\ inst[t.inst].label \in labels
                 /\ inst[t.inst].st \in {"serving", "remote"}
      <4>1. /\ t.inst \in ServerThreads /\ inst[t.inst].label \in labels
            /\ inst[t.inst].st \in {"serving", "remote"}
        BY <2>1 DEF OneThread, LabelOf
      <4> QED BY <1>2, <1>6, <1>10, <4>1
    <3>2. \A t, u \in Range(tools) : inst[t.inst].label = inst[u.inst].label => t.inst = u.inst
      BY <2>1 DEF OneThread, LabelOf
    <3> QED BY <3>1, <3>2
  <2>2. OneThread(mcpTools, status.enabled) /\ OneThread(load.tools, load.loaded)
    BY <1>3 DEF ToolsSound
  <2>3. Range(mcpTools)' = Range(mcpTools) /\ Range(load.tools)' = Range(load.tools)
        /\ status'.enabled = status.enabled /\ status'.count = status.count
    BY <1>1, <1>8 DEF Range
  <2>4. OneThread(mcpTools, status.enabled)'
    <3>1. /\ \A t \in Range(mcpTools) :
               /\ t.inst \in 1..(n + 1) /\ inst'[t.inst].label \in status.enabled
               /\ inst'[t.inst].st \in {"serving", "remote"}
          /\ \A t, u \in Range(mcpTools) :
               inst'[t.inst].label = inst'[u.inst].label => t.inst = u.inst
      BY <2>1, <2>2
    <3> QED BY <1>6, <2>3, <3>1 DEF OneThread, LabelOf
  <2>5. OneThread(load.tools, load.loaded)'
    <3>1. /\ \A t \in Range(load.tools) :
               /\ t.inst \in 1..(n + 1) /\ inst'[t.inst].label \in load.loaded
               /\ inst'[t.inst].st \in {"serving", "remote"}
          /\ \A t, u \in Range(load.tools) :
               inst'[t.inst].label = inst'[u.inst].label => t.inst = u.inst
      BY <2>1, <2>2
    <3> QED BY <1>6, <1>8, <2>3, <3>1 DEF OneThread, LabelOf
  <2>6. \A k \in 1..(m + 1) : inst'[waiting[k]].startup = "ok"
                                => inst'[waiting[k]].st \in {"serving", "remote"}
    <3>1. \A k \in 1..m : inst[load.pending[k]].startup = "ok"
                              => inst[load.pending[k]].st \in {"serving", "remote"}
      BY <1>3 DEF ToolsSound, m
    <3> QED BY <1>5, <1>16, <3>1
  <2>7. status.count = Len(mcpTools)
    BY <1>3 DEF ToolsSound
  <2> QED BY <1>1, <1>7, <1>8, <2>3, <2>4, <2>5, <2>6, <2>7 DEF ToolsSound
<1>15. CallsSound'
  <2>1. ASSUME NEW j \in 1..(n + 1) PROVE Waits(j)' /\ BreakerSound(inst[j])'
    <3>1. CASE j \in 1..n
      <4>1. Waits(j) /\ BreakerSound(inst[j]) /\ inst'[j] = inst[j]
        BY <1>2, <1>3, <1>6, <3>1 DEF CallsSound
      <4> QED BY <1>1, <4>1 DEF Waits, BreakerSound
    <3>2. CASE j = n + 1
      <4>1. inst'[j] = r
        BY <1>6, <3>2
      <4>2. 1..Len(r.queue) = {}
        BY <1>5
      <4> QED BY <1>5, <4>1, <4>2 DEF Waits, BreakerSound
    <3> QED BY <1>6, <3>1, <3>2
  <2>2. \A c \in DOMAIN calls : CallSound(calls[c])'
    BY <1>1, <1>2, <1>3, <1>6 DEF CallsSound, CallSound
  <2>3. \A h, j \in 1..(n + 1) :
          \A p \in 1..Len(inst'[h].queue), s \in 1..Len(inst'[j].queue) :
            inst'[h].queue[p] = inst'[j].queue[s] => h = j /\ p = s
    <3>1. \A j \in 1..(n + 1), p \in Int :
            p \in 1..Len(inst'[j].queue) => j \in 1..n
      <4>1. 1..Len(r.queue) = {}
        BY <1>5
      <4> QED BY <1>6, <4>1
    <3>2. \A h, j \in 1..n :
            \A p \in 1..Len(inst[h].queue), s \in 1..Len(inst[j].queue) :
              inst[h].queue[p] = inst[j].queue[s] => h = j /\ p = s
      BY <1>2, <1>3 DEF CallsSound
    <3> TAKE h, j \in 1..(n + 1)
    <3> TAKE p \in 1..Len(inst'[h].queue), s \in 1..Len(inst'[j].queue)
    <3> HAVE inst'[h].queue[p] = inst'[j].queue[s]
    <3>3. h \in 1..n /\ j \in 1..n
      BY <3>1
    <3>4. inst'[h] = inst[h] /\ inst'[j] = inst[j]
      BY <1>6, <3>3
    <3> QED BY <3>2, <3>3, <3>4
  <2> QED BY <1>1, <1>6, <2>1, <2>2, <2>3 DEF CallsSound
<1> QED BY <1>9, <1>13, <1>14, <1>15 DEF McpInv

\* The servers a load l waits for.
PendingSound(l) ==
  /\ \A k \in 1..Len(l.pending) :
       /\ l.pending[k] \in ServerThreads
       /\ LabelOf(l.pending[k]) \in Labels(status.retry)
       /\ LabelOf(l.pending[k]) \notin Labels(l.todo) \cup l.loaded
       /\ inst[l.pending[k]].startup = "ok" => inst[l.pending[k]].st \in {"serving", "remote"}
  /\ \A j, k \in 1..Len(l.pending) : j # k => LabelOf(l.pending[j]) # LabelOf(l.pending[k])

OneLoad(l) ==
  /\ l \in LoadType /\ OneEach(l.todo)
  /\ Labels(l.todo) \cup l.loaded \subseteq Labels(status.retry)
  /\ Labels(l.todo) \cap l.loaded = {}
  /\ PendingSound(l) /\ OneThread(l.tools, l.loaded)
  /\ l.st = "none" => l = NoLoad

LEMMA LoadIsSound ==
  ASSUME McpInv
  PROVE  OneLoad(load)
  BY DEF McpInv, McpTypeOK, LoadSound, ToolsSound, OneLoad, PendingSound

\* A step that changes the load only.
LEMMA LoadOnly ==
  ASSUME McpInv, UNCHANGED <<status, mcpTools, inst, calls>>, NEW l, OneLoad(l), load' = l
  PROVE  McpInv'
<1>1. /\ status' = status /\ mcpTools' = mcpTools /\ inst' = inst /\ calls' = calls
      /\ McpTypeOK /\ LoadSound /\ ToolsSound
  BY DEF McpInv
<1>2. McpTypeOK'
  BY <1>1 DEF McpTypeOK, OneLoad
<1>3. CallsSound'
  BY CallsFrame
<1>4. ServerThreads' = ServerThreads /\ \A i : inst'[i] = inst[i]
  BY <1>1 DEF ServerThreads
<1>5. /\ status'.retry = status.retry /\ status'.enabled = status.enabled
      /\ status'.count = status.count
      /\ Labels(status.retry)' = Labels(status.retry) /\ OneEach(status.retry)'
  BY <1>1 DEF Labels, LoadSound, OneEach
<1>6. /\ load'.todo = l.todo /\ load'.pending = l.pending /\ load'.tools = l.tools
      /\ load'.loaded = l.loaded /\ load'.st = l.st
      /\ Labels(load.todo)' = Labels(l.todo) /\ OneEach(load.todo)'
      /\ Range(load.tools)' = Range(l.tools)
  BY DEF Labels, Range, OneLoad, OneEach
<1>7. \A i \in ServerThreads : inst'[i].label \in status.enabled \cup Labels(status.retry)
  BY <1>1, <1>4 DEF LoadSound, LabelOf
<1>8. LoadSound'
  <2>1. /\ \A k \in 1..Len(l.pending) :
             /\ l.pending[k] \in ServerThreads
             /\ inst'[l.pending[k]].label \in Labels(status.retry)
             /\ inst'[l.pending[k]].label \notin Labels(l.todo) \cup l.loaded
        /\ \A j, k \in 1..Len(l.pending) :
             j # k => inst'[l.pending[j]].label # inst'[l.pending[k]].label
    BY <1>4 DEF OneLoad, PendingSound, LabelOf
  <2>2. /\ status.enabled \cap Labels(status.retry) = {}
        /\ Labels(l.todo) \cup l.loaded \subseteq Labels(status.retry)
        /\ Labels(l.todo) \cap l.loaded = {}
        /\ l.st = "none" => load' = NoLoad
    BY <1>1 DEF OneLoad, LoadSound
  <2>3. NoLoad' = NoLoad
    BY DEF NoLoad
  <2> QED BY <1>4, <1>5, <1>6, <1>7, <2>1, <2>2, <2>3 DEF LoadSound, LabelOf
<1>9. ToolsSound'
  <2>1. OneThread(mcpTools, status.enabled)'
    <3>1. OneThread(mcpTools, status.enabled)
      BY <1>1 DEF ToolsSound
    <3> QED BY <1>1, <1>4, <1>5, <3>1 DEF OneThread, LabelOf
  <2>2. OneThread(load.tools, load.loaded)'
    <3>1. OneThread(l.tools, l.loaded)
      BY DEF OneLoad
    <3> QED BY <1>4, <1>6, <3>1 DEF OneThread, LabelOf
  <2>3. \A k \in 1..Len(l.pending) :
          inst'[l.pending[k]].startup = "ok" => inst'[l.pending[k]].st \in {"serving", "remote"}
    BY <1>4 DEF OneLoad, PendingSound
  <2>4. status.count = Len(mcpTools)
    BY <1>1 DEF ToolsSound
  <2> QED BY <1>1, <1>5, <1>6, <2>1, <2>2, <2>3, <2>4 DEF ToolsSound
<1> QED BY <1>2, <1>3, <1>8, <1>9 DEF McpInv

LEMMA RefuseServerStep ==
  ASSUME McpInv, RefuseServer
  PROVE  McpInv'
<1> DEFINE l == [load EXCEPT !.todo = Tail(load.todo)]
<1>1. /\ load' = l /\ load.todo # << >> /\ load.st = "approving"
      /\ UNCHANGED <<status, mcpTools, inst, calls>>
  BY Zenon DEF RefuseServer
<1>2. load \in LoadType /\ load.todo \in Seq(ServerEntries) /\ OneLoad(load)
  BY LoadTypes, LoadIsSound
<1>3. /\ Tail(load.todo) \in Seq(ServerEntries) /\ OneEach(Tail(load.todo))
      /\ Labels(Tail(load.todo)) \subseteq Labels(load.todo)
  BY <1>1, <1>2, TailServers DEF OneLoad
<1>4. /\ l \in LoadType /\ l.todo = Tail(load.todo) /\ l.pending = load.pending
      /\ l.tools = load.tools /\ l.loaded = load.loaded /\ l.st = "approving"
  BY <1>1, <1>2, <1>3 DEF LoadType
<1> HIDE DEF l
<1>5. PendingSound(l)
  BY <1>2, <1>3, <1>4 DEF OneLoad, PendingSound
<1>6. OneLoad(l)
  BY <1>2, <1>3, <1>4, <1>5 DEF OneLoad
<1> QED BY <1>1, <1>6, LoadOnly

LEMMA AllAskedStep ==
  ASSUME McpInv, AllAsked
  PROVE  McpInv'
<1> DEFINE l == [load EXCEPT !.st = "waiting"]
<1>1. load' = l /\ UNCHANGED <<status, mcpTools, inst, calls>>
  BY Zenon DEF AllAsked
<1>2. load \in LoadType /\ OneLoad(load)
  BY LoadTypes, LoadIsSound
<1>4. /\ l \in LoadType /\ l.todo = load.todo /\ l.pending = load.pending
      /\ l.tools = load.tools /\ l.loaded = load.loaded /\ l.st = "waiting"
  BY <1>2 DEF LoadType
<1> HIDE DEF l
<1>5. PendingSound(l)
  BY <1>2, <1>4 DEF OneLoad, PendingSound
<1>6. OneLoad(l)
  BY <1>2, <1>4, <1>5 DEF OneLoad
<1> QED BY <1>1, <1>6, LoadOnly

\* What a load waits for after the first server.
LEMMA TailPending ==
  ASSUME NEW s \in Seq(Nat), s # << >>
  PROVE  /\ Tail(s) \in Seq(Nat) /\ 1 \in 1..Len(s) /\ Head(s) = s[1]
         /\ \A k \in 1..Len(Tail(s)) :
              k + 1 \in 1..Len(s) /\ k + 1 # 1 /\ Tail(s)[k] = s[k + 1]
         /\ \A j, k \in 1..Len(Tail(s)) : j # k => j + 1 # k + 1
  OBVIOUS

LEMMA ServerNotReadyStep ==
  ASSUME McpInv, ServerNotReady
  PROVE  McpInv'
<1> DEFINE l == [load EXCEPT !.pending = Tail(load.pending)]
<1>1. /\ load' = l /\ load.pending # << >> /\ load.st = "waiting"
      /\ UNCHANGED <<status, mcpTools, inst, calls>>
  BY Zenon DEF ServerNotReady
<1>2. load \in LoadType /\ load.pending \in Seq(Nat) /\ OneLoad(load)
  BY LoadTypes, LoadIsSound
<1>3. /\ Tail(load.pending) \in Seq(Nat)
      /\ \A k \in 1..Len(Tail(load.pending)) :
           k + 1 \in 1..Len(load.pending) /\ Tail(load.pending)[k] = load.pending[k + 1]
      /\ \A j, k \in 1..Len(Tail(load.pending)) : j # k => j + 1 # k + 1
  BY <1>1, <1>2, TailPending
<1>4. /\ l \in LoadType /\ l.todo = load.todo /\ l.pending = Tail(load.pending)
      /\ l.tools = load.tools /\ l.loaded = load.loaded /\ l.st = "waiting"
  BY <1>1, <1>2, <1>3 DEF LoadType
<1> HIDE DEF l
<1>5. PendingSound(l)
  <2>1. PendingSound(load)
    BY <1>2 DEF OneLoad
  <2> QED BY <1>3, <1>4, <2>1 DEF PendingSound
<1>6. OneLoad(l)
  BY <1>2, <1>4, <1>5 DEF OneLoad
<1> QED BY <1>1, <1>6, LoadOnly

LEMMA ServerReadyStep ==
  ASSUME McpInv, ServerReady
  PROVE  McpInv'
<1>1. load.pending # << >> /\ load.st = "waiting" /\ inst[Head(load.pending)].startup = "ok"
      /\ UNCHANGED <<status, mcpTools, inst, calls>>
  BY DEF ServerReady
<1>2. /\ load \in LoadType /\ load.pending \in Seq(Nat) /\ load.tools \in Seq(McpTool)
      /\ load.loaded \in SUBSET DOMAIN Listing /\ OneLoad(load)
  BY LoadTypes, LoadIsSound
<1>3. /\ Tail(load.pending) \in Seq(Nat) /\ 1 \in 1..Len(load.pending)
      /\ Head(load.pending) = load.pending[1]
      /\ \A k \in 1..Len(Tail(load.pending)) :
           /\ k + 1 \in 1..Len(load.pending) /\ k + 1 # 1
           /\ Tail(load.pending)[k] = load.pending[k + 1]
      /\ \A j, k \in 1..Len(Tail(load.pending)) : j # k => j + 1 # k + 1
  BY <1>1, <1>2, TailPending
<1>4. PICK i : i = Head(load.pending)
  OBVIOUS
<1>5. PICK got : got = Collect(load.tools, i)
  OBVIOUS
<1>6. /\ i \in ServerThreads /\ LabelOf(i) \in Labels(status.retry)
      /\ LabelOf(i) \notin Labels(load.todo) \cup load.loaded
      /\ inst[i].st \in {"serving", "remote"}
  BY <1>1, <1>2, <1>3, <1>4 DEF OneLoad, PendingSound
<1>7. i \in Nat /\ inst[i].label \in DOMAIN Listing
  <2>1. i \in Nat
    BY <1>2, <1>3, <1>4
  <2> QED BY <1>6, <2>1, TypesOf
<1>8. Adds(got.tools, load.tools, i)
  BY <1>2, <1>5, <1>7, CollectHolds
<1> DEFINE rest == IF got.full THEN << >> ELSE Tail(load.pending)
           l == [load EXCEPT !.pending = rest, !.tools = got.tools,
                             !.loaded = load.loaded \cup {inst[i].label}]
<1>9. load' = l
  BY <1>4, <1>5, Zenon DEF ServerReady
<1>10. /\ rest \in Seq(Nat)
       /\ \A k \in 1..Len(rest) :
            /\ k + 1 \in 1..Len(load.pending) /\ k + 1 # 1 /\ rest[k] = load.pending[k + 1]
       /\ \A j, k \in 1..Len(rest) : j # k => j + 1 # k + 1
  <2>1. CASE got.full
    <3>1. rest = << >> /\ << >> \in Seq(Nat) /\ 1..Len(<< >>) = {}
      BY <2>1
    <3> QED BY <3>1
  <2>2. CASE ~got.full
    BY <1>3, <2>2
  <2> QED BY <2>1, <2>2
<1> HIDE DEF rest
<1>11. /\ l \in LoadType /\ l.todo = load.todo /\ l.pending = rest
       /\ l.tools = got.tools /\ l.loaded = load.loaded \cup {LabelOf(i)} /\ l.st = "waiting"
  <2>1. got.tools \in Seq(McpTool)
    BY <1>8 DEF Adds
  <2>2. load.loaded \cup {inst[i].label} \in SUBSET DOMAIN Listing
    BY <1>2, <1>7
  <2> QED BY <1>1, <1>2, <1>10, <2>1, <2>2 DEF LoadType, LabelOf
<1> HIDE DEF l
<1>12. PendingSound(load) /\ OneThread(load.tools, load.loaded)
  BY <1>2 DEF OneLoad
<1>13. PendingSound(l)
  <2>1. \A k \in 1..Len(rest) : LabelOf(rest[k]) # LabelOf(i)
    BY <1>3, <1>4, <1>10, <1>12 DEF PendingSound
  <2>2. ASSUME NEW k \in 1..Len(rest)
        PROVE  /\ rest[k] \in ServerThreads /\ LabelOf(rest[k]) \in Labels(status.retry)
               /\ LabelOf(rest[k]) \notin Labels(load.todo) \cup (load.loaded \cup {LabelOf(i)})
               /\ inst[rest[k]].startup = "ok" => inst[rest[k]].st \in {"serving", "remote"}
    <3>1. k + 1 \in 1..Len(load.pending) /\ rest[k] = load.pending[k + 1]
      BY <1>10
    <3>2. PICK n : n = k + 1
      OBVIOUS
    <3>3. n \in 1..Len(load.pending) /\ rest[k] = load.pending[n]
      BY <3>1, <3>2
    <3> QED BY <1>12, <2>1, <3>3 DEF PendingSound
  <2>3. ASSUME NEW j \in 1..Len(rest), NEW k \in 1..Len(rest), j # k
        PROVE  LabelOf(rest[j]) # LabelOf(rest[k])
    <3>1. j + 1 \in 1..Len(load.pending) /\ k + 1 \in 1..Len(load.pending) /\ j + 1 # k + 1
      BY <1>10, <2>3
    <3>2. LabelOf(load.pending[j + 1]) # LabelOf(load.pending[k + 1])
      BY <1>12, <3>1 DEF PendingSound
    <3> QED BY <1>10, <3>2
  <2> QED BY <1>11, <2>2, <2>3 DEF PendingSound
<1>14. OneThread(l.tools, l.loaded)
  <2>1. \A t \in Range(l.tools) : t \in Range(load.tools) \/ t.inst = i
    BY <1>8, <1>11 DEF Adds
  <2> QED BY <1>6, <1>11, <1>12, <2>1 DEF OneThread
<1>15. OneLoad(l)
  <2>1. OneEach(l.todo) /\ Labels(l.todo) = Labels(load.todo)
    BY <1>2, <1>11 DEF OneLoad
  <2>2. /\ Labels(load.todo) \cup load.loaded \subseteq Labels(status.retry)
        /\ Labels(load.todo) \cap load.loaded = {}
    BY <1>2 DEF OneLoad
  <2>3. /\ Labels(l.todo) \cup l.loaded \subseteq Labels(status.retry)
        /\ Labels(l.todo) \cap l.loaded = {}
    BY <1>6, <1>11, <2>1, <2>2
  <2>4. l.st # "none"
    BY <1>11
  <2> QED BY <1>11, <1>13, <1>14, <2>1, <2>3, <2>4 DEF OneLoad
<1> QED BY <1>1, <1>9, <1>15, LoadOnly

\* No load, or one that is about to ask for servers of which none was loaded.
LEMMA LoadBegins ==
  ASSUME McpInv, NEW kind \in {"start", "retry"}, NEW servers \in Seq(ServerEntries),
         OneEach(servers), Labels(servers) \subseteq Labels(status.retry)
  PROVE  OneLoad(NoLoad) /\ OneLoad(BeginLoad(kind, servers))
<1>1. /\ << >> \in Seq(ServerEntries) /\ << >> \in Seq(Nat) /\ << >> \in Seq(McpTool)
      /\ 1..Len(<< >>) = {} /\ Range(<< >>) = {}
  BY DEF Range
<1>2. OneEach(<< >>) /\ Labels(<< >>) = {}
  BY <1>1 DEF OneEach, Labels
<1>3. /\ NoLoad \in LoadType /\ NoLoad.todo = << >> /\ NoLoad.pending = << >>
      /\ NoLoad.tools = << >> /\ NoLoad.loaded = {}
  BY <1>1 DEF NoLoad, LoadType
<1>4. PendingSound(NoLoad) /\ OneThread(NoLoad.tools, NoLoad.loaded)
  BY <1>1, <1>3 DEF PendingSound, OneThread
<1>5. OneLoad(NoLoad)
  BY <1>2, <1>3, <1>4 DEF OneLoad
<1> DEFINE l == BeginLoad(kind, servers)
<1>6. /\ l \in LoadType /\ l.todo = servers /\ l.pending = << >>
      /\ l.tools = << >> /\ l.loaded = {} /\ l.st = "approving"
  BY <1>1 DEF NoLoad, LoadType, BeginLoad
<1> HIDE DEF l
<1>7. PendingSound(l) /\ OneThread(l.tools, l.loaded)
  BY <1>1, <1>6 DEF PendingSound, OneThread
<1>8. OneLoad(l)
  BY <1>6, <1>7 DEF OneLoad
<1> QED BY <1>5, <1>8 DEF l

LEMMA RetryStep ==
  ASSUME McpInv, RetryLost \/ RetryMcp
  PROVE  McpInv'
<1>1. OneLoad(NoLoad) /\ OneLoad(BeginLoad("retry", status.retry))
  BY LoadBegins, LoadTypes DEF McpInv, LoadSound
<1>2. UNCHANGED <<status, mcpTools, inst, calls>> /\
      (load' = NoLoad \/ load' = BeginLoad("retry", status.retry))
  BY DEF RetryLost, RetryMcp
<1> QED BY <1>1, <1>2, LoadOnly

\* record_mcp_retry keeps what was not loaded, each server once.
LEMMA ToRetryHolds ==
  ASSUME NEW s \in Seq(ServerEntries), OneEach(s), s = status.retry, NEW loaded
  PROVE  /\ ToRetry(loaded) \in Seq(ServerEntries) /\ OneEach(ToRetry(loaded))
         /\ Labels(ToRetry(loaded)) = Labels(s) \ loaded
<1> DEFINE at == {k \in DOMAIN s : s[k].label \notin loaded}
           t == ToRetry(loaded)
           n == Len(s)
<1>1. t = Kept(s, at)
  BY DEF ToRetry
<1>2. /\ DOMAIN s = 1..n /\ \A k \in 1..n : k \in at <=> s[k].label \notin loaded
  OBVIOUS
<1> HIDE DEF at, t
<1>3. Selected(t, s, at, n, ServerEntries)
  BY <1>1, KeptHolds
<1>4. t \in Seq(ServerEntries) /\ DOMAIN t = 1..Len(t)
  BY <1>3 DEF Selected
<1>5. \A i, j \in 1..n : i # j => s[i].label # s[j].label
  BY DEF OneEach
<1> HIDE DEF n
<1>6. OneEach(t)
  <2>1. ASSUME NEW p \in 1..Len(t), NEW q \in 1..Len(t), p # q
        PROVE  t[p].label # t[q].label
    <3>1. PICK j \in 1..n, k \in 1..n : j # k /\ t[p] = s[j] /\ t[q] = s[k]
      BY <1>3, <2>1 DEF Selected
    <3> QED BY <1>5, <3>1
  <2> QED BY <2>1 DEF OneEach
<1>7. Labels(s) = {s[k].label : k \in 1..n} /\ Labels(t) = {t[p].label : p \in 1..Len(t)}
  BY <1>2, <1>4 DEF Labels, Range
<1>8. ASSUME NEW x \in Labels(t) PROVE x \in Labels(s) \ loaded
  <2>1. PICK p \in 1..Len(t) : x = t[p].label
    BY <1>7
  <2>2. PICK k \in 1..n : k \in at /\ t[p] = s[k]
    BY <1>3 DEF Selected
  <2> QED BY <1>2, <1>7, <2>1, <2>2
<1>9. ASSUME NEW x \in Labels(s) \ loaded PROVE x \in Labels(t)
  <2>1. PICK k \in 1..n : x = s[k].label
    BY <1>7
  <2>2. PICK p \in 1..Len(t) : t[p] = s[k]
    BY <1>2, <1>3, <2>1 DEF Selected
  <2> QED BY <1>7, <2>1, <2>2
<1> QED BY <1>4, <1>6, <1>8, <1>9 DEF t

LEMMA LoadEndsStep ==
  ASSUME McpInv, LoadEnds
  PROVE  McpInv'
<1> DEFINE l == load
<1>1. /\ load' = NoLoad /\ mcpTools' = mcpTools \o load.tools
      /\ status' = [enabled |-> status.enabled \cup load.loaded,
                    retry |-> ToRetry(load.loaded),
                    count |-> status.count + Len(load.tools)]
      /\ inst' = inst /\ calls' = calls
  BY DEF LoadEnds
<1>2. /\ load.tools \in Seq(McpTool) /\ load.loaded \in SUBSET DOMAIN Listing
      /\ mcpTools \in Seq(McpTool) /\ status.retry \in Seq(ServerEntries)
      /\ status.enabled \in SUBSET DOMAIN Listing /\ status.count \in Nat
  BY LoadTypes
<1>3. LoadSound /\ ToolsSound /\ McpTypeOK
  BY DEF McpInv
<1>4. /\ ToRetry(load.loaded) \in Seq(ServerEntries) /\ OneEach(ToRetry(load.loaded))
      /\ Labels(ToRetry(load.loaded)) = Labels(status.retry) \ load.loaded
  BY <1>2, <1>3, ToRetryHolds DEF LoadSound
<1>5. /\ status'.enabled = status.enabled \cup load.loaded
      /\ status'.retry = ToRetry(load.loaded)
      /\ status'.count = status.count + Len(load.tools)
      /\ status' \in [enabled : SUBSET DOMAIN Listing, retry : Seq(ServerEntries), count : Nat]
  <2>1. Len(load.tools) \in Nat
    BY <1>2
  <2>2. status.count + Len(load.tools) \in Nat
    BY <1>2, <2>1
  <2> QED BY <1>1, <1>2, <1>4, <2>2
<1>6. /\ NoLoad \in LoadType /\ NoLoad.todo = << >> /\ NoLoad.pending = << >>
      /\ NoLoad.tools = << >> /\ NoLoad.loaded = {} /\ OneLoad(NoLoad)
  <2>1. OneLoad(NoLoad)
    BY <1>2, <1>3, LoadBegins DEF LoadSound
  <2> QED BY <2>1 DEF OneLoad, NoLoad
<1>7. /\ mcpTools' \in Seq(McpTool) /\ Len(mcpTools') = Len(mcpTools) + Len(load.tools)
      /\ \A t \in Range(mcpTools') : t \in Range(mcpTools) \/ t \in Range(load.tools)
  <2> DEFINE a == mcpTools
             b == load.tools
             s == a \o b
  <2>1. /\ s \in Seq(McpTool) /\ Len(s) = Len(a) + Len(b) /\ DOMAIN s = 1..Len(s)
        /\ DOMAIN a = 1..Len(a) /\ DOMAIN b = 1..Len(b) /\ Len(a) \in Nat /\ Len(b) \in Nat
        /\ \A p \in 1..Len(a) : s[p] = a[p]
        /\ \A p \in 1..Len(b) : s[Len(a) + p] = b[p]
    BY <1>2
  <2> HIDE DEF s, a, b
  <2>2. \A p \in 1..Len(s) : p \in 1..Len(a) \/ (p - Len(a) \in 1..Len(b) /\ Len(a) + (p - Len(a)) = p)
    BY <2>1
  <2>3. \A t \in Range(s) : t \in Range(a) \/ t \in Range(b)
    <3>1. ASSUME NEW p \in 1..Len(s) PROVE s[p] \in Range(a) \/ s[p] \in Range(b)
      <4>1. CASE p \in 1..Len(a)
        BY <2>1, <4>1 DEF Range
      <4>2. CASE p - Len(a) \in 1..Len(b) /\ Len(a) + (p - Len(a)) = p
        <5>1. s[p] = b[p - Len(a)]
          BY <2>1, <4>2
        <5> QED BY <2>1, <4>2, <5>1 DEF Range
      <4> QED BY <2>2, <4>1, <4>2
    <3> QED BY <2>1, <3>1 DEF Range
  <2> QED BY <1>1, <2>1, <2>3 DEF s, a, b
<1>8. McpTypeOK'
  BY <1>1, <1>3, <1>5, <1>6, <1>7 DEF McpTypeOK
<1>9. /\ ServerThreads' = ServerThreads /\ (\A i : inst'[i] = inst[i])
  BY <1>1 DEF ServerThreads
<1>10. /\ load'.todo = << >> /\ load'.pending = << >> /\ load'.tools = << >> /\ load'.loaded = {}
       /\ Labels(load.todo)' = {} /\ Range(load.tools)' = {} /\ 1..Len(load'.pending) = {}
       /\ OneEach(load.todo)'
  <2>1. load'.todo = << >> /\ load'.pending = << >> /\ load'.tools = << >> /\ load'.loaded = {}
    BY <1>1, <1>6
  <2>2. Labels(<< >>) = {} /\ Range(<< >>) = {} /\ 1..Len(<< >>) = {} /\ OneEach(<< >>)
    BY DEF Labels, Range, OneEach
  <2> QED BY <2>1, <2>2 DEF Labels, Range, OneEach
<1>11. LoadSound'
  <2>1. Labels(status.retry)' = Labels(status.retry) \ load.loaded /\ OneEach(status.retry)'
    BY <1>4, <1>5 DEF Labels, OneEach
  <2>2. /\ status.enabled \cap Labels(status.retry) = {}
        /\ load.loaded \subseteq Labels(status.retry)
        /\ \A i \in ServerThreads : inst[i].label \in status.enabled \cup Labels(status.retry)
    BY <1>3 DEF LoadSound, LabelOf
  <2>3. /\ (status.enabled \cup load.loaded) \cap (Labels(status.retry) \ load.loaded) = {}
        /\ \A i \in ServerThreads :
             inst'[i].label \in (status.enabled \cup load.loaded)
                                \cup (Labels(status.retry) \ load.loaded)
    BY <1>9, <2>2
  <2>4. NoLoad' = NoLoad
    BY DEF NoLoad
  <2> QED BY <1>1, <1>5, <1>9, <1>10, <2>1, <2>3, <2>4 DEF LoadSound, LabelOf
<1>12. ToolsSound'
  <2>1. OneThread(mcpTools, status.enabled) /\ OneThread(load.tools, load.loaded)
    BY <1>3 DEF ToolsSound
  <2>2. status.enabled \cap load.loaded = {}
    BY <1>3 DEF LoadSound
  <2>3. OneThread(mcpTools', status.enabled \cup load.loaded)
    <3>1. \A t \in Range(mcpTools') :
            /\ t.inst \in ServerThreads /\ LabelOf(t.inst) \in status.enabled \cup load.loaded
            /\ inst[t.inst].st \in {"serving", "remote"}
      BY <1>7, <2>1 DEF OneThread
    <3>2. ASSUME NEW t \in Range(mcpTools'), NEW u \in Range(mcpTools'),
                 LabelOf(t.inst) = LabelOf(u.inst)
          PROVE  t.inst = u.inst
      <4>1. CASE t \in Range(mcpTools) /\ u \in Range(mcpTools)
        BY <2>1, <3>2, <4>1 DEF OneThread
      <4>2. CASE t \in Range(load.tools) /\ u \in Range(load.tools)
        BY <2>1, <3>2, <4>2 DEF OneThread
      <4>3. CASE t \in Range(mcpTools) /\ u \in Range(load.tools)
        BY <2>1, <2>2, <3>2, <4>3 DEF OneThread
      <4>4. CASE t \in Range(load.tools) /\ u \in Range(mcpTools)
        BY <2>1, <2>2, <3>2, <4>4 DEF OneThread
      <4> QED BY <1>7, <4>1, <4>2, <4>3, <4>4
    <3> QED BY <3>1, <3>2 DEF OneThread
  <2>4. OneThread(mcpTools, status.enabled)'
    BY <1>5, <1>9, <2>3 DEF OneThread, LabelOf
  <2>5. OneThread(load.tools, load.loaded)'
    BY <1>10 DEF OneThread
  <2>6. status'.count = Len(mcpTools')
    BY <1>3, <1>5, <1>7 DEF ToolsSound
  <2> QED BY <1>10, <2>4, <2>5, <2>6 DEF ToolsSound
<1>13. CallsSound'
  BY <1>1, CallsFrame
<1> QED BY <1>8, <1>11, <1>12, <1>13 DEF McpInv

LEMMA InitMcp == Init => McpInv
<1> SUFFICES ASSUME Init PROVE McpInv
  OBVIOUS
<1>1. PICK s \in Scenarios : McpInit(s.mcp)
  BY DEF Init
<1>2. PICK servers : servers = Discovered(s.mcp.entries)
  OBVIOUS
<1>3. servers \in Seq(ServerEntries) /\ OneEach(servers)
  BY <1>2, ScenariosAssumption, DiscoveredHolds DEF Servers
<1>4. /\ status = [enabled |-> {}, retry |-> servers, count |-> 0]
      /\ mcpTools = << >> /\ inst = << >> /\ calls = << >>
      /\ load = NoLoad \/ load = BeginLoad("start", servers)
  BY <1>1, <1>2 DEF McpInit
<1>5. /\ status.enabled = {} /\ status.retry = servers /\ status.count = 0
      /\ status \in [enabled : SUBSET DOMAIN Listing, retry : Seq(ServerEntries), count : Nat]
  BY <1>3, <1>4
<1>6. /\ << >> \in Seq(ServerEntries) /\ << >> \in Seq(Nat) /\ << >> \in Seq(McpTool)
      /\ << >> \in Seq(ThreadType) /\ << >> \in Seq(McpCallType) /\ Len(<< >>) = 0
      /\ 1..Len(<< >>) = {} /\ Range(<< >>) = {} /\ DOMAIN << >> = {}
      /\ OneEach(<< >>) /\ Labels(<< >>) = {}
  BY DEF Range, OneEach, Labels
<1>7. /\ load \in LoadType /\ load.pending = << >> /\ load.tools = << >> /\ load.loaded = {}
      /\ load.todo = << >> \/ load.todo = servers
      /\ load.st = "none" => load = NoLoad
  <2>1. NoLoad \in LoadType /\ NoLoad.todo = << >> /\ NoLoad.pending = << >>
        /\ NoLoad.tools = << >> /\ NoLoad.loaded = {}
    BY <1>6 DEF NoLoad, LoadType
  <2> DEFINE l == BeginLoad("start", servers)
  <2>2. l \in LoadType /\ l.todo = servers /\ l.pending = << >>
        /\ l.tools = << >> /\ l.loaded = {} /\ l.st = "approving"
    BY <1>3, <1>6 DEF NoLoad, LoadType, BeginLoad
  <2> HIDE DEF l
  <2> QED BY <1>4, <2>1, <2>2 DEF l
<1>8. ServerThreads = {} /\ DOMAIN calls = {}
  BY <1>4, <1>6 DEF ServerThreads
<1>9. McpTypeOK
  BY <1>4, <1>5, <1>6, <1>7 DEF McpTypeOK
<1>10. LoadSound
  <2>1. OneEach(load.todo) /\ Labels(load.todo) \subseteq Labels(servers)
    BY <1>3, <1>6, <1>7
  <2>2. 1..Len(load.pending) = {}
    BY <1>6, <1>7
  <2> QED BY <1>3, <1>5, <1>7, <1>8, <2>1, <2>2 DEF LoadSound
<1>11. ToolsSound
  <2>1. 1..Len(load.pending) = {} /\ Range(mcpTools) = {} /\ Range(load.tools) = {}
        /\ Len(mcpTools) = 0
    BY <1>4, <1>6, <1>7
  <2> QED BY <1>5, <2>1 DEF ToolsSound, OneThread
<1>12. CallsSound
  BY <1>8 DEF CallsSound
<1> QED BY <1>9, <1>10, <1>11, <1>12 DEF McpInv

LEMMA QuietMcp ==
  ASSUME McpInv, UNCHANGED mcpVars
  PROVE  McpInv'
<1>1. UNCHANGED <<status, mcpTools, inst, calls>> /\ load' = load
  BY DEF mcpVars
<1> QED BY <1>1, LoadIsSound, LoadOnly

LEMMA NextMcp == McpInv /\ [Next]_vars => McpInv'
<1> SUFFICES ASSUME McpInv, [Next]_vars PROVE McpInv'
  OBVIOUS
<1>1. CASE UNCHANGED mcpVars
  BY <1>1, QuietMcp
<1>2. CASE McpLoad
  BY <1>2, ApproveServerStep, RefuseServerStep, AllAskedStep, ServerReadyStep,
     ServerNotReadyStep, LoadEndsStep, RetryStep DEF McpLoad, Loader
<1>3. CASE McpCall
  <2>1. CASE \E t \in Range(mcpTools) : McpAdmission(t.exposed, access.locked)
    BY <2>1, McpAdmissionStep
  <2>2. CASE \E yes \in BOOLEAN : McpAnswer(yes)
    BY <2>2, McpAnswerStep
  <2> QED BY <1>3, <2>1, <2>2 DEF McpCall
<1>4. CASE McpWait
  BY <1>4, CallTimesOutStep DEF McpWait
<1>5. CASE McpThreads
  <2>1. PICK i \in ServerThreads : ServerThread(i)
    BY <1>5 DEF McpThreads
  <2> QED BY <2>1, ConnectsStep, ConnectFailsStep, BreakerRefusesStep, CallRemoteStep,
             RemoteAnswersStep, RemoteFailsStep, ServerEndsStep DEF ServerThread
<1>6. CASE McpRemote
  BY <1>6, CooldownStep, RemoteExecutesStep DEF McpRemote, Remote
<1>7. CASE UNCHANGED vars
  BY <1>1, <1>7 DEF vars
<1>8. CASE FileCall \/ OthersWrite \/ RuntimeRefresh \/ ShellCall \/ ShellPoll \/ TaskControl
           \/ Programs \/ Descendants \/ Monitors \/ LogReaders \/ RuntimeEnds
  <2>1. UNCHANGED mcpVars
    BY <1>8 DEF FileCall, OthersWrite, RuntimeRefresh, ShellCall, ShellPoll, TaskControl,
                Programs, Descendants, Monitors, LogReaders, RuntimeEnds
  <2> QED BY <1>1, <2>1
<1> QED BY <1>2, <1>3, <1>4, <1>5, <1>6, <1>7, <1>8 DEF Next

\* What mcp/status reports is what the router holds, and a breaker bounds the failures
\* it lets through, over loads, retries, refusals, late answers and lost harnesses
\* (load, record_mcp_retry, run_server, CircuitBreaker).
THEOREM ServersAsReported == Spec => []McpTruthful
<1>1. McpInv => McpTruthful
  <2> SUFFICES ASSUME McpInv PROVE McpStatusTrue /\ BreakerHolds
    BY DEF McpTruthful
  <2>1. McpStatusTrue
    BY DEF McpInv, LoadSound, ToolsSound, OneThread, LabelOf, McpStatusTrue
  <2>2. BreakerHolds
    BY DEF McpInv, CallsSound, BreakerSound, CallSound, BreakerHolds
  <2> QED BY <2>1, <2>2
<1> QED BY <1>1, InitMcp, NextMcp, PTL DEF Spec

-----------------------------------------------------------------------------
(* The images of a request. *)

ImageTag == [id : 1..Len(images), file : BOOLEAN]

ImageTypeOK ==
  /\ up \in BOOLEAN
  /\ images \in Seq(ImageSizes) /\ order \in Seq(1..Len(images))
  /\ records \in [IdsIn(order) -> BOOLEAN]
  /\ attachments \in [DOMAIN attachments -> BOOLEAN]
  /\ DOMAIN attachments \subseteq 1..Len(images)
  /\ untagged \in ImageTag \cup {NoTag}
  /\ history \in Seq(ImageTag)

\* The store is the newest of what was written.
StoreSound ==
  /\ Increasing(order) /\ Len(order) <= MaxStored
  /\ up => \A i \in DOMAIN attachments \ IdsIn(order) :
             Len(order) = MaxStored /\ i < order[1]

ImageInv == ImageTypeOK /\ StoreSound

LEMMA ImageInitOK == ImageInit => ImageInv
<1> SUFFICES ASSUME ImageInit PROVE ImageInv
  OBVIOUS
<1>1. /\ up = TRUE /\ images = <<>> /\ order = <<>> /\ records = <<>> /\ attachments = <<>>
      /\ untagged = NoTag /\ history = <<>>
  BY DEF ImageInit
<1>2. /\ DOMAIN records = {} /\ DOMAIN attachments = {} /\ IdsIn(order) = {}
      /\ Len(images) = 0 /\ Len(order) = 0
  BY <1>1 DEF IdsIn
<1>3. records \in [{} -> BOOLEAN] /\ attachments \in [{} -> BOOLEAN]
  BY <1>1
<1>4. images \in Seq(ImageSizes) /\ order \in Seq(1..Len(images)) /\ history \in Seq(ImageTag)
  BY <1>1
<1>5. ImageTypeOK
  BY <1>1, <1>2, <1>3, <1>4 DEF ImageTypeOK
<1>6. StoreSound
  BY <1>1, <1>2, ImageAssumption DEF StoreSound, Increasing
<1> QED BY <1>5, <1>6 DEF ImageInv

LEMMA SaveKeeps ==
  ASSUME ImageInv, NEW size \in ImageSizes, NEW uploaded \in BOOLEAN, NEW written \in BOOLEAN,
         NEW described \in BOOLEAN, Save(size, uploaded, written, described)
  PROVE  ImageInv'
<1> DEFINE id == Len(images) + 1
           kept == Append(Evicted(order), id)
<1>1. /\ up \in BOOLEAN /\ images \in Seq(ImageSizes) /\ order \in Seq(1..Len(images))
      /\ records \in [IdsIn(order) -> BOOLEAN] /\ attachments \in [DOMAIN attachments -> BOOLEAN]
      /\ DOMAIN attachments \subseteq 1..Len(images) /\ history \in Seq(ImageTag)
  BY DEF ImageInv, ImageTypeOK
<1>2. /\ Increasing(order) /\ Len(order) <= MaxStored
      /\ up => \A i \in DOMAIN attachments \ IdsIn(order) :
                 Len(order) = MaxStored /\ i < order[1]
  BY DEF ImageInv, StoreSound
<1>3. /\ up /\ images' = Append(images, size) /\ order' = kept
      /\ records' = [i \in IdsIn(kept) |-> IF i = id THEN uploaded ELSE records[i]]
      /\ untagged' = [id |-> id, file |-> uploaded] /\ up' = up /\ history' = history
  BY DEF Save
<1>4. attachments' = IF written
                     THEN [i \in DOMAIN attachments \cup {id} |->
                             IF i = id THEN uploaded /\ described ELSE attachments[i]]
                     ELSE attachments
  BY DEF Save
<1>5. /\ Len(images) \in Nat /\ Len(images') = id /\ images' \in Seq(ImageSizes)
  BY <1>1, <1>3
<1>6. MaxStored \in Nat \ {0}
  BY ImageAssumption
<1> DEFINE cut == Evicted(order)
\* What the store keeps of its images.
<1>7. /\ cut \in Seq(1..Len(images)) /\ Len(cut) < MaxStored
      /\ cut = order \/ (/\ Len(order) = MaxStored /\ Len(cut) = MaxStored - 1
                         /\ \A k \in 1..Len(cut) : cut[k] = order[k + 1])
  <2>1. CASE Len(order) >= MaxStored
    <3>1. cut = Tail(order) /\ Len(order) = MaxStored /\ order # <<>>
      BY <1>1, <1>2, <1>6, <2>1 DEF Evicted
    <3> QED BY <1>1, <1>6, <3>1
  <2>2. CASE ~(Len(order) >= MaxStored)
    BY <1>1, <1>6, <2>2 DEF Evicted
  <2> QED BY <2>1, <2>2
<1> HIDE DEF cut
<1>8. /\ kept \in Seq(1..id) /\ Len(kept) = Len(cut) + 1 /\ kept[Len(cut) + 1] = id
      /\ \A k \in 1..Len(cut) : kept[k] = cut[k]
      /\ Len(cut) \in Nat
  BY <1>5, <1>7 DEF cut
<1>9. DOMAIN kept = 1..Len(kept) /\ DOMAIN order = 1..Len(order)
  BY <1>1, <1>8
<1> HIDE DEF kept
<1>10. \A i, j \in DOMAIN order : i < j => order[i] < order[j]
  BY <1>2 DEF Increasing
<1>11. Increasing(kept)
  <2> SUFFICES ASSUME NEW i \in 1..Len(kept), NEW j \in 1..Len(kept), i < j
               PROVE  kept[i] < kept[j]
    BY <1>9 DEF Increasing
  <2>1. i \in 1..Len(cut) /\ kept[i] = cut[i] /\ cut[i] \in 1..Len(images)
    BY <1>7, <1>8
  <2>2. CASE j = Len(cut) + 1
    BY <1>5, <1>8, <2>1, <2>2
  <2>3. CASE j # Len(cut) + 1
    <3>1. j \in 1..Len(cut) /\ kept[j] = cut[j]
      BY <1>8, <2>3
    <3>2. CASE cut = order
      <4>1. i \in DOMAIN order /\ j \in DOMAIN order
        BY <1>9, <2>1, <3>1, <3>2
      <4>2. order[i] < order[j]
        BY <1>10, <4>1
      <4> QED BY <2>1, <3>1, <3>2, <4>2
    <3>3. CASE cut # order
      <4>1. /\ i \in Nat /\ j \in Nat /\ Len(cut) = MaxStored - 1 /\ Len(order) = MaxStored
            /\ cut[i] = order[i + 1] /\ cut[j] = order[j + 1]
        BY <1>7, <1>8, <2>1, <3>1, <3>3
      <4>2. i + 1 \in DOMAIN order /\ j + 1 \in DOMAIN order /\ i + 1 < j + 1
        BY <1>6, <1>9, <2>1, <3>1, <4>1
      <4>3. order[i + 1] < order[j + 1]
        BY <1>10, <4>2
      <4> QED BY <2>1, <3>1, <4>1, <4>3
    <3> QED BY <3>2, <3>3
  <2> QED BY <2>2, <2>3
<1>12. \A x \in IdsIn(kept) : x = id \/ x \in IdsIn(order)
  <2> SUFFICES ASSUME NEW k \in 1..Len(kept)
               PROVE  kept[k] = id \/ \E n \in 1..Len(order) : kept[k] = order[n]
    BY <1>9 DEF IdsIn
  <2>1. CASE k = Len(cut) + 1
    BY <1>8, <2>1
  <2>2. CASE k # Len(cut) + 1
    <3>1. k \in 1..Len(cut) /\ kept[k] = cut[k]
      BY <1>8, <2>2
    <3>2. CASE cut = order
      BY <3>1, <3>2
    <3>3. CASE cut # order
      <4>1. k + 1 \in 1..Len(order) /\ kept[k] = order[k + 1]
        BY <1>6, <1>7, <3>1, <3>3
      <4> QED BY <4>1
    <3> QED BY <3>2, <3>3
  <2> QED BY <2>1, <2>2
<1>13. id \in IdsIn(kept)
  BY <1>8, <1>9 DEF IdsIn
<1>14. \A x \in IdsIn(order) \ IdsIn(kept) :
         cut # order /\ x = order[1] /\ 1 \in 1..Len(order)
  <2> SUFFICES ASSUME NEW k \in 1..Len(order), \A n \in 1..Len(kept) : kept[n] # order[k]
               PROVE  cut # order /\ k = 1
    BY <1>9 DEF IdsIn
  <2>1. cut # order
    <3> SUFFICES ASSUME cut = order
                 PROVE  FALSE
      OBVIOUS
    <3>1. k \in 1..Len(cut)
      OBVIOUS
    <3>2. kept[k] = order[k] /\ k \in 1..Len(kept)
      BY <1>8, <3>1
    <3> QED BY <3>2
  <2>2. CASE k # 1
    <3>1. PICK n : n = k - 1
      OBVIOUS
    <3>2. Len(cut) = Len(order) - 1 /\ Len(order) \in Nat
      BY <1>7, <1>8, <2>1
    <3>3. n \in 1..Len(cut) /\ n + 1 = k
      BY <2>2, <3>1, <3>2
    <3>4. cut[n] = order[n + 1]
      BY <1>7, <2>1, <3>3
    <3>5. kept[n] = cut[n]
      BY <1>8, <3>3
    <3>6. n \in 1..Len(kept)
      <4>1. Len(kept) = Len(cut) + 1 /\ Len(cut) \in Nat
        BY <1>8
      <4> QED BY <3>3, <4>1
    <3>7. kept[n] = order[k]
      BY <3>3, <3>4, <3>5
    <3> QED BY <3>6, <3>7
  <2> QED BY <2>1, <2>2
<1>15. ASSUME cut # order
       PROVE  order[1] < kept[1] /\ Len(kept) = MaxStored /\ 1 \in 1..Len(order)
  <2>1. /\ Len(kept) = MaxStored /\ Len(order) = MaxStored /\ 1 \in 1..Len(order)
        /\ order[1] \in 1..Len(images)
    BY <1>1, <1>6, <1>7, <1>8, <1>15
  <2>2. CASE Len(cut) = 0
    BY <1>5, <1>8, <2>1, <2>2
  <2>3. CASE Len(cut) # 0
    <3>1. 1 \in 1..Len(cut) /\ kept[1] = order[1 + 1] /\ 2 \in 1..Len(order)
      BY <1>6, <1>7, <1>8, <1>15, <2>3
    <3> QED BY <1>9, <1>10, <2>1, <3>1
  <2> QED BY <2>1, <2>2, <2>3
<1>16. DOMAIN attachments' \subseteq DOMAIN attachments \cup {id}
       /\ attachments' \in [DOMAIN attachments' -> BOOLEAN]
  <2>1. CASE written
    <3>1. attachments' = [i \in DOMAIN attachments \cup {id} |->
                             IF i = id THEN uploaded /\ described ELSE attachments[i]]
      BY <1>4, <2>1
    <3>2. DOMAIN attachments' = DOMAIN attachments \cup {id}
      BY <3>1
    <3>3. \A i \in DOMAIN attachments \cup {id} :
             (IF i = id THEN uploaded /\ described ELSE attachments[i]) \in BOOLEAN
      BY <1>1
    <3> QED BY <3>1, <3>2, <3>3
  <2>2. CASE ~written
    BY <1>1, <1>4, <2>2
  <2> QED BY <2>1, <2>2
<1>17. ImageTypeOK'
  <2>1. records' \in [IdsIn(order') -> BOOLEAN]
    <3>1. \A i \in IdsIn(kept) : (IF i = id THEN uploaded ELSE records[i]) \in BOOLEAN
      BY <1>1, <1>12
    <3> QED BY <1>3, <3>1
  <2>2. history \in Seq(ImageTag')
    <3>1. ImageTag \subseteq ImageTag'
      BY <1>5 DEF ImageTag
    <3> QED BY <1>1, <3>1
  <2>3. untagged' \in ImageTag'
    BY <1>3, <1>5 DEF ImageTag
  <2>4. DOMAIN attachments' \subseteq 1..Len(images')
    <3>1. 1..Len(images) \subseteq 1..id /\ id \in 1..id
      BY <1>5
    <3> QED BY <1>1, <1>5, <1>16, <3>1
  <2>5. order' \in Seq(1..Len(images'))
    BY <1>3, <1>5, <1>8
  <2> QED BY <1>1, <1>3, <1>5, <1>16, <2>1, <2>2, <2>3, <2>4, <2>5 DEF ImageTypeOK
<1>18. StoreSound'
  <2>1. \A i \in DOMAIN attachments' \ IdsIn(kept) : Len(kept) = MaxStored /\ i < kept[1]
    <3> SUFFICES ASSUME NEW i \in DOMAIN attachments' \ IdsIn(kept)
                 PROVE  Len(kept) = MaxStored /\ i < kept[1]
      OBVIOUS
    <3>1. i \in DOMAIN attachments /\ i \in 1..Len(images)
      BY <1>1, <1>13, <1>16
    <3>2. kept[1] \in Nat
      BY <1>5, <1>8
    <3>3. CASE i \in IdsIn(order)
      BY <1>14, <1>15, <3>3
    <3>4. CASE i \notin IdsIn(order)
      <4>1. Len(order) = MaxStored /\ i < order[1]
        BY <1>2, <1>3, <3>1, <3>4
      <4>2. cut # order
        BY <1>6, <1>7, <4>1
      <4>3. order[1] \in Nat
        BY <1>1, <1>15, <4>2
      <4> QED BY <1>15, <3>1, <3>2, <4>1, <4>2, <4>3
    <3> QED BY <3>3, <3>4
  <2>2. Len(kept) <= MaxStored
    BY <1>6, <1>7, <1>8
  <2> QED BY <1>3, <1>11, <2>1, <2>2 DEF StoreSound
<1> QED BY <1>17, <1>18 DEF ImageInv

LEMMA BindKeeps ==
  ASSUME ImageInv, BindSessionFile
  PROVE  ImageInv'
<1> DEFINE S == DOMAIN attachments
<1>1. /\ images \in Seq(ImageSizes) /\ attachments \in [S -> BOOLEAN]
      /\ S \subseteq 1..Len(images) /\ history \in Seq(ImageTag)
      /\ untagged \in ImageTag \cup {NoTag}
  BY DEF ImageInv, ImageTypeOK
<1>2. /\ up' = TRUE /\ images' = images /\ attachments' = attachments
      /\ untagged' = untagged /\ history' = history
      /\ order' \in Newest(S) /\ records' = [i \in IdsIn(order') |-> attachments[i]]
  BY DEF BindSessionFile
<1> HIDE DEF S
<1>3. PICK n \in 0..MaxStored : order' \in [1..n -> S]
  BY <1>2 DEF Newest
<1>4. /\ Increasing(order')
      /\ \A i \in S \ IdsIn(order') : Len(order') = MaxStored /\ i < order'[1]
  BY <1>2 DEF Newest
<1>5. MaxStored \in Nat
  BY ImageAssumption
<1>6. order' \in Seq(S) /\ Len(order') = n /\ IdsIn(order') \subseteq S
  <2>1. order' \in Seq(S) /\ DOMAIN order' = 1..n
    BY <1>3, <1>5
  <2> QED BY <1>3, <1>5, <2>1 DEF IdsIn
<1>7. order' \in Seq(1..Len(images))
  <2>1. \A i \in 1..n : order'[i] \in 1..Len(images)
    BY <1>1, <1>3
  <2> QED BY <1>3, <1>6, <2>1
<1>8. records' \in [IdsIn(order') -> BOOLEAN]
  <2>1. \A i \in IdsIn(order') : attachments[i] \in BOOLEAN
    BY <1>1, <1>6
  <2> QED BY <1>2, <2>1
<1>9. ImageTag' = ImageTag
  BY <1>2 DEF ImageTag
<1>10. ImageTypeOK'
  BY <1>1, <1>2, <1>7, <1>8, <1>9 DEF ImageTypeOK, S
<1>11. StoreSound'
  BY <1>2, <1>3, <1>4, <1>5, <1>6 DEF StoreSound, S
<1> QED BY <1>10, <1>11 DEF ImageInv

\* The other steps change the store by no image, or empty it.
LEMMA OthersKeepImages ==
  ASSUME ImageInv, \/ RecordResult \/ Compact \/ ProcessEnds
                   \/ \E copied \in SUBSET DOMAIN attachments : Fork(copied)
                   \/ UNCHANGED imageVars
  PROVE  ImageInv'
<1>1. /\ up \in BOOLEAN
      /\ images \in Seq(ImageSizes) /\ order \in Seq(1..Len(images))
      /\ records \in [IdsIn(order) -> BOOLEAN] /\ attachments \in [DOMAIN attachments -> BOOLEAN]
      /\ DOMAIN attachments \subseteq 1..Len(images)
      /\ untagged \in ImageTag \cup {NoTag} /\ history \in Seq(ImageTag)
  BY DEF ImageInv, ImageTypeOK
<1>2. StoreSound
  BY DEF ImageInv
<1>3. CASE RecordResult
  <2>1. /\ up' = up /\ images' = images /\ order' = order /\ records' = records
        /\ attachments' = attachments /\ untagged' = NoTag
        /\ history' = Append(history, untagged) /\ untagged \in ImageTag
    BY <1>1, <1>3 DEF RecordResult
  <2>2. ImageTag' = ImageTag /\ IdsIn(order') = IdsIn(order) /\ history' \in Seq(ImageTag)
    BY <1>1, <2>1 DEF ImageTag
  <2>3. ImageTypeOK'
    BY <1>1, <2>1, <2>2 DEF ImageTypeOK
  <2>4. StoreSound'
    BY <1>2, <2>1, <2>2 DEF StoreSound, Increasing
  <2> QED BY <2>3, <2>4 DEF ImageInv
<1>4. CASE Compact
  <2>1. /\ up' = up /\ images' = images /\ order' = order /\ records' = records
        /\ attachments' = attachments /\ untagged' = untagged
        /\ history' = Tail(history) /\ history # <<>>
    BY <1>4 DEF Compact
  <2>2. ImageTag' = ImageTag /\ IdsIn(order') = IdsIn(order) /\ history' \in Seq(ImageTag)
    BY <1>1, <2>1 DEF ImageTag
  <2>3. ImageTypeOK'
    BY <1>1, <2>1, <2>2 DEF ImageTypeOK
  <2>4. StoreSound'
    BY <1>2, <2>1, <2>2 DEF StoreSound, Increasing
  <2> QED BY <2>3, <2>4 DEF ImageInv
<1>5. CASE ProcessEnds
  <2>1. /\ up' = FALSE /\ images' = images /\ order' = <<>> /\ records' = <<>>
        /\ attachments' = attachments /\ untagged' = NoTag /\ history' = history
    BY <1>5 DEF ProcessEnds
  <2>2. /\ ImageTag' = ImageTag /\ IdsIn(order') = {} /\ records' \in [{} -> BOOLEAN]
        /\ order' \in Seq(1..Len(images)) /\ Len(order') = 0 /\ DOMAIN order' = {}
    BY <2>1 DEF ImageTag, IdsIn
  <2>3. ImageTypeOK'
    BY <1>1, <2>1, <2>2 DEF ImageTypeOK
  <2>4. StoreSound'
    BY <2>1, <2>2, ImageAssumption DEF StoreSound, Increasing
  <2> QED BY <2>3, <2>4 DEF ImageInv
<1>6. ASSUME NEW copied \in SUBSET DOMAIN attachments, Fork(copied) PROVE ImageInv'
  <2>1. /\ up' = up /\ ~up /\ images' = images /\ order' = order /\ records' = records
        /\ attachments' = [i \in copied |-> attachments[i]]
        /\ untagged' = untagged /\ history' = history
    BY <1>6 DEF Fork
  <2>2. ImageTag' = ImageTag /\ IdsIn(order') = IdsIn(order)
    BY <2>1 DEF ImageTag
  <2>3. /\ DOMAIN attachments' = copied /\ attachments' \in [copied -> BOOLEAN]
        /\ copied \subseteq 1..Len(images)
    BY <1>1, <2>1
  <2>4. ImageTypeOK'
    BY <1>1, <2>1, <2>2, <2>3 DEF ImageTypeOK
  <2>5. StoreSound'
    BY <1>2, <2>1 DEF StoreSound, Increasing
  <2> QED BY <2>4, <2>5 DEF ImageInv
<1>7. CASE UNCHANGED imageVars
  <2>1. /\ up' = up /\ images' = images /\ order' = order /\ records' = records
        /\ attachments' = attachments /\ untagged' = untagged /\ history' = history
    BY <1>7 DEF imageVars
  <2>2. ImageTag' = ImageTag /\ IdsIn(order') = IdsIn(order)
    BY <2>1 DEF ImageTag
  <2>3. ImageTypeOK'
    BY <1>1, <2>1, <2>2 DEF ImageTypeOK
  <2>4. StoreSound'
    BY <1>2, <2>1, <2>2 DEF StoreSound, Increasing
  <2> QED BY <2>3, <2>4 DEF ImageInv
<1> QED BY <1>3, <1>4, <1>5, <1>6, <1>7

LEMMA ImageInvHolds == ImageSpec => []ImageInv
<1>1. ImageInit => ImageInv
  BY ImageInitOK
<1>2. ImageInv /\ [ImageStep]_imageVars => ImageInv'
  BY SaveKeeps, BindKeeps, OthersKeepImages DEF ImageStep
<1> QED BY <1>1, <1>2, PTL DEF ImageSpec

\* The sums exist.
BytesUpTo(f, projected, n) ==
  f = [k \in 0..n |->
        IF k = 0 THEN 0
        ELSE f[k - 1] + (IF projected[k] = "inline" THEN images[history[k].id] ELSE 0)]

LEMMA BytesDefined ==
  ASSUME NEW projected, NEW n \in Nat
  PROVE  \E f : BytesUpTo(f, projected, n)
<1> DEFINE S == {k \in Nat : \E f : BytesUpTo(f, projected, k)}
           size(k) == IF projected[k] = "inline" THEN images[history[k].id] ELSE 0
<1>1. 0 \in S
  <2> DEFINE g == [k \in 0..0 |-> 0]
  <2>1. BytesUpTo(g, projected, 0)
    BY DEF BytesUpTo
  <2> QED BY <2>1
<1>2. ASSUME NEW k \in Nat, k \in S PROVE k + 1 \in S
  <2>1. PICK f : BytesUpTo(f, projected, k)
    BY <1>2
  <2> DEFINE final == f[k] + size(k + 1)
             g == [j \in 0..(k + 1) |-> IF j = k + 1 THEN final ELSE f[j]]
  <2> HIDE DEF final
  <2>2. \A j \in 0..k : f[j] = IF j = 0 THEN 0 ELSE f[j - 1] + size(j)
    BY <2>1 DEF BytesUpTo
  <2> HIDE DEF size
  <2>3. \A j \in 0..(k + 1) : g[j] = IF j = 0 THEN 0 ELSE g[j - 1] + size(j)
    <3> TAKE j \in 0..(k + 1)
    <3>1. CASE j = k + 1
      <4>1. g[j] = final /\ g[j - 1] = f[k] /\ j # 0
        BY <3>1
      <4> QED BY <3>1, <4>1 DEF final
    <3>2. CASE j # k + 1
      <4>1. j \in 0..k /\ g[j] = f[j] /\ (j # 0 => g[j - 1] = f[j - 1])
        BY <3>2
      <4> QED BY <2>2, <4>1
    <3> QED BY <3>1, <3>2
  <2>4. BytesUpTo(g, projected, k + 1)
    BY <2>3 DEF BytesUpTo, size
  <2> QED BY <2>4
<1> HIDE DEF S
<1>3. \A k \in 0..n : k \in S
  BY <1>1, <1>2, UpTo
<1> QED BY <1>3 DEF S

LEMMA InlineBytesFacts ==
  ASSUME ImageTypeOK, NEW projected
  PROVE  /\ InlineBytes(projected)[0] = 0
         /\ \A k \in 1..Len(history) :
              InlineBytes(projected)[k]
                = InlineBytes(projected)[k - 1]
                    + (IF projected[k] = "inline" THEN images[history[k].id] ELSE 0)
<1> DEFINE n == Len(history)
           size(k) == IF projected[k] = "inline" THEN images[history[k].id] ELSE 0
           b == InlineBytes(projected)
<1>1. n \in Nat
  BY DEF ImageTypeOK
<1>2. BytesUpTo(b, projected, n)
  <2>1. b = CHOOSE f : BytesUpTo(f, projected, n)
    BY DEF InlineBytes, BytesUpTo
  <2> HIDE DEF b, n
  <2> QED BY <1>1, <2>1, BytesDefined
<1>3. \A k \in 0..n : b[k] = IF k = 0 THEN 0 ELSE b[k - 1] + size(k)
  <2> HIDE DEF b
  <2> QED BY <1>1, <1>2 DEF BytesUpTo
<1> HIDE DEF b
<1>4. 0 \in 0..n /\ \A k \in 1..n : k \in 0..n /\ k # 0
  BY <1>1
<1>5. b[0] = 0
  BY <1>3, <1>4
<1>6. \A k \in 1..n : b[k] = b[k - 1] + size(k)
  BY <1>3, <1>4
<1> QED BY <1>5, <1>6 DEF b

Tags == 1..Len(history)

\* What each stage of the projection makes of one tag.
LEMMA StageFacts ==
  ASSUME ImageTypeOK, NEW L, DOMAIN L = Tags,
         \A i \in Tags : L[i] \in {"missing", Projected[i]}
  PROVE  LET P == Projected
             U == Unified(L)
             B == Bounded(U)
         IN  /\ DOMAIN P = Tags /\ DOMAIN U = Tags /\ DOMAIN B = Tags
             /\ \A i \in Tags :
                  /\ P[i] \in {"file", "missing", "inline"}
                  /\ P[i] = "inline" => history[i].id \in DOMAIN records
                  /\ U[i] \in {"file", "missing", "inline"}
                  /\ U[i] # "missing" => L[i] # "missing"
                  /\ U[i] = "inline" => HasInline(L) /\ history[i].id \in DOMAIN records
                  /\ HasInline(L) => U[i] # "file"
                  /\ ~HasInline(L) => U[i] = L[i]
                  /\ B[i] = U[i] \/ (U[i] = "inline" /\ B[i] = "missing")
                  /\ B[i] = "inline" => ~(InlineBytes(U)[i] > MaxInline)
<1> DEFINE P == Projected
           U == Unified(L)
           B == Bounded(U)
<1>1. DOMAIN history = Tags
  BY DEF ImageTypeOK, Tags
<1>2. P = [i \in Tags |-> Resolve(history[i])]
  BY <1>1 DEF Projected
<1>3. \A i \in Tags : /\ P[i] \in {"file", "missing", "inline"}
                      /\ P[i] = "inline" => history[i].id \in DOMAIN records
  BY <1>2 DEF Resolve
<1>4. U = [i \in Tags |->
             IF HasInline(L) /\ L[i] = "file"
             THEN IF history[i].id \in DOMAIN records THEN "inline" ELSE "missing"
             ELSE L[i]]
  BY DEF Unified
<1> HIDE DEF P
<1>5. \A i \in Tags : L[i] = "missing" \/ L[i] = P[i]
  BY DEF P
<1>6. \A i \in Tags :
         /\ U[i] \in {"file", "missing", "inline"}
         /\ U[i] # "missing" => L[i] # "missing"
         /\ U[i] = "inline" => history[i].id \in DOMAIN records
         /\ HasInline(L) => U[i] # "file"
         /\ ~HasInline(L) => U[i] = L[i]
  <2> HIDE DEF U
  <2> QED BY <1>3, <1>4, <1>5
<1>7. \A i \in Tags : U[i] = "inline" => HasInline(L)
  <2> HIDE DEF U
  <2> QED BY <1>4, <1>5 DEF HasInline
<1> HIDE DEF U
<1>8. DOMAIN U = Tags
  BY <1>4
<1>9. B = [i \in Tags |-> IF U[i] = "inline" /\ InlineBytes(U)[i] > MaxInline
                          THEN "missing" ELSE U[i]]
  BY <1>8 DEF Bounded
<1> HIDE DEF B
<1>10. DOMAIN B = Tags /\ \A i \in Tags : B[i] = U[i] \/ (U[i] = "inline" /\ B[i] = "missing")
  BY <1>9
<1>11. ASSUME NEW i \in Tags, B[i] = "inline" PROVE ~(InlineBytes(U)[i] > MaxInline)
  BY <1>9, <1>11
<1> QED BY <1>2, <1>3, <1>6, <1>7, <1>8, <1>10, <1>11 DEF P, U, B

\* What is sent inline fits, since each image was counted with those left out.
LEMMA BytesFit ==
  ASSUME ImageTypeOK, NEW U, NEW B,
         \A i \in Tags : /\ B[i] = U[i] \/ (U[i] = "inline" /\ B[i] = "missing")
                         /\ B[i] = "inline" => ~(InlineBytes(U)[i] > MaxInline)
  PROVE  InlineBytes(B)[Len(history)] <= MaxInline
<1> DEFINE u == InlineBytes(U)
           b == InlineBytes(B)
           n == Len(history)
           S == {k \in Nat : k <= n => /\ u[k] \in Nat /\ b[k] \in Nat
                                      /\ b[k] <= u[k] /\ b[k] <= MaxInline}
<1>1. n \in Nat /\ MaxInline \in Nat
  BY ImageAssumption DEF ImageTypeOK
<1>2. \A i \in Tags : images[history[i].id] \in Nat
  <2>1. /\ images \in Seq(ImageSizes) /\ history \in Seq(ImageTag) /\ ImageSizes \subseteq Nat
    BY ImageAssumption DEF ImageTypeOK
  <2>2. \A i \in Tags : history[i] \in ImageTag
    BY <2>1 DEF Tags
  <2>3. \A i \in Tags : history[i].id \in 1..Len(images)
    BY <2>2 DEF ImageTag
  <2>4. \A k \in 1..Len(images) : images[k] \in Nat
    <3>1. \A k \in 1..Len(images) : images[k] \in ImageSizes
      BY <2>1
    <3> QED BY <2>1, <3>1
  <2> QED BY <2>3, <2>4
<1>3. /\ u[0] = 0
      /\ \A k \in 1..n :
           u[k] = u[k - 1] + (IF U[k] = "inline" THEN images[history[k].id] ELSE 0)
  BY InlineBytesFacts
<1>4. /\ b[0] = 0
      /\ \A k \in 1..n :
           b[k] = b[k - 1] + (IF B[k] = "inline" THEN images[history[k].id] ELSE 0)
  BY InlineBytesFacts
<1>5. \A i \in 1..n : /\ B[i] = U[i] \/ (U[i] = "inline" /\ B[i] = "missing")
                      /\ B[i] = "inline" => ~(u[i] > MaxInline)
  BY DEF Tags
<1>6. \A i \in 1..n : images[history[i].id] \in Nat
  BY <1>2 DEF Tags
<1> HIDE DEF u, b, n
<1>7. 0 \in S
  BY <1>1, <1>3, <1>4
<1>8. ASSUME NEW k \in 0..n, k \in S, k < n PROVE k + 1 \in S
  <2>1. /\ k + 1 \in 1..n /\ (k + 1) - 1 = k
        /\ u[k] \in Nat /\ b[k] \in Nat /\ b[k] <= u[k] /\ b[k] <= MaxInline
    BY <1>1, <1>8
  <2>2. PICK x \in Nat : x = images[history[k + 1].id]
    BY <1>6, <2>1
  <2>3. /\ u[k + 1] = u[k] + (IF U[k + 1] = "inline" THEN x ELSE 0)
        /\ b[k + 1] = b[k] + (IF B[k + 1] = "inline" THEN x ELSE 0)
        /\ B[k + 1] = "inline" => U[k + 1] = "inline" /\ ~(u[k + 1] > MaxInline)
    BY <1>3, <1>4, <1>5, <2>1, <2>2
  <2>4. CASE B[k + 1] = "inline"
    BY <1>1, <2>1, <2>2, <2>3, <2>4
  <2>5. CASE B[k + 1] # "inline"
    BY <1>1, <2>1, <2>2, <2>3, <2>5
  <2> QED BY <2>4, <2>5
<1>9. \A k \in 0..n : k \in S
  <2> HIDE DEF S
  <2> QED BY <1>1, <1>7, <1>8, UpTo
<1>10. n \in S
  BY <1>1, <1>9
<1> QED BY <1>1, <1>10 DEF b, n

LEMMA LimitedFacts ==
  ASSUME ImageTypeOK, NEW P, DOMAIN P = Tags
  PROVE  LET L == Limited(P)
         IN  /\ DOMAIN L = Tags
             /\ \A i \in Tags : L[i] \in {"missing", P[i]}
             /\ \A i, j \in Tags : j < i /\ L[j] # "missing" => L[i] = P[i]
             /\ IsFiniteSet(Live(L)) /\ Cardinality(Live(L)) <= MaxSent
<1> DEFINE L == Limited(P)
           From(i) == {j \in Live(P) : j >= i}
<1>1. L = [i \in Tags |-> IF Cardinality(From(i)) > MaxSent THEN "missing" ELSE P[i]]
  BY DEF Limited
<1>2. Len(history) \in Nat /\ MaxSent \in Nat
  BY ImageAssumption DEF ImageTypeOK
<1>3. IsFiniteSet(Tags) /\ Tags \subseteq Nat
  BY <1>2, FS_Interval DEF Tags
<1>4. \A i \in Tags : /\ IsFiniteSet(From(i)) /\ Cardinality(From(i)) \in Nat
  <2> TAKE i \in Tags
  <2>1. From(i) \subseteq Tags
    BY DEF Live
  <2> HIDE DEF From
  <2> QED BY <1>3, <2>1, FS_Subset, FS_CardinalityType
<1>5. \A i, j \in Tags : j < i => From(i) \subseteq From(j)
  <2> SUFFICES ASSUME NEW i \in Tags, NEW j \in Tags, j < i, NEW k \in Live(P), k >= i
               PROVE  k >= j
    OBVIOUS
  <2>1. k \in Nat /\ i \in Nat /\ j \in Nat
    BY <1>3 DEF Live
  <2> QED BY <2>1
<1> HIDE DEF L
<1>6. DOMAIN L = Tags /\ \A i \in Tags : L[i] \in {"missing", P[i]}
  BY <1>1
<1>7. \A i \in Tags : L[i] # "missing" => ~(Cardinality(From(i)) > MaxSent)
  BY <1>1
<1>8. ASSUME NEW i \in Tags, NEW j \in Tags, j < i, L[j] # "missing" PROVE L[i] = P[i]
  <2>1. Cardinality(From(i)) <= Cardinality(From(j))
    <3>1. From(i) \subseteq From(j) /\ IsFiniteSet(From(j))
      BY <1>4, <1>5, <1>8
    <3> HIDE DEF From
    <3> QED BY <3>1, FS_Subset
  <2>2. ~(Cardinality(From(i)) > MaxSent)
    <3>1. ~(Cardinality(From(j)) > MaxSent)
      BY <1>7, <1>8
    <3>2. Cardinality(From(i)) \in Nat /\ Cardinality(From(j)) \in Nat
      BY <1>4
    <3> HIDE DEF From
    <3> QED BY <1>2, <2>1, <3>1, <3>2
  <2> QED BY <1>1, <2>2
<1>9. IsFiniteSet(Live(L)) /\ Cardinality(Live(L)) <= MaxSent
  <2> DEFINE T == Live(L)
  <2>1. T \subseteq Tags /\ \A i \in T : L[i] # "missing"
    BY <1>6 DEF Live
  <2>2. \A i \in T : i \in Live(P)
    <3>1. \A i \in T : i \in Tags /\ P[i] # "missing"
      BY <1>6, <2>1
    <3> QED BY <3>1 DEF Live
  <2> HIDE DEF T
  <2>3. IsFiniteSet(T)
    BY <1>3, <2>1, FS_Subset
  <2>4. CASE T = {}
    BY <1>2, <2>3, <2>4, FS_EmptySet DEF T
  <2>5. CASE T # {}
    <3>1. PICK m \in T : \A k \in T : m <= k
      <4>1. T \subseteq Nat
        BY <1>3, <2>1
      <4> QED BY <4>1, <2>5, LeastNumber
    <3>2. T \subseteq From(m)
      <4> SUFFICES ASSUME NEW k \in T PROVE k \in Live(P) /\ k >= m
        OBVIOUS
      <4>1. k \in Nat /\ m \in Nat /\ m <= k
        BY <1>3, <2>1, <3>1
      <4> QED BY <2>2, <4>1
    <3>3. m \in Tags /\ ~(Cardinality(From(m)) > MaxSent)
      BY <1>7, <2>1
    <3>4. IsFiniteSet(From(m)) /\ Cardinality(From(m)) \in Nat
      BY <1>4, <3>3
    <3> HIDE DEF From
    <3>5. Cardinality(T) <= Cardinality(From(m)) /\ Cardinality(T) \in Nat
      BY <2>3, <3>2, <3>4, FS_Subset, FS_CardinalityType
    <3>6. Cardinality(T) <= MaxSent
      BY <1>2, <3>3, <3>4, <3>5
    <3> QED BY <2>3, <3>6 DEF T
  <2> QED BY <2>4, <2>5
<1> QED BY <1>6, <1>8, <1>9 DEF L

LEMMA RequestsHold == ImageInv => RequestImages
<1> SUFFICES ASSUME ImageInv PROVE RequestImages
  OBVIOUS
<1> DEFINE P == Projected
           L == Limited(P)
           U == Unified(L)
           B == Bounded(U)
           inline == {i \in DOMAIN B : B[i] = "inline"}
<1>1. ImageTypeOK
  BY DEF ImageInv
<1>2. DOMAIN P = Tags
  BY <1>1 DEF ImageTypeOK, Tags, Projected
<1>3. /\ DOMAIN L = Tags
      /\ \A i \in Tags : L[i] \in {"missing", P[i]}
      /\ \A i, j \in Tags : j < i /\ L[j] # "missing" => L[i] = P[i]
      /\ IsFiniteSet(Live(L)) /\ Cardinality(Live(L)) <= MaxSent
  <2> HIDE DEF P
  <2> QED BY <1>1, <1>2, LimitedFacts
<1>4. /\ DOMAIN U = Tags /\ DOMAIN B = Tags
      /\ \A i \in Tags :
           /\ P[i] \in {"file", "missing", "inline"}
           /\ P[i] = "inline" => history[i].id \in DOMAIN records
           /\ U[i] \in {"file", "missing", "inline"}
           /\ U[i] # "missing" => L[i] # "missing"
           /\ U[i] = "inline" => HasInline(L) /\ history[i].id \in DOMAIN records
           /\ HasInline(L) => U[i] # "file"
           /\ ~HasInline(L) => U[i] = L[i]
           /\ B[i] = U[i] \/ (U[i] = "inline" /\ B[i] = "missing")
           /\ B[i] = "inline" => ~(InlineBytes(U)[i] > MaxInline)
  <2> HIDE DEF L
  <2> QED BY <1>1, <1>3, StageFacts
<1>5. ProjectImages = B
  BY DEF ProjectImages
<1> HIDE DEF P, L, U, B
<1>6. Cardinality(Live(B)) <= MaxSent
  <2>1. Live(B) \subseteq Live(L)
    <3>1. \A i \in Tags : B[i] # "missing" => L[i] # "missing"
      BY <1>4
    <3> QED BY <1>3, <1>4, <3>1 DEF Live
  <2>2. /\ Cardinality(Live(B)) <= Cardinality(Live(L)) /\ IsFiniteSet(Live(B))
    BY <1>3, <2>1, FS_Subset
  <2>3. Cardinality(Live(B)) \in Nat /\ Cardinality(Live(L)) \in Nat /\ MaxSent \in Nat
    BY <1>3, <2>2, FS_CardinalityType, ImageAssumption
  <2> QED BY <1>3, <2>2, <2>3
<1>7. inline # {} => \A i \in DOMAIN B : B[i] # "file"
  BY <1>4
<1>8. \A i \in inline : history[i].id \in DOMAIN records
  BY <1>4
<1>9. InlineBytes(B)[Len(history)] <= MaxInline
  BY <1>1, <1>4, BytesFit
<1>10. ASSUME NEW i \in DOMAIN B, NEW j \in Live(B), j < i, B[i] = "missing", P[i] = "file"
       PROVE  inline # {}
  <2>1. i \in Tags /\ j \in Tags /\ B[j] # "missing"
    BY <1>4 DEF Live
  <2>2. L[j] # "missing" /\ L[i] = "file"
    BY <1>3, <1>4, <1>10, <2>1
  <2>3. HasInline(L)
    BY <1>4, <1>10, <2>1, <2>2
  <2>4. B[j] = "inline"
    BY <1>4, <2>1, <2>3
  <2> QED BY <1>4, <2>1, <2>4
<1>11. \A i \in DOMAIN B, j \in Live(B) :
          j < i /\ B[i] = "missing" /\ P[i] = "file" => inline # {}
  BY <1>10
<1> QED BY <1>5, <1>6, <1>7, <1>8, <1>9, <1>11 DEF RequestImages, P

(***************************************************************************)
(* Whatever is saved, evicted, lost or copied, the store holds the newest   *)
(* images and a request sends a bounded set of one kind (ImageStore,        *)
(* project_images).                                                         *)
(***************************************************************************)
THEOREM ImagesAreKept == ImageSpec => []ImagesHold
<1>1. ImageInv => StoreHoldsNewest
  <2> SUFFICES ASSUME ImageInv PROVE StoreHoldsNewest
    OBVIOUS
  <2>1. DOMAIN records = IdsIn(order)
    BY DEF ImageInv, ImageTypeOK
  <2> QED BY <2>1 DEF ImageInv, StoreSound, StoreHoldsNewest
<1>2. ImageInv => ImagesHold
  BY <1>1, RequestsHold DEF ImagesHold
<1> QED BY <1>2, ImageInvHolds, PTL
=============================================================================
