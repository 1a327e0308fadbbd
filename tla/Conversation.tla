---------------------------- MODULE Conversation ----------------------------
(***************************************************************************)
(* The message history of a Session and the pure algorithms Core applies   *)
(* to it: dropping unfinished tool groups, and compaction.                 *)
(***************************************************************************)
EXTENDS Naturals, FiniteSets, Sequences, SequencesExt

\* A message: its role, an id (of the call it answers, for a tool result), and
\* the calls an assistant message makes.  Texts are told apart by their ids.
Message(role, id, calls) == [role |-> role, id |-> id, calls |-> calls]

IsAssistant(m) == m.role = "assistant"

MakesCalls(m) == IsAssistant(m) /\ m.calls # {}

Truncate(s, n) == SubSeq(s, 1, n)

-----------------------------------------------------------------------------
(* repair_tool_groups *)

\* The scan's state: the output, the length of the output before the open tool
\* group, whether a group is open, and the calls it still waits for.
CloseGroup(a) ==
  [out |-> IF a.open THEN Truncate(a.out, a.start) ELSE a.out,
   start |-> 0, open |-> FALSE, pending |-> {}]

Push(a, m) == [a EXCEPT !.out = Append(@, m)]

OpenGroup(a, m) ==
  [out |-> Append(a.out, m), start |-> Len(a.out), open |-> TRUE, pending |-> m.calls]

Answer(a, m) ==
  [Push(a, m) EXCEPT !.pending = @ \ {m.id}, !.open = a.pending # {m.id}]

RepairStep(a, m) ==
  CASE MakesCalls(m) -> OpenGroup(CloseGroup(a), m)
    [] m.role = "tool" /\ a.open /\ m.id \in a.pending -> Answer(a, m)
    [] m.role = "tool" /\ a.open /\ m.id \notin a.pending -> CloseGroup(a)
    [] m.role = "tool" /\ ~a.open -> Push(a, m)
    [] OTHER -> Push(CloseGroup(a), m)

Repair(messages) ==
  CloseGroup(FoldLeft(RepairStep,
                      [out |-> <<>>, start |-> 0, open |-> FALSE, pending |-> {}],
                      messages)).out

-----------------------------------------------------------------------------
(* Compaction *)

TailGroups == 2  \* COMPACT_TAIL_GROUPS

AssistantStarts(s) == {i \in 1..Len(s) : IsAssistant(s[i])}

\* The number of messages before the tail, for each size the tail may be cut to:
\* the last two assistant groups, or only the last when two exceed the byte limit.
PrefixLengths(s) ==
  LET starts == AssistantStarts(s)
      last(n) == {i \in starts : Cardinality({j \in starts : j >= i}) = n}
  IN IF starts = {} THEN {Len(s)}
     ELSE {i - 1 : i \in UNION {last(n) : n \in 1..TailGroups}}

IsTool(m) == m.role = "tool"

\* remove_first_message_group: the first message and the tool results after it.
RemoveFirstGroupBare(s) == Tail(s)  \* fault: the tool results stay

RemoveFirstGroup(s) ==
  LET rest == Tail(s)
      n == CHOOSE k \in 0..Len(rest) :
             /\ \A i \in 1..k : IsTool(rest[i])
             /\ k = Len(rest) \/ ~IsTool(rest[k + 1])
  IN SubSeq(rest, n + 1, Len(rest))

\* What is left of a prefix after any number of groups have been removed.
Trimmed(prefix) ==
  LET left[n \in 0..Len(prefix)] ==
        IF n = 0 THEN prefix
        ELSE IF left[n - 1] = <<>> THEN <<>> ELSE RemoveFirstGroup(left[n - 1])
  IN {left[n] : n \in 0..Len(prefix)}

IsContext(m) == m.role = "context"

\* take_latest_contexts: Context messages are taken out wherever they stand and
\* only the latest of a slot is kept.  All contexts here belong to one slot.
LatestContext(s) ==
  LET contexts == SelectSeq(s, IsContext)
  IN IF contexts = <<>> THEN <<>> ELSE <<Last(contexts)>>

\* compact_context_to: a model summary of the prefix, or the prefix without its
\* first groups, then the latest context, then the tail.  The result must be
\* smaller, which a summary can be at the same length.
Compacted(s, summary) ==
  LET kept == SelectSeq(s, LAMBDA m : ~IsContext(m))
      end(n) == LatestContext(s) \o SubSeq(kept, n + 1, Len(kept))
      cuts == PrefixLengths(kept) \ {0}
  IN {c \in {<<summary>> \o end(n) : n \in cuts} : Len(c) <= Len(s)}
     \cup {c \in UNION {{p \o end(n) : p \in Trimmed(Truncate(kept, n))} : n \in cuts} :
             Len(c) < Len(s)}

-----------------------------------------------------------------------------
(* Reference definition *)

\* Every assistant message with calls is followed at once by one result for each
\* of them, and there is no other tool result.
Closed(s) ==
  LET answered(i) == i + 1 .. i + Cardinality(s[i].calls)
      groups == {i \in 1..Len(s) : MakesCalls(s[i])}
  IN /\ \A i \in groups :
          /\ answered(i) \subseteq 1..Len(s)
          /\ \A j \in answered(i) : IsTool(s[j])
          /\ {s[j].id : j \in answered(i)} = s[i].calls
     /\ \A j \in 1..Len(s) : IsTool(s[j]) => \E i \in groups : j \in answered(i)
=============================================================================
