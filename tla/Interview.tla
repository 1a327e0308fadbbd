------------------------------ MODULE Interview ------------------------------
(***************************************************************************)
(* What ask_user promises, without a broker, a journal or a process that   *)
(* can die: the questions of a call are answered one after the other, an   *)
(* accepted answer stays, and the call ends either with one answer per     *)
(* question or without any.                                                *)
(***************************************************************************)
EXTENDS Naturals, Sequences

CONSTANTS Turns,        \* the Turns; each asks at most once
          NQ,           \* questions of a call
          Answers       \* answers validate_answer accepts

VARIABLES answers,      \* per Turn, the accepted answers in order
          outcome       \* per Turn, how its call ended

Init ==
    /\ answers = [t \in Turns |-> <<>>]
    /\ outcome = [t \in Turns |-> "open"]

\* One answer is accepted: it is appended, the earlier ones stay.
Accept(t) ==
    /\ outcome[t] = "open"
    /\ Len(answers[t]) < NQ
    /\ \E a \in Answers : answers' = [answers EXCEPT ![t] = Append(@, a)]
    /\ UNCHANGED outcome

\* The model receives the answers.
Deliver(t) ==
    /\ outcome[t] = "open"
    /\ Len(answers[t]) = NQ
    /\ outcome' = [outcome EXCEPT ![t] = "answered"]
    /\ UNCHANGED answers

\* The call ends without answers: the Turn was stopped or a write failed.
Withdraw(t) ==
    /\ outcome[t] = "open"
    /\ outcome' = [outcome EXCEPT ![t] = "withdrawn"]
    /\ answers' = [answers EXCEPT ![t] = <<>>]

Next == \E t \in Turns : Accept(t) \/ Deliver(t) \/ Withdraw(t)

Spec == Init /\ [][Next]_<<answers, outcome>>
=============================================================================
