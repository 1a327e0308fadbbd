---------------------------- MODULE ThreadProofs ----------------------------
(***************************************************************************)
(* Proofs about Threads.  First a delegated child, whose steers and        *)
(* follow-ups its Session log tells the truth about and whose readers,     *)
(* worker and journal agree at the end of a Turn, for every set of request *)
(* ids and of keys and every bound.  Then the settings of a Thread, which  *)
(* agree wherever they live, for every set of clients and of updates and   *)
(* however many failures, crashes and Threads there are.                   *)
(***************************************************************************)
EXTENDS ChildReports, RuntimeSettings, FiniteSetTheorems, WellFoundedInduction, TLAPS

-----------------------------------------------------------------------------
(* The last record of a kind. *)

\* A set of numbers has a least member.
LEMMA LeastNumber ==
  ASSUME NEW T, T \subseteq Nat, T # {}
  PROVE  \E m \in T : \A k \in T : m <= k
<1> DEFINE R == OpToRel(<, Nat)
<1>1. IsWellFoundedOn(R, Nat)
  BY NatLessThanWellFounded
<1> HIDE DEF R
<1>2. PICK m \in T : \A k \in T : ~ (<<k, m>> \in R)
  BY <1>1, WFMin
<1>3. ASSUME NEW k \in T
      PROVE  m <= k
  <2>1. ~ (<<k, m>> \in R) /\ k \in Nat /\ m \in Nat
    BY <1>2
  <2>2. <<k, m>> \in Nat \X Nat /\ <<k, m>>[1] = k /\ <<k, m>>[2] = m
    BY <2>1
  <2>3. k < m => <<k, m>> \in R
    BY <2>2 DEF R, OpToRel
  <2> QED
    BY <2>1, <2>3
<1> QED
  BY <1>3

\* A bounded set of numbers has a greatest member, which is its maximum.
LEMMA Greatest ==
  ASSUME NEW S, S \subseteq Nat, S # {}, NEW b \in Nat, \A x \in S : x <= b
  PROVE  Max(S) \in S /\ \A x \in S : x <= Max(S)
<1> DEFINE T == {m \in Nat : \A x \in S : x <= m}
<1>1. PICK m \in T : \A k \in T : m <= k
  <2>1. T \subseteq Nat /\ b \in T
    OBVIOUS
  <2> HIDE DEF T
  <2> QED
    BY <2>1, LeastNumber
<1>2. m \in S
  <2> SUFFICES ASSUME m \notin S
               PROVE  FALSE
    OBVIOUS
  <2>1. \A x \in S : x < m
    OBVIOUS
  <2>2. m > 0
    <3>1. PICK x \in S : x \in Nat
      OBVIOUS
    <3> QED
      BY <2>1, <3>1
  <2>3. m - 1 \in T
    BY <2>1, <2>2
  <2> QED
    BY <1>1, <2>3
<1>3. m \in S /\ \A x \in S : m >= x
  BY <1>2
<1>4. Max(S) \in S /\ \A x \in S : Max(S) >= x
  BY <1>3 DEF Max
<1> QED
  BY <1>4

LEMMA MaxAdded ==
  ASSUME NEW n \in Nat, NEW hits, hits \subseteq 1..n
  PROVE  Max(hits \cup {n + 1}) = n + 1
<1> DEFINE H == hits \cup {n + 1}
<1>1. H \subseteq Nat /\ H # {} /\ n + 1 \in Nat /\ n + 1 \in H /\ \A x \in H : x <= n + 1
  OBVIOUS
<1> HIDE DEF H
<1>2. Max(H) \in H /\ \A x \in H : x <= Max(H)
  BY <1>1, Greatest
<1>3. Max(H) \in Nat /\ Max(H) <= n + 1 /\ n + 1 <= Max(H)
  BY <1>1, <1>2
<1> QED
  BY <1>3 DEF H

\* The last record at one of these places, which is none of the log if there is none.
At(s, hits) == IF hits = {} THEN NoRecord ELSE s[Max(hits)]

\* Appending a record moves the last place to it, if it is one of them.
LEMMA LastAppended ==
  ASSUME NEW s \in Seq(Records), NEW e \in Records, NEW hits, hits \subseteq DOMAIN s
  PROVE  /\ At(s, hits) \in Records
         /\ hits # {} => Max(hits) \in hits /\ \A i \in hits : i <= Max(hits)
         /\ At(Append(s, e), hits) = At(s, hits)
         /\ At(Append(s, e), hits \cup {Len(s) + 1}) = e
<1> DEFINE t == Append(s, e)
<1>1. /\ Len(s) \in Nat /\ DOMAIN s = 1..Len(s)
      /\ \A i \in DOMAIN s : s[i] \in Records /\ t[i] = s[i]
      /\ t[Len(s) + 1] = e
  OBVIOUS
<1>2. NoRecord \in Records
  BY DEF NoRecord, Records, Prompts
<1>3. hits # {} => Max(hits) \in hits /\ \A i \in hits : i <= Max(hits)
  BY <1>1, Greatest
<1>4. Max(hits \cup {Len(s) + 1}) = Len(s) + 1
  BY <1>1, MaxAdded
<1> QED
  BY <1>1, <1>2, <1>3, <1>4 DEF At

\* A place among others is the last of its own as well if it is the last of all.
LEMMA LastAmong ==
  ASSUME NEW s \in Seq(Records), NEW all, all \subseteq DOMAIN s, all # {},
         NEW some, some \subseteq all, Max(all) \in some
  PROVE  At(s, some) = At(s, all)
<1>1. NoRecord \in Records /\ DOMAIN s \subseteq Nat
  BY SMTT(30) DEF NoRecord, Records, Prompts
<1>2. /\ Max(all) \in all /\ \A i \in all : i <= Max(all)
      /\ Max(some) \in some /\ \A i \in some : i <= Max(some)
  BY <1>1, LastAppended
<1>3. Max(some) \in Nat /\ Max(all) \in Nat
  BY <1>1, <1>2
<1>4. Max(some) = Max(all)
  BY <1>2, <1>3
<1> QED
  BY <1>4 DEF At

Operations(s) == {i \in DOMAIN s : s[i].kind = "operation"}
FollowUps(s) == {i \in DOMAIN s : s[i].kind = "request" /\ s[i].act = "queue_follow_up"}
SteersOf(s, r) == {i \in DOMAIN s : s[i].kind = "request" /\ s[i].act = "steer" /\ s[i].req = r}

LastOperation(s) == At(s, Operations(s))
LastFollowUp(s) == At(s, FollowUps(s))
LastSteer(s, r) == At(s, SteersOf(s, r))

LEMMA Appended ==
  ASSUME NEW s \in Seq(Records), NEW e \in Records
  PROVE  /\ Append(s, e) \in Seq(Records)
         /\ LastOperation(Append(s, e)) = IF e.kind = "operation" THEN e ELSE LastOperation(s)
         /\ LastFollowUp(Append(s, e)) =
              IF e.kind = "request" /\ e.act = "queue_follow_up" THEN e ELSE LastFollowUp(s)
         /\ \A r : LastSteer(Append(s, e), r) =
              IF e.kind = "request" /\ e.act = "steer" /\ e.req = r THEN e ELSE LastSteer(s, r)
<1> DEFINE t == Append(s, e)
<1>1. /\ Len(s) \in Nat /\ DOMAIN s = 1..Len(s) /\ t \in Seq(Records)
      /\ DOMAIN t = DOMAIN s \cup {Len(s) + 1} /\ Len(s) + 1 \notin DOMAIN s
      /\ \A i \in DOMAIN s : t[i] = s[i]
      /\ t[Len(s) + 1] = e
  OBVIOUS
<1>0. ASSUME NEW hits, hits \subseteq DOMAIN s
      PROVE  At(t, hits) = At(s, hits) /\ At(t, hits \cup {Len(s) + 1}) = e
  <2>1. /\ At(s, hits) \in Records
        /\ hits # {} => Max(hits) \in hits /\ \A i \in hits : i <= Max(hits)
        /\ At(Append(s, e), hits) = At(s, hits)
        /\ At(Append(s, e), hits \cup {Len(s) + 1}) = e
    BY <1>0, LastAppended
  <2> QED
    BY <2>1 DEF t
<1> HIDE DEF t
<1>2. Operations(t) = IF e.kind = "operation" THEN Operations(s) \cup {Len(s) + 1} ELSE Operations(s)
  BY <1>1 DEF Operations
<1>3. FollowUps(t) = IF e.kind = "request" /\ e.act = "queue_follow_up"
                     THEN FollowUps(s) \cup {Len(s) + 1} ELSE FollowUps(s)
  BY <1>1 DEF FollowUps
<1>4. ASSUME NEW r
      PROVE  SteersOf(t, r) = IF e.kind = "request" /\ e.act = "steer" /\ e.req = r
                              THEN SteersOf(s, r) \cup {Len(s) + 1} ELSE SteersOf(s, r)
  BY <1>1 DEF SteersOf
<1>5. /\ Operations(s) \subseteq DOMAIN s /\ FollowUps(s) \subseteq DOMAIN s
      /\ \A r : SteersOf(s, r) \subseteq DOMAIN s
  BY DEF Operations, FollowUps, SteersOf
<1>6. /\ At(t, Operations(s)) = At(s, Operations(s))
      /\ At(t, Operations(s) \cup {Len(s) + 1}) = e
  BY <1>0, <1>5
<1>7. /\ At(t, FollowUps(s)) = At(s, FollowUps(s))
      /\ At(t, FollowUps(s) \cup {Len(s) + 1}) = e
  BY <1>0, <1>5
<1>8. ASSUME NEW r
      PROVE  /\ At(t, SteersOf(s, r)) = At(s, SteersOf(s, r))
             /\ At(t, SteersOf(s, r) \cup {Len(s) + 1}) = e
  BY <1>0, <1>5
<1>9. LastOperation(t) = IF e.kind = "operation" THEN e ELSE LastOperation(s)
  BY <1>2, <1>6 DEF LastOperation
<1>10. LastFollowUp(t) = IF e.kind = "request" /\ e.act = "queue_follow_up" THEN e ELSE LastFollowUp(s)
  BY <1>3, <1>7 DEF LastFollowUp
<1>11. \A r : LastSteer(t, r) = IF e.kind = "request" /\ e.act = "steer" /\ e.req = r
                                THEN e ELSE LastSteer(s, r)
  BY <1>4, <1>8 DEF LastSteer
<1> QED
  BY <1>1, <1>9, <1>10, <1>11 DEF t

\* What the searches of the code return.
LEMMA Searches ==
  ASSUME log \in Seq(Records)
  PROVE  /\ Operation = LastOperation(log) /\ Operation \in Records
         /\ Operation.status # "none" => Operation.kind = "operation"
         /\ PendingFollowUp = IF LastFollowUp(log).status \in {"accepted", "blocked"}
                              THEN LastFollowUp(log) ELSE NoRecord
         /\ LastFollowUp(log) \in Records
         /\ LastFollowUp(log) # NoRecord =>
              LastFollowUp(log).kind = "request" /\ LastFollowUp(log).act = "queue_follow_up"
<1>1. /\ Operation = LastOperation(log)
      /\ PendingFollowUp = IF LastFollowUp(log).status \in {"accepted", "blocked"}
                           THEN LastFollowUp(log) ELSE NoRecord
  BY DEF Operation, PendingFollowUp, LastWhere, LastOperation, LastFollowUp, At, Operations, FollowUps
<1>2. Operations(log) \subseteq DOMAIN log /\ FollowUps(log) \subseteq DOMAIN log
  BY DEF Operations, FollowUps
<1>3. NoRecord \in Records /\ NoRecord.status = "none"
  BY DEF NoRecord, Records, Prompts
<1>4. /\ LastOperation(log) \in Records
      /\ Operations(log) # {} => Max(Operations(log)) \in Operations(log)
  BY <1>2, <1>3, LastAppended DEF LastOperation
<1>5. /\ LastFollowUp(log) \in Records
      /\ FollowUps(log) # {} => Max(FollowUps(log)) \in FollowUps(log)
  BY <1>2, <1>3, LastAppended DEF LastFollowUp
<1>6. LastOperation(log).status # "none" => LastOperation(log).kind = "operation"
  BY <1>3, <1>4 DEF LastOperation, At, Operations
<1>7. LastFollowUp(log) # NoRecord =>
        LastFollowUp(log).kind = "request" /\ LastFollowUp(log).act = "queue_follow_up"
  BY <1>5 DEF LastFollowUp, At, FollowUps
<1> QED
  BY <1>1, <1>4, <1>5, <1>6, <1>7

-----------------------------------------------------------------------------
(* The invariant. *)

\* Operation records carry a status of an operation, which no refusal of a steer is.
OperationsSound(s) ==
  \A i \in DOMAIN s : s[i].kind = "operation" => s[i].status \in OperationStatuses

Accepted(s, r) == \E i \in SteersOf(s, r) : s[i].status = "accepted"

\* A steer that was submitted is last recorded as pending or accepted, and while
\* turn/steer holds the lock its reservation is the last record of its id.
SteerSound(r) ==
  /\ submitted[r] <= 1
  /\ Accepted(log, r) => submitted[r] = 1
  /\ submitted[r] = 1 => LastSteer(log, r).status \in {"pending", "accepted"}
  /\ steer.pc # "none" /\ steer.req = r =>
       /\ LastSteer(log, r).status = "pending"
       /\ submitted[r] = IF steer.pc = "accepted" THEN 1 ELSE 0

\* A steer in progress is one of a client.
SteerInv ==
  /\ steer.pc # "none" => steer.req \in Requests
  /\ \A r \in Requests : SteerSound(r)

FollowUpSound(s) ==
  LastFollowUp(s).status \in {"accepted", "blocked"} =>
    /\ LastOperation(s).status \notin {"completed", "cancelled"}
    /\ LastOperation(s).status = "failed" => LastFollowUp(s).status = "blocked"

FollowUpInv == ~StaleAttempts => FollowUpSound(log)

\* The worker's Turn has an outcome of a Turn once it has ended.
OutcomeKnown ==
  worker.pc \in {"persist", "settle", "record", "next"} => worker.outcome \in Outcomes

ChildInv == TypeOK /\ OperationsSound(log) /\ OutcomeKnown /\ SteerInv /\ FollowUpInv

-----------------------------------------------------------------------------
(* Records that are appended together. *)

Quiet(e) ==
  /\ e \in Records
  /\ ~(e.kind = "request" /\ e.act = "steer")
  /\ e.kind = "operation" => e.status \in OperationStatuses

LEMMA OneAppended ==
  ASSUME NEW s \in Seq(Records), OperationsSound(s), NEW e, Quiet(e)
  PROVE  /\ Append(s, e) \in Seq(Records) /\ OperationsSound(Append(s, e))
         /\ s \o <<e>> = Append(s, e)
         /\ LastOperation(Append(s, e)) = IF e.kind = "operation" THEN e ELSE LastOperation(s)
         /\ LastFollowUp(Append(s, e)) =
              IF e.kind = "request" /\ e.act = "queue_follow_up" THEN e ELSE LastFollowUp(s)
         /\ \A r : LastSteer(Append(s, e), r) = LastSteer(s, r)
         /\ \A r : Accepted(Append(s, e), r) <=> Accepted(s, r)
<1> DEFINE t == Append(s, e)
<1>1. /\ Len(s) \in Nat /\ DOMAIN s = 1..Len(s) /\ t \in Seq(Records) /\ s \o <<e>> = t
      /\ DOMAIN t = DOMAIN s \cup {Len(s) + 1} /\ Len(s) + 1 \notin DOMAIN s
      /\ \A i \in DOMAIN s : t[i] = s[i]
      /\ t[Len(s) + 1] = e
  BY DEF Quiet
<1>2. /\ LastOperation(t) = IF e.kind = "operation" THEN e ELSE LastOperation(s)
      /\ LastFollowUp(t) =
           IF e.kind = "request" /\ e.act = "queue_follow_up" THEN e ELSE LastFollowUp(s)
      /\ \A r : LastSteer(t, r) =
           IF e.kind = "request" /\ e.act = "steer" /\ e.req = r THEN e ELSE LastSteer(s, r)
  <2>1. e \in Records
    BY DEF Quiet
  <2> QED
    BY <2>1, Appended
<1> HIDE DEF t
<1>3. OperationsSound(t)
  BY <1>1 DEF OperationsSound, Quiet
<1>4. ASSUME NEW r
      PROVE  Accepted(t, r) <=> Accepted(s, r)
  <2>1. SteersOf(t, r) = SteersOf(s, r)
    BY <1>1 DEF SteersOf, Quiet
  <2>2. \A i \in SteersOf(s, r) : t[i] = s[i]
    BY <1>1 DEF SteersOf
  <2> QED
    BY <2>1, <2>2 DEF Accepted
<1>5. \A r : LastSteer(t, r) = LastSteer(s, r)
  BY <1>2 DEF Quiet
<1> QED
  BY <1>1, <1>2, <1>3, <1>4, <1>5 DEF t

\* A log that tells of the steers what the log does.
SameSteers(t) ==
  /\ t \in Seq(Records) /\ OperationsSound(t)
  /\ \A r : LastSteer(t, r) = LastSteer(log, r) /\ (Accepted(t, r) <=> Accepted(log, r))

LEMMA RecordsAppended ==
  ASSUME log \in Seq(Records), OperationsSound(log), NEW a, Quiet(a)
  PROVE  /\ SameSteers(log \o <<a>>)
         /\ LastOperation(log \o <<a>>) = IF a.kind = "operation" THEN a ELSE LastOperation(log)
         /\ LastFollowUp(log \o <<a>>) =
              IF a.kind = "request" /\ a.act = "queue_follow_up" THEN a ELSE LastFollowUp(log)
         /\ \A b : Quiet(b) =>
              LET s == log \o <<a>>
                  t == log \o <<a, b>>
              IN /\ SameSteers(t)
                 /\ LastOperation(t) = IF b.kind = "operation" THEN b ELSE LastOperation(s)
                 /\ LastFollowUp(t) =
                      IF b.kind = "request" /\ b.act = "queue_follow_up" THEN b ELSE LastFollowUp(s)
                 /\ \A c : Quiet(c) =>
                      LET u == log \o (<<a, b>> \o <<c>>)
                      IN /\ SameSteers(u)
                         /\ LastOperation(u) = IF c.kind = "operation" THEN c ELSE LastOperation(t)
                         /\ LastFollowUp(u) = IF c.kind = "request" /\ c.act = "queue_follow_up"
                                              THEN c ELSE LastFollowUp(t)
<1> DEFINE s == log \o <<a>>
<1>1. /\ s \in Seq(Records) /\ OperationsSound(s)
      /\ LastOperation(s) = IF a.kind = "operation" THEN a ELSE LastOperation(log)
      /\ LastFollowUp(s) =
           IF a.kind = "request" /\ a.act = "queue_follow_up" THEN a ELSE LastFollowUp(log)
      /\ \A r : LastSteer(s, r) = LastSteer(log, r) /\ (Accepted(s, r) <=> Accepted(log, r))
  <2>1. s = Append(log, a)
    BY OneAppended
  <2> QED
    BY <2>1, OneAppended, ZenonT(30)
<1>2. SameSteers(s)
  BY <1>1 DEF SameSteers
<1>3. ASSUME NEW b, Quiet(b)
      PROVE  LET t == log \o <<a, b>>
             IN /\ SameSteers(t)
                /\ LastOperation(t) = IF b.kind = "operation" THEN b ELSE LastOperation(s)
                /\ LastFollowUp(t) =
                     IF b.kind = "request" /\ b.act = "queue_follow_up" THEN b ELSE LastFollowUp(s)
                /\ \A c : Quiet(c) =>
                     LET u == log \o (<<a, b>> \o <<c>>)
                     IN /\ SameSteers(u)
                        /\ LastOperation(u) = IF c.kind = "operation" THEN c ELSE LastOperation(t)
                        /\ LastFollowUp(u) = IF c.kind = "request" /\ c.act = "queue_follow_up"
                                             THEN c ELSE LastFollowUp(t)
  <2> DEFINE t == log \o <<a, b>>
  <2>1. t = Append(s, b)
    <3>1. a \in Records /\ b \in Records
      BY <1>3 DEF Quiet
    <3> QED
      BY <3>1
  <2> HIDE DEF s
  <2>2. /\ t \in Seq(Records) /\ OperationsSound(t)
        /\ LastOperation(t) = IF b.kind = "operation" THEN b ELSE LastOperation(s)
        /\ LastFollowUp(t) =
             IF b.kind = "request" /\ b.act = "queue_follow_up" THEN b ELSE LastFollowUp(s)
        /\ \A r : LastSteer(t, r) = LastSteer(s, r) /\ (Accepted(t, r) <=> Accepted(s, r))
    <3> HIDE DEF t
    <3> QED
      BY <1>1, <1>3, <2>1, OneAppended
  <2>3. SameSteers(t)
    <3> HIDE DEF t
    <3> QED
      BY <1>1, <2>2 DEF SameSteers
  <2>4. ASSUME NEW c, Quiet(c)
        PROVE  LET u == log \o (<<a, b>> \o <<c>>)
               IN /\ SameSteers(u)
                  /\ LastOperation(u) = IF c.kind = "operation" THEN c ELSE LastOperation(t)
                  /\ LastFollowUp(u) = IF c.kind = "request" /\ c.act = "queue_follow_up"
                                       THEN c ELSE LastFollowUp(t)
    <3> DEFINE u == log \o (<<a, b>> \o <<c>>)
    <3>1. u = Append(t, c)
      <4>1. a \in Records /\ b \in Records /\ c \in Records
        BY <1>3, <2>4 DEF Quiet
      <4> QED
        BY <4>1
    <3> HIDE DEF t, u
    <3>2. /\ u \in Seq(Records) /\ OperationsSound(u)
          /\ LastOperation(u) = IF c.kind = "operation" THEN c ELSE LastOperation(t)
          /\ LastFollowUp(u) =
               IF c.kind = "request" /\ c.act = "queue_follow_up" THEN c ELSE LastFollowUp(t)
          /\ \A r : LastSteer(u, r) = LastSteer(t, r) /\ (Accepted(u, r) <=> Accepted(t, r))
      BY <2>2, <2>4, <3>1, OneAppended
    <3>3. SameSteers(u)
      BY <1>1, <2>2, <3>2 DEF SameSteers
    <3> QED
      BY <3>2, <3>3 DEF t, u
  <2> QED
    BY <2>2, <2>3, <2>4
<1> QED
  BY <1>1, <1>2, <1>3

TurnRecords(s) == {i \in DOMAIN s : s[i].kind = "turn"}
LastTurn(s) == At(s, TurnRecords(s))

LEMMA TurnAppended ==
  ASSUME NEW s \in Seq(Records), NEW e \in Records
  PROVE  /\ Append(s, e) \in Seq(Records) /\ Len(Append(s, e)) = Len(s) + 1
         /\ LastTurn(Append(s, e)) = IF e.kind = "turn" THEN e ELSE LastTurn(s)
         /\ LastTurn(s) \in Records
<1> DEFINE t == Append(s, e)
<1>1. /\ Len(s) \in Nat /\ DOMAIN s = 1..Len(s) /\ t \in Seq(Records) /\ Len(t) = Len(s) + 1
      /\ DOMAIN t = DOMAIN s \cup {Len(s) + 1} /\ Len(s) + 1 \notin DOMAIN s
      /\ \A i \in DOMAIN s : t[i] = s[i]
      /\ t[Len(s) + 1] = e
  OBVIOUS
<1>2. TurnRecords(s) \subseteq DOMAIN s
  BY DEF TurnRecords
<1>3. ASSUME NEW hits, hits \subseteq DOMAIN s
      PROVE  /\ At(s, hits) \in Records /\ At(t, hits) = At(s, hits)
             /\ At(t, hits \cup {Len(s) + 1}) = e
  <2>1. /\ At(s, hits) \in Records
        /\ hits # {} => Max(hits) \in hits /\ \A i \in hits : i <= Max(hits)
        /\ At(Append(s, e), hits) = At(s, hits)
        /\ At(Append(s, e), hits \cup {Len(s) + 1}) = e
    BY <1>3, LastAppended
  <2> QED
    BY <2>1 DEF t
<1> HIDE DEF t
<1>4. TurnRecords(t) = IF e.kind = "turn" THEN TurnRecords(s) \cup {Len(s) + 1} ELSE TurnRecords(s)
  BY <1>1 DEF TurnRecords
<1>5. /\ At(s, TurnRecords(s)) \in Records /\ At(t, TurnRecords(s)) = At(s, TurnRecords(s))
      /\ At(t, TurnRecords(s) \cup {Len(s) + 1}) = e
  BY <1>2, <1>3
<1> QED
  BY <1>1, <1>4, <1>5 DEF LastTurn, t

\* A log that has no more Turns than the log has.
Longer(t) ==
  /\ t \in Seq(Records) /\ Len(log) <= Len(t)
  /\ LastTurn(t) = LastTurn(log)

LEMMA NoTurnAppended ==
  ASSUME log \in Seq(Records), NEW a \in Records, a.kind # "turn"
  PROVE  /\ Longer(log) /\ Longer(log \o <<>>) /\ Longer(log \o <<a>>) /\ Longer(Append(log, a))
         /\ \A b \in Records : b.kind # "turn" =>
              /\ Longer(log \o <<a, b>>)
              /\ \A c \in Records : c.kind # "turn" => Longer(log \o (<<a, b>> \o <<c>>))
<1> DEFINE s == Append(log, a)
<1>1. s \in Seq(Records) /\ Len(s) = Len(log) + 1 /\ LastTurn(s) = LastTurn(log) /\ Len(log) \in Nat
  BY TurnAppended
<1>2. Longer(s) /\ Longer(log)
  BY <1>1 DEF Longer
<1>3. log \o <<>> = log /\ log \o <<a>> = s
  OBVIOUS
<1>4. ASSUME NEW b \in Records, b.kind # "turn"
      PROVE  /\ Longer(log \o <<a, b>>)
             /\ \A c \in Records : c.kind # "turn" => Longer(log \o (<<a, b>> \o <<c>>))
  <2> DEFINE t == Append(s, b)
  <2>1. log \o <<a, b>> = t
    OBVIOUS
  <2>2. ASSUME NEW c \in Records
        PROVE  log \o (<<a, b>> \o <<c>>) = Append(t, c)
    OBVIOUS
  <2> HIDE DEF s
  <2>3. t \in Seq(Records) /\ Len(t) = Len(log) + 2 /\ LastTurn(t) = LastTurn(log)
    BY <1>1, <1>4, TurnAppended
  <2> HIDE DEF t
  <2>4. ASSUME NEW c \in Records, c.kind # "turn"
        PROVE  Longer(Append(t, c))
    BY <1>1, <2>3, <2>4, TurnAppended DEF Longer
  <2>5. Longer(t)
    BY <1>1, <2>3 DEF Longer
  <2> QED
    BY <2>1, <2>2, <2>4, <2>5
<1> QED
  BY <1>2, <1>3, <1>4

\* What becomes of a record that is written anew.
LEMMA Rewritten ==
  ASSUME log \in Seq(Records), NEW e \in Records
  PROVE  /\ \A status \in OperationStatuses \cup RequestStatuses :
              LET f == Transition(e, status)
              IN f \in Records /\ f.kind = e.kind /\ f.act = e.act /\ f.status = status
         /\ \A q \in Records : LET f == FollowUpAttempt(e, q)
                               IN f \in Records /\ f.kind = e.kind /\ f.status = "queued"
<1>1. Now \in Nat
  BY DEF Now
<1>2. ASSUME NEW status \in OperationStatuses \cup RequestStatuses
      PROVE  LET f == Transition(e, status)
             IN f \in Records /\ f.kind = e.kind /\ f.act = e.act /\ f.status = status
  BY <1>1 DEF Transition, Records
<1>3. ASSUME NEW q \in Records
      PROVE  LET f == FollowUpAttempt(e, q)
             IN f \in Records /\ f.kind = e.kind /\ f.status = "queued"
  <2>1. FollowUpAttempt(e, q) =
          [kind |-> e.kind, status |-> "queued", turn |-> 0, attempt |-> e.attempt + 1,
           akind |-> "follow_up", req |-> q.req, act |-> "queue_follow_up",
           prompt |-> q.prompt, at |-> Now]
    <3> DEFINE n == e.attempt + 1
    <3>1. FollowUpAttempt(e, q) =
            [e EXCEPT !.attempt = n, !.status = "queued", !.turn = 0, !.prompt = q.prompt,
                      !.akind = "follow_up", !.req = q.req, !.act = "queue_follow_up", !.at = Now]
      BY DEF FollowUpAttempt
    <3> HIDE DEF n
    <3>2. FollowUpAttempt(e, q) =
            [kind |-> e.kind, status |-> "queued", turn |-> 0, attempt |-> n,
             akind |-> "follow_up", req |-> q.req, act |-> "queue_follow_up",
             prompt |-> q.prompt, at |-> Now]
      BY <3>1 DEF Records
    <3> QED
      BY <3>2 DEF n
  <2>2. /\ e.kind \in {"none", "operation", "request", "turn", "report"}
        /\ e.attempt \in Nat /\ q.req \in Prompts /\ q.prompt \in Prompts
    BY DEF Records
  <2> QED
    BY <1>1, <2>1, <2>2 DEF Records, OperationStatuses
<1> QED
  BY <1>2, <1>3

\* The record of a status names the Turn and the attempt of the worker, unless the
\* Turn was stopped for a pause of the very attempt.
PausedBy(status, w) ==
  /\ status = "cancelled" /\ Operation.status = "pausing"
  /\ Operation.attempt = w.attempt /\ Operation.turn = w.turn

LEMMA RecordedFacts ==
  ASSUME log \in Seq(Records), NEW w \in Workers, NEW status \in {"running"} \cup Outcomes
  PROVE  LET op == Recorded(status, w)
         IN /\ op \in Records /\ op.kind = "operation" /\ op.attempt = w.attempt
            /\ op.status = IF PausedBy(status, w) THEN "paused" ELSE status
            /\ op.turn = IF PausedBy(status, w) THEN 0 ELSE w.turn
            /\ op.status \in {"running", "paused"} \cup Outcomes
<1> DEFINE op == Recorded(status, w)
<1> DEFINE previous == Operation
<1> DEFINE paused == PausedBy(status, w)
<1>1. previous \in Records /\ Now \in Nat
  BY Searches DEF Now
<1>2. op = [kind |-> "operation", status |-> IF paused THEN "paused" ELSE status,
            turn |-> IF paused THEN 0 ELSE w.turn, attempt |-> w.attempt, akind |-> w.akind,
            req |-> previous.req, act |-> previous.act, prompt |-> w.prompt, at |-> Now]
  <2>1. op = [previous EXCEPT !.kind = "operation",
                    !.status = IF paused THEN "paused" ELSE status,
                    !.turn = IF paused THEN 0 ELSE w.turn,
                    !.attempt = w.attempt, !.akind = w.akind,
                    !.prompt = w.prompt, !.at = Now]
    BY DEF Recorded, PausedBy
  <2> HIDE DEF previous, op, paused
  <2> QED
    BY <1>1, <2>1 DEF Records
<1>3. /\ previous.req \in Prompts /\ w.prompt \in Prompts
      /\ previous.act \in {"none", "queue_follow_up", "pause", "cancel_active", "resume",
                           "retry", "start_failure", "update_queued", "cancel_queued", "steer"}
      /\ w.turn \in Nat /\ w.attempt \in Nat
      /\ w.akind \in {"none", "initial", "retry", "follow_up"}
  BY <1>1 DEF Records, Workers
<1> HIDE DEF previous, op, paused
<1>4. /\ (IF paused THEN "paused" ELSE status) \in {"running", "paused"} \cup Outcomes
      /\ (IF paused THEN 0 ELSE w.turn) \in Nat
  BY <1>3
<1>5. {"running", "paused"} \cup Outcomes \subseteq OperationStatuses
  BY DEF Outcomes, OperationStatuses
<1>6. op \in Records
  BY <1>1, <1>2, <1>3, <1>4, <1>5 DEF Records
<1>7. /\ op.kind = "operation" /\ op.attempt = w.attempt
      /\ op.status = IF paused THEN "paused" ELSE status
      /\ op.turn = IF paused THEN 0 ELSE w.turn
  BY <1>2
<1> QED
  BY <1>4, <1>6, <1>7 DEF op, paused

\* What the worker appends when an attempt begins and when it ends.
LEMMA OperationRecorded ==
  ASSUME log \in Seq(Records), OperationsSound(log), NEW w \in Workers,
         NEW status \in {"running"} \cup Outcomes
  PROVE  LET t == log \o RecordOperation(status, w)
         IN /\ SameSteers(t) /\ FollowUpSound(t) /\ Longer(t)
            /\ LastOperation(t) = Recorded(status, w) \/ LastOperation(t).status = "queued"
<1> DEFINE op == Recorded(status, w)
<1> DEFINE request == PendingFollowUp
<1>1. /\ op \in Records /\ op.kind = "operation"
      /\ op.status \in {"running", "paused"} \cup Outcomes
  BY RecordedFacts
<1>2. Quiet(op)
  BY <1>1 DEF Quiet, Outcomes, OperationStatuses
<1> DEFINE one == log \o <<op>>
<1>3. /\ SameSteers(one) /\ LastOperation(one) = op /\ LastFollowUp(one) = LastFollowUp(log)
      /\ Longer(one)
  BY <1>1, <1>2, RecordsAppended, NoTurnAppended
<1>4. CASE op.status \notin Outcomes \/ request = NoRecord
  <2>1. RecordOperation(status, w) = <<op>>
    BY <1>4 DEF RecordOperation
  <2>2. op.status \in Outcomes => LastFollowUp(log).status \notin {"accepted", "blocked"}
    BY <1>4, Searches DEF NoRecord
  <2>3. FollowUpSound(one)
    BY <1>1, <1>3, <2>2 DEF FollowUpSound, Outcomes
  <2> QED
    BY <1>3, <2>1, <2>3
<1>5. CASE ~(op.status \notin Outcomes \/ request = NoRecord)
  <2>1. /\ request \in Records /\ request.kind = "request" /\ request.act = "queue_follow_up"
        /\ request = LastFollowUp(log)
    BY <1>5, Searches
  <2> DEFINE settled == IF op.status = "completed" THEN "started"
                        ELSE IF op.status = "failed" THEN "blocked" ELSE "cancelled"
  <2> DEFINE tr == Transition(request, settled)
  <2>2. /\ tr \in Records /\ tr.kind = "request" /\ tr.act = "queue_follow_up"
        /\ tr.status = settled
    <3>1. settled \in OperationStatuses \cup RequestStatuses
      BY DEF OperationStatuses, RequestStatuses
    <3> HIDE DEF settled, request
    <3> QED
      BY <2>1, <3>1, Rewritten
  <2>3. Quiet(tr)
    BY <2>2 DEF Quiet
  <2> DEFINE two == log \o <<op, tr>>
  <2>4. SameSteers(two) /\ LastOperation(two) = op /\ LastFollowUp(two) = tr /\ Longer(two)
    <3> HIDE DEF tr, op, request
    <3>1. SameSteers(two) /\ LastOperation(two) = op /\ LastFollowUp(two) = tr
      BY <1>1, <1>2, <1>3, <2>2, <2>3, RecordsAppended
    <3>2. Longer(two)
      BY <1>1, <2>2, NoTurnAppended
    <3> QED
      BY <3>1, <3>2
  <2>5. CASE op.status = "completed"
    <3> DEFINE att == FollowUpAttempt(op, request)
    <3>1. att \in Records /\ att.kind = "operation" /\ att.status = "queued"
      <4> HIDE DEF op, request
      <4> QED
        BY <1>1, <2>1, Rewritten
    <3>2. Quiet(att)
      BY <3>1 DEF Quiet, OperationStatuses
    <3> DEFINE three == log \o (<<op, tr>> \o <<att>>)
    <3>3. SameSteers(three) /\ LastOperation(three) = att /\ LastFollowUp(three) = tr
      <4> HIDE DEF tr, op, request, att
      <4>1. \A c : Quiet(c) =>
              LET t == log \o <<op, tr>>
                  u == log \o (<<op, tr>> \o <<c>>)
              IN /\ SameSteers(u)
                 /\ LastOperation(u) = IF c.kind = "operation" THEN c ELSE LastOperation(t)
                 /\ LastFollowUp(u) = IF c.kind = "request" /\ c.act = "queue_follow_up"
                                      THEN c ELSE LastFollowUp(t)
        BY <1>2, <2>3, RecordsAppended
      <4> QED BY <2>4, <3>1, <3>2, <4>1
    <3>4. RecordOperation(status, w) = <<op, tr>> \o <<att>>
      BY <1>5, <2>5 DEF RecordOperation
    <3>6. Longer(three)
      <4> HIDE DEF tr, op, request, att
      <4> QED
        BY <1>1, <2>2, <3>1, NoTurnAppended
    <3>5. FollowUpSound(three)
      BY <2>2, <2>5, <3>1, <3>3 DEF FollowUpSound
    <3> QED
      BY <3>1, <3>3, <3>4, <3>5, <3>6
  <2>6. CASE op.status # "completed"
    <3>1. RecordOperation(status, w) = <<op, tr>> \o <<>>
      BY <1>5, <2>6 DEF RecordOperation, Outcomes
    <3>2. <<op, tr>> \o <<>> = <<op, tr>>
      OBVIOUS
    <3>3. FollowUpSound(two)
      BY <1>5, <2>2, <2>4, <2>6 DEF FollowUpSound, Outcomes
    <3> QED
      BY <2>4, <3>1, <3>2, <3>3
  <2> QED
    BY <2>5, <2>6
<1> QED
  BY <1>4, <1>5

-----------------------------------------------------------------------------
(* The control requests keep the invariant. *)

LEMMA SpendKeepsType ==
  ASSUME NEW bounds, Spend(bounds), used \in [DOMAIN Bounds -> Nat]
  PROVE  used' \in [DOMAIN Bounds -> Nat]
BY DEF Spend

LEMMA ChildKept ==
  ASSUME ChildInv, TypeOK', OutcomeKnown', SameSteers(log'), submitted' = submitted,
         steer' \in {steer, NoSteer},
         ~StaleAttempts /\ FollowUpSound(log) => FollowUpSound(log')
  PROVE  ChildInv'
<1>1. OperationsSound(log)'
  BY DEF SameSteers
<1>2. ASSUME NEW r \in Requests
      PROVE  SteerSound(r)'
  <2>1. SteerSound(r)
    BY DEF ChildInv, SteerInv
  <2>2. LastSteer(log', r) = LastSteer(log, r) /\ (Accepted(log', r) <=> Accepted(log, r))
    BY DEF SameSteers
  <2>3. NoSteer.pc = "none"
    BY DEF NoSteer
  <2> QED
    BY <2>1, <2>2, <2>3 DEF SteerSound
<1>3. (steer.pc # "none" => steer.req \in Requests)'
  <2>1. NoSteer.pc = "none"
    BY DEF NoSteer
  <2> QED
    BY <2>1 DEF ChildInv, SteerInv
<1>4. FollowUpInv'
  BY DEF ChildInv, FollowUpInv
<1> QED
  BY <1>1, <1>2, <1>3, <1>4 DEF ChildInv, SteerInv

LEMMA LogStays ==
  ASSUME ChildInv
  PROVE  SameSteers(log)
BY DEF ChildInv, TypeOK, SameSteers

LEMMA ControlKeeps ==
  ASSUME ChildInv, NEW records, Control(records), SameSteers(log \o records),
         ~StaleAttempts /\ FollowUpSound(log) => FollowUpSound(log \o records)
  PROVE  ChildInv'
<1>1. /\ log' = log \o records /\ used' \in [DOMAIN Bounds -> Nat]
      /\ UNCHANGED <<execution, worker, cancel, queued, steer, nextTurn, submitted>>
  BY SpendKeepsType DEF Control, ChildInv, TypeOK
<1>2. TypeOK' /\ OutcomeKnown'
  BY <1>1 DEF ChildInv, TypeOK, OutcomeKnown, SameSteers
<1> QED
  BY <1>1, <1>2, ChildKept

\* A record of request r, made from an operation.
RequestBy(e, r, act, number, now, status) ==
  [e EXCEPT !.kind = "request", !.act = act, !.req = r, !.prompt = r,
            !.turn = number, !.at = now, !.status = status]

LEMMA RequestOf ==
  ASSUME NEW e \in Records, NEW r \in Prompts, NEW status \in OperationStatuses \cup RequestStatuses,
         NEW now \in Nat, NEW act \in {"queue_follow_up", "steer"}, NEW number \in Nat
  PROVE  LET f == RequestBy(e, r, act, number, now, status)
         IN /\ f \in Records /\ f.kind = "request" /\ f.act = act /\ f.req = r
            /\ f.status = status
<1> DEFINE f == [e EXCEPT !.kind = "request", !.act = act, !.req = r, !.prompt = r,
                          !.turn = number, !.at = now, !.status = status]
<1> DEFINE Kinds == {"none", "operation", "request", "turn", "report"}
<1> DEFINE Statuses == {"none"} \cup OperationStatuses \cup RequestStatuses
<1> DEFINE Origins == {"none", "initial", "retry", "follow_up"}
<1> DEFINE Acts == {"none", "queue_follow_up", "pause", "cancel_active", "resume", "retry",
                    "start_failure", "update_queued", "cancel_queued", "steer"}
<1> DEFINE R == [kind : Kinds, status : Statuses, turn : Nat, attempt : Nat, akind : Origins,
                 req : Prompts, act : Acts, prompt : Prompts, at : Nat]
<1>1. R = Records
  BY DEF Records
<1>2. "request" \in Kinds /\ status \in Statuses /\ act \in Acts
  OBVIOUS
<1> HIDE DEF Kinds, Statuses, Origins, Acts
<1>3. f \in R
  BY <1>1, <1>2
<1>4. f.kind = "request" /\ f.act = act /\ f.req = r /\ f.status = status
  BY <1>1
<1>5. f \in Records
  BY <1>1, <1>3
<1> HIDE DEF f
<1>6. f \in Records /\ f.kind = "request" /\ f.act = act /\ f.req = r /\ f.status = status
  BY <1>4, <1>5
<1> QED
  BY <1>6 DEF f, RequestBy

\* Records that are appended one by one or together.
LEMMA Joined ==
  ASSUME NEW a \in Records, NEW b \in Records, NEW s \in Seq(Records)
  PROVE  s \o (<<a>> \o <<b>>) = s \o <<a, b>>
<1>1. s \o (<<a>> \o <<b>>) = Append(Append(s, a), b)
  OBVIOUS
<1>2. s \o <<a, b>> = Append(Append(s, a), b)
  OBVIOUS
<1> QED
  BY <1>1, <1>2

LEMMA ByRequestFacts ==
  ASSUME log \in Seq(Records), Operation.status # "none", NEW r \in Requests,
         NEW status \in OperationStatuses,
         NEW action \in {"pause", "cancel_active", "resume", "retry", "start_failure",
                         "update_queued", "cancel_queued"}
  PROVE  LET f == ByRequest(Operation, r, action, status)
         IN /\ f \in Records /\ f.kind = "operation" /\ f.status = status
            /\ f.turn = Operation.turn /\ f.attempt = Operation.attempt
            /\ f.act = action /\ f.at = Now
<1>1. Operation \in Records /\ Operation.kind = "operation" /\ Now \in Nat /\ r \in Prompts
  BY Searches DEF Now, Prompts
<1> DEFINE e == Operation
<1>2. ByRequest(e, r, action, status) =
        [e EXCEPT !.req = r, !.act = action, !.status = status, !.at = Now]
  BY DEF ByRequest
<1> HIDE DEF e
<1>3. ByRequest(e, r, action, status) =
        [kind |-> e.kind, status |-> status, turn |-> e.turn, attempt |-> e.attempt,
         akind |-> e.akind, req |-> r, act |-> action, prompt |-> e.prompt, at |-> Now]
  BY <1>1, <1>2 DEF Records, e
<1>4. /\ e.turn \in Nat /\ e.attempt \in Nat /\ e.prompt \in Prompts
      /\ e.akind \in {"none", "initial", "retry", "follow_up"} /\ e.kind = "operation"
  BY <1>1 DEF Records, e
<1> QED
  BY <1>1, <1>3, <1>4 DEF Records, e

\* An operation record that is neither over nor failed strands no follow-up.
LEMMA OperationControlled ==
  ASSUME ChildInv, NEW f \in Records, f.kind = "operation",
         f.status \in OperationStatuses \ {"completed", "failed", "cancelled"}
  PROVE  SameSteers(log \o <<f>>) /\ FollowUpSound(log \o <<f>>)
<1>1. Quiet(f)
  BY DEF Quiet
<1>2. log \in Seq(Records) /\ OperationsSound(log)
  BY DEF ChildInv, TypeOK
<1>3. SameSteers(log \o <<f>>) /\ LastOperation(log \o <<f>>) = f
  BY <1>1, <1>2, RecordsAppended
<1> QED
  BY <1>3 DEF FollowUpSound

LEMMA FollowUpCancelled ==
  ASSUME ChildInv
  PROVE  \/ /\ CancelFollowUp = <<>> /\ LastFollowUp(log).status \notin {"accepted", "blocked"}
         \/ \E q : /\ CancelFollowUp = <<q>> /\ Quiet(q) /\ q.kind = "request"
                   /\ q.act = "queue_follow_up" /\ q.status = "cancelled"
<1>1. log \in Seq(Records)
  BY DEF ChildInv, TypeOK
<1>2. CASE PendingFollowUp = NoRecord
  BY <1>1, <1>2, Searches DEF CancelFollowUp, NoRecord
<1>3. CASE PendingFollowUp # NoRecord
  <2> DEFINE e == PendingFollowUp
  <2> DEFINE q == Transition(e, "cancelled")
  <2>1. e \in Records /\ e.kind = "request" /\ e.act = "queue_follow_up"
    BY <1>1, <1>3, Searches
  <2>2. CancelFollowUp = <<q>>
    BY <1>3 DEF CancelFollowUp
  <2>3. q \in Records /\ q.kind = "request" /\ q.act = "queue_follow_up" /\ q.status = "cancelled"
    <3> HIDE DEF e
    <3> QED
      BY <1>1, <2>1, Rewritten DEF RequestStatuses
  <2> HIDE DEF q
  <2>4. Quiet(q)
    BY <2>3 DEF Quiet
  <2> QED
    BY <2>2, <2>3, <2>4
<1> QED
  BY <1>2, <1>3

LEMMA PauseKeeps ==
  ASSUME ChildInv, NEW r \in Requests, Pause(r)
  PROVE  ChildInv'
<1> DEFINE f == ByRequest(Operation, r, "pause", "pausing")
<1>1. log \in Seq(Records) /\ Operation.status # "none" /\ Control(<<f>>)
  BY DEF ChildInv, TypeOK, Pause
<1>2. f \in Records /\ f.kind = "operation" /\ f.status = "pausing"
  BY <1>1, ByRequestFacts DEF OperationStatuses
<1> HIDE DEF f
<1> QED
  BY <1>1, <1>2, OperationControlled, ControlKeeps DEF OperationStatuses

LEMMA CancelActiveKeeps ==
  ASSUME ChildInv, NEW r \in Requests, CancelActive(r)
  PROVE  ChildInv'
<1> DEFINE f == ByRequest(Operation, r, "cancel_active", "cancelling")
<1>1. log \in Seq(Records) /\ Operation.status # "none" /\ Control(<<f>> \o CancelFollowUp)
  BY DEF ChildInv, TypeOK, CancelActive
<1>2. f \in Records /\ f.kind = "operation" /\ f.status = "cancelling"
  BY <1>1, ByRequestFacts DEF OperationStatuses
<1> HIDE DEF f
<1>3. SameSteers(log \o <<f>>) /\ FollowUpSound(log \o <<f>>)
  BY <1>2, OperationControlled DEF OperationStatuses
<1>4. CASE CancelFollowUp = <<>>
  <2>1. <<f>> \o CancelFollowUp = <<f>>
    BY <1>4
  <2> QED
    BY <1>1, <1>3, <2>1, ControlKeeps
<1>5. ASSUME NEW q, CancelFollowUp = <<q>>, Quiet(q), q.kind = "request",
             q.act = "queue_follow_up", q.status = "cancelled"
      PROVE  ChildInv'
  <2>1. log \o (<<f>> \o CancelFollowUp) = log \o <<f, q>>
    BY <1>1, <1>2, <1>5, Joined DEF Quiet
  <2>2. Quiet(f) /\ OperationsSound(log)
    BY <1>2 DEF Quiet, OperationStatuses, ChildInv
  <2>3. SameSteers(log \o <<f, q>>) /\ LastFollowUp(log \o <<f, q>>) = q
    BY <1>1, <1>5, <2>2, RecordsAppended
  <2>4. FollowUpSound(log \o <<f, q>>)
    BY <1>5, <2>3 DEF FollowUpSound
  <2> QED
    BY <1>1, <2>1, <2>3, <2>4, ControlKeeps
<1> QED
  BY <1>4, <1>5, FollowUpCancelled

LEMMA CancelQueuedKeeps ==
  ASSUME ChildInv, NEW r \in Requests, CancelQueued(r)
  PROVE  ChildInv'
<1> DEFINE f == ByRequest(Operation, r, "cancel_queued", "cancelled")
<1>1. log \in Seq(Records) /\ Operation.status # "none" /\ Control(CancelFollowUp \o <<f>>)
  BY DEF ChildInv, TypeOK, CancelQueued
<1>2. f \in Records /\ f.kind = "operation" /\ f.status = "cancelled"
  BY <1>1, ByRequestFacts DEF OperationStatuses
<1> HIDE DEF f
<1>3. Quiet(f) /\ OperationsSound(log)
  BY <1>2 DEF Quiet, OperationStatuses, ChildInv
<1>4. CASE CancelFollowUp = <<>> /\ LastFollowUp(log).status \notin {"accepted", "blocked"}
  <2>1. CancelFollowUp \o <<f>> = <<f>>
    BY <1>4
  <2>2. SameSteers(log \o <<f>>) /\ LastFollowUp(log \o <<f>>) = LastFollowUp(log)
    BY <1>1, <1>2, <1>3, RecordsAppended
  <2>3. FollowUpSound(log \o <<f>>)
    BY <1>4, <2>2 DEF FollowUpSound
  <2> QED
    BY <1>1, <2>1, <2>2, <2>3, ControlKeeps
<1>5. ASSUME NEW q, CancelFollowUp = <<q>>, Quiet(q), q.kind = "request",
             q.act = "queue_follow_up", q.status = "cancelled"
      PROVE  ChildInv'
  <2>1. log \o (CancelFollowUp \o <<f>>) = log \o <<q, f>>
    BY <1>1, <1>2, <1>5, Joined DEF Quiet
  <2>2. /\ SameSteers(log \o <<q, f>>)
        /\ LastFollowUp(log \o <<q>>) = q
        /\ LastFollowUp(log \o <<q, f>>) = LastFollowUp(log \o <<q>>)
    BY <1>1, <1>2, <1>3, <1>5, RecordsAppended
  <2>3. FollowUpSound(log \o <<q, f>>)
    BY <1>5, <2>2 DEF FollowUpSound
  <2> QED
    BY <1>1, <2>1, <2>2, <2>3, ControlKeeps
<1> QED
  BY <1>4, <1>5, FollowUpCancelled

LEMMA ResumeQueuedKeeps ==
  ASSUME ChildInv, NEW r \in Requests, ResumeQueued(r)
  PROVE  ChildInv'
<1> DEFINE f == ByRequest(Operation, r, "resume", "queued")
<1> DEFINE g == [f EXCEPT !.turn = 0]
<1>1. log \in Seq(Records) /\ Operation.status # "none" /\ Control(<<g>>)
  BY DEF ChildInv, TypeOK, ResumeQueued
<1>2. f \in Records /\ f.kind = "operation" /\ f.status = "queued"
  BY <1>1, ByRequestFacts DEF OperationStatuses
<1> HIDE DEF f
<1>3. g \in Records /\ g.kind = "operation" /\ g.status = "queued"
  BY <1>2 DEF Records
<1> HIDE DEF g
<1> QED
  BY <1>1, <1>3, OperationControlled, ControlKeeps DEF OperationStatuses

LEMMA ResumeExecutionKeeps ==
  ASSUME ChildInv, NEW r \in Requests, ResumeExecution(r)
  PROVE  ChildInv'
<1> DEFINE f == ByRequest(Operation, r, "resume", "running")
<1> DEFINE n == execution.turn
<1> DEFINE g == [f EXCEPT !.turn = n]
<1>1. /\ log \in Seq(Records) /\ Operation.status # "none" /\ n \in Nat
      /\ Control(<<g>>)
  BY DEF ChildInv, TypeOK, ResumeExecution
<1>2. f \in Records /\ f.kind = "operation" /\ f.status = "running"
  BY <1>1, ByRequestFacts DEF OperationStatuses
<1> HIDE DEF f, n
<1>3. g \in Records /\ g.kind = "operation" /\ g.status = "running"
  BY <1>1, <1>2 DEF Records
<1> HIDE DEF g
<1> QED
  BY <1>1, <1>3, OperationControlled, ControlKeeps DEF OperationStatuses

LEMMA RetryKeeps ==
  ASSUME ChildInv, NEW r \in Requests, Retry(r)
  PROVE  ChildInv'
<1> DEFINE f == ByRequest(Operation, r, "retry", "queued")
<1> DEFINE n == f.attempt + 1
<1> DEFINE g == [f EXCEPT !.attempt = n, !.turn = 0, !.akind = "retry"]
<1>1. /\ log \in Seq(Records) /\ Operation.status # "none"
      /\ Control(<<g>>)
  BY DEF ChildInv, TypeOK, Retry
<1>2. f \in Records /\ f.kind = "operation" /\ f.status = "queued"
  BY <1>1, ByRequestFacts DEF OperationStatuses
<1> HIDE DEF f
<1>3. n \in Nat
  BY <1>2 DEF Records
<1> HIDE DEF n
<1>4. g \in Records /\ g.kind = "operation" /\ g.status = "queued"
  BY <1>2, <1>3 DEF Records
<1> HIDE DEF g
<1> QED
  BY <1>1, <1>4, OperationControlled, ControlKeeps DEF OperationStatuses

LEMMA StartFailureKeeps ==
  ASSUME ChildInv, NEW r \in Requests, StartFailure(r)
  PROVE  ChildInv'
<1> DEFINE f == ByRequest(Operation, r, "start_failure", "queued")
<1>1. log \in Seq(Records) /\ Operation.status # "none" /\ Control(<<f>>)
  BY DEF ChildInv, TypeOK, StartFailure
<1>2. f \in Records /\ f.kind = "operation" /\ f.status = "queued"
  BY <1>1, ByRequestFacts DEF OperationStatuses
<1> HIDE DEF f
<1> QED
  BY <1>1, <1>2, OperationControlled, ControlKeeps DEF OperationStatuses

LEMMA UpdateQueuedKeeps ==
  ASSUME ChildInv, NEW r \in Requests, UpdateQueued(r)
  PROVE  ChildInv'
<1> DEFINE f == ByRequest(Operation, r, "update_queued", "queued")
<1> DEFINE g == [f EXCEPT !.prompt = r]
<1>1. log \in Seq(Records) /\ Operation.status # "none" /\ Control(<<g>>)
  BY DEF ChildInv, TypeOK, UpdateQueued
<1>2. f \in Records /\ f.kind = "operation" /\ f.status = "queued"
  BY <1>1, ByRequestFacts DEF OperationStatuses
<1> HIDE DEF f
<1>3. g \in Records /\ g.kind = "operation" /\ g.status = "queued"
  BY <1>2 DEF Records, Prompts
<1> HIDE DEF g
<1> QED
  BY <1>1, <1>3, OperationControlled, ControlKeeps DEF OperationStatuses

LEMMA OperationOfFacts ==
  ASSUME log \in Seq(Records), NEW attempt
  PROVE  /\ OperationOf(attempt) \in Records
         /\ OperationOf(attempt).status # "none" => OperationOf(attempt).kind = "operation"
         /\ OperationOf(attempt).status # "none" /\ attempt = Operation.attempt
              => OperationOf(attempt) = Operation
<1> DEFINE H == {i \in DOMAIN log : log[i].kind = "operation" /\ log[i].attempt = attempt}
<1>1. OperationOf(attempt) = At(log, H)
  BY DEF OperationOf, LastWhere, At
<1>2. H \subseteq DOMAIN log /\ \A i \in H : log[i].kind = "operation" /\ log[i].attempt = attempt
  OBVIOUS
<1>3. At(log, H) \in Records /\ (H # {} => Max(H) \in H /\ \A i \in H : i <= Max(H))
  <2>1. NoRecord \in Records
    BY DEF NoRecord, Records, Prompts
  <2> HIDE DEF H
  <2> QED
    BY <1>2, <2>1, LastAppended
<1>4. At(log, H).status # "none" => H # {} /\ At(log, H).kind = "operation"
  <2>1. NoRecord.status = "none"
    BY DEF NoRecord
  <2> HIDE DEF H
  <2> QED
    BY <1>2, <1>3, <2>1 DEF At
<1>5. ASSUME H # {}, attempt = Operation.attempt
      PROVE  At(log, H) = Operation
  <2> DEFINE O == Operations(log)
  <2>1. H \subseteq O /\ O \subseteq DOMAIN log
    BY DEF Operations
  <2>2. Operation = At(log, O)
    BY Searches DEF LastOperation
  <2>3. O # {} => Max(O) \in O /\ \A i \in O : i <= Max(O)
    <3>1. NoRecord \in Records
      BY DEF NoRecord, Records, Prompts
    <3> HIDE DEF O
    <3> QED
      BY <2>1, <3>1, LastAppended
  <2>4. O # {} /\ Max(O) \in DOMAIN log /\ Operation = log[Max(O)] /\ Max(O) \in O
    <3> HIDE DEF O, H
    <3> QED
      BY <1>5, <2>1, <2>2, <2>3 DEF At
  <2>5. Max(O) \in H
    BY <1>5, <2>4 DEF Operations
  <2> HIDE DEF O, H
  <2> QED
    BY <2>1, <2>2, <2>4, <2>5, LastAmong
<1> HIDE DEF H
<1> QED
  BY <1>1, <1>3, <1>4, <1>5

LEMMA FollowUpKeeps ==
  ASSUME ChildInv, NEW r \in Requests, NEW attempt, FollowUp(r, attempt)
  PROVE  ChildInv'
<1> DEFINE op == OperationOf(attempt)
<1> DEFINE status == IF op.status \in {"running", "paused"} THEN "accepted"
                     ELSE IF op.status = "failed" THEN "blocked" ELSE "started"
<1> DEFINE request == [op EXCEPT !.kind = "request", !.act = "queue_follow_up", !.req = r,
                                 !.prompt = r, !.turn = 0, !.at = Now, !.status = status]
<1> DEFINE att == FollowUpAttempt(op, request)
<1>1. /\ log \in Seq(Records) /\ OperationsSound(log) /\ Now \in Nat /\ r \in Prompts
      /\ attempt = Operation.attempt \/ StaleAttempts
      /\ op.status \in {"running", "paused", "completed", "failed"}
      /\ Control(<<request>> \o IF op.status = "completed" THEN <<att>> ELSE <<>>)
  BY DEF ChildInv, TypeOK, Now, Prompts, FollowUp
<1>2. /\ op \in Records /\ op.kind = "operation"
      /\ attempt = Operation.attempt => op = Operation
  BY <1>1, OperationOfFacts
<1> HIDE DEF op
<1>3. status \in RequestStatuses
  BY <1>1 DEF RequestStatuses
<1> HIDE DEF status
<1>4. /\ request \in Records /\ request.kind = "request" /\ request.act = "queue_follow_up"
      /\ request.status = status
  <2>1. request = RequestBy(op, r, "queue_follow_up", 0, Now, status)
    BY DEF RequestBy
  <2> HIDE DEF request
  <2> QED
    BY <1>1, <1>2, <1>3, <2>1, RequestOf, SMTT(30)
<1> HIDE DEF request
<1>5. Quiet(request)
  BY <1>4 DEF Quiet
<1>6. /\ SameSteers(log \o <<request>>)
      /\ LastOperation(log \o <<request>>) = LastOperation(log)
      /\ LastFollowUp(log \o <<request>>) = request
  BY <1>1, <1>4, <1>5, RecordsAppended
<1>7. CASE op.status = "completed"
  <2>1. att \in Records /\ att.kind = "operation" /\ att.status = "queued"
    BY <1>1, <1>2, <1>4, Rewritten
  <2> HIDE DEF att
  <2>2. Quiet(att)
    BY <2>1 DEF Quiet, OperationStatuses
  <2>3. SameSteers(log \o <<request, att>>) /\ LastOperation(log \o <<request, att>>) = att
    BY <1>1, <1>5, <2>1, <2>2, RecordsAppended
  <2>4. FollowUpSound(log \o <<request, att>>)
    BY <2>1, <2>3 DEF FollowUpSound
  <2>5. log \o (<<request>> \o <<att>>) = log \o <<request, att>>
    BY <1>1, <1>4, <2>1, Joined
  <2>6. Control(<<request>> \o <<att>>)
    BY <1>1, <1>7
  <2> QED
    BY <2>3, <2>4, <2>5, <2>6, ControlKeeps
<1>8. CASE op.status # "completed"
  <2>1. <<request>> \o <<>> = <<request>>
    OBVIOUS
  <2>2. Control(<<request>>)
    BY <1>1, <1>8, <2>1
  <2>3. ASSUME ~StaleAttempts
        PROVE  FollowUpSound(log \o <<request>>)
    <3>1. LastOperation(log) = op
      BY <1>1, <1>2, <2>3, Searches
    <3> QED
      BY <1>1, <1>4, <1>6, <1>8, <3>1 DEF FollowUpSound, status
  <2> QED
    BY <1>6, <2>2, <2>3, ControlKeeps
<1> QED
  BY <1>7, <1>8

-----------------------------------------------------------------------------
(* turn/steer keeps the invariant. *)

\* An id for which the code finds no steer to replay was not submitted.
LEMMA SteerNotFound ==
  ASSUME log \in Seq(Records), OperationsSound(log), NEW r, SteerRequest(r) = NoRecord
  PROVE  LastSteer(log, r).status \notin {"pending", "accepted"}
<1> DEFINE S == SteersOf(log, r)
<1> DEFINE H == {i \in DOMAIN log : \/ log[i].kind = "request" /\ log[i].act = "steer" /\ log[i].req = r
                                    \/ /\ log[i].kind = "operation" /\ log[i].act = "queue_follow_up"
                                       /\ log[i].req = r}
<1>1. At(log, H).status = "not_accepted" \/ At(log, H) = NoRecord
  BY DEF SteerRequest, LastWhere, At
<1>2. /\ S \subseteq H /\ H \subseteq DOMAIN log /\ DOMAIN log \subseteq Nat
      /\ \A i \in H \ S : log[i].kind = "operation"
      /\ \A i \in H : log[i].kind \in {"request", "operation"}
  BY DEF SteersOf
<1>3. /\ H # {} => Max(H) \in H /\ \A i \in H : i <= Max(H)
      /\ S # {} => Max(S) \in S /\ \A i \in S : i <= Max(S)
  <2>1. NoRecord \in Records
    BY DEF NoRecord, Records, Prompts
  <2> HIDE DEF H, S
  <2>2. S \subseteq DOMAIN log
    BY <1>2
  <2>3. H # {} => Max(H) \in H /\ \A i \in H : i <= Max(H)
    BY <1>2, <2>1, LastAppended
  <2>4. S # {} => Max(S) \in S /\ \A i \in S : i <= Max(S)
    BY <2>1, <2>2, LastAppended
  <2> QED
    BY <2>3, <2>4
<1>4. NoRecord.status = "none" /\ NoRecord.kind = "none"
  BY DEF NoRecord
<1> HIDE DEF H, S
<1>5. CASE S = {}
  BY <1>4, <1>5 DEF LastSteer, At, S
<1>6. CASE S # {}
  <2>1. H # {} /\ Max(H) \in H
    BY <1>2, <1>3, <1>6
  <2>2. log[Max(H)].status = "not_accepted"
    BY <1>1, <1>2, <1>4, <2>1 DEF At
  <2>3. Max(H) \in S
    <3> SUFFICES ASSUME Max(H) \notin S
                 PROVE  FALSE
      OBVIOUS
    <3>1. log[Max(H)].kind = "operation" /\ Max(H) \in DOMAIN log
      BY <1>2, <2>1
    <3> QED
      BY <2>2, <3>1 DEF OperationsSound, OperationStatuses
  <2>4. Max(S) = Max(H)
    <3>1. Max(S) \in H /\ Max(S) <= Max(H) /\ Max(H) <= Max(S) /\ Max(S) \in Nat /\ Max(H) \in Nat
      BY <1>2, <1>3, <1>6, <2>1, <2>3
    <3> QED
      BY <3>1
  <2>5. LastSteer(log, r) = log[Max(S)]
    BY <1>6 DEF LastSteer, At, S
  <2> QED
    BY <2>2, <2>4, <2>5
<1> QED
  BY <1>5, <1>6

LEMMA SteerAppended ==
  ASSUME log \in Seq(Records), OperationsSound(log), NEW f \in Records,
         f.kind = "request", f.act = "steer"
  PROVE  LET t == Append(log, f)
         IN /\ t \in Seq(Records) /\ OperationsSound(t)
            /\ LastOperation(t) = LastOperation(log) /\ LastFollowUp(t) = LastFollowUp(log)
            /\ \A r : LastSteer(t, r) = IF f.req = r THEN f ELSE LastSteer(log, r)
            /\ \A r : Accepted(t, r) <=> Accepted(log, r) \/ (f.req = r /\ f.status = "accepted")
<1> DEFINE t == Append(log, f)
<1>1. /\ t \in Seq(Records)
      /\ LastOperation(t) = LastOperation(log) /\ LastFollowUp(t) = LastFollowUp(log)
      /\ \A r : LastSteer(t, r) = IF f.req = r THEN f ELSE LastSteer(log, r)
  BY Appended
<1>2. /\ Len(log) \in Nat /\ DOMAIN log = 1..Len(log)
      /\ DOMAIN t = DOMAIN log \cup {Len(log) + 1} /\ Len(log) + 1 \notin DOMAIN log
      /\ \A i \in DOMAIN log : t[i] = log[i]
      /\ t[Len(log) + 1] = f
  OBVIOUS
<1> HIDE DEF t
<1>3. OperationsSound(t)
  BY <1>2 DEF OperationsSound
<1>4. ASSUME NEW r
      PROVE  Accepted(t, r) <=> Accepted(log, r) \/ (f.req = r /\ f.status = "accepted")
  <2>1. SteersOf(t, r) = IF f.req = r THEN SteersOf(log, r) \cup {Len(log) + 1} ELSE SteersOf(log, r)
    BY <1>2 DEF SteersOf
  <2>2. \A i \in SteersOf(log, r) : t[i] = log[i]
    BY <1>2 DEF SteersOf
  <2> QED
    BY <1>2, <2>1, <2>2 DEF Accepted
<1> QED
  BY <1>1, <1>3, <1>4 DEF t

LEMMA SteerRecordFacts ==
  ASSUME log \in Seq(Records), NEW r \in Requests, NEW number \in Nat, NEW status \in RequestStatuses
  PROVE  LET f == SteerRecord(r, number, status)
         IN /\ f \in Records /\ f.kind = "request" /\ f.act = "steer" /\ f.req = r
            /\ f.status = status
<1>1. Operation \in Records /\ Now \in Nat /\ r \in Prompts
  BY Searches DEF Now, Prompts
<1>2. SteerRecord(r, number, status) = [Operation EXCEPT !.kind = "request", !.act = "steer",
                                        !.req = r, !.prompt = r, !.turn = number,
                                        !.status = status, !.at = Now]
  BY DEF SteerRecord
<1>3. SteerRecord(r, number, status) = RequestBy(Operation, r, "steer", number, Now, status)
  <2> DEFINE e == Operation
  <2>1. e \in Records
    BY <1>1
  <2> HIDE DEF e
  <2>2. [e EXCEPT !.kind = "request", !.act = "steer", !.req = r, !.prompt = r, !.turn = number,
                  !.status = status, !.at = Now] = RequestBy(e, r, "steer", number, Now, status)
    BY <2>1 DEF Records, RequestBy
  <2> QED
    BY <1>2, <2>2 DEF e
<1> QED
  BY <1>1, <1>3, RequestOf

LEMMA SteerReserveKeeps ==
  ASSUME ChildInv, NEW r \in Requests, SteerReserve(r)
  PROVE  ChildInv'
<1> DEFINE f == SteerRecord(r, Operation.turn, "pending")
<1>1. /\ log \in Seq(Records) /\ OperationsSound(log)
      /\ steer.pc = "none" /\ SteerRequest(r) = NoRecord
      /\ log' = Append(log, f)
      /\ steer' = [pc |-> "reserved", req |-> r, turn |-> Operation.turn]
      /\ used' \in [DOMAIN Bounds -> Nat]
      /\ UNCHANGED <<execution, worker, cancel, queued, nextTurn, submitted>>
  BY SpendKeepsType DEF ChildInv, TypeOK, SteerReserve, Admitted
<1>2. Operation.turn \in Nat
  BY <1>1, Searches DEF Records
<1>3. f \in Records /\ f.kind = "request" /\ f.act = "steer" /\ f.req = r /\ f.status = "pending"
  BY <1>1, <1>2, SteerRecordFacts DEF RequestStatuses
<1> HIDE DEF f
<1>4. /\ log' \in Seq(Records) /\ OperationsSound(log')
      /\ LastOperation(log') = LastOperation(log) /\ LastFollowUp(log') = LastFollowUp(log)
      /\ \A q : LastSteer(log', q) = IF r = q THEN f ELSE LastSteer(log, q)
      /\ \A q : Accepted(log', q) <=> Accepted(log, q)
  BY <1>1, <1>3, SteerAppended
<1>5. TypeOK' /\ OutcomeKnown' /\ FollowUpInv'
  <2>1. steer' \in Steers
    BY <1>1, <1>2 DEF Steers, Prompts
  <2>2. TypeOK'
    BY <1>1, <1>4, <2>1 DEF ChildInv, TypeOK
  <2>3. OutcomeKnown'
    BY <1>1 DEF ChildInv, OutcomeKnown
  <2> QED
    BY <1>4, <2>2, <2>3 DEF ChildInv, FollowUpInv, FollowUpSound
<1>6. steer'.pc = "reserved" /\ steer'.req = r
  BY <1>1
<1>7. ASSUME NEW q \in Requests
      PROVE  SteerSound(q)'
  <2>1. SteerSound(q) /\ submitted'[q] = submitted[q] /\ submitted[q] \in Nat
    BY <1>1 DEF ChildInv, SteerInv, TypeOK
  <2>2. CASE q = r
    <3>1. submitted[q] = 0
      BY <1>1, <2>1, <2>2, SteerNotFound DEF SteerSound
    <3> QED
      BY <1>3, <1>4, <1>6, <2>1, <2>2, <3>1 DEF SteerSound
  <2>3. CASE q # r
    BY <1>4, <1>6, <2>1, <2>3 DEF SteerSound
  <2> QED
    BY <2>2, <2>3
<1> QED
  BY <1>4, <1>5, <1>6, <1>7 DEF ChildInv, SteerInv

LEMMA SteerAcceptKeeps ==
  ASSUME ChildInv, SteerAccept
  PROVE  ChildInv'
<1> DEFINE r == steer.req
<1>1. /\ steer.pc = "reserved" /\ r \in Requests
      /\ UNCHANGED <<log, execution, worker, cancel, nextTurn>>
      /\ submitted \in [Requests -> Nat] /\ queued \in Seq(Requests) /\ steer \in Steers
  BY DEF ChildInv, TypeOK, SteerInv, SteerAccept
<1>2. CASE /\ queued' = Append(queued, r)
           /\ submitted' = [submitted EXCEPT ![r] = @ + 1]
           /\ steer' = [steer EXCEPT !.pc = "accepted"]
           /\ UNCHANGED used
  <2>1. /\ steer' \in Steers /\ steer'.pc = "accepted" /\ steer'.req = r
    BY <1>1, <1>2 DEF Steers
  <2>2. submitted' \in [Requests -> Nat] /\ queued' \in Seq(Requests)
    BY <1>1, <1>2
  <2>3. TypeOK' /\ OutcomeKnown' /\ OperationsSound(log)' /\ FollowUpInv'
    BY <1>1, <1>2, <2>1, <2>2
       DEF ChildInv, TypeOK, OutcomeKnown, OperationsSound, FollowUpInv, FollowUpSound
  <2>4. ASSUME NEW q \in Requests
        PROVE  SteerSound(q)'
    <3>1. SteerSound(q)
      BY DEF ChildInv, SteerInv
    <3>2. CASE q = r
      <4>1. submitted[q] = 0 /\ LastSteer(log, q).status = "pending"
        BY <1>1, <3>1, <3>2 DEF SteerSound
      <4>2. submitted'[q] = 1
        BY <1>1, <1>2, <3>2, <4>1
      <4> QED
        BY <1>1, <2>1, <4>1, <4>2 DEF SteerSound
    <3>3. CASE q # r
      <4>1. submitted'[q] = submitted[q]
        BY <1>1, <1>2, <3>3
      <4> QED
        BY <1>1, <2>1, <3>1, <3>3, <4>1 DEF SteerSound
    <3> QED
      BY <3>2, <3>3
  <2>5. SteerInv'
    BY <1>1, <2>1, <2>4 DEF SteerInv
  <2> QED
    BY <2>3, <2>5 DEF ChildInv
<1>3. CASE /\ steer' = NoSteer /\ UNCHANGED <<queued, submitted>>
           /\ Spend({"events", "faults"})
  <2>1. NoSteer \in Steers
    BY DEF NoSteer, Steers, Prompts
  <2>2. used' \in [DOMAIN Bounds -> Nat]
    BY <1>3, SpendKeepsType DEF ChildInv, TypeOK
  <2>3. TypeOK' /\ OutcomeKnown'
    BY <1>1, <1>3, <2>1, <2>2 DEF ChildInv, TypeOK, OutcomeKnown
  <2> QED
    BY <1>1, <1>3, <2>3, LogStays, ChildKept
<1> QED
  BY <1>2, <1>3 DEF SteerAccept, Write

LEMMA SteerRejectKeeps ==
  ASSUME ChildInv, SteerReject
  PROVE  ChildInv'
<1>1. /\ steer.pc = "reserved" /\ steer.req \in Requests /\ steer \in Steers
      /\ UNCHANGED <<log, execution, worker, cancel, queued, nextTurn, submitted, used>>
  BY DEF ChildInv, TypeOK, SteerInv, SteerReject
<1>2. CASE steer' = [steer EXCEPT !.pc = "refused"]
  <2>1. steer' \in Steers /\ steer'.pc = "refused" /\ steer'.req = steer.req
    BY <1>1, <1>2 DEF Steers
  <2>2. TypeOK' /\ OutcomeKnown' /\ OperationsSound(log)' /\ FollowUpInv'
    BY <1>1, <2>1
       DEF ChildInv, TypeOK, OutcomeKnown, OperationsSound, FollowUpInv, FollowUpSound
  <2>3. SteerInv'
    BY <1>1, <2>1 DEF ChildInv, SteerInv, SteerSound
  <2> QED
    BY <2>2, <2>3 DEF ChildInv
<1>3. CASE steer' = NoSteer
  <2>1. NoSteer \in Steers
    BY DEF NoSteer, Steers, Prompts
  <2>2. TypeOK' /\ OutcomeKnown'
    BY <1>1, <1>3, <2>1 DEF ChildInv, TypeOK, OutcomeKnown
  <2> QED
    BY <1>1, <1>3, <2>2, LogStays, ChildKept
<1> QED
  BY <1>2, <1>3 DEF SteerReject

LEMMA SteerOutcomeKeeps ==
  ASSUME ChildInv, SteerOutcome
  PROVE  ChildInv'
<1> DEFINE r == steer.req
<1> DEFINE status == IF steer.pc = "accepted" THEN "accepted" ELSE "not_accepted"
<1> DEFINE f == SteerRecord(r, steer.turn, status)
<1>1. /\ steer.pc \in {"accepted", "refused"} /\ r \in Requests /\ steer' = NoSteer
      /\ UNCHANGED <<execution, worker, cancel, queued, nextTurn, submitted>>
      /\ log \in Seq(Records) /\ OperationsSound(log)
      /\ steer.turn \in Nat /\ submitted \in [Requests -> Nat]
  BY DEF ChildInv, TypeOK, SteerInv, SteerOutcome, Steers
<1>2. NoSteer \in Steers /\ NoSteer.pc = "none"
  BY DEF NoSteer, Steers, Prompts
<1>3. CASE log' = log /\ (UNCHANGED used \/ Spend({"events", "faults"}))
  <2>1. used' \in [DOMAIN Bounds -> Nat]
    BY <1>3, SpendKeepsType DEF ChildInv, TypeOK
  <2>2. TypeOK' /\ OutcomeKnown'
    BY <1>1, <1>2, <1>3, <2>1 DEF ChildInv, TypeOK, OutcomeKnown
  <2> QED
    BY <1>1, <1>3, <2>2, LogStays, ChildKept
<1>4. CASE log' = Append(log, f) /\ UNCHANGED used
  <2>1. status \in RequestStatuses
    BY DEF RequestStatuses
  <2>2. f \in Records /\ f.kind = "request" /\ f.act = "steer" /\ f.req = r /\ f.status = status
    <3> HIDE DEF status
    <3> QED
      BY <1>1, <2>1, SteerRecordFacts
  <2> HIDE DEF f
  <2>3. /\ log' \in Seq(Records) /\ OperationsSound(log')
        /\ LastOperation(log') = LastOperation(log) /\ LastFollowUp(log') = LastFollowUp(log)
        /\ \A q : LastSteer(log', q) = IF r = q THEN f ELSE LastSteer(log, q)
        /\ \A q : Accepted(log', q) <=> Accepted(log, q) \/ (r = q /\ status = "accepted")
    BY <1>1, <1>4, <2>2, SteerAppended
  <2>4. TypeOK' /\ OutcomeKnown' /\ FollowUpInv'
    BY <1>1, <1>2, <1>4, <2>3
       DEF ChildInv, TypeOK, OutcomeKnown, FollowUpInv, FollowUpSound
  <2>5. ASSUME NEW q \in Requests
        PROVE  SteerSound(q)'
    <3>1. SteerSound(q) /\ submitted'[q] = submitted[q] /\ submitted[q] \in Nat
      BY <1>1 DEF ChildInv, SteerInv
    <3>2. CASE q = r
      <4>1. submitted[q] = IF status = "accepted" THEN 1 ELSE 0
        BY <1>1, <3>1, <3>2 DEF SteerSound
      <4>2. LastSteer(log', q).status = status
        BY <2>2, <2>3, <3>2
      <4> QED
        BY <1>1, <1>2, <2>3, <3>1, <3>2, <4>1, <4>2 DEF SteerSound
    <3>3. CASE q # r
      <4>1. LastSteer(log', q) = LastSteer(log, q) /\ (Accepted(log', q) <=> Accepted(log, q))
        BY <2>3, <3>3
      <4> QED
        BY <1>1, <1>2, <3>1, <4>1 DEF SteerSound
    <3> QED
      BY <3>2, <3>3
  <2> QED
    BY <1>1, <1>2, <2>3, <2>4, <2>5 DEF ChildInv, SteerInv
<1> QED
  BY <1>3, <1>4 DEF SteerOutcome, Write

-----------------------------------------------------------------------------
(* The worker keeps the invariant. *)

Executions == [status: {"settled", "running", "waiting"}, turn: Nat, prompt: Prompts]

LEMMA BeginKeeps ==
  ASSUME ChildInv, NEW w \in Workers, w.pc = "running", Begin(w), execution' \in Executions,
         nextTurn' \in Nat, queued' \in Seq(Requests), UNCHANGED <<cancel, steer, submitted>>
  PROVE  ChildInv'
<1>1. log \in Seq(Records) /\ OperationsSound(log) /\ used \in [DOMAIN Bounds -> Nat]
  BY DEF ChildInv, TypeOK
<1>2. SameSteers(log) /\ (FollowUpSound(log) => FollowUpSound(log))
  BY LogStays
<1>3. /\ SameSteers(log \o RecordOperation("running", w))
      /\ FollowUpSound(log \o RecordOperation("running", w))
  BY <1>1, OperationRecorded
<1>4. /\ used' \in [DOMAIN Bounds -> Nat]
      /\ log' \in {log, log \o RecordOperation("running", w)}
      /\ worker' \in {w, [w EXCEPT !.recorded = w.owned]}
  BY <1>1, SpendKeepsType DEF Begin
<1>5. worker' \in Workers /\ worker'.pc = "running"
  BY <1>4 DEF Workers
<1>6. SameSteers(log') /\ (FollowUpSound(log) => FollowUpSound(log'))
  BY <1>2, <1>3, <1>4
<1>7. TypeOK' /\ OutcomeKnown'
  BY <1>4, <1>5, <1>6 DEF ChildInv, TypeOK, OutcomeKnown, SameSteers, Executions
<1> QED
  BY <1>6, <1>7, ChildKept

LEMMA IdleType == Idle \in Workers /\ Idle.pc = "idle"
<1>1. Initial \in Prompts
  BY DEF Prompts
<1>2. Idle.pc = "idle"
  BY DEF Idle
<1>3. Idle \in Workers
  BY <1>1 DEF Idle, Workers
<1> QED
  BY <1>2, <1>3

LEMMA AttemptType ==
  ASSUME NEW u \in Workers, u.pc = "running", NEW attempt \in Nat,
         NEW akind \in {"none", "initial", "retry", "follow_up"}
  PROVE  Attempt(u, attempt, akind) \in Workers /\ Attempt(u, attempt, akind).pc = "running"
BY DEF Workers, Attempt

LEMMA RunningType ==
  ASSUME log \in Seq(Records), NEW number \in Nat, NEW prompt \in Prompts
  PROVE  Running(number, prompt) \in Workers /\ Running(number, prompt).pc = "running"
<1> DEFINE n == Len(log)
<1> DEFINE v == Running(number, prompt)
<1>1. n \in Nat
  OBVIOUS
<1>2. v = [Idle EXCEPT !.pc = "running", !.turn = number, !.prompt = prompt, !.at = n]
  BY DEF Running
<1> HIDE DEF n, v
<1>3. v \in Workers /\ v.pc = "running"
  BY <1>1, <1>2, IdleType DEF Workers
<1> QED
  BY <1>3 DEF v

LEMMA StartKeeps ==
  ASSUME ChildInv, StartQueued \/ StartRetry
  PROVE  ChildInv'
<1>1. /\ log \in Seq(Records) /\ nextTurn \in Nat /\ execution \in Executions
      /\ queued \in Seq(Requests) /\ nextTurn' = nextTurn + 1
      /\ UNCHANGED <<execution, cancel, queued, steer, submitted>>
  BY DEF ChildInv, TypeOK, Executions, StartQueued, StartRetry
<1>2. /\ Operation.prompt \in Prompts /\ Operation.attempt \in Nat
      /\ Operation.akind \in {"none", "initial", "retry", "follow_up"}
  BY <1>1, Searches DEF Records
<1>3. CASE StartQueued
  <2> DEFINE w == Attempt(Running(nextTurn, Operation.prompt), Operation.attempt, Operation.akind)
  <2>1. Begin(w)
    BY <1>3 DEF StartQueued
  <2>2. w \in Workers /\ w.pc = "running"
    BY <1>1, <1>2, RunningType, AttemptType
  <2> HIDE DEF w
  <2> QED
    BY <1>1, <2>1, <2>2, BeginKeeps
<1>4. CASE StartRetry
  <2> DEFINE n == Operation.attempt + 1
  <2> DEFINE w == Attempt(Running(nextTurn, Operation.prompt), n, "retry")
  <2>1. Begin(w) /\ n \in Nat
    BY <1>2, <1>4 DEF StartRetry
  <2> HIDE DEF n
  <2>2. w \in Workers /\ w.pc = "running"
    BY <1>1, <1>2, <2>1, RunningType, AttemptType
  <2> HIDE DEF w
  <2> QED
    BY <1>1, <2>1, <2>2, BeginKeeps
<1> QED
  BY <1>3, <1>4

LEMMA OperationForTurnType ==
  ASSUME log \in Seq(Records), NEW number
  PROVE  OperationForTurn(number) \in Records
<1> DEFINE H == {i \in DOMAIN log : log[i].kind = "operation" /\ log[i].turn = number}
<1>1. OperationForTurn(number) = At(log, H) /\ H \subseteq DOMAIN log
  BY DEF OperationForTurn, LastWhere, At
<1>2. NoRecord \in Records
  BY DEF NoRecord, Records, Prompts
<1> HIDE DEF H
<1> QED
  BY <1>1, <1>2, LastAppended

LEMMA TurnResumeKeeps ==
  ASSUME ChildInv, TurnResume
  PROVE  ChildInv'
<1> DEFINE op == OperationForTurn(execution.turn)
<1> DEFINE v == [Running(execution.turn, execution.prompt) EXCEPT !.resumed = TRUE]
<1> DEFINE w == IF op = NoRecord THEN v ELSE Attempt(v, op.attempt, op.akind)
<1>1. /\ log \in Seq(Records) /\ nextTurn \in Nat /\ execution \in Executions
      /\ queued \in Seq(Requests)
      /\ execution' = [execution EXCEPT !.status = "running"]
      /\ Begin(w) /\ UNCHANGED <<cancel, queued, steer, nextTurn, submitted>>
  BY DEF ChildInv, TypeOK, Executions, TurnResume
<1>2. /\ execution' \in Executions /\ execution.turn \in Nat /\ execution.prompt \in Prompts
  BY <1>1 DEF Executions
<1>3. op.attempt \in Nat /\ op.akind \in {"none", "initial", "retry", "follow_up"}
  BY <1>1, OperationForTurnType DEF Records
<1>4. v \in Workers /\ v.pc = "running"
      /\ \A attempt \in Nat, akind \in {"none", "initial", "retry", "follow_up"} :
           LET u == Attempt(v, attempt, akind) IN u \in Workers /\ u.pc = "running"
  <2> DEFINE u == Running(execution.turn, execution.prompt)
  <2>1. u \in Workers /\ u.pc = "running"
    BY <1>1, <1>2, RunningType
  <2> HIDE DEF u
  <2>2. v \in Workers /\ v.pc = "running"
    BY <2>1 DEF Workers, u
  <2> HIDE DEF v
  <2> QED
    BY <2>2, AttemptType
<1> HIDE DEF op, v
<1>5. w \in Workers /\ w.pc = "running"
  <2>1. CASE op = NoRecord
    BY <1>4, <2>1
  <2>2. CASE op # NoRecord
    BY <1>3, <1>4, <2>2
  <2> QED
    BY <2>1, <2>2
<1> HIDE DEF w
<1> QED
  BY <1>1, <1>2, <1>5, BeginKeeps

LEMMA ContinueKeeps ==
  ASSUME ChildInv, ContinueWithSteer
  PROVE  ChildInv'
<1> DEFINE w == Running(nextTurn, Head(queued))
<1>1. /\ log \in Seq(Records) /\ nextTurn \in Nat /\ execution \in Executions
      /\ queued \in Seq(Requests) /\ queued # <<>> /\ queued' = Tail(queued)
      /\ nextTurn' = nextTurn + 1
      /\ Begin(w) /\ UNCHANGED <<execution, cancel, steer, submitted>>
  BY DEF ChildInv, TypeOK, Executions, ContinueWithSteer
<1>2. Head(queued) \in Prompts /\ queued' \in Seq(Requests)
  BY <1>1 DEF Prompts
<1>3. w \in Workers /\ w.pc = "running"
  BY <1>1, <1>2, RunningType
<1> HIDE DEF w
<1> QED
  BY <1>1, <1>2, <1>3, BeginKeeps

\* Steps that write nothing to the log and take no part in a steer.
LEMMA LogUntouched ==
  ASSUME ChildInv, TypeOK', OutcomeKnown', UNCHANGED <<log, submitted>>,
         steer' \in {steer, NoSteer}
  PROVE  ChildInv'
BY LogStays, ChildKept

LEMMA QuietStepsKeep ==
  ASSUME ChildInv,
         Interrupt \/ Checkpoint \/ ApplySteer \/ GoIdle \/ Crash \/ Restart
         \/ SettleExecution \/ \E outcome \in Outcomes : EndTurn(outcome)
  PROVE  ChildInv'
<1>1. TypeOK /\ OutcomeKnown
  BY DEF ChildInv
<1>2. Idle \in Workers /\ [Idle EXCEPT !.pc = "down"] \in Workers
      /\ Idle.pc = "idle" /\ [Idle EXCEPT !.pc = "down"].pc = "down"
      /\ NoSteer \in Steers /\ <<>> \in Seq(Requests)
  <2>1. [Idle EXCEPT !.pc = "down"] \in Workers /\ [Idle EXCEPT !.pc = "down"].pc = "down"
    BY IdleType DEF Workers
  <2>2. NoSteer \in Steers
    BY DEF NoSteer, Steers, Prompts
  <2>3. <<>> \in Seq(Requests)
    OBVIOUS
  <2> QED
    BY <2>1, <2>2, <2>3, IdleType
<1>3. CASE Interrupt
  <2>1. worker' \in Workers /\ worker'.pc = "running"
    BY <1>1, <1>3 DEF TypeOK, Interrupt, Workers
  <2>2. TypeOK' /\ OutcomeKnown'
    BY <1>1, <1>2, <1>3, <2>1 DEF TypeOK, Interrupt, OutcomeKnown
  <2> QED
    BY <1>3, <2>2, LogUntouched DEF Interrupt
<1>4. CASE Checkpoint
  <2>1. execution' \in [status: {"settled", "running", "waiting"}, turn: Nat, prompt: Prompts]
    BY <1>1, <1>4 DEF TypeOK, Checkpoint, FirstCheckpoint, Workers
  <2>2. TypeOK' /\ OutcomeKnown'
    BY <1>1, <1>4, <2>1 DEF TypeOK, Checkpoint, OutcomeKnown
  <2> QED
    BY <1>4, <2>2, LogUntouched DEF Checkpoint
<1>5. CASE ApplySteer
  <2>1. queued' \in Seq(Requests)
    BY <1>1, <1>5 DEF TypeOK, ApplySteer
  <2>2. TypeOK' /\ OutcomeKnown'
    BY <1>1, <1>5, <2>1 DEF TypeOK, ApplySteer, OutcomeKnown
  <2> QED
    BY <1>5, <2>2, LogUntouched DEF ApplySteer
<1>6. CASE GoIdle
  <2>1. TypeOK' /\ OutcomeKnown'
    BY <1>1, <1>2, <1>6 DEF TypeOK, GoIdle, OutcomeKnown
  <2> QED
    BY <1>6, <2>1, LogUntouched DEF GoIdle
<1>7. CASE Crash
  <2>1. TypeOK' /\ OutcomeKnown'
    BY <1>1, <1>2, <1>7, SpendKeepsType DEF TypeOK, Crash, OutcomeKnown
  <2> QED
    BY <1>7, <2>1, LogUntouched DEF Crash
<1>8. CASE Restart
  <2>1. nextTurn' \in Nat
    <3> DEFINE T == {i \in DOMAIN log : log[i].kind = "turn" /\ log[i].act # "resume"}
    <3>1. Len(log) \in Nat /\ T \subseteq 1..Len(log)
      BY <1>1 DEF TypeOK
    <3>2. IsFiniteSet(T)
      BY <3>1, FS_Interval, FS_Subset
    <3>3. Cardinality(T) \in Nat
      BY <3>2, FS_CardinalityType
    <3> HIDE DEF T
    <3>4. nextTurn' = 1 + Cardinality(T)
      BY <1>8 DEF Restart, T
    <3> QED
      BY <3>3, <3>4
  <2>2. execution' \in [status: {"settled", "running", "waiting"}, turn: Nat, prompt: Prompts]
    BY <1>1, <1>8 DEF TypeOK, Restart
  <2>3. TypeOK' /\ OutcomeKnown'
    BY <1>1, <1>2, <1>8, <2>1, <2>2 DEF TypeOK, Restart, OutcomeKnown
  <2> QED
    BY <1>8, <2>3, LogUntouched DEF Restart
<1>9. CASE SettleExecution
  <2>1. worker.outcome \in Outcomes /\ worker \in Workers
        /\ worker' = [worker EXCEPT !.pc = "record"]
    BY <1>1, <1>9 DEF TypeOK, OutcomeKnown, SettleExecution
  <2>2. worker' \in Workers /\ worker'.outcome \in Outcomes
    BY <2>1 DEF Workers
  <2>3. used' \in [DOMAIN Bounds -> Nat]
    BY <1>1, <1>9, SpendKeepsType DEF TypeOK, SettleExecution, Write
  <2>4. execution' \in [status: {"settled", "running", "waiting"}, turn: Nat, prompt: Prompts]
    <3> DEFINE done == /\ worker.saved
                       /\ \/ worker.outcome = "completed"
                          \/ worker.outcome = "cancelled" /\ ~RequiresResume
    <3>1. \/ execution' = execution
          \/ execution' = [execution EXCEPT !.status = IF done THEN "settled" ELSE "waiting"]
      BY <1>9 DEF SettleExecution, Write
    <3> HIDE DEF done
    <3> QED
      BY <1>1, <3>1 DEF TypeOK
  <2>5. TypeOK' /\ OutcomeKnown'
    BY <1>1, <1>9, <2>2, <2>3, <2>4 DEF TypeOK, OutcomeKnown, SettleExecution
  <2> QED
    BY <1>9, <2>5, LogUntouched DEF SettleExecution
<1>10. ASSUME NEW outcome \in Outcomes, EndTurn(outcome)
       PROVE  ChildInv'
  <2>1. /\ worker' = [worker EXCEPT !.pc = "persist", !.outcome = outcome]
        /\ cancel' = (cancel /\ outcome # "cancelled")
        /\ UNCHANGED <<log, execution, queued, steer, nextTurn, submitted, used>>
    BY <1>10 DEF EndTurn
  <2>2. worker' \in Workers /\ worker'.outcome = outcome
    BY <1>1, <2>1 DEF TypeOK, Workers
  <2>3. TypeOK' /\ OutcomeKnown'
    BY <1>1, <2>1, <2>2 DEF TypeOK, OutcomeKnown
  <2> QED
    BY <2>1, <2>3, LogUntouched
<1> QED
  BY <1>3, <1>4, <1>5, <1>6, <1>7, <1>8, <1>9, <1>10

\* The record of a Turn.
TurnOf(e, status, number, prompt, at, act) ==
  [e EXCEPT !.kind = "turn", !.status = status, !.turn = number, !.prompt = prompt, !.at = at,
            !.act = act]

LEMMA TurnRecord ==
  ASSUME NEW e \in Records, NEW status \in OperationStatuses, NEW number \in Nat,
         NEW prompt \in Prompts, NEW at \in Nat, NEW act \in {"resume", "none"}
  PROVE  LET f == TurnOf(e, status, number, prompt, at, act)
         IN f \in Records /\ f.kind = "turn"
<1> DEFINE f == [e EXCEPT !.kind = "turn", !.status = status, !.turn = number, !.prompt = prompt,
                          !.at = at, !.act = act]
<1> DEFINE Kinds == {"none", "operation", "request", "turn", "report"}
<1> DEFINE Statuses == {"none"} \cup OperationStatuses \cup RequestStatuses
<1> DEFINE Origins == {"none", "initial", "retry", "follow_up"}
<1> DEFINE Acts == {"none", "queue_follow_up", "pause", "cancel_active", "resume", "retry",
                    "start_failure", "update_queued", "cancel_queued", "steer"}
<1> DEFINE R == [kind : Kinds, status : Statuses, turn : Nat, attempt : Nat, akind : Origins,
                 req : Prompts, act : Acts, prompt : Prompts, at : Nat]
<1>1. R = Records
  BY DEF Records
<1>2. "turn" \in Kinds /\ status \in Statuses /\ act \in Acts
  OBVIOUS
<1> HIDE DEF Kinds, Statuses, Origins, Acts
<1>3. f \in R
  BY <1>1, <1>2
<1>4. f.kind = "turn"
  BY <1>1
<1>5. f \in Records
  BY <1>1, <1>3
<1> HIDE DEF f
<1>6. f \in Records /\ f.kind = "turn"
  BY <1>4, <1>5
<1> QED
  BY <1>6 DEF f, TurnOf

LEMMA PersistTurnKeeps ==
  ASSUME ChildInv, PersistTurn
  PROVE  ChildInv'
<1> DEFINE f == [NoRecord EXCEPT !.kind = "turn", !.status = worker.outcome, !.turn = worker.turn,
                                 !.prompt = worker.prompt, !.at = worker.at,
                                 !.act = IF worker.resumed THEN "resume" ELSE "none"]
<1>1. /\ log \in Seq(Records) /\ OperationsSound(log) /\ worker \in Workers
      /\ worker.outcome \in Outcomes /\ worker.pc = "persist"
      /\ UNCHANGED <<execution, cancel, queued, steer, nextTurn, submitted>>
  BY DEF ChildInv, TypeOK, OutcomeKnown, PersistTurn
<1>2. f \in Records /\ f.kind = "turn"
  <2> DEFINE act == IF worker.resumed THEN "resume" ELSE "none"
  <2>1. NoRecord \in Records
    BY DEF NoRecord, Records, Prompts
  <2>2. /\ worker.turn \in Nat /\ worker.prompt \in Prompts /\ worker.at \in Nat
        /\ worker.outcome \in OperationStatuses /\ act \in {"resume", "none"}
    BY <1>1 DEF Workers, Outcomes, OperationStatuses
  <2> HIDE DEF act
  <2>3. f = TurnOf(NoRecord, worker.outcome, worker.turn, worker.prompt, worker.at, act)
    BY DEF TurnOf, act
  <2> HIDE DEF f
  <2> QED
    BY <2>1, <2>2, <2>3, TurnRecord
<1> HIDE DEF f
<1>3. Quiet(f)
  BY <1>2 DEF Quiet
<1>4. /\ SameSteers(log \o <<f>>) /\ LastOperation(log \o <<f>>) = LastOperation(log)
      /\ LastFollowUp(log \o <<f>>) = LastFollowUp(log)
      /\ log \o <<f>> = Append(log, f)
  BY <1>1, <1>2, <1>3, RecordsAppended, OneAppended
<1>5. /\ used' \in [DOMAIN Bounds -> Nat] /\ log' \in {log, Append(log, f)}
      /\ worker' \in {[worker EXCEPT !.pc = "settle", !.saved = TRUE],
                      [worker EXCEPT !.pc = "settle"]}
  BY SpendKeepsType DEF ChildInv, TypeOK, PersistTurn, Write, f
<1>6. worker' \in Workers /\ worker'.outcome \in Outcomes
  BY <1>1, <1>5 DEF Workers
<1>7. SameSteers(log') /\ (FollowUpSound(log) => FollowUpSound(log'))
  BY <1>4, <1>5, LogStays DEF FollowUpSound
<1>8. TypeOK' /\ OutcomeKnown'
  BY <1>1, <1>5, <1>6, <1>7 DEF ChildInv, TypeOK, OutcomeKnown, SameSteers
<1> QED
  BY <1>1, <1>7, <1>8, ChildKept

LEMMA RecordOutcomeKeeps ==
  ASSUME ChildInv, RecordOutcome
  PROVE  ChildInv'
<1>1. /\ log \in Seq(Records) /\ OperationsSound(log) /\ worker \in Workers
      /\ worker.outcome \in Outcomes /\ worker' = [worker EXCEPT !.pc = "next"]
      /\ UNCHANGED <<execution, cancel, queued, steer, nextTurn, submitted>>
  BY DEF ChildInv, TypeOK, OutcomeKnown, RecordOutcome
<1>2. OutcomeStatus \in {"running"} \cup Outcomes
  BY <1>1 DEF OutcomeStatus, Outcomes
<1> DEFINE status == OutcomeStatus
<1> HIDE DEF status
<1>3. /\ SameSteers(log \o RecordOperation(status, worker))
      /\ FollowUpSound(log \o RecordOperation(status, worker))
  BY <1>1, <1>2, OperationRecorded DEF status
<1>4. /\ used' \in [DOMAIN Bounds -> Nat]
      /\ log' \in {log, log \o RecordOperation(status, worker)}
  BY SpendKeepsType DEF ChildInv, TypeOK, RecordOutcome, Write, status
<1>5. worker' \in Workers /\ worker'.outcome \in Outcomes
  BY <1>1 DEF Workers
<1>6. SameSteers(log') /\ (FollowUpSound(log) => FollowUpSound(log'))
  BY <1>3, <1>4, LogStays
<1>7. TypeOK' /\ OutcomeKnown'
  BY <1>1, <1>4, <1>5, <1>6 DEF ChildInv, TypeOK, OutcomeKnown, SameSteers
<1> QED
  BY <1>1, <1>6, <1>7, ChildKept

-----------------------------------------------------------------------------
(* The child and the tools of its parent. *)

LEMMA ControlRequestKeeps ==
  ASSUME ChildInv, ControlRequest
  PROVE  ChildInv'
<1>1. ASSUME NEW r \in Requests, NEW attempt \in Attempts, FollowUp(r, attempt)
      PROVE  ChildInv'
  BY <1>1, FollowUpKeeps
<1>2. ASSUME NEW r \in Requests,
             \/ Pause(r) \/ CancelActive(r) \/ ResumeQueued(r)
             \/ ResumeExecution(r) \/ Retry(r) \/ StartFailure(r)
             \/ UpdateQueued(r) \/ CancelQueued(r) \/ SteerReserve(r)
      PROVE  ChildInv'
  BY <1>2, PauseKeeps, CancelActiveKeeps, ResumeQueuedKeeps, ResumeExecutionKeeps, RetryKeeps,
     StartFailureKeeps, UpdateQueuedKeeps, CancelQueuedKeeps, SteerReserveKeeps
<1> QED
  BY <1>1, <1>2 DEF ControlRequest

LEMMA ChildStepKeeps ==
  ASSUME ChildInv, Child
  PROVE  ChildInv'
<1>1. CASE ControlRequest
  BY <1>1, ControlRequestKeeps
<1>2. CASE TurnRequest
  BY <1>2, StartKeeps, TurnResumeKeeps, QuietStepsKeep DEF TurnRequest
<1>3. CASE SteerHandler
  BY <1>3, SteerAcceptKeeps, SteerRejectKeeps, SteerOutcomeKeeps DEF SteerHandler
<1>4. CASE Turn
  BY <1>4, QuietStepsKeep DEF Turn
<1>5. CASE Settlement
  BY <1>5, PersistTurnKeeps, QuietStepsKeep, RecordOutcomeKeeps, ContinueKeeps DEF Settlement
<1>6. CASE Crash \/ Restart
  BY <1>6, QuietStepsKeep
<1> QED
  BY <1>1, <1>2, <1>3, <1>4, <1>5, <1>6 DEF Child

LEMMA ChildStays ==
  ASSUME ChildInv, UNCHANGED childVars
  PROVE  ChildInv'
<1>1. UNCHANGED <<log, execution, worker, cancel, queued, steer, nextTurn, submitted, used>>
  BY DEF childVars, vars
<1>2. TypeOK' /\ OutcomeKnown'
  BY <1>1 DEF ChildInv, TypeOK, OutcomeKnown
<1> QED
  BY <1>1, <1>2, LogUntouched

\* The record of a report, made from the operation of its attempt.
ReportOf(e, r, now) ==
  [e EXCEPT !.kind = "report", !.req = r, !.status = "none", !.act = "none", !.at = now]

LEMMA ReportType ==
  ASSUME NEW e \in Records, NEW r \in Prompts, NEW now \in Nat
  PROVE  Quiet(ReportOf(e, r, now)) /\ ReportOf(e, r, now).kind = "report"
<1> DEFINE f == [e EXCEPT !.kind = "report", !.req = r, !.status = "none", !.act = "none", !.at = now]
<1> DEFINE Kinds == {"none", "operation", "request", "turn", "report"}
<1> DEFINE Statuses == {"none"} \cup OperationStatuses \cup RequestStatuses
<1> DEFINE Origins == {"none", "initial", "retry", "follow_up"}
<1> DEFINE Acts == {"none", "queue_follow_up", "pause", "cancel_active", "resume", "retry",
                    "start_failure", "update_queued", "cancel_queued", "steer"}
<1> DEFINE R == [kind : Kinds, status : Statuses, turn : Nat, attempt : Nat, akind : Origins,
                 req : Prompts, act : Acts, prompt : Prompts, at : Nat]
<1>1. R = Records
  BY DEF Records
<1>2. "report" \in Kinds /\ "none" \in Statuses /\ "none" \in Acts
  OBVIOUS
<1> HIDE DEF Kinds, Statuses, Origins, Acts
<1>3. f \in R
  BY <1>1, <1>2
<1>4. f.kind = "report"
  BY <1>1
<1>5. f \in Records
  BY <1>1, <1>3
<1> HIDE DEF f
<1>6. Quiet(f) /\ f.kind = "report"
  BY <1>4, <1>5 DEF Quiet
<1> QED
  BY <1>6 DEF f, ReportOf

LEMMA RecordReportKeeps ==
  ASSUME ChildInv, NEW r \in Requests, RecordReport(r)
  PROVE  ChildInv'
<1> DEFINE e == OperationOf(reports[r])
<1> DEFINE f == ReportOf(e, r, Now)
<1>1. /\ log \in Seq(Records) /\ OperationsSound(log) /\ log' = Append(log, f)
      /\ UNCHANGED <<execution, worker, cancel, queued, steer, nextTurn, submitted, used>>
  BY DEF ChildInv, TypeOK, RecordReport, ReportOf
<1>2. e \in Records /\ Now \in Nat /\ r \in Prompts
  BY <1>1, OperationOfFacts DEF Now, Prompts
<1> HIDE DEF e
<1>3. Quiet(f) /\ f.kind = "report"
  BY <1>2, ReportType
<1> HIDE DEF f
<1>4. /\ SameSteers(log \o <<f>>) /\ LastOperation(log \o <<f>>) = LastOperation(log)
      /\ LastFollowUp(log \o <<f>>) = LastFollowUp(log)
      /\ log \o <<f>> = Append(log, f)
  BY <1>1, <1>3, RecordsAppended, OneAppended
<1>5. SameSteers(log') /\ (FollowUpSound(log) => FollowUpSound(log'))
  BY <1>1, <1>4 DEF FollowUpSound
<1>6. TypeOK' /\ OutcomeKnown'
  BY <1>1, <1>5 DEF ChildInv, TypeOK, OutcomeKnown, SameSteers
<1> QED
  BY <1>1, <1>5, <1>6, ChildKept

LEMMA GatewayKeeps ==
  ASSUME ChildInv, NEW r \in Requests, GatewayControls(r)
  PROVE  ChildInv'
<1>1. \/ Pause(r) \/ CancelActive(r) \/ CancelQueued(r) \/ Retry(r) \/ SteerReserve(r)
      \/ FollowUp(r, intent.attempt)
  BY DEF GatewayControls
<1> QED
  BY <1>1, PauseKeeps, CancelActiveKeeps, CancelQueuedKeeps, RetryKeeps, SteerReserveKeeps,
     FollowUpKeeps

LEMMA ToolStepKeeps ==
  ASSUME ChildInv, Tools
  PROVE  ChildInv'
<1>1. ASSUME NEW r \in Requests, TaskReport(r)
      PROVE  ChildInv'
  BY <1>1, ChildStays DEF TaskReport
<1>2. ASSUME NEW r \in Requests, RecordReport(r)
      PROVE  ChildInv'
  BY <1>2, RecordReportKeeps
<1>3. ASSUME NEW r \in Requests, GatewayControls(r)
      PROVE  ChildInv'
  BY <1>3, GatewayKeeps
<1>4. ASSUME NEW n, TaskRead(n)
      PROVE  ChildInv'
  BY <1>4, ChildStays DEF TaskRead
<1>5. ASSUME NEW n, TaskList(n)
      PROVE  ChildInv'
  BY <1>5, ChildStays DEF TaskList
<1>6. ASSUME NEW n, NEW attempt, TaskReadFails(n, attempt)
      PROVE  ChildInv'
  <2>1. /\ Spend({"events", "faults"})
        /\ UNCHANGED <<log, execution, worker, cancel, queued, steer, nextTurn, submitted>>
    BY <1>6 DEF TaskReadFails
  <2>2. TypeOK' /\ OutcomeKnown'
    BY <2>1, SpendKeepsType DEF ChildInv, TypeOK, OutcomeKnown
  <2> QED
    BY <2>1, <2>2, LogUntouched
<1>7. ASSUME NEW action, TaskControl(action)
      PROVE  ChildInv'
  BY <1>7, ChildStays DEF TaskControl
<1>8. ASSUME NEW k, Delegate(k) \/ RecordDelegated(k)
      PROVE  ChildInv'
  BY <1>8, ChildStays DEF Delegate, RecordDelegated
<1>9. CASE GatewayGivesUp \/ BeginWalk
  BY <1>9, ChildStays DEF GatewayGivesUp, BeginWalk
<1> QED
  BY <1>1, <1>2, <1>3, <1>4, <1>5, <1>6, <1>7, <1>8, <1>9 DEF Tools

LEMMA ChildStarts ==
  ASSUME ReportsInit
  PROVE  ChildInv
<1> DEFINE e == [NoRecord EXCEPT !.kind = "operation", !.status = "queued", !.attempt = 1,
                                 !.akind = "initial", !.at = 1]
<1>1. /\ log = <<e>>
      /\ execution = [status |-> "settled", turn |-> 0, prompt |-> Initial]
      /\ worker = Idle /\ cancel = FALSE /\ queued = <<>> /\ steer = NoSteer /\ nextTurn = 1
      /\ submitted = [r \in Requests |-> 0]
  BY DEF ReportsInit, ChildInit
<1>2. e \in Records /\ e.kind = "operation" /\ e.status = "queued"
  <2>1. NoRecord \in Records
    BY DEF NoRecord, Records, Prompts
  <2>2. /\ e.kind = "operation" /\ e.status = "queued"
    BY DEF NoRecord
  <2>3. e \in Records
    BY <2>1 DEF Records, OperationStatuses
  <2> QED
    BY <2>2, <2>3
<1> HIDE DEF e
<1>3. /\ log \in Seq(Records) /\ DOMAIN log = {1} /\ log[1] = e
  BY <1>1, <1>2
<1>4. used \in [DOMAIN Bounds -> Nat]
  <2>1. /\ MaxEvents - Controls \in Nat
        /\ DOMAIN Bounds = {"events", "turns", "faults"}
        /\ \A b \in DOMAIN Bounds : Bounds[b] \in Nat
    BY ConstantsAssumption, ReportsAssumption DEF Bounds
  <2>2. used = [b \in DOMAIN Bounds |-> CASE scenario = "list" -> Bounds[b]
                     [] scenario = "reports" /\ b = "events" -> MaxEvents - Controls
                     [] OTHER -> 0]
    BY DEF ReportsInit
  <2> QED
    BY <2>1, <2>2
<1>5. TypeOK
  <2>1. NoSteer \in Steers /\ Initial \in Prompts
    BY DEF NoSteer, Steers, Prompts
  <2>2. execution \in [status: {"settled", "running", "waiting"}, turn: Nat, prompt: Prompts]
    BY <1>1, <2>1
  <2>3. worker \in Workers /\ cancel \in BOOLEAN /\ steer \in Steers
    BY <1>1, <2>1, IdleType
  <2>4. queued \in Seq(Requests) /\ nextTurn \in Nat /\ submitted \in [Requests -> Nat]
    BY <1>1
  <2> QED
    BY <1>3, <1>4, <2>2, <2>3, <2>4 DEF TypeOK
<1>6. OutcomeKnown
  BY <1>1, IdleType DEF OutcomeKnown
<1>7. OperationsSound(log)
  BY <1>2, <1>3 DEF OperationsSound, OperationStatuses
<1>8. FollowUps(log) = {} /\ \A r : SteersOf(log, r) = {}
  BY <1>2, <1>3 DEF FollowUps, SteersOf
<1>9. SteerInv
  BY <1>1, <1>8 DEF SteerInv, SteerSound, Accepted, NoSteer
<1>10. FollowUpInv
  BY <1>8 DEF FollowUpInv, FollowUpSound, LastFollowUp, At, NoRecord
<1> QED
  BY <1>5, <1>6, <1>7, <1>9, <1>10 DEF ChildInv

-----------------------------------------------------------------------------
(* Theorems *)

\* The child's state has its shape whatever its parent, its clients and its worker
\* do, and however they are interrupted.
THEOREM ChildTypeCorrect == ReportsSpec => []TypeOK
<1>1. ReportsInit => ChildInv
  BY ChildStarts
<1>2. ChildInv /\ [Child \/ Tools]_allVars => ChildInv'
  BY ChildStepKeeps, ToolStepKeeps, ChildStays DEF allVars, childVars
<1>3. ChildInv => TypeOK
  BY DEF ChildInv
<1> QED
  BY <1>1, <1>2, <1>3, PTL DEF ReportsSpec

LEMMA ChildInvariant == ReportsSpec => []ChildInv
<1>1. ReportsInit => ChildInv
  BY ChildStarts
<1>2. ChildInv /\ [Child \/ Tools]_allVars => ChildInv'
  BY ChildStepKeeps, ToolStepKeeps, ChildStays DEF allVars, childVars
<1> QED
  BY <1>1, <1>2, PTL DEF ReportsSpec

\* turn/steer writes a reservation before it submits an instruction and the outcome
\* after: no request id is submitted twice, an id the log calls accepted was
\* submitted, and one whose last record is a refusal was not, whichever write is
\* lost and wherever the child crashes.
THEOREM SteersAreRecordedTruly == ReportsSpec => []SteerLogTruthful
<1>1. ASSUME ChildInv
      PROVE  SteerLogTruthful
  <2>1. SUFFICES ASSUME NEW r \in Requests
                 PROVE  /\ submitted[r] <= 1
                        /\ (\E i \in SteerRecords(r) : log[i].status = "accepted") => submitted[r] = 1
                        /\ submitted[r] = 1
                           => log[Max(SteerRecords(r))].status \in {"pending", "accepted"}
    BY DEF SteerLogTruthful
  <2>2. SteerSound(r) /\ SteerRecords(r) = SteersOf(log, r)
    BY <1>1 DEF ChildInv, SteerInv, SteerRecords, SteersOf
  <2>3. submitted[r] = 1 => SteersOf(log, r) # {} /\ LastSteer(log, r) = log[Max(SteersOf(log, r))]
    BY <2>2 DEF SteerSound, LastSteer, At, NoRecord
  <2> QED
    BY <2>2, <2>3 DEF SteerSound, Accepted
<1> QED
  BY <1>1, ChildInvariant, PTL

\* record_operation and the controls settle a pending follow-up whenever they settle
\* the operation: none is left behind by a completed or cancelled one, and one that
\* waits for a failed attempt is blocked, as long as clients name the attempt that is
\* current.
THEOREM NoFollowUpIsStranded ==
  ASSUME ~StaleAttempts
  PROVE  ReportsSpec => []FollowUpNotStranded
<1>1. ASSUME ChildInv
      PROVE  FollowUpNotStranded
  <2>1. log \in Seq(Records) /\ FollowUpSound(log)
    BY <1>1 DEF ChildInv, TypeOK, FollowUpInv
  <2> QED
    BY <2>1, Searches DEF FollowUpNotStranded, FollowUpSound
<1> QED
  BY <1>1, ChildInvariant, PTL

-----------------------------------------------------------------------------
(* The end of a Turn. *)

Activity == {"running", "pausing", "cancelling"}
Ending == {"running", "persist", "settle", "record"}

\* reconcile_with_settled_turn, of any two records.
Projection(operation, settled) ==
  LET sameTurn == settled.turn # 0 /\ operation.turn = settled.turn
      queuedTurn == /\ operation.status = "queued" /\ operation.turn = 0
                    /\ settled # NoRecord /\ operation.prompt = settled.prompt
                    /\ operation.at <= settled.at
  IN IF \/ operation.status \notin {"queued", "running", "pausing", "cancelling"}
        \/ ~sameTurn /\ ~queuedTurn
     THEN operation.status
     ELSE IF settled.status = "cancelled" /\ operation.status = "pausing"
          THEN "paused" ELSE settled.status

\* Numbers of Turns start from one, and a Turn began before the log is what it is.
Numbers ==
  /\ nextTurn # 0
  /\ execution.status # "settled" => execution.turn # 0
  /\ worker.pc \in Ending => worker.turn # 0
  /\ worker.at <= Len(log)
  /\ worker.recorded => worker.owned

PauseKnown == Operation.status = "pausing" => Operation.act = "pause"

TurnsEnded == SettledTurn.status \in {"none"} \cup Outcomes

\* Once the start of an attempt is recorded, its operation is that of the Turn
\* and active until the worker records the outcome, whatever is requested.
Claimed ==
  worker.pc \in Ending /\ worker.recorded =>
    /\ Operation.turn = worker.turn /\ Operation.attempt = worker.attempt
    /\ Operation.status \in Activity

\* If the start could not be recorded, an operation as old as the Turn is the
\* one the Turn was started for.
StillQueued ==
  /\ worker.pc \in Ending /\ worker.owned /\ ~worker.recorded /\ ~worker.resumed
  /\ Operation.status = "queued" /\ Operation.at <= worker.at
  => Operation.turn = 0 /\ Operation.prompt = worker.prompt

\* A Turn is cancelled at a boundary, which is after its first checkpoint.
Checkpointed ==
  worker.pc \in {"persist", "settle"} /\ worker.outcome = "cancelled" =>
    execution.status = "running"

\* The Turn the worker has saved is the last in the log.
TurnSaved ==
  /\ worker.pc \in {"running", "persist"} => ~worker.saved
  /\ worker.pc \in {"settle", "record"} /\ worker.saved =>
       /\ SettledTurn # NoRecord /\ SettledTurn.status = worker.outcome
       /\ SettledTurn.turn = worker.turn
       /\ SettledTurn.prompt = worker.prompt /\ SettledTurn.at = worker.at

\* What was not written has failed.
FailuresCounted ==
  used.faults = 0 =>
    /\ worker.pc \in Ending /\ worker.owned => worker.recorded
    /\ worker.pc \in {"settle", "record"} => worker.saved

EndInv ==
  /\ Numbers /\ PauseKnown /\ TurnsEnded /\ Claimed /\ StillQueued
  /\ Checkpointed /\ TurnSaved /\ FailuresCounted
  /\ PausedResumable /\ SettlementVisible

-----------------------------------------------------------------------------
LEMMA Projected ==
  /\ ProjectedStatus = Projection(Operation, SettledTurn)
  /\ SettledTurn = LastTurn(log)
BY DEF ProjectedStatus, Projection, SettledTurn, LastWhere, LastTurn, At, TurnRecords

LEMMA SpendCounts ==
  ASSUME NEW bounds, Spend(bounds), used \in [DOMAIN Bounds -> Nat]
  PROVE  /\ used'.faults \in Nat /\ used.faults \in Nat
         /\ used'.faults = IF "faults" \in bounds THEN used.faults + 1 ELSE used.faults
<1>1. "faults" \in DOMAIN Bounds
  BY DEF Bounds
<1>2. used' = [b \in DOMAIN used |-> IF b \in bounds THEN used[b] + 1 ELSE used[b]]
  BY DEF Spend
<1> QED
  BY <1>1, <1>2

\* What a request may make of the operation.
Moved(f) ==
  /\ f.at = Now
  /\ f.status = "pausing" => f.act = "pause"
  /\ Operation.turn # 0 /\ Operation.status \in Activity =>
       /\ f.turn = Operation.turn /\ f.attempt = Operation.attempt
       /\ f.status \in Activity

\* A step that is none of the worker's.
Bystander ==
  /\ UNCHANGED <<execution, worker, nextTurn>>
  /\ used'.faults \in Nat /\ used.faults <= used'.faults
  /\ Longer(log')
  /\ LastOperation(log') = LastOperation(log) \/ Moved(LastOperation(log'))
  /\ worker.pc \in {"idle", "running"} \/ log' = log

LEMMA BystanderKeeps ==
  ASSUME ChildInv, ChildInv', EndInv, Bystander
  PROVE  EndInv'
<1>1. /\ log \in Seq(Records) /\ log' \in Seq(Records) /\ worker \in Workers
      /\ used.faults \in Nat
  <2>1. "faults" \in DOMAIN Bounds
    BY DEF Bounds
  <2> QED
    BY <2>1 DEF ChildInv, TypeOK
<1>2. /\ Operation = LastOperation(log) /\ Operation' = LastOperation(log')
      /\ SettledTurn = LastTurn(log) /\ SettledTurn' = LastTurn(log')
  BY DEF Operation, SettledTurn, LastWhere, LastOperation, LastTurn, At, Operations, TurnRecords
<1>3. SettledTurn' = SettledTurn /\ Len(log) <= Len(log')
  BY <1>2 DEF Bystander, Longer
<1>4. /\ UNCHANGED <<execution, worker, nextTurn>>
      /\ Operation' = Operation \/ Moved(Operation')
      /\ worker.pc \in {"idle", "running"} \/ log' = log
      /\ used'.faults \in Nat /\ used.faults <= used'.faults
  BY <1>2 DEF Bystander
<1>5. Len(log) \in Nat /\ worker.at \in Nat /\ Now > worker.at
  BY <1>1 DEF Workers, Now, EndInv, Numbers
<1>6. Numbers' /\ TurnsEnded' /\ Checkpointed' /\ TurnSaved' /\ FailuresCounted'
  <2>1. Numbers'
    BY <1>3, <1>4, <1>1 DEF EndInv, Numbers, Workers
  <2>2. TurnsEnded' /\ Checkpointed' /\ TurnSaved'
    BY <1>3, <1>4 DEF EndInv, TurnsEnded, Checkpointed, TurnSaved
  <2>3. FailuresCounted'
    BY <1>1, <1>4 DEF EndInv, FailuresCounted
  <2> QED
    BY <2>1, <2>2, <2>3
<1>7. PauseKnown'
  BY <1>4 DEF EndInv, PauseKnown, Moved
<1>8. Claimed'
  BY <1>4 DEF EndInv, Claimed, Moved, Numbers
<1>9. StillQueued'
  <2>1. CASE Operation' = Operation
    BY <1>4, <2>1 DEF EndInv, StillQueued
  <2>2. CASE Moved(Operation')
    <3>1. Operation'.at = Now
      BY <2>2 DEF Moved
    <3>2. ~ (Operation'.at <= worker'.at)
      BY <1>1, <1>4, <1>5, <3>1 DEF Now
    <3> QED
      BY <3>2 DEF StillQueued
  <2> QED
    BY <1>4, <2>1, <2>2
<1>10. PausedResumable' /\ SettlementVisible'
  <2>1. CASE log' = log
    <3>1. PausedResumable'
      BY <1>4, <2>1 DEF EndInv, PausedResumable, Recorded, OutcomeStatus, Operation, LastWhere, Now
    <3>2. ProjectedStatus' = ProjectedStatus
      BY <2>1 DEF ProjectedStatus, Operation, SettledTurn, LastWhere
    <3>3. SettlementVisible'
      BY <1>1, <1>4, <3>2 DEF EndInv, SettlementVisible
    <3> QED
      BY <3>1, <3>3
  <2>2. CASE worker.pc \in {"idle", "running"}
    BY <1>4, <2>2 DEF PausedResumable, SettlementVisible
  <2> QED
    BY <1>4, <2>1, <2>2
<1> QED
  BY <1>6, <1>7, <1>8, <1>9, <1>10 DEF EndInv

-----------------------------------------------------------------------------
(* Requests stand by. *)

LEMMA ControlStands ==
  ASSUME ChildInv, NEW records, Control(records), Admitted, Longer(log \o records),
         \/ LastOperation(log \o records) = LastOperation(log)
         \/ Moved(LastOperation(log \o records))
  PROVE  Bystander
<1>1. /\ log' = log \o records /\ Spend({"events"})
      /\ UNCHANGED <<execution, worker, nextTurn>> /\ used \in [DOMAIN Bounds -> Nat]
      /\ worker.pc \in {"idle", "running"}
  BY DEF Control, ChildInv, TypeOK, Admitted, Mutable
<1>2. used'.faults \in Nat /\ used.faults <= used'.faults
  BY <1>1, SpendCounts
<1> QED
  BY <1>1, <1>2 DEF Bystander

LEMMA OperationMoved ==
  ASSUME ChildInv, NEW f \in Records, f.kind = "operation", f.status \in OperationStatuses,
         Moved(f), Control(<<f>>), Admitted
  PROVE  Bystander
<1>1. log \in Seq(Records) /\ OperationsSound(log) /\ Quiet(f)
  BY DEF ChildInv, TypeOK, Quiet
<1>2. Longer(log \o <<f>>) /\ LastOperation(log \o <<f>>) = f
  BY <1>1, NoTurnAppended, RecordsAppended
<1> QED
  BY <1>2, ControlStands

LEMMA PauseStands ==
  ASSUME ChildInv, NEW r \in Requests, Pause(r)
  PROVE  Bystander
<1> DEFINE f == ByRequest(Operation, r, "pause", "pausing")
<1>1. log \in Seq(Records) /\ Operation.status # "none" /\ Control(<<f>>) /\ Admitted
  BY DEF ChildInv, TypeOK, Pause
<1>2. /\ f \in Records /\ f.kind = "operation" /\ f.status = "pausing" /\ f.act = "pause"
      /\ f.turn = Operation.turn /\ f.attempt = Operation.attempt /\ f.at = Now
  BY <1>1, ByRequestFacts DEF OperationStatuses
<1> HIDE DEF f
<1>3. Moved(f)
  BY <1>2 DEF Moved, Activity
<1> QED
  BY <1>1, <1>2, <1>3, OperationMoved DEF OperationStatuses

LEMMA CancelActiveStands ==
  ASSUME ChildInv, NEW r \in Requests, CancelActive(r)
  PROVE  Bystander
<1> DEFINE f == ByRequest(Operation, r, "cancel_active", "cancelling")
<1>1. /\ log \in Seq(Records) /\ OperationsSound(log) /\ Operation.status # "none"
      /\ Control(<<f>> \o CancelFollowUp) /\ Admitted
  BY DEF ChildInv, TypeOK, CancelActive
<1>2. /\ f \in Records /\ f.kind = "operation" /\ f.status = "cancelling"
      /\ f.turn = Operation.turn /\ f.attempt = Operation.attempt /\ f.at = Now
  BY <1>1, ByRequestFacts DEF OperationStatuses
<1> HIDE DEF f
<1>3. Moved(f) /\ Quiet(f)
  BY <1>2 DEF Moved, Activity, Quiet, OperationStatuses
<1>4. CASE CancelFollowUp = <<>>
  <2>1. <<f>> \o CancelFollowUp = <<f>>
    BY <1>4
  <2> QED
    BY <1>1, <1>2, <1>3, <2>1, OperationMoved DEF OperationStatuses
<1>5. ASSUME NEW q, CancelFollowUp = <<q>>, Quiet(q), q.kind = "request"
      PROVE  Bystander
  <2>1. q \in Records
    BY <1>5 DEF Quiet
  <2>2. log \o (<<f>> \o CancelFollowUp) = log \o <<f, q>>
    BY <1>1, <1>2, <1>5, <2>1, Joined
  <2>3. Longer(log \o <<f, q>>)
    BY <1>1, <1>2, <1>5, <2>1, NoTurnAppended
  <2>4. LastOperation(log \o <<f, q>>) = f
    BY <1>1, <1>2, <1>3, <1>5, RecordsAppended
  <2> QED
    BY <1>1, <1>3, <2>2, <2>3, <2>4, ControlStands
<1> QED
  BY <1>4, <1>5, FollowUpCancelled

LEMMA CancelQueuedStands ==
  ASSUME ChildInv, NEW r \in Requests, CancelQueued(r)
  PROVE  Bystander
<1> DEFINE f == ByRequest(Operation, r, "cancel_queued", "cancelled")
<1>1. /\ log \in Seq(Records) /\ OperationsSound(log)
      /\ Operation.status \in {"queued", "paused"}
      /\ Control(CancelFollowUp \o <<f>>) /\ Admitted
  BY DEF ChildInv, TypeOK, CancelQueued
<1>2. f \in Records /\ f.kind = "operation" /\ f.status = "cancelled" /\ f.at = Now
  BY <1>1, ByRequestFacts DEF OperationStatuses
<1> HIDE DEF f
<1>3. Moved(f) /\ Quiet(f)
  BY <1>1, <1>2 DEF Moved, Activity, Quiet, OperationStatuses
<1>4. CASE CancelFollowUp = <<>>
  <2>1. CancelFollowUp \o <<f>> = <<f>>
    BY <1>4
  <2> QED
    BY <1>1, <1>2, <1>3, <2>1, OperationMoved DEF OperationStatuses
<1>5. ASSUME NEW q, CancelFollowUp = <<q>>, Quiet(q), q.kind = "request"
      PROVE  Bystander
  <2>1. q \in Records
    BY <1>5 DEF Quiet
  <2>2. log \o (CancelFollowUp \o <<f>>) = log \o <<q, f>>
    BY <1>1, <1>2, <1>5, <2>1, Joined
  <2>3. Longer(log \o <<q, f>>)
    BY <1>1, <1>2, <1>5, <2>1, NoTurnAppended
  <2>4. LastOperation(log \o <<q, f>>) = f
    BY <1>1, <1>2, <1>3, <1>5, RecordsAppended
  <2> QED
    BY <1>1, <1>3, <2>2, <2>3, <2>4, ControlStands
<1> QED
  BY <1>4, <1>5, FollowUpCancelled

LEMMA ResumeQueuedStands ==
  ASSUME ChildInv, NEW r \in Requests, ResumeQueued(r)
  PROVE  Bystander
<1> DEFINE f == ByRequest(Operation, r, "resume", "queued")
<1> DEFINE g == [f EXCEPT !.turn = 0]
<1>1. log \in Seq(Records) /\ Operation.status = "paused" /\ Control(<<g>>) /\ Admitted
  BY DEF ChildInv, TypeOK, ResumeQueued
<1>2. f \in Records /\ f.kind = "operation" /\ f.status = "queued" /\ f.at = Now
  BY <1>1, ByRequestFacts DEF OperationStatuses
<1> HIDE DEF f
<1>3. g \in Records /\ g.kind = "operation" /\ g.status = "queued" /\ g.at = Now
  BY <1>2 DEF Records
<1> HIDE DEF g
<1>4. Moved(g)
  BY <1>1, <1>3 DEF Moved, Activity
<1> QED
  BY <1>1, <1>3, <1>4, OperationMoved DEF OperationStatuses

LEMMA ResumeExecutionStands ==
  ASSUME ChildInv, NEW r \in Requests, ResumeExecution(r)
  PROVE  Bystander
<1> DEFINE f == ByRequest(Operation, r, "resume", "running")
<1> DEFINE n == execution.turn
<1> DEFINE g == [f EXCEPT !.turn = n]
<1>1. /\ log \in Seq(Records) /\ Operation.status # "none" /\ n \in Nat
      /\ Operation.turn \in {0, n} /\ Control(<<g>>) /\ Admitted
  BY DEF ChildInv, TypeOK, ResumeExecution
<1>2. /\ f \in Records /\ f.kind = "operation" /\ f.status = "running" /\ f.at = Now
      /\ f.attempt = Operation.attempt
  BY <1>1, ByRequestFacts DEF OperationStatuses
<1> HIDE DEF f, n
<1>3. /\ g \in Records /\ g.kind = "operation" /\ g.status = "running" /\ g.at = Now
      /\ g.attempt = Operation.attempt /\ g.turn = n
  BY <1>1, <1>2 DEF Records
<1> HIDE DEF g
<1>4. Moved(g)
  BY <1>1, <1>3 DEF Moved, Activity
<1> QED
  BY <1>1, <1>3, <1>4, OperationMoved DEF OperationStatuses

LEMMA RetryStands ==
  ASSUME ChildInv, NEW r \in Requests, Retry(r)
  PROVE  Bystander
<1> DEFINE f == ByRequest(Operation, r, "retry", "queued")
<1> DEFINE n == f.attempt + 1
<1> DEFINE g == [f EXCEPT !.attempt = n, !.turn = 0, !.akind = "retry"]
<1>1. /\ log \in Seq(Records) /\ Operation.status \in {"failed", "cancelled"}
      /\ Control(<<g>>) /\ Admitted
  BY DEF ChildInv, TypeOK, Retry
<1>2. f \in Records /\ f.kind = "operation" /\ f.status = "queued" /\ f.at = Now
  BY <1>1, ByRequestFacts DEF OperationStatuses
<1> HIDE DEF f
<1>3. n \in Nat
  BY <1>2 DEF Records
<1> HIDE DEF n
<1>4. g \in Records /\ g.kind = "operation" /\ g.status = "queued" /\ g.at = Now
  BY <1>2, <1>3 DEF Records
<1> HIDE DEF g
<1>5. Moved(g)
  BY <1>1, <1>4 DEF Moved, Activity
<1> QED
  BY <1>1, <1>4, <1>5, OperationMoved DEF OperationStatuses

LEMMA StartFailureStands ==
  ASSUME ChildInv, NEW r \in Requests, StartFailure(r)
  PROVE  Bystander
<1> DEFINE f == ByRequest(Operation, r, "start_failure", "queued")
<1>1. log \in Seq(Records) /\ Operation.status = "queued" /\ Control(<<f>>) /\ Admitted
  BY DEF ChildInv, TypeOK, StartFailure
<1>2. f \in Records /\ f.kind = "operation" /\ f.status = "queued" /\ f.at = Now
  BY <1>1, ByRequestFacts DEF OperationStatuses
<1> HIDE DEF f
<1>3. Moved(f)
  BY <1>1, <1>2 DEF Moved, Activity
<1> QED
  BY <1>1, <1>2, <1>3, OperationMoved DEF OperationStatuses

LEMMA UpdateQueuedStands ==
  ASSUME ChildInv, NEW r \in Requests, UpdateQueued(r)
  PROVE  Bystander
<1> DEFINE f == ByRequest(Operation, r, "update_queued", "queued")
<1> DEFINE g == [f EXCEPT !.prompt = r]
<1>1. log \in Seq(Records) /\ Operation.status = "queued" /\ Control(<<g>>) /\ Admitted
  BY DEF ChildInv, TypeOK, UpdateQueued
<1>2. f \in Records /\ f.kind = "operation" /\ f.status = "queued" /\ f.at = Now
  BY <1>1, ByRequestFacts DEF OperationStatuses
<1> HIDE DEF f
<1>3. g \in Records /\ g.kind = "operation" /\ g.status = "queued" /\ g.at = Now
  BY <1>2 DEF Records, Prompts
<1> HIDE DEF g
<1>4. Moved(g)
  BY <1>1, <1>3 DEF Moved, Activity
<1> QED
  BY <1>1, <1>3, <1>4, OperationMoved DEF OperationStatuses

LEMMA FollowUpStands ==
  ASSUME ChildInv, ~StaleAttempts, NEW r \in Requests, NEW attempt, FollowUp(r, attempt)
  PROVE  Bystander
<1> DEFINE op == OperationOf(attempt)
<1> DEFINE status == IF op.status \in {"running", "paused"} THEN "accepted"
                     ELSE IF op.status = "failed" THEN "blocked" ELSE "started"
<1> DEFINE request == [op EXCEPT !.kind = "request", !.act = "queue_follow_up", !.req = r,
                                 !.prompt = r, !.turn = 0, !.at = Now, !.status = status]
<1> DEFINE att == FollowUpAttempt(op, request)
<1>1. /\ log \in Seq(Records) /\ OperationsSound(log) /\ Now \in Nat /\ r \in Prompts
      /\ attempt = Operation.attempt /\ Admitted
      /\ op.status \in {"running", "paused", "completed", "failed"}
      /\ Control(<<request>> \o IF op.status = "completed" THEN <<att>> ELSE <<>>)
  BY DEF ChildInv, TypeOK, Now, Prompts, FollowUp
<1>2. op \in Records /\ op.kind = "operation" /\ op = Operation
  BY <1>1, OperationOfFacts
<1> HIDE DEF op
<1>3. status \in RequestStatuses
  BY <1>1 DEF RequestStatuses
<1> HIDE DEF status
<1>4. request \in Records /\ request.kind = "request"
  <2>1. request = RequestBy(op, r, "queue_follow_up", 0, Now, status)
    BY DEF RequestBy
  <2> HIDE DEF request
  <2> QED
    BY <1>1, <1>2, <1>3, <2>1, RequestOf, SMTT(30)
<1>5. request.act = "queue_follow_up"
  BY <1>2 DEF Records
<1> HIDE DEF request
<1>6. Quiet(request)
  BY <1>4, <1>5 DEF Quiet
<1>7. CASE op.status = "completed"
  <2>1. att \in Records /\ att.kind = "operation" /\ att.status = "queued"
    BY <1>1, <1>2, <1>4, Rewritten
  <2>2. att.at = Now
    BY <1>1, <1>2 DEF FollowUpAttempt, Records
  <2> HIDE DEF att
  <2>3. Quiet(att) /\ Moved(att)
    BY <1>2, <1>7, <2>1, <2>2 DEF Quiet, OperationStatuses, Moved, Activity
  <2>4. LastOperation(log \o <<request, att>>) = att
    BY <1>1, <1>6, <2>1, <2>3, RecordsAppended
  <2>5. Longer(log \o <<request, att>>)
    BY <1>1, <1>4, <2>1, NoTurnAppended
  <2>6. log \o (<<request>> \o <<att>>) = log \o <<request, att>>
    BY <1>1, <1>4, <2>1, Joined
  <2>7. Control(<<request>> \o <<att>>)
    BY <1>1, <1>7
  <2> QED
    BY <1>1, <2>3, <2>4, <2>5, <2>6, <2>7, ControlStands
<1>8. CASE op.status # "completed"
  <2>1. <<request>> \o <<>> = <<request>>
    OBVIOUS
  <2>2. Control(<<request>>)
    BY <1>1, <1>8, <2>1
  <2>3. LastOperation(log \o <<request>>) = LastOperation(log) /\ Longer(log \o <<request>>)
    BY <1>1, <1>4, <1>6, RecordsAppended, NoTurnAppended
  <2> QED
    BY <1>1, <2>2, <2>3, ControlStands
<1> QED
  BY <1>7, <1>8

LEMMA SteerReserveStands ==
  ASSUME ChildInv, NEW r \in Requests, SteerReserve(r)
  PROVE  Bystander
<1> DEFINE f == SteerRecord(r, Operation.turn, "pending")
<1>1. /\ log \in Seq(Records) /\ log' = Append(log, f) /\ Spend({"events"})
      /\ OperationsSound(log) /\ used \in [DOMAIN Bounds -> Nat]
      /\ UNCHANGED <<execution, worker, nextTurn>> /\ worker.pc \in {"idle", "running"}
  BY DEF ChildInv, TypeOK, SteerReserve, Admitted, Mutable
<1>2. Operation.turn \in Nat
  BY <1>1, Searches DEF Records
<1>3. f \in Records /\ f.kind = "request" /\ f.act = "steer" /\ f.req = r /\ f.status = "pending"
  BY <1>1, <1>2, SteerRecordFacts DEF RequestStatuses
<1> HIDE DEF f
<1>4. LastOperation(log') = LastOperation(log) /\ Longer(log')
  BY <1>1, <1>3, SteerAppended, NoTurnAppended
<1>5. used'.faults \in Nat /\ used.faults <= used'.faults
  BY <1>1, SpendCounts
<1> QED
  BY <1>1, <1>4, <1>5 DEF Bystander

\* Steps that write nothing to the log.
LEMMA WritesNothing ==
  ASSUME ChildInv, UNCHANGED <<log, execution, worker, nextTurn>>,
         used' = used \/ \E bounds : Spend(bounds)
  PROVE  Bystander
<1>1. log \in Seq(Records) /\ used \in [DOMAIN Bounds -> Nat] /\ "faults" \in DOMAIN Bounds
  BY DEF ChildInv, TypeOK, Bounds
<1>2. Longer(log)
  BY <1>1 DEF Longer
<1>3. used'.faults \in Nat /\ used.faults <= used'.faults
  BY <1>1, SpendCounts
<1> QED
  BY <1>2, <1>3 DEF Bystander

LEMMA SteerHandlerStands ==
  ASSUME ChildInv, SteerHandler
  PROVE  Bystander
<1>1. CASE SteerAccept \/ SteerReject
  <2>1. used' = used \/ Spend({"events", "faults"})
    BY <1>1 DEF SteerAccept, SteerReject, Write
  <2>2. UNCHANGED <<log, execution, worker, nextTurn>>
    BY <1>1 DEF SteerAccept, SteerReject
  <2> QED
    BY <2>1, <2>2, WritesNothing
<1>2. CASE SteerOutcome
  <2> DEFINE r == steer.req
  <2> DEFINE status == IF steer.pc = "accepted" THEN "accepted" ELSE "not_accepted"
  <2> DEFINE f == SteerRecord(r, steer.turn, status)
  <2>1. /\ r \in Requests /\ UNCHANGED <<execution, worker, nextTurn>>
        /\ worker.pc \in {"idle", "running"}
        /\ log \in Seq(Records) /\ OperationsSound(log)
        /\ steer.turn \in Nat /\ used \in [DOMAIN Bounds -> Nat]
    BY <1>2 DEF ChildInv, TypeOK, SteerInv, SteerOutcome, Steers
  <2>2. \/ log' = log /\ (used' = used \/ Spend({"events", "faults"}))
        \/ log' = Append(log, f) /\ used' = used
    BY <1>2 DEF SteerOutcome, Write
  <2>3. CASE log' = log /\ (used' = used \/ Spend({"events", "faults"}))
    BY <2>1, <2>3, WritesNothing
  <2>4. CASE log' = Append(log, f) /\ used' = used
    <3>1. status \in RequestStatuses
      BY DEF RequestStatuses
    <3>2. f \in Records /\ f.kind = "request" /\ f.act = "steer" /\ f.req = r
      <4> HIDE DEF status
      <4> QED
        BY <2>1, <3>1, SteerRecordFacts
    <3> HIDE DEF f
    <3>3. LastOperation(log') = LastOperation(log) /\ Longer(log')
      BY <2>1, <2>4, <3>2, SteerAppended, NoTurnAppended
    <3>4. "faults" \in DOMAIN Bounds
      BY DEF Bounds
    <3> QED
      BY <2>1, <2>4, <3>3, <3>4 DEF Bystander
  <2> QED
    BY <2>2, <2>3, <2>4
<1> QED
  BY <1>1, <1>2 DEF SteerHandler

LEMMA RecordReportStands ==
  ASSUME ChildInv, NEW r \in Requests, RecordReport(r)
  PROVE  Bystander
<1> DEFINE e == OperationOf(reports[r])
<1> DEFINE f == ReportOf(e, r, Now)
<1>1. /\ log \in Seq(Records) /\ OperationsSound(log) /\ log' = Append(log, f)
      /\ UNCHANGED <<execution, worker, nextTurn, used>> /\ worker.pc \in {"idle", "running"}
      /\ used.faults \in Nat
  <2>1. "faults" \in DOMAIN Bounds
    BY DEF Bounds
  <2> QED
    BY <2>1 DEF ChildInv, TypeOK, RecordReport, ReportOf, Mutable
<1>2. e \in Records /\ Now \in Nat /\ r \in Prompts
  BY <1>1, OperationOfFacts DEF Now, Prompts
<1> HIDE DEF e
<1>3. Quiet(f) /\ f.kind = "report" /\ f \in Records
  BY <1>2, ReportType DEF Quiet
<1> HIDE DEF f
<1>4. LastOperation(log') = LastOperation(log) /\ Longer(log')
  BY <1>1, <1>3, OneAppended, NoTurnAppended
<1> QED
  BY <1>1, <1>4 DEF Bystander

LEMMA ControlRequestStands ==
  ASSUME ChildInv, ~StaleAttempts, ControlRequest
  PROVE  Bystander
<1>1. ASSUME NEW r \in Requests, NEW attempt \in Attempts, FollowUp(r, attempt)
      PROVE  Bystander
  BY <1>1, FollowUpStands
<1>2. ASSUME NEW r \in Requests,
             \/ Pause(r) \/ CancelActive(r) \/ ResumeQueued(r)
             \/ ResumeExecution(r) \/ Retry(r) \/ StartFailure(r)
             \/ UpdateQueued(r) \/ CancelQueued(r) \/ SteerReserve(r)
      PROVE  Bystander
  BY <1>2, PauseStands, CancelActiveStands, ResumeQueuedStands, ResumeExecutionStands,
     RetryStands, StartFailureStands, UpdateQueuedStands, CancelQueuedStands,
     SteerReserveStands
<1> QED
  BY <1>1, <1>2 DEF ControlRequest

LEMMA ToolsStand ==
  ASSUME ChildInv, ~StaleAttempts, Tools
  PROVE  Bystander
<1>1. ASSUME UNCHANGED childVars
      PROVE  Bystander
  BY <1>1, WritesNothing DEF childVars, vars
<1>2. ASSUME NEW r \in Requests, TaskReport(r) \/ RecordReport(r) \/ GatewayControls(r)
      PROVE  Bystander
  <2>1. CASE TaskReport(r)
    BY <1>1, <2>1 DEF TaskReport
  <2>2. CASE RecordReport(r)
    BY <2>2, RecordReportStands
  <2>3. CASE GatewayControls(r)
    <3>1. \/ Pause(r) \/ CancelActive(r) \/ CancelQueued(r) \/ Retry(r) \/ SteerReserve(r)
          \/ FollowUp(r, intent.attempt)
      BY <2>3 DEF GatewayControls
    <3> QED
      BY <3>1, PauseStands, CancelActiveStands, CancelQueuedStands, RetryStands,
         SteerReserveStands, FollowUpStands
  <2> QED
    BY <1>2, <2>1, <2>2, <2>3
<1>3. ASSUME NEW n, TaskRead(n) \/ TaskList(n)
      PROVE  Bystander
  BY <1>1, <1>3 DEF TaskRead, TaskList
<1>4. ASSUME NEW n, NEW attempt, TaskReadFails(n, attempt)
      PROVE  Bystander
  <2>1. /\ Spend({"events", "faults"}) /\ UNCHANGED <<log, execution, worker, nextTurn>>
    BY <1>4 DEF TaskReadFails
  <2> QED
    BY <2>1, WritesNothing
<1>5. ASSUME NEW action, TaskControl(action)
      PROVE  Bystander
  BY <1>1, <1>5 DEF TaskControl
<1>6. ASSUME NEW k, Delegate(k) \/ RecordDelegated(k)
      PROVE  Bystander
  BY <1>1, <1>6 DEF Delegate, RecordDelegated
<1>7. CASE GatewayGivesUp \/ BeginWalk
  BY <1>1, <1>7 DEF GatewayGivesUp, BeginWalk
<1> QED
  BY <1>2, <1>3, <1>4, <1>5, <1>6, <1>7 DEF Tools

-----------------------------------------------------------------------------
(* The steps of the worker. *)

LEMMA Views ==
  /\ Operation = LastOperation(log) /\ SettledTurn = LastTurn(log)
  /\ Operation' = LastOperation(log') /\ SettledTurn' = LastTurn(log')
BY DEF Operation, SettledTurn, LastWhere, LastOperation, LastTurn, At, Operations, TurnRecords

LEMMA Counted ==
  ASSUME ChildInv
  PROVE  /\ log \in Seq(Records) /\ OperationsSound(log) /\ worker \in Workers
         /\ used \in [DOMAIN Bounds -> Nat] /\ used.faults \in Nat /\ Len(log) \in Nat
<1>1. "faults" \in DOMAIN Bounds
  BY DEF Bounds
<1> QED
  BY <1>1 DEF ChildInv, TypeOK

\* A Turn that begins.
LEMMA BeginEnds ==
  ASSUME ChildInv, EndInv, NEW w \in Workers, Begin(w),
         w.pc = "running", w.turn # 0, w.at = Len(log), ~w.saved, ~w.recorded, nextTurn' # 0,
         execution'.status # "settled" => execution'.turn # 0,
         w.owned /\ ~w.resumed /\ Operation.status = "queued" =>
           Operation.turn = 0 /\ Operation.prompt = w.prompt
  PROVE  EndInv'
<1> DEFINE op == Recorded("running", w)
<1>1. /\ log \in Seq(Records) /\ OperationsSound(log) /\ used \in [DOMAIN Bounds -> Nat]
      /\ used.faults \in Nat /\ Len(log) \in Nat
  BY Counted
<1>2. CASE /\ Spend({"turns"})
           /\ log' = (IF w.owned THEN log \o RecordOperation("running", w) ELSE log)
           /\ worker' = [w EXCEPT !.recorded = w.owned]
  <2>1. used'.faults = used.faults
    BY <1>1, <1>2, SpendCounts
  <2>2. /\ worker'.pc = "running" /\ worker'.turn = w.turn /\ worker'.at = w.at
        /\ worker'.saved = w.saved /\ worker'.owned = w.owned /\ worker'.resumed = w.resumed
        /\ worker'.recorded = w.owned /\ worker'.prompt = w.prompt
        /\ worker'.attempt = w.attempt
    BY <1>2 DEF Workers
  <2>3. SettledTurn' = SettledTurn /\ Len(log) <= Len(log')
    <3>1. CASE w.owned
      <4>1. Longer(log')
        BY <1>1, <1>2, <3>1, OperationRecorded
      <4> QED
        BY <4>1, Views DEF Longer
    <3>2. CASE ~w.owned
      BY <1>1, <1>2, <3>2, Views
    <3> QED
      BY <3>1, <3>2
  <2>4. CASE w.owned
    <3>1. /\ op \in Records /\ op.kind = "operation" /\ op.attempt = w.attempt
          /\ op.status = "running" /\ op.turn = w.turn
      BY <1>1, RecordedFacts DEF PausedBy
    <3>2. RecordOperation("running", w) = <<op>>
      BY <3>1 DEF RecordOperation, Outcomes
    <3>3. Quiet(op)
      BY <3>1 DEF Quiet, OperationStatuses
    <3> HIDE DEF op
    <3>4. Operation' = op
      BY <1>1, <1>2, <2>4, <3>1, <3>2, <3>3, RecordsAppended, Views
    <3>5. Numbers' /\ TurnsEnded' /\ PauseKnown'
      BY <1>1, <2>2, <2>3, <3>1, <3>4 DEF EndInv, Numbers, TurnsEnded, PauseKnown
    <3>6. Claimed' /\ StillQueued'
      BY <2>2, <2>4, <3>1, <3>4 DEF Claimed, StillQueued, Activity
    <3>7. /\ Checkpointed' /\ TurnSaved' /\ FailuresCounted' /\ PausedResumable'
          /\ SettlementVisible'
      BY <2>2, <2>4
         DEF Checkpointed, TurnSaved, FailuresCounted, PausedResumable, SettlementVisible
    <3> QED
      BY <3>5, <3>6, <3>7 DEF EndInv
  <2>5. CASE ~w.owned
    <3>1. Operation' = Operation
      BY <1>2, <2>5, Views
    <3>2. Numbers' /\ TurnsEnded' /\ PauseKnown'
      BY <1>1, <2>2, <2>3, <2>5, <3>1 DEF EndInv, Numbers, TurnsEnded, PauseKnown
    <3>3. Claimed' /\ StillQueued'
      BY <2>2, <2>5 DEF Claimed, StillQueued
    <3>4. /\ Checkpointed' /\ TurnSaved' /\ FailuresCounted' /\ PausedResumable'
          /\ SettlementVisible'
      BY <2>2, <2>5
         DEF Checkpointed, TurnSaved, FailuresCounted, PausedResumable, SettlementVisible
    <3> QED
      BY <3>2, <3>3, <3>4 DEF EndInv
  <2> QED
    BY <2>4, <2>5
<1>3. CASE w.owned /\ Spend({"turns", "events", "faults"}) /\ worker' = w /\ UNCHANGED log
  <2>1. used'.faults = used.faults + 1
    BY <1>1, <1>3, SpendCounts
  <2>2. used'.faults # 0
    BY <1>1, <2>1
  <2>3. Operation' = Operation /\ SettledTurn' = SettledTurn
    BY <1>3, Views
  <2>4. Numbers' /\ TurnsEnded' /\ PauseKnown'
    BY <1>1, <1>3, <2>3 DEF EndInv, Numbers, TurnsEnded, PauseKnown
  <2>5. Claimed' /\ StillQueued'
    BY <1>3, <2>3 DEF Claimed, StillQueued
  <2>6. /\ Checkpointed' /\ TurnSaved' /\ FailuresCounted' /\ PausedResumable'
        /\ SettlementVisible'
    BY <1>3, <2>2
       DEF Checkpointed, TurnSaved, FailuresCounted, PausedResumable, SettlementVisible
  <2> QED
    BY <2>4, <2>5, <2>6 DEF EndInv
<1> QED
  BY <1>2, <1>3 DEF Begin

LEMMA RunningFields ==
  ASSUME log \in Seq(Records), NEW number \in Nat, NEW prompt \in Prompts
  PROVE  LET v == Running(number, prompt)
         IN /\ v \in Workers /\ v.pc = "running" /\ v.turn = number /\ v.prompt = prompt
            /\ v.at = Len(log) /\ ~v.saved /\ ~v.recorded /\ ~v.owned /\ ~v.resumed
<1> DEFINE v == Running(number, prompt)
<1> DEFINE n == Len(log)
<1>1. v = [Idle EXCEPT !.pc = "running", !.turn = number, !.prompt = prompt, !.at = n]
  BY DEF Running
<1>2. v \in Workers /\ v.pc = "running"
  BY RunningType
<1> HIDE DEF v, n
<1>3. /\ v.turn = number /\ v.prompt = prompt /\ v.at = n
      /\ ~v.saved /\ ~v.recorded /\ ~v.owned /\ ~v.resumed
  BY <1>1 DEF Idle
<1> QED
  BY <1>2, <1>3 DEF v, n

LEMMA StartEnds ==
  ASSUME ChildInv, EndInv, StartQueued \/ StartRetry
  PROVE  EndInv'
<1>1. /\ log \in Seq(Records) /\ nextTurn \in Nat /\ nextTurn # 0 /\ nextTurn' = nextTurn + 1
      /\ execution.status = "settled" /\ execution' = execution
  BY DEF ChildInv, TypeOK, EndInv, Numbers, StartQueued, StartRetry
<1>2. /\ Operation.prompt \in Prompts /\ Operation.attempt \in Nat
      /\ Operation.akind \in {"none", "initial", "retry", "follow_up"}
  BY <1>1, Searches DEF Records
<1> DEFINE u == Running(nextTurn, Operation.prompt)
<1>3. /\ u \in Workers /\ u.pc = "running" /\ u.turn = nextTurn /\ u.prompt = Operation.prompt
      /\ u.at = Len(log) /\ ~u.saved /\ ~u.recorded /\ ~u.owned /\ ~u.resumed
  BY <1>1, <1>2, RunningFields
<1>4. nextTurn' # 0
  BY <1>1
<1>5. CASE StartQueued
  <2> DEFINE n == Operation.attempt
  <2> DEFINE k == Operation.akind
  <2> DEFINE w == Attempt(u, n, k)
  <2>1. /\ Begin(w) /\ Operation.turn = 0
        /\ n \in Nat /\ k \in {"none", "initial", "retry", "follow_up"}
    BY <1>2, <1>5 DEF StartQueued
  <2> HIDE DEF u, n, k
  <2>2. /\ w \in Workers /\ w.pc = "running" /\ w.turn = nextTurn /\ w.prompt = Operation.prompt
        /\ w.at = Len(log) /\ ~w.saved /\ ~w.recorded
    BY <1>3, <2>1 DEF Workers, Attempt
  <2> HIDE DEF w
  <2> QED
    BY <1>1, <1>4, <2>1, <2>2, BeginEnds
<1>6. CASE StartRetry
  <2> DEFINE n == Operation.attempt + 1
  <2> DEFINE w == Attempt(u, n, "retry")
  <2>1. Begin(w) /\ n \in Nat /\ Operation.status \in {"failed", "cancelled"}
    BY <1>2, <1>6 DEF StartRetry
  <2> HIDE DEF u, n
  <2>2. /\ w \in Workers /\ w.pc = "running" /\ w.turn = nextTurn /\ w.prompt = Operation.prompt
        /\ w.at = Len(log) /\ ~w.saved /\ ~w.recorded
    BY <1>3, <2>1 DEF Workers, Attempt
  <2> HIDE DEF w
  <2> QED
    BY <1>1, <1>4, <2>1, <2>2, BeginEnds
<1> QED
  BY <1>5, <1>6

LEMMA TurnResumeEnds ==
  ASSUME ChildInv, EndInv, TurnResume
  PROVE  EndInv'
<1> DEFINE op == OperationForTurn(execution.turn)
<1> DEFINE u == Running(execution.turn, execution.prompt)
<1> DEFINE v == [u EXCEPT !.resumed = TRUE]
<1> DEFINE n == op.attempt
<1> DEFINE k == op.akind
<1> DEFINE w == IF op = NoRecord THEN v ELSE Attempt(v, n, k)
<1>1. /\ log \in Seq(Records) /\ nextTurn # 0 /\ nextTurn' = nextTurn
      /\ execution.status = "waiting" /\ execution.turn # 0
      /\ execution.turn \in Nat /\ execution.prompt \in Prompts
      /\ execution' = [execution EXCEPT !.status = "running"]
      /\ Begin(w)
  BY DEF ChildInv, TypeOK, EndInv, Numbers, TurnResume
<1>2. execution'.turn # 0
  BY <1>1 DEF ChildInv, TypeOK
<1>3. n \in Nat /\ k \in {"none", "initial", "retry", "follow_up"}
  BY <1>1, OperationForTurnType DEF Records
<1>4. /\ u \in Workers /\ u.pc = "running" /\ u.turn = execution.turn
      /\ u.at = Len(log) /\ ~u.saved /\ ~u.recorded /\ ~u.owned
  BY <1>1, RunningFields
<1> HIDE DEF op, u, n, k
<1>5. /\ v \in Workers /\ v.pc = "running" /\ v.turn = execution.turn
      /\ v.at = Len(log) /\ ~v.saved /\ ~v.recorded /\ ~v.owned /\ v.resumed
  BY <1>4 DEF Workers
<1> HIDE DEF v
<1>6. /\ w \in Workers /\ w.pc = "running" /\ w.turn = execution.turn
      /\ w.at = Len(log) /\ ~w.saved /\ ~w.recorded /\ w.resumed
  <2>1. CASE op = NoRecord
    BY <1>5, <2>1
  <2>2. CASE op # NoRecord
    BY <1>3, <1>5, <2>2 DEF Workers, Attempt
  <2> QED
    BY <2>1, <2>2
<1> HIDE DEF w
<1> QED
  BY <1>1, <1>2, <1>6, BeginEnds

LEMMA ContinueEnds ==
  ASSUME ChildInv, EndInv, ContinueWithSteer
  PROVE  EndInv'
<1> DEFINE w == Running(nextTurn, Head(queued))
<1>1. /\ log \in Seq(Records) /\ nextTurn \in Nat /\ nextTurn # 0 /\ nextTurn' = nextTurn + 1
      /\ queued \in Seq(Requests) /\ queued # <<>> /\ execution' = execution
      /\ execution.status # "settled" => execution.turn # 0
      /\ Begin(w)
  BY DEF ChildInv, TypeOK, EndInv, Numbers, ContinueWithSteer
<1>2. Head(queued) \in Prompts /\ nextTurn' # 0
  BY <1>1 DEF Prompts
<1>3. /\ w \in Workers /\ w.pc = "running" /\ w.turn = nextTurn
      /\ w.at = Len(log) /\ ~w.saved /\ ~w.recorded /\ ~w.owned
  BY <1>1, <1>2, RunningFields
<1> HIDE DEF w
<1> QED
  BY <1>1, <1>2, <1>3, BeginEnds

\* A step of the worker that leaves the log alone and is not the end of a Turn.
LEMMA QuietEnds ==
  ASSUME ChildInv, EndInv,
         Interrupt \/ ApplySteer \/ Checkpoint \/ GoIdle \/ Crash \/ Restart
  PROVE  EndInv'
<1>1. /\ log \in Seq(Records) /\ OperationsSound(log) /\ worker \in Workers
      /\ used \in [DOMAIN Bounds -> Nat] /\ used.faults \in Nat /\ Len(log) \in Nat
  BY Counted
<1>2. log' = log
  BY DEF Interrupt, ApplySteer, Checkpoint, GoIdle, Crash, Restart
<1>3. Operation' = Operation /\ SettledTurn' = SettledTurn
  BY <1>2, Views
<1>4. PauseKnown' /\ TurnsEnded'
  BY <1>3 DEF EndInv, PauseKnown, TurnsEnded
<1>5. used'.faults \in Nat /\ used.faults <= used'.faults
  <2>1. used' = used \/ Spend({"events", "faults"})
    BY DEF Interrupt, ApplySteer, Checkpoint, GoIdle, Crash, Restart
  <2> QED
    BY <1>1, <2>1, SpendCounts
<1>6. CASE Interrupt \/ ApplySteer \/ Checkpoint
  <2>1. worker.pc = "running" /\ worker'.pc = "running" /\ nextTurn' = nextTurn
    BY <1>1, <1>6 DEF Interrupt, ApplySteer, Checkpoint, Workers
  <2>2. /\ worker'.turn = worker.turn /\ worker'.at = worker.at
        /\ worker'.attempt = worker.attempt /\ worker'.prompt = worker.prompt
        /\ (worker'.owned <=> worker.owned) /\ (worker'.recorded <=> worker.recorded)
        /\ (worker'.saved <=> worker.saved) /\ (worker'.resumed <=> worker.resumed)
    BY <1>1, <1>6 DEF Interrupt, ApplySteer, Checkpoint, Workers
  <2>3. execution' = execution \/ execution'.turn = worker.turn
    BY <1>6 DEF Interrupt, ApplySteer, Checkpoint, FirstCheckpoint
  <2>4. Numbers'
    BY <1>2, <2>1, <2>2, <2>3 DEF EndInv, Numbers, Ending
  <2>5. Claimed' /\ StillQueued'
    BY <1>3, <2>1, <2>2 DEF EndInv, Claimed, StillQueued
  <2>6. Checkpointed' /\ PausedResumable' /\ SettlementVisible'
    BY <2>1 DEF Checkpointed, PausedResumable, SettlementVisible
  <2>7. TurnSaved'
    BY <2>1, <2>2 DEF EndInv, TurnSaved
  <2>8. FailuresCounted'
    BY <1>1, <1>5, <2>1, <2>2 DEF EndInv, FailuresCounted
  <2> QED
    BY <1>4, <2>4, <2>5, <2>6, <2>7, <2>8 DEF EndInv
<1>7. CASE GoIdle \/ Crash \/ Restart
  <2>1. worker'.pc \in {"idle", "down"} /\ worker'.at = 0 /\ ~worker'.recorded
    BY <1>7 DEF GoIdle, Crash, Restart, Idle
  <2>2. nextTurn' # 0
    <3>1. CASE GoIdle \/ Crash
      BY <3>1 DEF GoIdle, Crash, EndInv, Numbers
    <3>2. CASE Restart
      <4> DEFINE S == {i \in DOMAIN log : log[i].kind = "turn" /\ log[i].act # "resume"}
      <4>1. S \subseteq 1..Len(log)
        BY <1>1
      <4>2. IsFiniteSet(S)
        BY <1>1, <4>1, FS_Interval, FS_Subset
      <4>4. Cardinality(S) \in Nat
        BY <4>2, FS_CardinalityType
      <4>3. nextTurn' = 1 + Cardinality(S)
        BY <3>2 DEF Restart
      <4> HIDE DEF S
      <4> QED
        BY <4>3, <4>4
    <3> QED
      BY <1>7, <3>1, <3>2
  <2>3. execution'.status # "settled" => execution'.turn # 0
    <3>1. CASE GoIdle \/ Crash
      BY <3>1 DEF GoIdle, Crash, EndInv, Numbers
    <3>2. CASE Restart
      BY <3>2 DEF Restart, EndInv, Numbers, ChildInv, TypeOK
    <3> QED
      BY <1>7, <3>1, <3>2
  <2>4. Numbers'
    BY <1>1, <1>2, <2>1, <2>2, <2>3 DEF Numbers, Ending
  <2>5. /\ Claimed' /\ StillQueued' /\ Checkpointed' /\ TurnSaved' /\ FailuresCounted'
        /\ PausedResumable' /\ SettlementVisible'
    BY <2>1 DEF Claimed, StillQueued, Checkpointed, TurnSaved, FailuresCounted,
                PausedResumable, SettlementVisible, Ending
  <2> QED
    BY <1>4, <2>4, <2>5 DEF EndInv
<1> QED
  BY <1>6, <1>7

LEMMA EndTurnEnds ==
  ASSUME ChildInv, EndInv, NEW outcome \in Outcomes, EndTurn(outcome)
  PROVE  EndInv'
<1>1. worker \in Workers
  BY Counted
<1>2. /\ worker.pc = "running" /\ UNCHANGED <<log, execution, nextTurn, used>>
      /\ outcome # "failed" => execution = FirstCheckpoint
  BY DEF EndTurn
<1>3. Operation' = Operation /\ SettledTurn' = SettledTurn
  BY <1>2, Views
<1>4. /\ worker'.pc = "persist" /\ worker'.outcome = outcome
      /\ worker'.turn = worker.turn /\ worker'.at = worker.at
      /\ worker'.attempt = worker.attempt /\ worker'.prompt = worker.prompt
      /\ (worker'.owned <=> worker.owned) /\ (worker'.recorded <=> worker.recorded)
      /\ (worker'.saved <=> worker.saved) /\ (worker'.resumed <=> worker.resumed)
  BY <1>1 DEF EndTurn, Workers
<1>5. Numbers' /\ PauseKnown' /\ TurnsEnded'
  BY <1>2, <1>3, <1>4 DEF EndInv, Numbers, PauseKnown, TurnsEnded, Ending
<1>6. Claimed' /\ StillQueued'
  BY <1>2, <1>3, <1>4 DEF EndInv, Claimed, StillQueued, Ending
<1>7. Checkpointed'
  BY <1>2, <1>4 DEF Checkpointed, FirstCheckpoint
<1>8. TurnSaved' /\ FailuresCounted'
  BY <1>2, <1>4 DEF EndInv, TurnSaved, FailuresCounted, Ending
<1>9. PausedResumable' /\ SettlementVisible'
  BY <1>4 DEF PausedResumable, SettlementVisible
<1> QED
  BY <1>5, <1>6, <1>7, <1>8, <1>9 DEF EndInv

LEMMA PersistTurnEnds ==
  ASSUME ChildInv, EndInv, PersistTurn
  PROVE  EndInv'
<1> DEFINE act == IF worker.resumed THEN "resume" ELSE "none"
<1> DEFINE f == [NoRecord EXCEPT !.kind = "turn", !.status = worker.outcome,
                                 !.turn = worker.turn, !.prompt = worker.prompt,
                                 !.at = worker.at, !.act = act]
<1>1. /\ log \in Seq(Records) /\ OperationsSound(log) /\ worker \in Workers
      /\ used \in [DOMAIN Bounds -> Nat] /\ used.faults \in Nat /\ Len(log) \in Nat
  BY Counted
<1>2. /\ worker.outcome \in Outcomes /\ worker.pc = "persist"
      /\ UNCHANGED <<execution, nextTurn>>
  BY DEF ChildInv, OutcomeKnown, PersistTurn
<1>3. /\ f \in Records /\ f.kind = "turn" /\ f.status = worker.outcome
      /\ f.turn = worker.turn /\ f.prompt = worker.prompt /\ f.at = worker.at
  <2>1. NoRecord \in Records
    BY DEF NoRecord, Records, Prompts
  <2>2. /\ worker.turn \in Nat /\ worker.prompt \in Prompts /\ worker.at \in Nat
        /\ worker.outcome \in OperationStatuses /\ act \in {"resume", "none"}
    BY <1>1, <1>2 DEF Workers, Outcomes, OperationStatuses
  <2> HIDE DEF act
  <2>3. f = TurnOf(NoRecord, worker.outcome, worker.turn, worker.prompt, worker.at, act)
    BY DEF TurnOf
  <2>4. /\ f.kind = "turn" /\ f.status = worker.outcome
        /\ f.turn = worker.turn /\ f.prompt = worker.prompt /\ f.at = worker.at
    BY DEF NoRecord
  <2> HIDE DEF f
  <2>5. f \in Records
    BY <2>1, <2>2, <2>3, TurnRecord
  <2> QED
    BY <2>4, <2>5
<1>4. \/ /\ log' = Append(log, f) /\ used' = used
         /\ worker' = [worker EXCEPT !.pc = "settle", !.saved = TRUE]
      \/ /\ log' = log /\ Spend({"events", "faults"})
         /\ worker' = [worker EXCEPT !.pc = "settle"]
  BY DEF PersistTurn, Write
<1> HIDE DEF f
<1>5. /\ worker'.pc = "settle" /\ worker'.outcome = worker.outcome
      /\ worker'.turn = worker.turn /\ worker'.at = worker.at
      /\ worker'.attempt = worker.attempt /\ worker'.prompt = worker.prompt
      /\ (worker'.owned <=> worker.owned) /\ (worker'.recorded <=> worker.recorded)
      /\ (worker'.resumed <=> worker.resumed)
  BY <1>1, <1>4 DEF Workers
<1>6. Operation' = Operation /\ Len(log') \in Nat /\ Len(log) <= Len(log')
  <2>1. LastOperation(Append(log, f)) = LastOperation(log) /\ Len(Append(log, f)) = Len(log) + 1
    BY <1>1, <1>3, Appended, TurnAppended
  <2>2. log' = Append(log, f) \/ log' = log
    BY <1>4
  <2>3. Operation' = Operation
    BY <2>1, <2>2, Views
  <2>4. Len(log') \in Nat /\ Len(log) <= Len(log')
    BY <1>1, <2>1, <2>2
  <2> QED
    BY <2>3, <2>4
<1>7. \/ SettledTurn' = f /\ worker'.saved /\ used' = used
      \/ SettledTurn' = SettledTurn /\ ~worker'.saved /\ used'.faults = used.faults + 1
  <2>1. LastTurn(Append(log, f)) = f
    BY <1>1, <1>3, TurnAppended
  <2>2. CASE log' = Append(log, f) /\ used' = used
             /\ worker' = [worker EXCEPT !.pc = "settle", !.saved = TRUE]
    BY <1>1, <2>1, <2>2, Views DEF Workers
  <2>3. CASE log' = log /\ Spend({"events", "faults"})
             /\ worker' = [worker EXCEPT !.pc = "settle"]
    <3>1. used'.faults = used.faults + 1
      BY <1>1, <2>3, SpendCounts
    <3>2. ~worker'.saved
      BY <1>1, <1>2, <2>3 DEF Workers, EndInv, TurnSaved
    <3> QED
      BY <2>3, <3>1, <3>2, Views
  <2> QED
    BY <1>4, <2>2, <2>3
<1>8. Numbers'
  BY <1>1, <1>2, <1>5, <1>6 DEF EndInv, Numbers, Ending, Workers
<1>9. PauseKnown' /\ TurnsEnded'
  BY <1>2, <1>3, <1>6, <1>7 DEF EndInv, PauseKnown, TurnsEnded
<1>10. Claimed' /\ StillQueued'
  BY <1>2, <1>5, <1>6 DEF EndInv, Claimed, StillQueued, Ending
<1>11. Checkpointed'
  BY <1>2, <1>5 DEF EndInv, Checkpointed
<1>12. TurnSaved'
  <2>1. f # NoRecord
    BY <1>3 DEF NoRecord
  <2> QED
    BY <1>3, <1>5, <1>7, <2>1 DEF TurnSaved
<1>13. FailuresCounted'
  BY <1>1, <1>2, <1>5, <1>7 DEF EndInv, FailuresCounted, Ending
<1>14. PausedResumable' /\ SettlementVisible'
  BY <1>5 DEF PausedResumable, SettlementVisible
<1> QED
  BY <1>8, <1>9, <1>10, <1>11, <1>12, <1>13, <1>14 DEF EndInv

\* The last operation of a Turn is the last of all if it is one of the Turn.
LEMMA OperationForTurnFacts ==
  ASSUME log \in Seq(Records), Operation.kind = "operation"
  PROVE  OperationForTurn(Operation.turn) = Operation
<1> DEFINE H == {i \in DOMAIN log : log[i].kind = "operation" /\ log[i].turn = Operation.turn}
<1> DEFINE O == Operations(log)
<1>1. OperationForTurn(Operation.turn) = At(log, H) /\ Operation = At(log, O)
  BY Views DEF OperationForTurn, LastWhere, At, LastOperation
<1>2. O \subseteq DOMAIN log /\ H \subseteq O
  BY DEF Operations
<1>3. O # {} /\ Max(O) \in O
  <2>1. NoRecord \in Records /\ NoRecord.kind = "none"
    BY DEF NoRecord, Records, Prompts
  <2> HIDE DEF O, H
  <2>2. O # {}
    BY <1>1, <2>1 DEF At
  <2> QED
    BY <1>2, <2>1, <2>2, LastAppended
<1>4. Operation = log[Max(O)]
  <2> HIDE DEF O, H
  <2> QED
    BY <1>1, <1>3 DEF At
<1>5. Max(O) \in H
  BY <1>2, <1>3, <1>4 DEF Operations
<1> HIDE DEF O, H
<1> QED
  BY <1>1, <1>2, <1>3, <1>5, LastAmong

LEMMA SettleExecutionEnds ==
  ASSUME ChildInv, EndInv, SettleExecution
  PROVE  EndInv'
<1>1. /\ log \in Seq(Records) /\ OperationsSound(log) /\ worker \in Workers
      /\ used \in [DOMAIN Bounds -> Nat] /\ used.faults \in Nat /\ Len(log) \in Nat
  BY Counted
<1>2. /\ worker.pc = "settle" /\ UNCHANGED <<log, nextTurn>>
      /\ worker' = [worker EXCEPT !.pc = "record"]
      /\ execution \in Executions
  BY DEF SettleExecution, ChildInv, TypeOK, Executions
<1>3. Operation' = Operation /\ SettledTurn' = SettledTurn
  BY <1>2, Views
<1>4. /\ worker'.pc = "record" /\ worker'.outcome = worker.outcome
      /\ worker'.turn = worker.turn /\ worker'.at = worker.at
      /\ worker'.attempt = worker.attempt /\ worker'.prompt = worker.prompt
      /\ (worker'.owned <=> worker.owned) /\ (worker'.recorded <=> worker.recorded)
      /\ (worker'.saved <=> worker.saved) /\ (worker'.resumed <=> worker.resumed)
  BY <1>1, <1>2 DEF Workers
<1> DEFINE done == /\ worker.saved
                   /\ \/ worker.outcome = "completed"
                      \/ worker.outcome = "cancelled" /\ ~RequiresResume
<1>5. \/ execution' = execution /\ used' = used /\ execution.turn # worker.turn
      \/ /\ execution' = [execution EXCEPT !.status = IF done THEN "settled" ELSE "waiting"]
         /\ used' = used /\ execution.turn = worker.turn
      \/ execution' = execution /\ Spend({"events", "faults"})
  BY DEF SettleExecution, Write
<1>6. used'.faults \in Nat /\ used.faults <= used'.faults
  BY <1>1, <1>5, SpendCounts
<1>7. Numbers'
  <2>1. execution' = execution \/ (execution'.turn = worker.turn /\ worker.turn # 0)
    BY <1>2, <1>5 DEF EndInv, Numbers, Ending, Executions
  <2> QED
    BY <1>2, <1>4, <2>1 DEF EndInv, Numbers, Ending
<1>8. PauseKnown' /\ TurnsEnded'
  BY <1>3 DEF EndInv, PauseKnown, TurnsEnded
<1>9. Claimed' /\ StillQueued'
  BY <1>2, <1>3, <1>4 DEF EndInv, Claimed, StillQueued, Ending
<1>10. Checkpointed' /\ SettlementVisible'
  BY <1>4 DEF Checkpointed, SettlementVisible
<1>11. TurnSaved'
  BY <1>2, <1>3, <1>4 DEF EndInv, TurnSaved
<1>12. FailuresCounted'
  BY <1>1, <1>2, <1>4, <1>6 DEF EndInv, FailuresCounted, Ending
<1>13. PausedResumable'
  <2>1. SUFFICES ASSUME worker'.owned, execution'.turn = worker'.turn,
                        Recorded(OutcomeStatus, worker)'.status = "paused"
                 PROVE  execution'.status # "settled"
    BY DEF PausedResumable
  <2>2. /\ worker.saved /\ worker.outcome = "cancelled" /\ Operation.status = "pausing"
        /\ Operation.turn = worker.turn
    <3>1. /\ OutcomeStatus' = OutcomeStatus /\ worker.outcome \in Outcomes
      BY <1>2, <1>4 DEF OutcomeStatus, ChildInv, OutcomeKnown
    <3>2. OutcomeStatus \in Outcomes
      BY <3>1 DEF OutcomeStatus, Outcomes
    <3>3. Recorded(OutcomeStatus, worker)'.status =
            IF /\ OutcomeStatus' = "cancelled" /\ Operation'.status = "pausing"
               /\ Operation'.attempt = worker'.attempt /\ Operation'.turn = worker'.turn
            THEN "paused" ELSE OutcomeStatus'
      <4>1. Operation' \in Records
        BY <1>1, <1>3, Searches
      <4> QED
        BY <4>1 DEF Recorded, Records
    <3> QED
      BY <1>3, <1>4, <2>1, <3>1, <3>2, <3>3 DEF OutcomeStatus, Outcomes
  <2>3. OperationForTurn(worker.turn) = Operation
    <3>1. Operation.kind = "operation"
      BY <1>1, <2>2, Searches
    <3> QED
      BY <1>1, <2>2, <3>1, OperationForTurnFacts
  <2>4. RequiresResume
    BY <1>4, <2>1, <2>2, <2>3 DEF RequiresResume, EndInv, PauseKnown
  <2>5. ~done
    BY <2>2, <2>4
  <2>6. execution.status = "running"
    BY <1>2, <2>2 DEF EndInv, Checkpointed
  <2>7. CASE execution' = execution
    BY <2>6, <2>7
  <2>8. CASE execution' = [execution EXCEPT !.status = IF done THEN "settled" ELSE "waiting"]
    <3> HIDE DEF done
    <3> QED
      BY <1>2, <2>5, <2>8 DEF Executions
  <2> QED
    BY <1>5, <2>7, <2>8
<1> QED
  BY <1>7, <1>8, <1>9, <1>10, <1>11, <1>12, <1>13 DEF EndInv

LEMMA RecordOutcomeEnds ==
  ASSUME ChildInv, EndInv, RecordOutcome
  PROVE  EndInv'
<1>1. /\ log \in Seq(Records) /\ OperationsSound(log) /\ worker \in Workers
      /\ used \in [DOMAIN Bounds -> Nat] /\ used.faults \in Nat /\ Len(log) \in Nat
  BY Counted
<1>2. /\ worker.pc = "record" /\ UNCHANGED <<execution, nextTurn>>
      /\ worker' = [worker EXCEPT !.pc = "next"] /\ worker.outcome \in Outcomes
  BY DEF RecordOutcome, ChildInv, OutcomeKnown
<1>3. /\ worker'.pc = "next" /\ worker'.at = worker.at
      /\ (worker'.owned <=> worker.owned) /\ (worker'.recorded <=> worker.recorded)
      /\ (worker'.saved <=> worker.saved)
  BY <1>1, <1>2 DEF Workers
<1> DEFINE status == OutcomeStatus
<1> DEFINE op == Recorded(status, worker)
<1>4. \/ log' = log /\ used' = used /\ ~worker.owned
      \/ log' = log \o RecordOperation(status, worker) /\ used' = used
      \/ log' = log /\ Spend({"events", "faults"})
  BY DEF RecordOutcome, Write
<1>5. status \in Outcomes
  BY <1>2 DEF OutcomeStatus, Outcomes
<1>6. /\ op \in Records /\ op.status \in {"paused"} \cup Outcomes
      /\ Longer(log \o RecordOperation(status, worker))
      /\ \/ LastOperation(log \o RecordOperation(status, worker)) = op
         \/ LastOperation(log \o RecordOperation(status, worker)).status = "queued"
  <2> HIDE DEF status
  <2> QED
    BY <1>1, <1>5, RecordedFacts, OperationRecorded DEF Outcomes
<1> HIDE DEF status, op
<1>7. SettledTurn' = SettledTurn /\ Len(log') \in Nat /\ Len(log) <= Len(log')
  <2>1. log' = log \/ Longer(log')
    BY <1>4, <1>6
  <2>2. CASE log' = log
    BY <1>1, <2>2, Views
  <2>3. CASE Longer(log')
    BY <2>3, Views DEF Longer
  <2> QED
    BY <2>1, <2>2, <2>3
<1>8. \/ log' = log
      \/ Operation'.status \in {"queued", "paused"} \cup Outcomes
  BY <1>4, <1>6, Views
<1>9. Numbers'
  BY <1>1, <1>2, <1>3, <1>7 DEF EndInv, Numbers, Ending, Workers
<1>10. PauseKnown' /\ TurnsEnded'
  <2>1. Operation' = Operation \/ Operation'.status # "pausing"
    BY <1>8, Views DEF Outcomes
  <2> QED
    BY <1>7, <2>1 DEF EndInv, PauseKnown, TurnsEnded
<1>11. /\ Claimed' /\ StillQueued' /\ Checkpointed' /\ TurnSaved' /\ FailuresCounted'
       /\ PausedResumable'
  BY <1>3 DEF Claimed, StillQueued, Checkpointed, TurnSaved, FailuresCounted,
              PausedResumable, Ending
<1>12. SettlementVisible'
  <2>1. SUFFICES ASSUME worker'.owned,
                        (worker'.recorded /\ worker'.saved) \/ used'.faults <= 1
                 PROVE  ProjectedStatus' \notin Activity
    BY DEF SettlementVisible, Activity
  <2>2. ProjectedStatus' = Projection(Operation', SettledTurn')
    BY DEF ProjectedStatus, Projection
  <2>3. SettledTurn'.status \in {"none"} \cup Outcomes
    BY <1>10 DEF TurnsEnded
  <2>4. CASE log' = log /\ Spend({"events", "faults"})
    <3>1. used'.faults = used.faults + 1
      BY <1>1, <2>4, SpendCounts
    <3>2. worker.recorded /\ worker.saved
      BY <1>1, <1>2, <1>3, <2>1, <3>1 DEF EndInv, FailuresCounted, Ending
    <3>3. /\ Operation.turn = worker.turn /\ Operation.status \in Activity
          /\ worker.turn # 0 /\ SettledTurn.turn = worker.turn
          /\ SettledTurn.status = worker.outcome
      BY <1>2, <3>2 DEF EndInv, Claimed, TurnSaved, Numbers, Ending
    <3>4. Operation' = Operation
      BY <2>4, Views
    <3> QED
      BY <1>2, <1>7, <2>2, <3>3, <3>4 DEF Projection, Activity, Outcomes
  <2>5. CASE log' = log \o RecordOperation(status, worker)
    <3>1. Operation'.status \in {"queued", "paused"} \cup Outcomes
      BY <1>6, <2>5, Views
    <3> QED
      BY <2>2, <2>3, <3>1 DEF Projection, Activity, Outcomes
  <2> QED
    BY <1>3, <1>4, <2>1, <2>4, <2>5
<1> QED
  BY <1>9, <1>10, <1>11, <1>12 DEF EndInv

LEMMA EndStarts ==
  ASSUME ReportsInit
  PROVE  EndInv
<1> DEFINE e == [NoRecord EXCEPT !.kind = "operation", !.status = "queued", !.attempt = 1,
                                 !.akind = "initial", !.at = 1]
<1>1. /\ log = <<e>>
      /\ execution = [status |-> "settled", turn |-> 0, prompt |-> Initial]
      /\ worker = Idle /\ nextTurn = 1
  BY DEF ReportsInit, ChildInit
<1>2. worker.pc = "idle" /\ worker.at = 0 /\ ~worker.recorded
  BY <1>1 DEF Idle
<1>3. /\ Len(log) = 1 /\ DOMAIN log = {1} /\ log[1] = e
      /\ e.kind = "operation" /\ e.status = "queued"
  BY <1>1 DEF NoRecord
<1> HIDE DEF e
<1>4. SettledTurn = NoRecord
  BY <1>3, Views DEF LastTurn, TurnRecords, At
<1>5. Operation.status = "queued"
  <2>1. Operations(log) = {1}
    BY <1>3 DEF Operations
  <2>2. Max({1}) = 1
    <3>1. \A x, y \in {1} : x >= y
      OBVIOUS
    <3> QED
      BY <3>1 DEF Max
  <2> QED
    BY <1>3, <2>1, <2>2, Views DEF LastOperation, At
<1>6. Numbers /\ PauseKnown /\ TurnsEnded
  BY <1>1, <1>2, <1>3, <1>4, <1>5 DEF Numbers, PauseKnown, TurnsEnded, NoRecord, Ending
<1>7. /\ Claimed /\ StillQueued /\ Checkpointed /\ TurnSaved /\ FailuresCounted
      /\ PausedResumable /\ SettlementVisible
  BY <1>2 DEF Claimed, StillQueued, Checkpointed, TurnSaved, FailuresCounted,
              PausedResumable, SettlementVisible, Ending
<1> QED
  BY <1>6, <1>7 DEF EndInv

LEMMA EndStep ==
  ASSUME ~StaleAttempts, ChildInv, ChildInv', EndInv, [Child \/ Tools]_allVars
  PROVE  EndInv'
<1>1. CASE UNCHANGED allVars
  <2>1. UNCHANGED <<log, execution, worker, nextTurn, used>>
    BY <1>1 DEF allVars, vars
  <2> QED
    BY <2>1, WritesNothing, BystanderKeeps
<1>2. CASE Tools
  BY <1>2, ToolsStand, BystanderKeeps
<1>3. CASE ControlRequest
  BY <1>3, ControlRequestStands, BystanderKeeps
<1>4. CASE SteerHandler
  BY <1>4, SteerHandlerStands, BystanderKeeps
<1>5. CASE TurnRequest
  BY <1>5, StartEnds, TurnResumeEnds, QuietEnds DEF TurnRequest
<1>6. CASE Turn
  BY <1>6, QuietEnds, EndTurnEnds DEF Turn
<1>7. CASE Settlement
  BY <1>7, PersistTurnEnds, SettleExecutionEnds, RecordOutcomeEnds, QuietEnds, ContinueEnds
     DEF Settlement
<1>8. CASE Crash \/ Restart
  BY <1>8, QuietEnds
<1> QED
  BY <1>1, <1>2, <1>3, <1>4, <1>5, <1>6, <1>7, <1>8 DEF Child

\* What the decisions at the end of a Turn are taken from.
LEMMA DecisionsAgree ==
  ASSUME ChildInv, EndInv
  PROVE  EndOfTurnAgrees
<1>1. log \in Seq(Records) /\ worker \in Workers
  BY Counted
<1>2. ReadersAgree
  <2>1. SUFFICES ASSUME worker.pc \in {"settle", "record"}, worker.owned, worker.saved,
                        \/ worker.recorded
                        \/ ~worker.resumed /\ Operation.status = "queued" /\ Operation.at <= worker.at
                 PROVE  ProjectedStatus = Recorded(OutcomeStatus, worker).status
    BY DEF ReadersAgree
  <2>2. /\ SettledTurn # NoRecord /\ SettledTurn.status = worker.outcome
        /\ SettledTurn.turn = worker.turn /\ worker.turn # 0
        /\ SettledTurn.prompt = worker.prompt /\ SettledTurn.at = worker.at
        /\ worker.outcome \in Outcomes /\ OutcomeStatus = worker.outcome
    BY <2>1 DEF EndInv, TurnSaved, Numbers, Ending, ChildInv, OutcomeKnown, OutcomeStatus
  <2>3. Recorded(OutcomeStatus, worker).status =
          IF PausedBy(worker.outcome, worker) THEN "paused" ELSE worker.outcome
    BY <1>1, <2>2, RecordedFacts
  <2>4. CASE worker.recorded
    <3>1. /\ Operation.turn = worker.turn /\ Operation.attempt = worker.attempt
          /\ Operation.status \in Activity
      BY <2>1, <2>4 DEF EndInv, Claimed, Ending
    <3> QED
      BY <2>2, <2>3, <3>1, Projected DEF Projection, PausedBy, Activity
  <2>5. CASE ~worker.recorded
    <3>1. Operation.turn = 0 /\ Operation.prompt = worker.prompt
      BY <2>1, <2>5 DEF EndInv, StillQueued, Ending
    <3> QED
      BY <2>1, <2>2, <2>3, <2>5, <3>1, Projected DEF Projection, PausedBy
  <2> QED
    BY <2>4, <2>5
<1>3. SlotHeld
  <2>1. SUFFICES ASSUME worker.pc \in {"running", "persist"}, worker.recorded,
                        SettledTurn.turn # worker.turn
                 PROVE  ProjectedStatus \in Activity
    BY DEF SlotHeld, Activity
  <2>2. Operation.turn = worker.turn /\ Operation.status \in Activity /\ worker.turn # 0
    BY <2>1 DEF EndInv, Claimed, Numbers, Ending
  <2> QED
    BY <2>1, <2>2, Projected DEF Projection, Activity
<1> QED
  BY <1>2, <1>3 DEF EndOfTurnAgrees, EndInv

\* The decisions at the end of a Turn, which the code takes from the operation
\* record, the Turn record and the execution journal at different times, agree:
\* task_read shows what record_operation is about to write, what it calls paused
\* has kept its checkpoint, the slot is held while the Turn runs, and one write
\* that fails does not leave the operation running for ever.
THEOREM DecisionsAtTheEndAgree ==
  ASSUME ~StaleAttempts
  PROVE  ReportsSpec => []EndOfTurnAgrees
<1>1. ReportsInit => EndInv
  BY EndStarts
<1>2. ChildInv /\ ChildInv' /\ EndInv /\ [Child \/ Tools]_allVars => EndInv'
  BY EndStep
<1>3. ChildInv /\ EndInv => EndOfTurnAgrees
  BY DecisionsAgree
<1> QED
  BY <1>1, <1>2, <1>3, ChildInvariant, PTL DEF ReportsSpec

-----------------------------------------------------------------------------
(* The settings of a Thread *)

Models == {"default", "other"}
Modes == {"manual", "continuous"}
Accesses == {"ask", "full"}
Toolsets == {"all", "few"}

\* A settings update, as a client sends it or restore_thread_continuation.
SettingsUpdates == [model : {"same", "default", "other"}, mode : {"same", "manual", "continuous"},
             plan : {"same", "on", "off"}, tools : {"same", "all", "few"}]

Disks == [thread : Nat, tag : Nat, mode : Modes, model : Models,
          plan : {"absent", "on", "off", "torn"}, review : BOOLEAN]
Stores == [mode : Modes, model : Models]
Runtimes == [model : Models, mode : Modes, tools : Toolsets, world : Accesses]
Guards == [plan : BOOLEAN, access : Accesses]
Harnesses == [loop : Modes, hidden : Toolsets, overlay : BOOLEAN, told : Accesses]

States == [disk : Disks, store : Stores, rt : Runtimes, guard : Guards, hz : Harnesses]

\* A state a command may work on: the sidecar belongs to no later Thread.
Legal(s) == s \in States /\ s.disk.tag <= s.disk.thread

\* What the places that hold the settings owe one another.
Agrees(s) ==
  /\ s.disk.tag = s.disk.thread => s.disk.mode = s.store.mode /\ s.disk.model = s.store.model
  /\ s.disk.tag # s.disk.thread => s.store.mode = "manual" /\ s.store.model = "default"
  /\ s.store.mode = s.rt.mode /\ s.store.model = s.rt.model
  /\ s.hz.hidden = s.rt.tools
  /\ s.disk.plan = "on" => s.guard.plan = TRUE /\ s.hz.overlay = TRUE
  /\ s.disk.plan # "on" => s.guard.plan = FALSE /\ s.hz.overlay = FALSE
  /\ s.rt.world = s.guard.access /\ s.hz.told = s.guard.access

-----------------------------------------------------------------------------
(* The steps of set_thread_settings. *)

LEMMA WriteSettingsFacts ==
  ASSUME NEW s, Legal(s)
  PROVE  LET t == WriteSettings(s)
         IN /\ Legal(t)
            /\ t.store = s.store /\ t.rt = s.rt /\ t.guard = s.guard /\ t.hz = s.hz
            /\ t.disk.tag = t.disk.thread /\ t.disk.mode = s.store.mode
            /\ t.disk.model = s.store.model /\ t.disk.plan = s.disk.plan
<1> DEFINE d == [s.disk EXCEPT !.tag = s.disk.thread, !.mode = s.store.mode,
                               !.model = s.store.model]
<1>1. /\ d \in Disks /\ d.tag = d.thread /\ d.mode = s.store.mode
      /\ d.model = s.store.model /\ d.plan = s.disk.plan
  BY DEF Legal, States, Disks, Stores
<1>2. WriteSettings(s) = [s EXCEPT !.disk = d]
  BY DEF WriteSettings
<1> HIDE DEF d
<1>3. /\ [s EXCEPT !.disk = d] \in States
      /\ [s EXCEPT !.disk = d].disk = d
      /\ [s EXCEPT !.disk = d].store = s.store /\ [s EXCEPT !.disk = d].rt = s.rt
      /\ [s EXCEPT !.disk = d].guard = s.guard /\ [s EXCEPT !.disk = d].hz = s.hz
  BY <1>1 DEF Legal, States
<1>4. d.tag <= d.thread
  BY <1>1 DEF Disks
<1> QED
  BY <1>1, <1>2, <1>3, <1>4 DEF Legal

LEMMA StoreModelFacts ==
  ASSUME NEW s, Legal(s), NEW u \in SettingsUpdates, u.model # "same"
  PROVE  LET t == StoreModel(s, u)
         IN /\ Legal(t) /\ t.store.model = u.model /\ t.store.mode = s.store.mode
            /\ t.disk = s.disk /\ t.rt = s.rt /\ t.guard = s.guard /\ t.hz = s.hz
  BY DEF Legal, States, SettingsUpdates, Stores, Models, StoreModel

LEMMA StoreModeFacts ==
  ASSUME NEW s, Legal(s), NEW u \in SettingsUpdates, u.mode # "same"
  PROVE  LET t == StoreMode(s, u)
         IN /\ Legal(t) /\ t.store.mode = u.mode /\ t.store.model = s.store.model
            /\ t.disk = s.disk /\ t.rt = s.rt /\ t.guard = s.guard /\ t.hz = s.hz
  BY DEF Legal, States, SettingsUpdates, Stores, Modes, StoreMode

LEMMA SetModelFacts ==
  ASSUME NEW s, Legal(s), NEW u \in SettingsUpdates
  PROVE  LET t == SetModel(s, u)
         IN /\ Legal(t)
            /\ Agrees(s) => Agrees(t)
            /\ t.hz = s.hz /\ t.rt.mode = s.rt.mode /\ t.disk.plan = s.disk.plan
            /\ u.model = "same" => t.rt.model = s.rt.model
<1>1. CASE u.model = "same"
  BY <1>1 DEF SetModel
<1>2. CASE u.model # "same"
  <2> DEFINE m == StoreModel(s, u)
             w == WriteSettings(m)
             t == [w EXCEPT !.rt.model = u.model]
  <2>1. /\ Legal(m) /\ m.store.model = u.model /\ m.store.mode = s.store.mode
        /\ m.disk = s.disk /\ m.rt = s.rt /\ m.guard = s.guard /\ m.hz = s.hz
    BY <1>2, StoreModelFacts
  <2> HIDE DEF m
  <2>2. /\ Legal(w)
        /\ w.store = m.store /\ w.rt = m.rt /\ w.guard = m.guard /\ w.hz = m.hz
        /\ w.disk.tag = w.disk.thread /\ w.disk.mode = m.store.mode
        /\ w.disk.model = m.store.model /\ w.disk.plan = m.disk.plan
    BY <2>1, WriteSettingsFacts
  <2> HIDE DEF w
  <2>3. /\ Legal(t) /\ t.disk = w.disk /\ t.store = w.store /\ t.guard = w.guard /\ t.hz = w.hz
        /\ t.rt.model = u.model /\ t.rt.mode = w.rt.mode /\ t.rt.tools = w.rt.tools
        /\ t.rt.world = w.rt.world
    BY <1>2, <2>2 DEF Legal, States, SettingsUpdates, Runtimes, Models
  <2>4. t = SetModel(s, u)
    BY <1>2 DEF SetModel, w, m
  <2> HIDE DEF t
  <2>5. Agrees(s) => Agrees(t)
    BY <2>1, <2>2, <2>3 DEF Agrees
  <2> QED
    BY <1>2, <2>1, <2>2, <2>3, <2>4, <2>5
<1> QED
  BY <1>1, <1>2

LEMMA SetModeFacts ==
  ASSUME NEW s, Legal(s), NEW u \in SettingsUpdates
  PROVE  LET t == SetMode(s, u)
         IN /\ Legal(t)
            /\ Agrees(s) => Agrees(t)
            /\ t.rt.model = s.rt.model /\ t.disk.plan = s.disk.plan
            /\ u.mode = "same" => t.rt.mode = s.rt.mode /\ t.hz.loop = s.hz.loop
            /\ u.mode # "same" => t.rt.mode = u.mode /\ t.hz.loop = u.mode
<1>1. CASE u.mode = "same"
  BY <1>1 DEF SetMode
<1>2. CASE u.mode # "same"
  <2> DEFINE m == StoreMode(s, u)
             w == WriteSettings(m)
             t == [w EXCEPT !.rt.mode = u.mode, !.hz.loop = u.mode]
  <2>1. /\ Legal(m) /\ m.store.mode = u.mode /\ m.store.model = s.store.model
        /\ m.disk = s.disk /\ m.rt = s.rt /\ m.guard = s.guard /\ m.hz = s.hz
    BY <1>2, StoreModeFacts
  <2> HIDE DEF m
  <2>2. /\ Legal(w)
        /\ w.store = m.store /\ w.rt = m.rt /\ w.guard = m.guard /\ w.hz = m.hz
        /\ w.disk.tag = w.disk.thread /\ w.disk.mode = m.store.mode
        /\ w.disk.model = m.store.model /\ w.disk.plan = m.disk.plan
    BY <2>1, WriteSettingsFacts
  <2> HIDE DEF w
  <2>3. /\ Legal(t) /\ t.disk = w.disk /\ t.store = w.store /\ t.guard = w.guard
        /\ t.rt.mode = u.mode /\ t.rt.model = w.rt.model /\ t.rt.tools = w.rt.tools
        /\ t.rt.world = w.rt.world
        /\ t.hz.loop = u.mode /\ t.hz.hidden = w.hz.hidden /\ t.hz.overlay = w.hz.overlay
        /\ t.hz.told = w.hz.told
    BY <1>2, <2>2 DEF Legal, States, SettingsUpdates, Runtimes, Harnesses, Modes
  <2>4. t = SetMode(s, u)
    BY <1>2 DEF SetMode, w, m
  <2> HIDE DEF t
  <2>5. Agrees(s) => Agrees(t)
    BY <2>1, <2>2, <2>3 DEF Agrees
  <2> QED
    BY <1>2, <2>1, <2>2, <2>3, <2>4, <2>5
<1> QED
  BY <1>1, <1>2

LEMMA PlanOnFacts ==
  ASSUME NEW s, Legal(s)
  PROVE  LET t == PlanOn(s)
         IN /\ Legal(t)
            /\ Agrees(s) => Agrees(t)
            /\ t.rt = s.rt /\ t.hz.loop = s.hz.loop /\ t.disk.plan = "on"
  BY DEF Legal, Agrees, States, Disks, Guards, Harnesses, PlanOn

LEMMA PlanOffFacts ==
  ASSUME NEW s, Legal(s)
  PROVE  LET t == PlanOff(s)
         IN /\ Legal(t)
            /\ Agrees(s) => Agrees(t)
            /\ t.rt = s.rt /\ t.hz.loop = s.hz.loop
  BY DEF Legal, Agrees, States, Disks, Guards, Harnesses, PlanOff, PlanFileOff

LEMMA SetPlanFacts ==
  ASSUME NEW s, Legal(s), NEW u \in SettingsUpdates
  PROVE  LET t == SetPlan(s, u)
         IN /\ Legal(t)
            /\ Agrees(s) => Agrees(t)
            /\ t.rt = s.rt /\ t.hz.loop = s.hz.loop
            /\ u.plan = "same" => t.disk.plan = s.disk.plan
            /\ u.plan = "on" => t.disk.plan = "on"
  BY PlanOnFacts, PlanOffFacts DEF SettingsUpdates, SetPlan

LEMMA SetToolsFacts ==
  ASSUME NEW s, Legal(s), NEW u \in SettingsUpdates
  PROVE  LET t == SetTools(s, u)
         IN /\ Legal(t)
            /\ Agrees(s) => Agrees(t)
            /\ t.rt.model = s.rt.model /\ t.rt.mode = s.rt.mode
            /\ t.hz.loop = s.hz.loop /\ t.disk = s.disk
  BY DEF Legal, Agrees, States, SettingsUpdates, Runtimes, Harnesses, Toolsets, SetTools

\* An update that succeeds keeps the places in agreement.
LEMMA AppliedFacts ==
  ASSUME NEW s, Legal(s), NEW u \in SettingsUpdates
  PROVE  LET t == Applied(s, u)
         IN /\ Legal(t)
            /\ Agrees(s) => Agrees(t)
            /\ u.model = "same" => t.rt.model = s.rt.model
            /\ u.mode = "same" => t.rt.mode = s.rt.mode /\ t.hz.loop = s.hz.loop
            /\ u.mode # "same" => t.rt.mode = u.mode /\ t.hz.loop = u.mode
            /\ u.plan = "same" => t.disk.plan = s.disk.plan
            /\ u.plan = "on" => t.disk.plan = "on"
<1> DEFINE m == SetModel(s, u)
           n == SetMode(m, u)
           p == SetPlan(n, u)
           t == SetTools(p, u)
<1>1. /\ Legal(m)
      /\ Agrees(s) => Agrees(m)
      /\ m.hz = s.hz /\ m.rt.mode = s.rt.mode /\ m.disk.plan = s.disk.plan
      /\ u.model = "same" => m.rt.model = s.rt.model
  BY SetModelFacts
<1> HIDE DEF m
<1>2. /\ Legal(n)
      /\ Agrees(m) => Agrees(n)
      /\ n.rt.model = m.rt.model /\ n.disk.plan = m.disk.plan
      /\ u.mode = "same" => n.rt.mode = m.rt.mode /\ n.hz.loop = m.hz.loop
      /\ u.mode # "same" => n.rt.mode = u.mode /\ n.hz.loop = u.mode
  BY <1>1, SetModeFacts
<1> HIDE DEF n
<1>3. /\ Legal(p)
      /\ Agrees(n) => Agrees(p)
      /\ p.rt = n.rt /\ p.hz.loop = n.hz.loop
      /\ u.plan = "same" => p.disk.plan = n.disk.plan
      /\ u.plan = "on" => p.disk.plan = "on"
  BY <1>2, SetPlanFacts
<1> HIDE DEF p
<1>4. /\ Legal(t)
      /\ Agrees(p) => Agrees(t)
      /\ t.rt.model = p.rt.model /\ t.rt.mode = p.rt.mode
      /\ t.hz.loop = p.hz.loop /\ t.disk = p.disk
  BY <1>3, SetToolsFacts
<1> HIDE DEF t
<1>5. t = Applied(s, u)
  BY DEF m, n, p, t, Applied
<1> QED
  BY <1>1, <1>2, <1>3, <1>4, <1>5

\* What a failed update leaves behind never opens a Plan it was not asked to.
LEMMA FailedFacts ==
  ASSUME NEW s, Legal(s), NEW u \in SettingsUpdates, NEW t \in Failed(s, u)
  PROVE  /\ Legal(t)
         /\ u.plan # "off" /\ s.disk.plan \in {"on", "torn"} => t.disk.plan \in {"on", "torn"}
<1> DEFINE m == SetModel(s, u)
           n == SetMode(m, u)
<1>1. Legal(m) /\ m.disk.plan = s.disk.plan
  BY SetModelFacts
<1> HIDE DEF m
<1>2. Legal(n) /\ n.disk.plan = s.disk.plan
  BY <1>1, SetModeFacts
<1> HIDE DEF n
<1>3. \/ t = StoreModel(s, u) /\ u.model # "same"
      \/ t = StoreMode(m, u) /\ u.mode # "same"
      \/ t = n
      \/ t = [n EXCEPT !.disk.plan = "torn"]
      \/ t = PlanFileOff(n) /\ u.plan = "off"
  BY DEF Failed, m, n
<1>4. CASE t = StoreModel(s, u) /\ u.model # "same"
  BY <1>4, StoreModelFacts
<1>5. CASE t = StoreMode(m, u) /\ u.mode # "same"
  BY <1>1, <1>5, StoreModeFacts
<1>6. CASE t = n
  BY <1>2, <1>6
<1>7. CASE t = [n EXCEPT !.disk.plan = "torn"]
  BY <1>2, <1>7 DEF Legal, States, Disks
<1>8. CASE t = PlanFileOff(n) /\ u.plan = "off"
  BY <1>2, <1>8 DEF Legal, States, Disks, PlanFileOff
<1> QED
  BY <1>3, <1>4, <1>5, <1>6, <1>7, <1>8

LEMMA ReviewFacts ==
  ASSUME NEW s, Legal(s), NEW pending \in BOOLEAN
  PROVE  LET t == Review(s, pending)
         IN /\ Legal(t)
            /\ Agrees(s) => Agrees(t)
            /\ t.store = s.store /\ t.rt = s.rt /\ t.guard = s.guard /\ t.hz = s.hz
            /\ t.disk.plan = s.disk.plan
  BY DEF Legal, Agrees, States, Disks, Review, PlanActive

LEMMA BecomeNow ==
  ASSUME NEW s \in States, Become(s)
  PROVE  Current' = s
  BY DEF States, Become, Current

LEMMA CurrentFields ==
  /\ Current.disk = disk /\ Current.store = store /\ Current.rt = rt
  /\ Current.guard = guard /\ Current.hz = hz
  /\ Current'.disk = disk' /\ Current'.store = store' /\ Current'.rt = rt' /\ Current'.guard = guard'
  /\ Current'.hz = hz'
  BY DEF Current

-----------------------------------------------------------------------------
(* The invariant. *)

Statuses == {"none", "running", "paused"}

Types ==
  /\ up \in BOOLEAN /\ startQueued \in BOOLEAN /\ clean \in BOOLEAN /\ goal \in Statuses
  /\ turn.kind \in {"none", "client", "goal"} /\ turn.loop \in Modes

\* The harness runs in the mode of the Thread, unless a Turn of a Goal, which
\* restores the mode at its end, runs or is to come.
LoopInv ==
  /\ turn.kind = "none" => hz.loop = rt.mode \/ (rt.mode = "continuous" /\ startQueued)
  /\ turn.kind = "client" => /\ hz.loop = turn.loop
                             /\ hz.loop = rt.mode \/ (rt.mode = "continuous" /\ startQueued)
  /\ turn.kind = "goal" => turn.loop = rt.mode \/ rt.mode = "continuous"

HasView(c) == call[c].pc = "replied" /\ "view" \in DOMAIN call[c].body

\* One request holds the connection.
OneCall ==
  /\ call = [c \in Clients |-> call[c]]
  /\ \A c, d \in Clients : call[c] # NoCall /\ call[d] # NoCall => c = d

\* The mirror lags only behind a reply that will be taken into it.
MirrorInv ==
  /\ \A c \in Clients : HasView(c) => call[c].body.view.model = rt.model
  /\ (\E c \in Clients : HasView(c)) \/ mirror = rt.model

Consistent == up /\ clean => Agrees(Current) /\ LoopInv /\ MirrorInv

\* Plan mode, once acknowledged, is in the file, readable or not.
PlanKept == plan = "on" => disk.plan \in {"on", "torn"}

SettingsInv == Legal(Current) /\ Types /\ OneCall /\ Consistent /\ PlanKept

-----------------------------------------------------------------------------
(* SettingsUpdates and replies. *)

LEMMA QueuedAlone ==
  ASSUME OneCall, NEW c \in Clients, call[c].pc # "idle"
  PROVE  \A d \in Clients : d # c => call[d] = NoCall /\ ~HasView(d)
<1>1. call[c] # NoCall /\ NoCall.pc # "replied"
  BY DEF NoCall
<1> QED
  BY <1>1 DEF OneCall, HasView

LEMMA ReplyKeeps ==
  ASSUME OneCall, NEW c \in Clients, Queued(c), NEW b, Reply(c, [ok |-> b]),
         mirror' = mirror, rt'.model = rt.model
  PROVE  /\ OneCall'
         /\ MirrorInv => MirrorInv'
<1>1. /\ \A d \in Clients : d # c => call[d] = NoCall /\ ~HasView(d)
      /\ ~HasView(c)
  BY QueuedAlone DEF Queued, HasView
<1>2. /\ call' = [call EXCEPT ![c] = [pc |-> "replied", body |-> [ok |-> b]]]
      /\ \A d \in Clients : d # c => call'[d] = call[d]
      /\ call'[c] = [pc |-> "replied", body |-> [ok |-> b]]
  BY DEF Reply, OneCall
<1>3. call' = [d \in Clients |-> call'[d]]
  BY <1>2 DEF OneCall
<1>4. OneCall'
  BY <1>1, <1>2, <1>3 DEF OneCall, NoCall
<1>5. "view" \notin DOMAIN call'[c].body
  BY <1>2
<1>6. \A d \in Clients : ~HasView(d)'
  BY <1>1, <1>2, <1>5 DEF HasView
<1> QED
  BY <1>1, <1>4, <1>6 DEF MirrorInv

LEMMA ReplyViewKeeps ==
  ASSUME OneCall, NEW c \in Clients, Queued(c), NEW v, Reply(c, [ok |-> TRUE, view |-> v]),
         v.model = rt'.model
  PROVE  OneCall' /\ MirrorInv'
<1>1. \A d \in Clients : d # c => call[d] = NoCall /\ ~HasView(d)
  BY QueuedAlone DEF Queued
<1> DEFINE body == [ok |-> TRUE, view |-> v]
<1>2. /\ \A d \in Clients : d # c => call'[d] = call[d]
      /\ call'[c] = [pc |-> "replied", body |-> body]
      /\ call' = [d \in Clients |-> call'[d]]
  BY DEF Reply, OneCall
<1>3. OneCall'
  BY <1>1, <1>2 DEF OneCall, NoCall
<1>4. HasView(c)' /\ call'[c].body.view = v
  BY <1>2 DEF HasView
<1>5. \A d \in Clients : d # c => ~HasView(d)'
  BY <1>1, <1>2 DEF HasView
<1> QED
  BY <1>3, <1>4, <1>5 DEF MirrorInv

-----------------------------------------------------------------------------
(* Restoring the continuation. *)

LEMMA AgainType ==
  ASSUME NEW s
  PROVE  /\ Again(s) \in SettingsUpdates /\ Again(s).model = "same" /\ Again(s).mode = "continuous"
         /\ s.disk.plan = "on" => Again(s).plan = "on"
  BY DEF Again, SettingsUpdates, PlanActive

LEMMA ContinuationFacts ==
  ASSUME NEW s, Legal(s), NEW status, RestoreContinuation(s, status), clean \in BOOLEAN
  PROVE  /\ Legal(Current')
         /\ clean' \in BOOLEAN
         /\ clean' => /\ clean
                      /\ Agrees(s) => Agrees(Current')
                      /\ rt'.model = s.rt.model /\ rt'.mode = s.rt.mode
                      /\ hz'.loop = s.hz.loop \/ hz'.loop = rt'.mode
                      /\ rt'.mode = "continuous" /\ status # "running" => hz'.loop = rt'.mode
         /\ (plan = "on" => s.disk.plan \in {"on", "torn"}) => PlanKept'
<1> DEFINE u == Again(s)
<1>0. /\ u \in SettingsUpdates /\ u.model = "same" /\ u.mode = "continuous"
      /\ s.disk.plan = "on" => u.plan = "on"
  BY AgainType
<1>n. /\ Current'.disk = disk' /\ Current'.rt = rt' /\ Current'.hz = hz'
  BY CurrentFields
<1>1. CASE s.rt.mode # "continuous" \/ status = "running"
  <2>1. Become(s) /\ UNCHANGED <<plan, clean>>
    BY <1>1 DEF RestoreContinuation
  <2>2. Current' = s
    BY <2>1, BecomeNow DEF Legal
  <2> QED
    BY <1>1, <1>n, <2>1, <2>2 DEF PlanKept
<1>2. CASE ~(s.rt.mode # "continuous" \/ status = "running")
  <2>1. plan' = IF s.disk.plan = "torn" /\ plan = "on" THEN "lost" ELSE plan
    BY <1>2 DEF RestoreContinuation
  <2>2. CASE Become(Applied(s, u)) /\ UNCHANGED <<clean, spent>>
    <3> DEFINE t == Applied(s, u)
    <3>1. /\ Legal(t)
          /\ Agrees(s) => Agrees(t)
          /\ t.rt.model = s.rt.model /\ t.rt.mode = "continuous" /\ t.hz.loop = "continuous"
          /\ s.disk.plan = "on" => t.disk.plan = "on"
      BY <1>0, AppliedFacts
    <3> HIDE DEF t
    <3>2. Current' = t
      BY <2>2, <3>1, BecomeNow DEF Legal, t
    <3>3. (plan = "on" => s.disk.plan \in {"on", "torn"}) => PlanKept'
      BY <1>n, <2>1, <3>1, <3>2 DEF PlanKept
    <3> QED
      BY <1>2, <1>n, <2>2, <3>1, <3>2, <3>3
  <2>3. CASE clean' = FALSE /\ \E t \in Failed(s, u) : Become(t)
    <3>1. PICK t \in Failed(s, u) : Become(t)
      BY <2>3
    <3>2. /\ Legal(t)
          /\ u.plan # "off" /\ s.disk.plan \in {"on", "torn"} => t.disk.plan \in {"on", "torn"}
      BY <1>0, FailedFacts
    <3>3. Current' = t
      BY <3>1, <3>2, BecomeNow DEF Legal
    <3>4. (plan = "on" => s.disk.plan \in {"on", "torn"}) => PlanKept'
      BY <1>0, <1>n, <2>1, <3>2, <3>3 DEF PlanKept
    <3> QED
      BY <2>3, <3>2, <3>3, <3>4
  <2> QED
    BY <1>2, <2>2, <2>3 DEF RestoreContinuation
<1> QED
  BY <1>1, <1>2

-----------------------------------------------------------------------------
(* The actions. *)

\* A request is startQueued or answered and no setting changes; a Goal may be
\* startQueued.
LEMMA AnswerKeeps ==
  ASSUME SettingsInv, UNCHANGED <<up, disk, store, rt, guard, hz, turn, plan, clean>>,
         goal' \in Statuses, startQueued' \in BOOLEAN, startQueued => startQueued', OneCall',
         MirrorInv => MirrorInv'
  PROVE  SettingsInv'
<1>1. Current' = Current
  BY DEF Current
<1>2. LoopInv => LoopInv'
  BY DEF LoopInv
<1> QED
  BY <1>1, <1>2 DEF SettingsInv, Types, Consistent, PlanKept

LEMMA AskKeeps ==
  ASSUME SettingsInv, NEW c \in Clients, NEW cmd, Ask(c, cmd)
  PROVE  SettingsInv'
<1>1. /\ call' = [call EXCEPT ![c] = [pc |-> "queued", cmd |-> cmd, expected |-> rev]]
      /\ \A d \in Clients : call[d] = NoCall
  BY DEF Ask, ConnectionFree
<1>2. /\ \A d \in Clients : d # c => call'[d] = NoCall
      /\ call'[c].pc = "queued" /\ call' = [d \in Clients |-> call'[d]]
  BY <1>1 DEF SettingsInv, OneCall
<1>3. \A d \in Clients : ~HasView(d) /\ ~HasView(d)'
  BY <1>1, <1>2 DEF HasView, NoCall
<1>4. OneCall'
  BY <1>2 DEF OneCall
<1>5. MirrorInv => MirrorInv'
  BY <1>3 DEF Ask, MirrorInv
<1> QED
  BY <1>4, <1>5, AnswerKeeps DEF Ask, SettingsInv, Types

\* Refusals and the requests about the Goal that leave the settings alone.
LEMMA OtherRequestsKeep ==
  ASSUME SettingsInv, NEW c \in Clients, NEW u,
         Refuse(c) \/ UpdateOwned(c, u) \/ SetGoal(c) \/ PauseGoal(c)
  PROVE  SettingsInv'
<1>1. /\ UNCHANGED <<up, disk, store, rt, guard, hz, turn, plan, clean, mirror>>
      /\ Queued(c)
  BY DEF Refuse, UpdateOwned, SetGoal, PauseGoal
<1>2. Reply(c, [ok |-> FALSE]) \/ Reply(c, [ok |-> TRUE])
  BY DEF Refuse, UpdateOwned, SetGoal, PauseGoal
<1>3. OneCall' /\ (MirrorInv => MirrorInv')
  BY <1>1, <1>2, ReplyKeeps DEF SettingsInv
<1>4. goal' \in Statuses /\ startQueued' \in BOOLEAN /\ (startQueued => startQueued')
  BY DEF Refuse, UpdateOwned, SetGoal, PauseGoal, SettingsInv, Types, Statuses
<1> QED
  BY <1>1, <1>3, <1>4, AnswerKeeps

LEMMA ReturnKeeps ==
  ASSUME SettingsInv, NEW c \in Clients, Return(c)
  PROVE  SettingsInv'
<1>1. /\ \A d \in Clients : d # c => call[d] = NoCall /\ ~HasView(d)
      /\ call' = [call EXCEPT ![c] = NoCall] /\ call[c].pc = "replied"
  BY QueuedAlone DEF Return, SettingsInv
<1>2. /\ \A d \in Clients : call'[d] = NoCall
      /\ call' = [d \in Clients |-> call'[d]]
  BY <1>1 DEF SettingsInv, OneCall
<1>3. OneCall'
  BY <1>2 DEF OneCall
<1>4. \A d \in Clients : ~HasView(d)'
  BY <1>2 DEF HasView, NoCall
<1>5. mirror' = IF HasView(c) THEN call[c].body.view.model ELSE mirror
  BY <1>1 DEF Return, HasView
<1>6. MirrorInv => MirrorInv'
  BY <1>1, <1>4, <1>5 DEF MirrorInv, Return
<1> QED
  BY <1>3, <1>6, AnswerKeeps DEF Return, SettingsInv, Types

LEMMA UpdateSettingsKeeps ==
  ASSUME SettingsInv, NEW c \in Clients, NEW u \in Updates, UpdateSettings(c, u)
  PROVE  SettingsInv'
<1> DEFINE t == Applied(Current, u)
<1>0. u \in SettingsUpdates
  BY RuntimeSettingsAssumption DEF SettingsUpdates
<1>1. /\ Become(t) /\ Queued(c) /\ Reply(c, [ok |-> TRUE, view |-> View(t)])
      /\ plan' = (IF u.plan = "same" THEN plan ELSE u.plan)
      /\ turn.kind = "none" /\ UNCHANGED <<up, startQueued, turn, goal, clean>>
  BY DEF UpdateSettings, Refused
<1>2. /\ Legal(t)
      /\ Agrees(Current) => Agrees(t)
      /\ u.mode = "same" => t.rt.mode = Current.rt.mode /\ t.hz.loop = Current.hz.loop
      /\ u.mode # "same" => t.rt.mode = u.mode /\ t.hz.loop = u.mode
      /\ u.plan = "same" => t.disk.plan = Current.disk.plan
      /\ u.plan = "on" => t.disk.plan = "on"
  BY <1>0, AppliedFacts DEF SettingsInv
<1> HIDE DEF t
<1>3. Current' = t
  BY <1>1, <1>2, BecomeNow DEF Legal
<1>4. View(t).model = rt'.model
  BY <1>3, CurrentFields DEF View
<1>5. OneCall' /\ MirrorInv'
  BY <1>1, <1>4, ReplyViewKeeps DEF SettingsInv
<1>6. LoopInv => LoopInv'
  BY <1>1, <1>2, <1>3, CurrentFields DEF LoopInv
<1>7. PlanKept'
  BY <1>0, <1>1, <1>2, <1>3, CurrentFields DEF SettingsInv, PlanKept, SettingsUpdates
<1>8. Consistent'
  BY <1>1, <1>2, <1>3, <1>5, <1>6 DEF SettingsInv, Consistent
<1>9. Types'
  BY <1>1 DEF SettingsInv, Types
<1> QED
  BY <1>2, <1>3, <1>5, <1>7, <1>8, <1>9 DEF SettingsInv

LEMMA UpdateFailsKeeps ==
  ASSUME SettingsInv, NEW c \in Clients, NEW u \in Updates, UpdateFails(c, u)
  PROVE  SettingsInv'
<1>0. u \in SettingsUpdates
  BY RuntimeSettingsAssumption DEF SettingsUpdates
<1>1. /\ Queued(c) /\ Reply(c, [ok |-> FALSE]) /\ clean' = FALSE
      /\ plan' = (IF u.plan = "off" THEN "off" ELSE plan)
      /\ UNCHANGED <<up, startQueued, turn, goal>>
  BY DEF UpdateFails
<1>2. PICK t \in Failed(Current, u) : Become(t)
  BY DEF UpdateFails
<1>3. /\ Legal(t)
      /\ u.plan # "off" /\ Current.disk.plan \in {"on", "torn"} => t.disk.plan \in {"on", "torn"}
  BY <1>0, FailedFacts DEF SettingsInv
<1>4. Current' = t
  BY <1>2, <1>3, BecomeNow DEF Legal
<1>5. OneCall'
  <2>1. /\ \A d \in Clients : d # c => call[d] = NoCall
        /\ \A d \in Clients : d # c => call'[d] = call[d]
        /\ call' = [d \in Clients |-> call'[d]]
    BY <1>1, QueuedAlone DEF SettingsInv, OneCall, Queued, Reply
  <2> QED
    BY <2>1 DEF OneCall
<1>6. PlanKept'
  BY <1>1, <1>3, <1>4, CurrentFields DEF SettingsInv, PlanKept
<1>7. Types' /\ Consistent'
  BY <1>1 DEF SettingsInv, Types, Consistent
<1> QED
  BY <1>3, <1>4, <1>5, <1>6, <1>7 DEF SettingsInv

LEMMA SetExecutionKeeps ==
  ASSUME SettingsInv, NEW c \in Clients, NEW access \in {"ask", "full"},
         SetExecution(c, access) \/ SetExecutionFails(c, access)
  PROVE  SettingsInv'
<1>1. /\ Reply(c, [ok |-> TRUE]) \/ Reply(c, [ok |-> FALSE])
      /\ UNCHANGED <<up, disk, store, startQueued, turn, goal, plan, mirror>>
      /\ guard' = [guard EXCEPT !.access = access]
  BY DEF SetExecution, SetExecutionFails
<1>a. Queued(c)
  BY DEF SetExecution, SetExecutionFails
<1>2. /\ disk \in Disks /\ store \in Stores /\ rt \in Runtimes /\ guard \in Guards
      /\ hz \in Harnesses /\ disk.tag <= disk.thread
  BY CurrentFields DEF SettingsInv, Legal, States
<1>3. guard' \in Guards /\ guard'.plan = guard.plan /\ guard'.access = access
  BY <1>1, <1>2 DEF Guards, Accesses
<1>4. /\ rt' \in Runtimes /\ rt'.model = rt.model /\ rt'.mode = rt.mode /\ rt'.tools = rt.tools
  BY <1>2 DEF SetExecution, SetExecutionFails, Runtimes, Accesses
<1>5. /\ hz' \in Harnesses /\ hz'.loop = hz.loop /\ hz'.hidden = hz.hidden
      /\ hz'.overlay = hz.overlay
  BY <1>2 DEF SetExecution, SetExecutionFails, Harnesses, Accesses
<1>6. Legal(Current')
  BY <1>1, <1>2, <1>3, <1>4, <1>5 DEF Legal, States, Current
<1>7. OneCall' /\ (MirrorInv => MirrorInv')
  BY <1>1, <1>a, <1>4, ReplyKeeps DEF SettingsInv
<1>8. CASE SetExecution(c, access)
  <2>1. clean' = clean /\ rt'.world = access
    BY <1>8, <1>2 DEF SetExecution, Runtimes
  <2>2. hz'.told = access \/ (hz'.told = hz.told /\ access = rt.world)
    BY <1>8, <1>2 DEF SetExecution, Harnesses
  <2>3. Agrees(Current) => Agrees(Current')
    BY <1>1, <1>3, <1>4, <1>5, <2>1, <2>2, CurrentFields DEF Agrees
  <2>4. LoopInv => LoopInv'
    BY <1>1, <1>4, <1>5 DEF LoopInv
  <2>5. Consistent' /\ Types' /\ PlanKept'
    BY <1>1, <1>7, <2>1, <2>3, <2>4 DEF SettingsInv, Consistent, Types, PlanKept
  <2> QED
    BY <1>6, <1>7, <2>5 DEF SettingsInv
<1>9. CASE SetExecutionFails(c, access)
  <2>1. clean' = FALSE
    BY <1>9 DEF SetExecutionFails
  <2>2. Consistent' /\ Types' /\ PlanKept'
    BY <1>1, <2>1 DEF SettingsInv, Consistent, Types, PlanKept
  <2> QED
    BY <1>6, <1>7, <2>2 DEF SettingsInv
<1> QED
  BY <1>8, <1>9

LEMMA StartNewThreadKeeps ==
  ASSUME SettingsInv, NEW c \in Clients, StartNewThread(c)
  PROVE  SettingsInv'
<1>1. /\ Queued(c) /\ Reply(c, [ok |-> TRUE])
      /\ UNCHANGED <<up, rt, guard, hz, mirror, startQueued, turn, goal, plan>>
      /\ disk' = [disk EXCEPT !.thread = @ + 1]
      /\ store' = [mode |-> "manual", model |-> "default"]
  BY DEF StartNewThread
<1>2. /\ disk \in Disks /\ rt \in Runtimes /\ guard \in Guards
      /\ hz \in Harnesses /\ disk.tag <= disk.thread
  BY CurrentFields DEF SettingsInv, Legal, States
<1>3. /\ disk' \in Disks /\ disk'.tag <= disk'.thread /\ disk'.tag # disk'.thread
      /\ disk'.plan = disk.plan
  BY <1>1, <1>2 DEF Disks
<1>4. store' \in Stores /\ store'.mode = "manual" /\ store'.model = "default"
  BY <1>1 DEF Stores, Modes, Models
<1>5. Legal(Current')
  BY <1>1, <1>2, <1>3, <1>4 DEF Legal, States, Current
<1>6. clean' \in BOOLEAN /\ (clean' => clean /\ rt.mode = "manual" /\ rt.model = "default")
  BY DEF StartNewThread
<1>7. OneCall' /\ (MirrorInv => MirrorInv')
  BY <1>1, ReplyKeeps DEF SettingsInv
<1>8. clean' /\ Agrees(Current) => Agrees(Current')
  BY <1>1, <1>3, <1>4, <1>6, CurrentFields DEF Agrees
<1>9. LoopInv => LoopInv'
  BY <1>1 DEF LoopInv
<1>10. Consistent' /\ Types' /\ PlanKept'
  BY <1>1, <1>3, <1>6, <1>7, <1>8, <1>9 DEF SettingsInv, Consistent, Types, PlanKept
<1> QED
  BY <1>5, <1>7, <1>10 DEF SettingsInv

LEMMA ClearGoalKeeps ==
  ASSUME SettingsInv, NEW c \in Clients, ClearGoal(c)
  PROVE  SettingsInv'
<1>1. /\ Queued(c) /\ goal' \in Statuses
      /\ UNCHANGED <<up, mirror, startQueued, turn>>
  BY DEF ClearGoal, SettingsInv, Types, Statuses
<1>a. Reply(c, [ok |-> TRUE]) \/ Reply(c, [ok |-> FALSE])
  BY DEF ClearGoal
<1>2. CASE turn.kind # "none"
  <2>1. UNCHANGED <<disk, store, rt, guard, hz, plan, clean>>
    BY <1>2 DEF ClearGoal
  <2>2. OneCall' /\ (MirrorInv => MirrorInv')
    BY <1>1, <1>a, <2>1, ReplyKeeps DEF SettingsInv
  <2> QED
    BY <1>1, <2>1, <2>2, AnswerKeeps DEF SettingsInv, Types
<1>3. CASE turn.kind = "none"
  <2>1. RestoreContinuation(Current, goal')
    BY <1>3 DEF ClearGoal
  <2>2. /\ Legal(Current')
        /\ clean' \in BOOLEAN
        /\ clean' => /\ clean
                     /\ Agrees(Current) => Agrees(Current')
                     /\ rt'.model = Current.rt.model /\ rt'.mode = Current.rt.mode
                     /\ hz'.loop = Current.hz.loop \/ hz'.loop = rt'.mode
        /\ (plan = "on" => Current.disk.plan \in {"on", "torn"}) => PlanKept'
    BY <2>1, ContinuationFacts DEF SettingsInv, Types
  <2>3. OneCall'
    <3>1. /\ \A d \in Clients : d # c => call[d] = NoCall
          /\ \A d \in Clients : d # c => call'[d] = call[d]
          /\ call' = [d \in Clients |-> call'[d]]
      BY <1>1, <1>a, QueuedAlone DEF SettingsInv, OneCall, Queued, Reply
    <3> QED
      BY <3>1 DEF OneCall
  <2>4. clean' /\ MirrorInv => MirrorInv'
    BY <1>1, <1>a, <2>2, ReplyKeeps, CurrentFields DEF SettingsInv
  <2>5. clean' /\ LoopInv => LoopInv'
    BY <1>1, <1>3, <2>2, CurrentFields DEF LoopInv
  <2>6. Consistent'
    BY <1>1, <2>2, <2>4, <2>5 DEF SettingsInv, Consistent
  <2>7. PlanKept'
    BY <2>2, CurrentFields DEF SettingsInv, PlanKept
  <2>8. Types'
    BY <1>1, <2>2 DEF SettingsInv, Types
  <2> QED
    BY <2>2, <2>3, <2>6, <2>7, <2>8 DEF SettingsInv
<1> QED
  BY <1>2, <1>3

LEMMA StartTurnKeeps ==
  ASSUME SettingsInv, NEW c \in Clients, StartTurn(c)
  PROVE  SettingsInv'
<1>1. /\ Queued(c) /\ Reply(c, [ok |-> turn.kind = "none"])
      /\ UNCHANGED <<up, store, rt, guard, hz, mirror, startQueued, goal, plan, clean>>
  BY DEF StartTurn
<1>2. OneCall' /\ (MirrorInv => MirrorInv')
  BY <1>1, ReplyKeeps DEF SettingsInv
<1>3. CASE turn.kind # "none"
  BY <1>1, <1>2, <1>3, AnswerKeeps DEF StartTurn, SettingsInv, Types
<1>4. CASE turn.kind = "none"
  <2> DEFINE t == Review(Current, FALSE)
  <2>1. /\ Legal(t)
        /\ Agrees(Current) => Agrees(t)
        /\ t.store = Current.store /\ t.rt = Current.rt /\ t.guard = Current.guard /\ t.hz = Current.hz
        /\ t.disk.plan = Current.disk.plan
    BY ReviewFacts DEF SettingsInv
  <2>a. disk' = t.disk /\ turn' = [kind |-> "client", model |-> mirror, loop |-> hz.loop]
    BY <1>4, Zenon DEF StartTurn
  <2>2. disk' = t.disk /\ turn'.kind = "client" /\ turn'.loop = hz.loop
    BY <2>a
  <2> HIDE DEF t
  <2>3. Become(t)
    BY <1>1, <2>1, <2>2, CurrentFields DEF Become
  <2>4. Current' = t
    BY <2>1, <2>3, BecomeNow DEF Legal
  <2>5. hz.loop \in Modes
    BY CurrentFields DEF SettingsInv, Legal, States, Harnesses
  <2>6. LoopInv => LoopInv'
    BY <1>1, <1>4, <2>2 DEF LoopInv
  <2>7. Consistent' /\ Types' /\ PlanKept'
    BY <1>1, <1>2, <2>1, <2>2, <2>4, <2>5, <2>6, CurrentFields
    DEF SettingsInv, Consistent, Types, PlanKept
  <2> QED
    BY <1>2, <2>1, <2>4, <2>7 DEF SettingsInv
<1> QED
  BY <1>3, <1>4

\* A step that leaves requests and the mirror alone.
LEMMA SameCalls ==
  ASSUME OneCall, UNCHANGED <<call, mirror>>
  PROVE  /\ OneCall'
         /\ rt'.model = rt.model /\ MirrorInv => MirrorInv'
<1>1. \A c \in Clients : HasView(c)' <=> HasView(c)
  BY DEF HasView
<1> QED
  BY <1>1 DEF OneCall, MirrorInv

LEMMA StartGoalTurnKeeps ==
  ASSUME SettingsInv, StartGoalTurn
  PROVE  SettingsInv'
<1> DEFINE t == Review(Current, FALSE)
<1>0. /\ Legal(t)
      /\ Agrees(Current) => Agrees(t)
      /\ t.store = Current.store /\ t.rt = Current.rt /\ t.guard = Current.guard /\ t.hz = Current.hz
      /\ t.disk.plan = Current.disk.plan
  BY ReviewFacts DEF SettingsInv
<1>1. /\ turn.kind = "none" /\ startQueued' = FALSE /\ UNCHANGED <<up, mirror, call, goal>>
  BY DEF StartGoalTurn
<1>2. hz \in Harnesses /\ hz.loop \in Modes
  BY CurrentFields DEF SettingsInv, Legal, States, Harnesses
<1>3. CASE goal = "running"
  <2>a. /\ disk' = t.disk /\ turn' = [kind |-> "goal", model |-> "default", loop |-> hz.loop]
        /\ hz' = [hz EXCEPT !.loop = "continuous"]
        /\ UNCHANGED <<store, rt, guard, plan, clean>>
    BY <1>3, Zenon DEF StartGoalTurn
  <2>1. /\ disk' = t.disk /\ turn'.kind = "goal" /\ turn'.loop = hz.loop
        /\ hz' = [hz EXCEPT !.loop = "continuous"]
        /\ UNCHANGED <<store, rt, guard, plan, clean>>
    BY <2>a
  <2> HIDE DEF t
  <2>2. /\ hz' \in Harnesses /\ hz'.hidden = hz.hidden /\ hz'.overlay = hz.overlay
        /\ hz'.told = hz.told
    BY <1>2, <2>1 DEF Harnesses, Modes
  <2>3. Legal(Current')
    BY <1>0, <2>1, <2>2, CurrentFields DEF Legal, States, Current
  <2>4. Agrees(t) => Agrees(Current')
    BY <1>0, <2>1, <2>2, CurrentFields DEF Agrees
  <2>5. LoopInv => LoopInv'
    BY <1>1, <2>1 DEF LoopInv
  <2>6. OneCall' /\ (MirrorInv => MirrorInv')
    BY <1>1, <2>1, SameCalls DEF SettingsInv
  <2>7. Consistent' /\ Types' /\ PlanKept'
    BY <1>0, <1>1, <1>2, <2>1, <2>4, <2>5, <2>6, CurrentFields
    DEF SettingsInv, Consistent, Types, PlanKept
  <2> QED
    BY <2>3, <2>6, <2>7 DEF SettingsInv
<1>4. CASE goal # "running"
  <2> DEFINE r == [Current EXCEPT !.disk = t.disk]
  <2>1. RestoreContinuation(r, goal) /\ UNCHANGED turn
    BY <1>4 DEF StartGoalTurn
  <2>2. r = t
    BY <1>0, CurrentFields DEF SettingsInv, Legal, States
  <2> HIDE DEF r, t
  <2>3. /\ Legal(Current')
        /\ clean' \in BOOLEAN
        /\ clean' => /\ clean
                     /\ Agrees(t) => Agrees(Current')
                     /\ rt'.model = t.rt.model /\ rt'.mode = t.rt.mode
                     /\ hz'.loop = t.hz.loop \/ hz'.loop = rt'.mode
                     /\ rt'.mode = "continuous" /\ goal # "running" => hz'.loop = rt'.mode
        /\ (plan = "on" => t.disk.plan \in {"on", "torn"}) => PlanKept'
    BY <1>0, <2>1, <2>2, ContinuationFacts DEF SettingsInv, Types
  <2>4. OneCall' /\ (clean' /\ MirrorInv => MirrorInv')
    BY <1>0, <1>1, <2>3, SameCalls, CurrentFields DEF SettingsInv
  <2>5. clean' /\ LoopInv => LoopInv'
    BY <1>0, <1>1, <1>4, <2>1, <2>3, CurrentFields DEF LoopInv
  <2>6. Consistent'
    BY <1>0, <1>1, <2>3, <2>4, <2>5 DEF SettingsInv, Consistent
  <2>7. PlanKept' /\ Types'
    BY <1>0, <1>1, <2>1, <2>3, CurrentFields DEF SettingsInv, PlanKept, Types
  <2> QED
    BY <2>3, <2>4, <2>6, <2>7 DEF SettingsInv
<1> QED
  BY <1>3, <1>4

LEMMA RefuseGoalTurnKeeps ==
  ASSUME SettingsInv, RefuseGoalTurn
  PROVE  SettingsInv'
<1>1. /\ startQueued' = FALSE /\ clean' \in BOOLEAN /\ (clean' => clean /\ hz.loop = rt.mode)
      /\ UNCHANGED <<up, disk, store, rt, guard, hz, mirror, turn, call, goal, plan>>
  BY DEF RefuseGoalTurn
<1>2. Current' = Current
  BY <1>1 DEF Current
<1>3. OneCall' /\ (MirrorInv => MirrorInv')
  BY <1>1, SameCalls DEF SettingsInv
<1>4. clean' /\ LoopInv => LoopInv'
  BY <1>1 DEF LoopInv
<1>5. Consistent' /\ Types' /\ PlanKept'
  BY <1>1, <1>2, <1>3, <1>4 DEF SettingsInv, Consistent, Types, PlanKept
<1> QED
  BY <1>2, <1>3, <1>5 DEF SettingsInv

LEMMA EndTurnKeeps ==
  ASSUME SettingsInv, NEW completed \in BOOLEAN, NEW status \in Statuses, TurnEnds(completed, status)
  PROVE  SettingsInv'
<1> DEFINE o == [Current EXCEPT !.hz = OriginalConfig]
           t == Review(o, completed)
<1>1. /\ turn.kind # "none" /\ turn' = NoTurn /\ goal' = status
      /\ startQueued' \in BOOLEAN /\ (startQueued => startQueued')
      /\ (turn.kind = "goal" /\ status = "running" => startQueued')
      /\ UNCHANGED <<up, mirror, call>>
  BY DEF TurnEnds, SettingsInv, Types
<1>2. OriginalConfig \in Harnesses /\ OriginalConfig.loop = turn.loop
      /\ OriginalConfig.hidden = hz.hidden /\ OriginalConfig.overlay = hz.overlay
      /\ OriginalConfig.told = hz.told
  BY CurrentFields DEF SettingsInv, Types, Legal, States, Harnesses, OriginalConfig
<1>3. /\ o \in States /\ o.disk = Current.disk /\ o.store = Current.store /\ o.rt = Current.rt
      /\ o.guard = Current.guard /\ o.hz = OriginalConfig
  BY <1>2 DEF SettingsInv, Legal, States
<1>4. Legal(o) /\ (Agrees(Current) => Agrees(o))
  BY <1>2, <1>3, CurrentFields DEF SettingsInv, Legal, Agrees
<1>a. CASE turn.kind = "goal"
  <2>1. RestoreContinuation(t, status)
    BY <1>a DEF TurnEnds
  <2> HIDE DEF o
  <2>2. /\ Legal(t)
        /\ Agrees(o) => Agrees(t)
        /\ t.rt = o.rt /\ t.hz = o.hz /\ t.disk.plan = o.disk.plan
    BY <1>4, ReviewFacts
  <2> HIDE DEF t
  <2>3. /\ Legal(Current')
        /\ clean' \in BOOLEAN
        /\ clean' => /\ clean
                     /\ Agrees(t) => Agrees(Current')
                     /\ rt'.model = t.rt.model /\ rt'.mode = t.rt.mode
                     /\ hz'.loop = t.hz.loop \/ hz'.loop = rt'.mode
                     /\ rt'.mode = "continuous" /\ status # "running" => hz'.loop = rt'.mode
        /\ (plan = "on" => t.disk.plan \in {"on", "torn"}) => PlanKept'
    BY <2>1, <2>2, ContinuationFacts DEF SettingsInv, Types
  <2>4. OneCall' /\ (clean' /\ MirrorInv => MirrorInv')
    BY <1>1, <1>3, <2>2, <2>3, SameCalls, CurrentFields DEF SettingsInv
  <2>5. clean' /\ LoopInv => LoopInv'
    <3>1. ASSUME clean', LoopInv PROVE hz'.loop = rt'.mode \/ (rt'.mode = "continuous" /\ startQueued')
      <4>1. hz'.loop = turn.loop \/ hz'.loop = rt'.mode
        BY <1>2, <1>3, <2>2, <2>3, <3>1
      <4>2. rt'.mode = rt.mode
        BY <1>3, <2>2, <2>3, <3>1, CurrentFields
      <4>3. turn.loop = rt.mode \/ rt.mode = "continuous"
        BY <1>a, <3>1 DEF LoopInv
      <4> QED
        BY <1>1, <1>a, <2>3, <3>1, <4>1, <4>2, <4>3
    <3> QED
      BY <1>1, <3>1 DEF LoopInv, NoTurn
  <2>6. Consistent'
    BY <1>1, <1>4, <2>2, <2>3, <2>4, <2>5 DEF SettingsInv, Consistent
  <2>7. PlanKept' /\ Types'
    BY <1>1, <1>3, <2>2, <2>3, CurrentFields DEF SettingsInv, PlanKept, Types, NoTurn, Modes
  <2> QED
    BY <2>3, <2>4, <2>6, <2>7 DEF SettingsInv
<1>b. CASE turn.kind # "goal"
  <2>1. Become(t) /\ UNCHANGED <<plan, clean>>
    BY <1>b DEF TurnEnds
  <2> HIDE DEF o
  <2>2. /\ Legal(t)
        /\ Agrees(o) => Agrees(t)
        /\ t.rt = o.rt /\ t.hz = o.hz /\ t.disk.plan = o.disk.plan
    BY <1>4, ReviewFacts
  <2> HIDE DEF t
  <2>3. Current' = t
    BY <2>1, <2>2, BecomeNow DEF Legal
  <2>4. rt' = rt /\ hz'.loop = turn.loop /\ disk'.plan = disk.plan
    BY <1>2, <1>3, <2>2, <2>3, CurrentFields
  <2>5. OneCall' /\ (MirrorInv => MirrorInv')
    BY <1>1, <2>4, SameCalls DEF SettingsInv
  <2>6. LoopInv => LoopInv'
    BY <1>1, <1>b, <2>4 DEF SettingsInv, Types, LoopInv, NoTurn
  <2>7. Consistent' /\ Types' /\ PlanKept'
    BY <1>1, <1>4, <2>1, <2>2, <2>3, <2>4, <2>5, <2>6
    DEF SettingsInv, Consistent, Types, PlanKept, NoTurn, Modes
  <2> QED
    BY <2>2, <2>3, <2>5, <2>7 DEF SettingsInv
<1> QED
  BY <1>a, <1>b

LEMMA CrashKeeps ==
  ASSUME SettingsInv, NEW torn \in BOOLEAN, ProcessCrash(torn)
  PROVE  SettingsInv'
<1>1. /\ up' = FALSE
      /\ UNCHANGED <<store, rt, guard, hz, mirror, startQueued, turn, call, goal, plan, clean>>
      /\ disk' = IF torn THEN [disk EXCEPT !.plan = "torn"] ELSE disk
  BY DEF ProcessCrash, live
<1>2. disk \in Disks /\ disk.tag <= disk.thread
  BY CurrentFields DEF SettingsInv, Legal, States
<1>3. /\ disk' \in Disks /\ disk'.tag <= disk'.thread
      /\ disk'.plan = disk.plan \/ disk'.plan = "torn"
  BY <1>1, <1>2 DEF Disks
<1>4. Legal(Current')
  BY <1>1, <1>3, CurrentFields DEF SettingsInv, Legal, States, Current
<1>5. OneCall'
  BY <1>1, SameCalls DEF SettingsInv
<1>6. Types' /\ Consistent' /\ PlanKept'
  BY <1>1, <1>3 DEF SettingsInv, Types, Consistent, PlanKept
<1> QED
  BY <1>4, <1>5, <1>6 DEF SettingsInv

\* What a new process binds agrees, but for the prompt of Plan mode.
LEMMA RestartKeeps ==
  ASSUME SettingsInv, InstallRuntime
  PROVE  SettingsInv'
<1> DEFINE b == IF PlanActive(Bind) THEN PlanOn(Bind) ELSE Bind
<1>1. /\ up' = TRUE /\ RestoreContinuation(b, goal) /\ mirror' = Loaded.model
      /\ startQueued' \in BOOLEAN /\ (goal = "running" => startQueued') /\ turn' = NoTurn
      /\ call' = [c \in Clients |-> NoCall] /\ goal' = goal
  BY DEF InstallRuntime
<1>2. disk \in Disks /\ disk.tag <= disk.thread
  BY CurrentFields DEF SettingsInv, Legal, States
<1>3. /\ Loaded \in Stores
      /\ disk.tag = disk.thread => Loaded.mode = disk.mode /\ Loaded.model = disk.model
      /\ disk.tag # disk.thread => Loaded.mode = "manual" /\ Loaded.model = "default"
  BY <1>2 DEF Loaded, Disks, Stores, Modes, Models
<1>4. /\ Bind.disk = disk /\ Bind.store = Loaded /\ Bind.rt.model = Loaded.model
      /\ Bind.rt.mode = Loaded.mode /\ Bind.rt.tools = "all" /\ Bind.rt.world = "ask"
      /\ Bind.guard.plan = (disk.plan = "on") /\ Bind.guard.access = "ask"
      /\ Bind.hz.loop = "manual" /\ Bind.hz.hidden = "all"
      /\ Bind.hz.overlay = FALSE /\ Bind.hz.told = "ask"
  BY DEF Bind, Startup
<1>5. Legal(Bind)
  <2>1. Bind.rt \in Runtimes /\ Bind.guard \in Guards /\ Bind.hz \in Harnesses
    BY <1>3 DEF Bind, Startup, Runtimes, Guards, Harnesses, Stores, Toolsets, Accesses, Modes
  <2>2. Bind = [disk |-> Bind.disk, store |-> Bind.store, rt |-> Bind.rt,
                guard |-> Bind.guard, hz |-> Bind.hz]
    BY DEF Bind
  <2> QED
    BY <1>2, <1>3, <1>4, <2>1, <2>2 DEF Legal, States
<1> HIDE DEF b
<1>6. /\ Legal(b) /\ Agrees(b) /\ b.rt.model = Loaded.model /\ b.hz.loop = "manual"
      /\ b.rt.mode = Loaded.mode
      /\ disk.plan \in {"on", "torn"} => b.disk.plan \in {"on", "torn"}
  <2>1. CASE disk.plan = "on"
    <3>1. b = PlanOn(Bind)
      BY <1>4, <2>1 DEF b, PlanActive
    <3>2. /\ Legal(b) /\ b.rt = Bind.rt /\ b.hz.loop = Bind.hz.loop /\ b.disk.plan = "on"
      BY <1>5, <3>1, PlanOnFacts
    <3>3. /\ b.disk.tag = disk.tag /\ b.disk.thread = disk.thread /\ b.disk.mode = disk.mode
          /\ b.disk.model = disk.model /\ b.store = Loaded /\ b.hz.hidden = "all"
          /\ b.hz.told = "ask" /\ b.guard.access = "ask"
          /\ b.guard.plan = TRUE /\ b.hz.overlay = TRUE
      BY <1>2, <1>4, <1>5, <3>1 DEF PlanOn, Legal, States, Disks, Guards, Harnesses
    <3>4. Agrees(b)
      BY <1>3, <1>4, <2>1, <3>2, <3>3 DEF Agrees
    <3> QED
      BY <1>4, <3>2, <3>4
  <2>2. CASE disk.plan # "on"
    <3>1. b = Bind
      BY <1>4, <2>2 DEF b, PlanActive
    <3>2. Bind.guard.plan = FALSE
      BY <1>4, <2>2
    <3>3. Agrees(b)
      BY <1>3, <1>4, <2>2, <3>1, <3>2 DEF Agrees
    <3> QED
      BY <1>4, <1>5, <3>1, <3>3
  <2> QED
    BY <2>1, <2>2
<1>7. /\ Legal(Current')
      /\ clean' \in BOOLEAN
      /\ clean' => /\ clean
                   /\ Agrees(Current')
                   /\ rt'.model = b.rt.model /\ rt'.mode = b.rt.mode
                   /\ hz'.loop = b.hz.loop \/ hz'.loop = rt'.mode
                   /\ rt'.mode = "continuous" /\ goal # "running" => hz'.loop = rt'.mode
      /\ (plan = "on" => b.disk.plan \in {"on", "torn"}) => PlanKept'
  BY <1>1, <1>6, ContinuationFacts DEF SettingsInv, Types
<1>8. \A c \in Clients : call'[c] = NoCall /\ ~HasView(c)'
  BY <1>1 DEF HasView, NoCall
<1>9. OneCall' /\ (clean' => MirrorInv')
  BY <1>1, <1>6, <1>7, <1>8 DEF OneCall, MirrorInv
<1>10. clean' => LoopInv'
  <2>1. Loaded.mode \in {"manual", "continuous"}
    BY <1>3 DEF Stores, Modes
  <2> QED
    BY <1>1, <1>6, <1>7, <2>1 DEF LoopInv, NoTurn
<1>11. Consistent' /\ Types' /\ PlanKept'
  BY <1>1, <1>6, <1>7, <1>9, <1>10 DEF SettingsInv, Consistent, Types, NoTurn, Modes, PlanKept
<1> QED
  BY <1>7, <1>9, <1>11 DEF SettingsInv

-----------------------------------------------------------------------------

LEMMA SettingsStart == SettingsInit => SettingsInv
<1> SUFFICES ASSUME SettingsInit PROVE SettingsInv
  OBVIOUS
<1>1. Legal(Current)
  BY DEF SettingsInit, Legal, States, Current, Disks, Stores, Runtimes, Guards, Harnesses,
         Modes, Models, Toolsets, Accesses, Startup
<1>2. Types
  BY DEF SettingsInit, Types, NoTurn, Modes, Statuses
<1>3. \A c \in Clients : call[c] = NoCall /\ ~HasView(c)
  BY DEF SettingsInit, HasView, NoCall
<1>4. OneCall /\ MirrorInv
  BY <1>3 DEF SettingsInit, OneCall, MirrorInv
<1>5. LoopInv /\ Agrees(Current)
  BY CurrentFields DEF SettingsInit, LoopInv, NoTurn, Agrees, Startup
<1>6. Consistent /\ PlanKept
  BY <1>4, <1>5 DEF SettingsInit, Consistent, PlanKept
<1> QED
  BY <1>1, <1>2, <1>4, <1>6 DEF SettingsInv

LEMMA SettingsStep == SettingsInv /\ [SettingsNext]_settingsVars => SettingsInv'
<1> SUFFICES ASSUME SettingsInv, [SettingsNext]_settingsVars PROVE SettingsInv'
  OBVIOUS
<1>1. CASE \E c \in Clients, cmd \in Commands : Ask(c, cmd)
  BY <1>1, AskKeeps
<1>2. CASE \E c \in Clients : Refuse(c) \/ SetGoal(c) \/ PauseGoal(c)
  BY <1>2, OtherRequestsKeep
<1>3. CASE \E c \in Clients, u \in Updates :
             UpdateSettings(c, u) \/ UpdateFails(c, u) \/ UpdateOwned(c, u)
  BY <1>3, UpdateSettingsKeeps, UpdateFailsKeeps, OtherRequestsKeep
<1>4. CASE \E c \in Clients, access \in {"ask", "full"} :
             SetExecution(c, access) \/ SetExecutionFails(c, access)
  BY <1>4, SetExecutionKeeps
<1>5. CASE \E c \in Clients : StartNewThread(c) \/ ClearGoal(c) \/ StartTurn(c) \/ Return(c)
  BY <1>5, StartNewThreadKeeps, ClearGoalKeeps, StartTurnKeeps, ReturnKeeps
<1>6. CASE StartGoalTurn \/ RefuseGoalTurn
  BY <1>6, StartGoalTurnKeeps, RefuseGoalTurnKeeps
<1>7. CASE \E completed \in BOOLEAN, status \in Statuses : TurnEnds(completed, status)
  BY <1>7, EndTurnKeeps
<1>8. CASE (\E torn \in BOOLEAN : ProcessCrash(torn)) \/ InstallRuntime
  BY <1>8, CrashKeeps, RestartKeeps
<1>9. CASE UNCHANGED settingsVars
  <2>1. UNCHANGED <<up, disk, store, rt, guard, hz, mirror, startQueued, turn, call, goal,
                    plan, clean>>
    BY <1>9 DEF settingsVars, live
  <2>2. OneCall' /\ (MirrorInv => MirrorInv')
    BY <2>1, SameCalls DEF SettingsInv
  <2> QED
    BY <2>1, <2>2, AnswerKeeps DEF SettingsInv, Types
<1> QED
  BY <1>1, <1>2, <1>3, <1>4, <1>5, <1>6, <1>7, <1>8, <1>9 DEF SettingsNext, Statuses

\* The invariant: the places that hold a setting agree, but for what a Turn, a
\* Goal or a reply under way still owes (runtime_actor.rs, thread_settings.rs).
THEOREM SettingsInvariant == SettingsSpec => []SettingsInv
  BY SettingsStart, SettingsStep, PTL DEF SettingsSpec

\* With nothing under way the sidecar, the runtime actor, the harness, the
\* approval controller and the mirror agree, for any clients and updates, after
\* any number of crashes, Goals and Threads (set_thread_settings,
\* restore_thread_continuation, bind_thread_services).
THEOREM SettingsStayTogether == SettingsSpec => []SettingsAgree
<1>1. SettingsInv => SettingsAgree
  <2> SUFFICES ASSUME SettingsInv, Settled PROVE SettingsAgree
    BY DEF SettingsAgree
  <2>1. Agrees(Current) /\ LoopInv /\ MirrorInv /\ Legal(Current)
    BY DEF Settled, SettingsInv, Consistent
  <2>2. mirror = rt.model
    <3>1. \A c \in Clients : ~HasView(c)
      <4>1. NoCall.pc # "replied" /\ \A c \in Clients : call[c] = NoCall
        BY DEF Settled, ConnectionFree, NoCall
      <4> QED
        BY <4>1 DEF HasView
    <3> QED
      BY <2>1, <3>1 DEF MirrorInv
  <2>3. hz.loop = rt.mode
    BY <2>1 DEF Settled, LoopInv
  <2>4. /\ disk \in Disks /\ store \in Stores /\ rt \in Runtimes /\ guard \in Guards
        /\ hz \in Harnesses
    BY <2>1, CurrentFields DEF Legal, States
  <2>5. store = [mode |-> rt.mode, model |-> rt.model]
    BY <2>1, <2>4, CurrentFields DEF Agrees, Stores
  <2>6. Loaded = store
    BY <2>1, <2>4, CurrentFields DEF Agrees, Stores, Loaded
  <2>7. hz.hidden = rt.tools /\ rt.world = guard.access /\ hz.told = guard.access
    BY <2>1, CurrentFields DEF Agrees
  <2>8. guard.plan = PlanActive(Current) /\ hz.overlay = PlanActive(Current)
    <3>1. CASE disk.plan = "on"
      <4>1. guard.plan = TRUE /\ hz.overlay = TRUE
        BY <2>1, <3>1, CurrentFields DEF Agrees
      <4>2. PlanActive(Current) = TRUE
        BY <3>1, CurrentFields DEF PlanActive
      <4> QED
        BY <4>1, <4>2
    <3>2. CASE disk.plan # "on"
      <4>1. guard.plan = FALSE /\ hz.overlay = FALSE
        BY <2>1, <3>2, CurrentFields DEF Agrees
      <4>2. PlanActive(Current) = FALSE
        BY <3>2, CurrentFields DEF PlanActive
      <4> QED
        BY <4>1, <4>2
    <3> QED
      BY <3>1, <3>2
  <2> QED
    BY <2>2, <2>3, <2>5, <2>6, <2>7, <2>8 DEF SettingsAgree
<1> QED
  BY <1>1, SettingsInvariant, PTL

\* Acknowledged Plan mode admits no formal mutation until an update turns it
\* off, through any number of failed updates, torn files and restarts
\* (enforce_plan_selection, init_plan_mode, disable_plan_mode).
THEOREM PlanModeHolds == SettingsSpec => []PlanHolds
<1>1. SettingsInv => PlanHolds
  BY DEF SettingsInv, PlanKept, PlanHolds, Admits
<1> QED
  BY <1>1, SettingsInvariant, PTL
=============================================================================
