------------------------ MODULE SessionStorageProofs ------------------------
(***************************************************************************)
(* Proofs about the files of Sessions, for any number of processes, forks, *)
(* records, results, crashes and failed writes: first the locks, then what *)
(* is in the logs, then the thread index and the forks callers are given,  *)
(* then the stored results.                                                *)
(***************************************************************************)
EXTENDS SessionStorage, TLAPS, WellFoundedInduction, FiniteSetTheorems

Fields == {"pc", "at", "goal", "t", "f", "dead", "app", "next", "entries"}
Contending == {"lock", "reclaim", "relock", "made"}

\* Every process is a record of these fields.
Shaped ==
  /\ proc = [p \in Pids |-> proc[p]]
  /\ \A p \in Pids : DOMAIN proc[p] = Fields
  /\ lock \in [Sessions \cup {ForkLock} -> {"free", "blank"} \cup Pids]
  /\ dir = [s \in Sessions |-> dir[s]]
  /\ used \in [records : Nat, stored : Nat, faults : Nat, forks : Nat]

\* Where a process can be with the goal it has, and what it has named.
Phase(p) ==
    /\ proc[p].pc \in {"off", "dead", "lock", "reclaim", "relock", "made", "locked", "open",
                       "write", "sidecar", "indexing", "operation"}
    /\ Alive(p) => proc[p].at \in Sessions
    /\ ~Alive(p) => proc[p].goal = None /\ proc[p].f = None
    /\ proc[p].pc \in {"open", "sidecar"} => proc[p].goal = None
    /\ proc[p].pc \in {"indexing", "operation"} => proc[p].goal = "fork"
    /\ proc[p].pc = "write" /\ proc[p].app.purpose = "init" =>
         proc[p].goal # "fork" /\ proc[p].app.s = proc[p].at
    /\ proc[p].pc = "write" /\ proc[p].app.purpose \in {"record", "result"} =>
         proc[p].goal = None
    /\ proc[p].pc = "write" /\ proc[p].app.purpose = "fork" => proc[p].goal = "fork"

PhaseInv == \A p \in Pids : Phase(p)

\* Whoever is past the lock of its Session has its pid in the lock file; so has
\* a process that forks, in the lock of forks and of the Session it makes.
HolderInv ==
  \A p \in Pids : Alive(p) =>
    /\ proc[p].goal = "fork" \/ proc[p].pc \notin Contending => lock[proc[p].at] = p
    /\ proc[p].goal = "fork" /\ proc[p].pc \notin Contending => lock[ForkLock] = p
    /\ proc[p].f # None => /\ proc[p].f \in Sessions /\ proc[p].f # proc[p].at
                           /\ proc[p].goal = "fork"
                           /\ proc[p].pc \notin Contending
                           /\ lock[proc[p].f] = p

\* A lock file without a pid was made by one process, which is about to write
\* its pid; the pid of a lock file has been started, and the pid a reclaimer
\* read has ended for ever.
MadeBlank == \A p \in Pids : proc[p].pc = "made" => lock[Target(p)] = "blank"
MadeOnce ==
  \A p, q \in Pids :
    proc[p].pc = "made" /\ proc[q].pc = "made" /\ Target(p) = Target(q) => p = q
PidsStarted ==
  \A l \in Sessions \cup {ForkLock} : lock[l] \in Pids => proc[lock[l]].pc # "off"
DeadRead ==
  \A p \in Pids : proc[p].pc = "reclaim" =>
    proc[p].dead \in Pids /\ proc[proc[p].dead].pc = "dead"

LockFileInv == MadeBlank /\ MadeOnce /\ PidsStarted /\ DeadRead

\* Names that no fork has taken are not in use.
UnusedInv ==
  \A i \in (used.forks + 1) .. Len(Spare) :
    /\ dir[Spare[i]] = "absent"
    /\ lock[Spare[i]] = "free"
    /\ \A p \in Pids : proc[p].at # Spare[i] /\ proc[p].f # Spare[i]

LockInv == Shaped /\ PhaseInv /\ HolderInv /\ LockFileInv /\ UnusedInv

-----------------------------------------------------------------------------
(* What a step does to the processes *)

\* Only process p has changed.
Only(p) ==
  /\ proc' = [q \in Pids |-> proc'[q]]
  /\ \A q \in Pids : DOMAIN proc'[q] = Fields
  /\ \A q \in Pids : q # p => proc'[q] = proc[q]

\* What the invariant reads of process p stays, but for its pc.
Stays(p) ==
  /\ proc'[p].at = proc[p].at /\ proc'[p].goal = proc[p].goal
  /\ proc'[p].f = proc[p].f /\ proc'[p].dead = proc[p].dead

\* What else it knows stays.
More(p) ==
  proc'[p].t = proc[p].t /\ proc'[p].next = proc[p].next /\ proc'[p].entries = proc[p].entries

LEMMA NoProcessFields ==
  /\ DOMAIN NoProcess = Fields /\ NoProcess.next = 0
  /\ NoProcess.goal = None /\ NoProcess.f = None /\ NoProcess.at = None
  /\ NoProcess.app.purpose = "none"
  BY DEF NoProcess, Fields, NoAppend

LEMMA GoFacts ==
  ASSUME Shaped, NEW p \in Pids, NEW x, Go(p, x)
  PROVE  Only(p) /\ Stays(p) /\ More(p) /\ proc'[p].pc = x /\ proc'[p].app = proc[p].app
<1> DEFINE r == [proc[p] EXCEPT !.pc = x]
<1>1. proc' = [proc EXCEPT ![p] = r]
  BY DEF Go
<1>2. DOMAIN r = Fields /\ r.pc = x /\ r.at = proc[p].at /\ r.goal = proc[p].goal
      /\ r.f = proc[p].f /\ r.dead = proc[p].dead /\ r.app = proc[p].app
      /\ r.t = proc[p].t /\ r.next = proc[p].next /\ r.entries = proc[p].entries
  BY DEF Shaped, Fields
<1> HIDE DEF r
<1>3. proc' = [q \in Pids |-> IF q = p THEN r ELSE proc[q]]
  BY <1>1 DEF Shaped
<1> QED
  BY <1>2, <1>3 DEF Only, Stays, More, Shaped

LEMMA ReplaceFacts ==
  ASSUME Shaped, NEW p \in Pids, NEW r, DOMAIN r = Fields, proc' = [proc EXCEPT ![p] = r]
  PROVE  Only(p) /\ proc'[p] = r
  BY DEF Only, Shaped

LEMMA AppFacts ==
  ASSUME Shaped, NEW p \in Pids, NEW x, NEW a,
         proc' = [proc EXCEPT ![p].pc = x, ![p].app = a]
  PROVE  Only(p) /\ Stays(p) /\ More(p) /\ proc'[p].pc = x /\ proc'[p].app = a
<1> DEFINE r == [proc[p] EXCEPT !.pc = x, !.app = a]
<1>1. proc' = [proc EXCEPT ![p] = r]
  BY DEF Shaped
<1>2. DOMAIN r = Fields /\ r.pc = x /\ r.at = proc[p].at /\ r.goal = proc[p].goal
      /\ r.f = proc[p].f /\ r.dead = proc[p].dead /\ r.app = a
      /\ r.t = proc[p].t /\ r.next = proc[p].next /\ r.entries = proc[p].entries
  BY DEF Shaped, Fields
<1> HIDE DEF r
<1>3. proc' = [q \in Pids |-> IF q = p THEN r ELSE proc[q]]
  BY <1>1 DEF Shaped
<1> QED
  BY <1>2, <1>3 DEF Only, Stays, More, Shaped

LEMMA PhaseKept ==
  ASSUME PhaseInv, NEW p \in Pids, Only(p), Phase(p)'
  PROVE  PhaseInv'
<1> SUFFICES ASSUME NEW q \in Pids, q # p
             PROVE  Phase(q)'
  BY DEF PhaseInv
<1>1. proc'[q] = proc[q] /\ Phase(q)
  BY DEF Only, PhaseInv
<1> QED
  BY <1>1 DEF Phase, Alive

\* Names of Sessions: a fork's new name is a Session, and not the Main one.
LEMMA Names ==
  /\ Main \in Sessions /\ Main # None
  /\ ForkLock \notin Sessions /\ None \notin Sessions
  /\ \A i \in 1..Len(Spare) : Spare[i] \in Sessions /\ Spare[i] # Main /\ Spare[i] # None
  /\ \A i, j \in 1..Len(Spare) : Spare[i] = Spare[j] => i = j
  /\ Len(Spare) \in Nat
  /\ "free" \notin Pids /\ "blank" \notin Pids
<1>1. Spare \in Seq(Forks) /\ DOMAIN Spare = 1..Len(Spare) /\ Len(Spare) \in Nat
  BY NamesAssumption
<1>2. \A i \in 1..Len(Spare) : Spare[i] \in Forks
  BY <1>1
<1>3. Main \notin Forks /\ ForkLock \notin Sessions /\ None \notin Sessions
      /\ "free" \notin Pids /\ "blank" \notin Pids
  BY NamesAssumption
<1>4. \A i, j \in 1..Len(Spare) : Spare[i] = Spare[j] => i = j
  BY <1>1, NamesAssumption DEF IsInjective
<1> HIDE DEF Forks
<1> QED
  BY <1>1, <1>2, <1>3, <1>4 DEF Sessions

\* Lock files stay and nobody makes one or finds a stale one.
LEMMA SameLocks ==
  ASSUME LockInv, UNCHANGED lock,
         \A q \in Pids : proc'[q].pc \in {"made", "reclaim"} => proc'[q] = proc[q],
         \A q \in Pids : proc[q].pc = "dead" => proc'[q].pc = "dead",
         \A q \in Pids : proc[q].pc # "off" => proc'[q].pc # "off"
  PROVE  LockFileInv'
<1>1. \A q \in Pids : proc'[q].pc = "made" => proc[q].pc = "made" /\ Target(q)' = Target(q)
  BY DEF Target
<1>2. MadeBlank' /\ MadeOnce'
  BY <1>1 DEF LockInv, LockFileInv, MadeBlank, MadeOnce
<1>3. PidsStarted'
  BY DEF LockInv, LockFileInv, PidsStarted
<1>4. DeadRead'
  BY DEF LockInv, LockFileInv, DeadRead
<1> QED
  BY <1>2, <1>3, <1>4 DEF LockFileInv

\* A process that is past its lock and works on: the locks stay as they are.
LEMMA WorkInv ==
  ASSUME LockInv, NEW p \in Pids, Only(p), Alive(p),
         proc[p].pc \notin Contending,
         proc'[p].pc \notin Contending \cup {"off", "dead"},
         proc'[p].at = proc[p].at,
         proc'[p].goal = "fork" => proc[p].goal = "fork",
         proc'[p].f = None \/ (proc'[p].f = proc[p].f /\ proc'[p].goal = proc[p].goal),
         Phase(p)', Shaped', UNCHANGED lock, used'.forks = used.forks,
         \A s \in Sessions : dir'[s] = dir[s] \/ s = proc[p].at
  PROVE  LockInv'
<1>1. PhaseInv'
  BY PhaseKept DEF LockInv
<1>2. ASSUME NEW q \in Pids, q # p
      PROVE  proc'[q] = proc[q] /\ (Alive(q)' <=> Alive(q))
  BY <1>2 DEF Only, Alive
<1>3. HolderInv'
  <2> SUFFICES ASSUME NEW q \in Pids, Alive(q)'
               PROVE  /\ proc'[q].goal = "fork" \/ proc'[q].pc \notin Contending
                            => lock[proc'[q].at] = q
                      /\ proc'[q].goal = "fork" /\ proc'[q].pc \notin Contending
                            => lock[ForkLock] = q
                      /\ proc'[q].f # None => /\ proc'[q].f \in Sessions /\ proc'[q].f # proc'[q].at
                                              /\ proc'[q].goal = "fork"
                                              /\ proc'[q].pc \notin Contending
                                              /\ lock[proc'[q].f] = q
    BY DEF HolderInv
  <2>1. CASE q = p
    BY <2>1 DEF LockInv, HolderInv
  <2>2. CASE q # p
    BY <1>2, <2>2 DEF LockInv, HolderInv
  <2> QED
    BY <2>1, <2>2
<1>4. LockFileInv'
  <2>1. \A q \in Pids : proc'[q].pc \in {"made", "reclaim"} => q # p /\ proc'[q] = proc[q]
    BY <1>2 DEF Contending
  <2>2. \A q \in Pids : proc[q].pc = "dead" => proc'[q].pc = "dead"
    BY <1>2 DEF Alive
  <2>3. \A q \in Pids : proc[q].pc # "off" => proc'[q].pc # "off"
    BY <1>2
  <2> QED
    BY <2>1, <2>2, <2>3, SameLocks
<1>5. UnusedInv'
  <2> SUFFICES ASSUME NEW i \in (used.forks + 1) .. Len(Spare), NEW q \in Pids
               PROVE  /\ dir'[Spare[i]] = "absent" /\ lock[Spare[i]] = "free"
                      /\ proc'[q].at # Spare[i] /\ proc'[q].f # Spare[i]
    BY DEF UnusedInv
  <2>1. i \in 1..Len(Spare) /\ Spare[i] \in Sessions /\ Spare[i] # None
    BY Names DEF LockInv, Shaped
  <2>2. /\ dir[Spare[i]] = "absent" /\ lock[Spare[i]] = "free" /\ proc[p].at # Spare[i]
        /\ proc[q].at # Spare[i] /\ proc[q].f # Spare[i]
    BY DEF LockInv, UnusedInv
  <2> QED
    BY <1>2, <2>1, <2>2
<1> QED
  BY <1>1, <1>3, <1>4, <1>5 DEF LockInv

\* A store that is open appends, or keeps a result.
LEMMA OpenWork ==
  ASSUME LockInv, NEW p \in Pids, Only(p), Stays(p),
         proc[p].pc \in {"open", "sidecar"} \/
           (proc[p].pc = "write" /\ proc[p].app.purpose \in {"record", "result"}),
         proc'[p].pc \in {"open", "sidecar"} \/
           (proc'[p].pc = "write" /\ proc'[p].app.purpose \in {"record", "result"}),
         UNCHANGED <<lock, dir>>,
         used' \in [records : Nat, stored : Nat, faults : Nat, forks : Nat],
         used'.forks = used.forks
  PROVE  LockInv'
<1>1. Alive(p) /\ proc[p].pc \notin Contending
      /\ proc'[p].pc \notin Contending \cup {"off", "dead"}
  BY DEF Alive, Contending
<1>2. proc[p].goal = None /\ proc[p].at \in Sessions
  BY <1>1 DEF LockInv, PhaseInv, Phase
<1>3. Phase(p)'
  BY <1>2 DEF Phase, Stays, Alive, None
<1>4. Shaped'
  BY DEF LockInv, Shaped, Only
<1> QED
  BY <1>1, <1>3, <1>4, WorkInv DEF Stays

LEMMA BeginFacts ==
  ASSUME Shaped, NEW p \in Pids, NEW s, NEW purpose, NEW kinds, NEW v,
         Begin(p, s, purpose, kinds, v)
  PROVE  /\ Only(p) /\ Stays(p) /\ proc'[p].pc = "write"
         /\ proc'[p].app.purpose = purpose /\ proc'[p].app.s = s
<1> DEFINE App(j) == [purpose |-> purpose, s |-> s, from |-> Len(log[s]), mid |-> tail[s],
                      rest |-> SubSeq(Encoded(s, kinds, v), j + 1, Len(kinds)), v |-> v]
<1>0. \A j : App(j).purpose = purpose /\ App(j).s = s
  OBVIOUS
<1>1. PICK a : /\ proc' = [proc EXCEPT ![p].pc = "write", ![p].app = a]
               /\ a.purpose = purpose /\ a.s = s
  <2>1. PICK j \in 0 .. Len(kinds) - 1 :
          proc' = [proc EXCEPT ![p].pc = "write", ![p].app = App(j)]
    BY Zenon DEF Begin
  <2> HIDE DEF App
  <2> QED
    BY <1>0, <2>1
<1>2. Only(p) /\ Stays(p) /\ proc'[p].pc = "write" /\ proc'[p].app = a
  BY <1>1, AppFacts
<1> QED
  BY <1>1, <1>2

LEMMA Spent ==
  ASSUME used \in [records : Nat, stored : Nat, faults : Nat, forks : Nat],
         \/ used' = used
         \/ used' = [used EXCEPT !.records = @ + 1]
         \/ used' = [used EXCEPT !.stored = @ + 1]
         \/ used' = [used EXCEPT !.faults = @ + 1]
  PROVE  /\ used' \in [records : Nat, stored : Nat, faults : Nat, forks : Nat]
         /\ used'.forks = used.forks
<1>1. CASE used' = used
  BY <1>1
<1>2. CASE used' = [used EXCEPT !.records = @ + 1]
  BY <1>2
<1>3. CASE used' = [used EXCEPT !.stored = @ + 1]
  BY <1>3
<1>4. CASE used' = [used EXCEPT !.faults = @ + 1]
  BY <1>4
<1> QED
  BY <1>1, <1>2, <1>3, <1>4

LEMMA AppendInv ==
  ASSUME LockInv, NEW p \in Pids, AppendRecords(p) \/ AppendDone(p) \/ AppendFails(p)
  PROVE  LockInv'
<1>s. Shaped /\ used \in [records : Nat, stored : Nat, faults : Nat, forks : Nat]
  BY DEF LockInv, Shaped
<1>1. CASE AppendRecords(p)
  <2>1. PICK kinds : Begin(p, Main, "record", kinds, used.records + 1)
    BY <1>1 DEF AppendRecords
  <2>2. Only(p) /\ Stays(p) /\ proc'[p].pc = "write" /\ proc'[p].app.purpose = "record"
    BY <1>s, <2>1, BeginFacts
  <2>3. /\ proc[p].pc = "open" /\ UNCHANGED <<lock, dir>>
        /\ used' = [used EXCEPT !.records = @ + 1]
    BY <1>1 DEF AppendRecords, At
  <2> QED
    BY <1>s, <2>2, <2>3, Spent, OpenWork
<1>2. CASE AppendDone(p) \/ AppendFails(p)
  <2>1. /\ proc' = [proc EXCEPT ![p].pc = "open", ![p].app = NoAppend]
        /\ proc[p].pc = "write" /\ proc[p].app.purpose = "record" /\ UNCHANGED <<lock, dir>>
        /\ used' = used \/ used' = [used EXCEPT !.faults = @ + 1]
    BY <1>2 DEF AppendDone, AppendFails, At
  <2>2. Only(p) /\ Stays(p) /\ proc'[p].pc = "open"
    BY <1>s, <2>1, AppFacts
  <2> QED
    BY <1>s, <2>1, <2>2, Spent, OpenWork
<1> QED
  BY <1>1, <1>2

LEMMA StoreInv ==
  ASSUME LockInv, NEW p \in Pids,
         StoreResult(p) \/ StoreRecord(p) \/ StoreDone(p) \/ StoreFails(p)
  PROVE  LockInv'
<1>s. Shaped /\ used \in [records : Nat, stored : Nat, faults : Nat, forks : Nat]
  BY DEF LockInv, Shaped
<1>1. CASE StoreResult(p)
  <2>1. /\ proc' = [proc EXCEPT ![p].pc = "sidecar", ![p].next = NextHandle(p)]
        /\ proc[p].pc = "open" /\ UNCHANGED <<lock, dir>>
        /\ used' = [used EXCEPT !.stored = @ + 1]
    BY <1>1 DEF StoreResult, At
  <2> DEFINE r == [proc[p] EXCEPT !.pc = "sidecar", !.next = NextHandle(p)]
  <2>2. proc' = [proc EXCEPT ![p] = r]
    BY <1>s, <2>1 DEF Shaped
  <2>3. /\ DOMAIN r = Fields /\ r.pc = "sidecar" /\ r.at = proc[p].at
        /\ r.goal = proc[p].goal /\ r.f = proc[p].f /\ r.dead = proc[p].dead
    BY <1>s DEF Shaped, Fields
  <2> HIDE DEF r
  <2>4. Only(p) /\ proc'[p] = r
    BY <1>s, <2>2, <2>3, ReplaceFacts
  <2>5. Stays(p) /\ proc'[p].pc = "sidecar"
    BY <2>3, <2>4 DEF Stays
  <2> QED
    BY <1>s, <2>1, <2>4, <2>5, Spent, OpenWork
<1>2. CASE StoreRecord(p)
  <2>1. /\ Begin(p, Main, "result", <<"result">>, proc[p].next)
        /\ proc[p].pc = "sidecar" /\ UNCHANGED <<lock, dir, used>>
    BY <1>2 DEF StoreRecord, At
  <2>2. Only(p) /\ Stays(p) /\ proc'[p].pc = "write" /\ proc'[p].app.purpose = "result"
    BY <1>s, <2>1, BeginFacts
  <2> QED
    BY <1>s, <2>1, <2>2, Spent, OpenWork
<1>3. CASE StoreDone(p)
  <2>1. /\ proc[p].pc = "write" /\ proc[p].app.purpose = "result"
        /\ UNCHANGED <<lock, dir, used>>
        /\ \E es : proc' = [proc EXCEPT ![p].pc = "open", ![p].app = NoAppend,
                                        ![p].entries = es]
    BY <1>3 DEF StoreDone, At
  <2>2. PICK es : proc' = [proc EXCEPT ![p].pc = "open", ![p].app = NoAppend,
                                       ![p].entries = es]
    BY <2>1
  <2> DEFINE r == [proc[p] EXCEPT !.pc = "open", !.app = NoAppend, !.entries = es]
  <2>3. proc' = [proc EXCEPT ![p] = r]
    BY <1>s, <2>2 DEF Shaped
  <2>4. /\ DOMAIN r = Fields /\ r.pc = "open" /\ r.at = proc[p].at
        /\ r.goal = proc[p].goal /\ r.f = proc[p].f /\ r.dead = proc[p].dead
    BY <1>s DEF Shaped, Fields
  <2> HIDE DEF r
  <2>5. Only(p) /\ proc'[p] = r
    BY <1>s, <2>3, <2>4, ReplaceFacts
  <2>6. Stays(p) /\ proc'[p].pc = "open"
    BY <2>4, <2>5 DEF Stays
  <2> QED
    BY <1>s, <2>1, <2>5, <2>6, Spent, OpenWork
<1>4. CASE StoreFails(p)
  <2>1. /\ proc' = [proc EXCEPT ![p].pc = "open", ![p].app = NoAppend]
        /\ \/ proc[p].pc = "sidecar"
           \/ proc[p].pc = "write" /\ proc[p].app.purpose = "result"
        /\ UNCHANGED <<lock, dir>> /\ used' = [used EXCEPT !.faults = @ + 1]
    BY <1>4 DEF StoreFails, At
  <2>2. Only(p) /\ Stays(p) /\ proc'[p].pc = "open"
    BY <1>s, <2>1, AppFacts
  <2> QED
    BY <1>s, <2>1, <2>2, Spent, OpenWork
<1> QED
  BY <1>1, <1>2, <1>3, <1>4

LEMMA LoadWorkInv ==
  ASSUME LockInv, NEW p \in Pids, Initialize(p) \/ InitializeDone(p) \/ Resume(p)
  PROVE  LockInv'
<1>s. Shaped /\ used \in [records : Nat, stored : Nat, faults : Nat, forks : Nat]
  BY DEF LockInv, Shaped
<1>1. CASE Initialize(p)
  <2>1. /\ proc[p].pc = "locked" /\ proc[p].goal \in {"create", "branch"}
        /\ dir' = [dir EXCEPT ![proc[p].at] = "file"] /\ UNCHANGED <<lock, used>>
        /\ \E v : Begin(p, proc[p].at, "init", <<"header", "checkpoint">>, v)
    BY <1>1 DEF Initialize, At
  <2>2. PICK v : Begin(p, proc[p].at, "init", <<"header", "checkpoint">>, v)
    BY <2>1
  <2>3. /\ Only(p) /\ Stays(p) /\ proc'[p].pc = "write" /\ proc'[p].app.purpose = "init"
        /\ proc'[p].app.s = proc[p].at
    BY <1>s, <2>2, BeginFacts
  <2>4. Alive(p) /\ proc[p].at \in Sessions
    BY <2>1 DEF Alive, LockInv, PhaseInv, Phase
  <2>5. Phase(p)'
    BY <2>1, <2>3, <2>4 DEF Phase, Stays, Alive, None
  <2>6. Shaped' /\ \A s \in Sessions : dir'[s] = dir[s] \/ s = proc[p].at
    BY <2>1, <2>3 DEF LockInv, Shaped, Only
  <2> QED
    BY <2>1, <2>3, <2>4, <2>5, <2>6, WorkInv DEF Stays, Contending
<1>2. CASE InitializeDone(p) \/ Resume(p)
  <2>1. /\ \/ proc[p].pc = "locked" /\ proc[p].goal = "resume"
           \/ proc[p].pc = "write" /\ proc[p].app.purpose = "init"
        /\ UNCHANGED <<lock, used, dir>>
        /\ \/ proc' = [proc EXCEPT ![p] = [NoProcess EXCEPT !.pc = "open", !.at = proc[p].at]]
           \/ \E es, n : proc' = [proc EXCEPT ![p] =
                [NoProcess EXCEPT !.pc = "open", !.at = proc[p].at, !.entries = es, !.next = n]]
    BY <1>2 DEF InitializeDone, Resume, At
  <2>2. /\ Only(p) /\ proc'[p].pc = "open" /\ proc'[p].at = proc[p].at
        /\ proc'[p].goal = None /\ proc'[p].f = None
    <3>1. PICK r : /\ proc' = [proc EXCEPT ![p] = r]
                   /\ DOMAIN r = Fields /\ r.pc = "open" /\ r.at = proc[p].at
                   /\ r.goal = None /\ r.f = None
      <4>1. CASE proc' = [proc EXCEPT ![p] = [NoProcess EXCEPT !.pc = "open",
                                                               !.at = proc[p].at]]
        <5> DEFINE r1 == [NoProcess EXCEPT !.pc = "open", !.at = proc[p].at]
        <5>1. /\ DOMAIN r1 = Fields /\ r1.pc = "open" /\ r1.at = proc[p].at
              /\ r1.goal = None /\ r1.f = None
          BY NoProcessFields DEF Fields
        <5> QED
          BY <4>1, <5>1
      <4>2. ASSUME NEW es, NEW n, proc' = [proc EXCEPT ![p] =
                [NoProcess EXCEPT !.pc = "open", !.at = proc[p].at, !.entries = es, !.next = n]]
            PROVE  \E r : /\ proc' = [proc EXCEPT ![p] = r]
                          /\ DOMAIN r = Fields /\ r.pc = "open" /\ r.at = proc[p].at
                          /\ r.goal = None /\ r.f = None
        <5> DEFINE r1 == [NoProcess EXCEPT !.pc = "open", !.at = proc[p].at, !.entries = es,
                                           !.next = n]
        <5>1. /\ DOMAIN r1 = Fields /\ r1.pc = "open" /\ r1.at = proc[p].at
              /\ r1.goal = None /\ r1.f = None
          BY NoProcessFields DEF Fields
        <5> QED
          BY <4>2, <5>1
      <4> QED
        BY <2>1, <4>1, <4>2
    <3> QED
      BY <1>s, <3>1, ReplaceFacts
  <2>3. Alive(p) /\ proc[p].at \in Sessions
    BY <2>1 DEF Alive, LockInv, PhaseInv, Phase
  <2>4. Phase(p)'
    BY <2>2, <2>3 DEF Phase, Alive, None
  <2>5. Shaped'
    BY <2>1, <2>2 DEF LockInv, Shaped, Only
  <2> QED
    BY <2>1, <2>2, <2>3, <2>4, <2>5, WorkInv DEF Contending, None
<1> QED
  BY <1>1, <1>2

LEMMA ForkWorkInv ==
  ASSUME LockInv, NEW p \in Pids, ForkWritten(p) \/ IndexFork(p)
  PROVE  LockInv'
<1>s. Shaped /\ used \in [records : Nat, stored : Nat, faults : Nat, forks : Nat]
  BY DEF LockInv, Shaped
<1>1. PICK x \in {"indexing", "operation"} : Go(p, x)
  BY DEF ForkWritten, IndexFork
<1>2. /\ \/ proc[p].pc = "write" /\ proc[p].app.purpose = "fork"
         \/ proc[p].pc = "indexing"
      /\ UNCHANGED <<lock, dir>> /\ (used' = used \/ used' = [used EXCEPT !.faults = @ + 1])
  BY DEF ForkWritten, IndexFork, At
<1>3. Only(p) /\ Stays(p) /\ proc'[p].pc = x
  BY <1>s, <1>1, GoFacts
<1>4. Alive(p) /\ proc[p].goal = "fork" /\ proc[p].at \in Sessions
  BY <1>2 DEF Alive, LockInv, PhaseInv, Phase
<1>5. Phase(p)'
  BY <1>1, <1>3, <1>4 DEF Phase, Stays, Alive
<1>6. Shaped' /\ used'.forks = used.forks
  BY <1>s, <1>2, <1>3 DEF Shaped, Only
<1> QED
  BY <1>1, <1>2, <1>3, <1>4, <1>5, <1>6, WorkInv DEF Stays, Contending

-----------------------------------------------------------------------------
(* Opening *)

LEMMA LockInit == Init => LockInv
<1> SUFFICES ASSUME Init
             PROVE  LockInv
  OBVIOUS
<1>1. Shaped
  BY NoProcessFields DEF Init, Shaped
<1>2. \A p \in Pids : proc[p] = NoProcess /\ proc[p].pc = "off"
  BY DEF Init, NoProcess
<1>3. PhaseInv /\ HolderInv
  BY <1>2, NoProcessFields DEF PhaseInv, Phase, HolderInv, Alive, None
<1>4. LockFileInv
  BY <1>2, Names DEF Init, LockFileInv, MadeBlank, MadeOnce, PidsStarted, DeadRead
<1>5. UnusedInv
  <2>1. used.forks = 0
    BY DEF Init
  <2> QED
    BY <1>2, <2>1, Names, NoProcessFields DEF Init, UnusedInv
<1> QED
  BY <1>1, <1>3, <1>4, <1>5 DEF LockInv

\* The others hold what they held when every lock file with a pid stays.
LEMMA OthersHold ==
  ASSUME HolderInv, NEW p \in Pids, Only(p), NEW q \in Pids, q # p, Alive(q)',
         Shaped, PhaseInv,
         \A l \in Sessions \cup {ForkLock} : lock[l] = q => lock'[l] = q
  PROVE  /\ proc'[q].goal = "fork" \/ proc'[q].pc \notin Contending => lock'[proc'[q].at] = q
         /\ proc'[q].goal = "fork" /\ proc'[q].pc \notin Contending => lock'[ForkLock] = q
         /\ proc'[q].f # None => /\ proc'[q].f \in Sessions /\ proc'[q].f # proc'[q].at
                                 /\ proc'[q].goal = "fork"
                                 /\ proc'[q].pc \notin Contending
                                 /\ lock'[proc'[q].f] = q
<1>1. proc'[q] = proc[q] /\ Alive(q)
  BY DEF Only, Alive
<1>2. proc[q].at \in Sessions
  BY <1>1 DEF PhaseInv, Phase
<1> QED
  BY <1>1, <1>2 DEF HolderInv

\* A process starts and goes for the lock of a Session.
LEMMA StartsInv ==
  ASSUME LockInv, NEW p \in Pids, Only(p), proc[p].pc = "off",
         proc'[p].pc = "lock", proc'[p].at \in Sessions,
         proc'[p].goal \notin {"fork", None}, proc'[p].f = proc[p].f,
         UNCHANGED lock, Shaped', UnusedInv'
  PROVE  LockInv'
<1>1. ~Alive(p) /\ proc[p].f = None
  BY DEF Alive, LockInv, PhaseInv, Phase
<1>2. Phase(p)'
  BY <1>1 DEF Phase, Alive
<1>3. PhaseInv'
  BY <1>2, PhaseKept DEF LockInv
<1>4. HolderInv'
  <2> SUFFICES ASSUME NEW q \in Pids, q # p, Alive(q)'
               PROVE  /\ proc'[q].goal = "fork" \/ proc'[q].pc \notin Contending
                            => lock'[proc'[q].at] = q
                      /\ proc'[q].goal = "fork" /\ proc'[q].pc \notin Contending
                            => lock'[ForkLock] = q
                      /\ proc'[q].f # None =>
                            /\ proc'[q].f \in Sessions /\ proc'[q].f # proc'[q].at
                            /\ proc'[q].goal = "fork"
                            /\ proc'[q].pc \notin Contending
                            /\ lock'[proc'[q].f] = q
    BY <1>1 DEF HolderInv, Contending
  <2> QED
    BY OthersHold DEF LockInv
<1>5. LockFileInv'
  <2>1. /\ \A q \in Pids : proc'[q].pc \in {"made", "reclaim"} => proc'[q] = proc[q]
        /\ \A q \in Pids : proc[q].pc = "dead" => proc'[q].pc = "dead"
        /\ \A q \in Pids : proc[q].pc # "off" => proc'[q].pc # "off"
    BY DEF Only
  <2> QED
    BY <2>1, SameLocks
<1> QED
  BY <1>3, <1>4, <1>5 DEF LockInv

LEMMA StartFacts ==
  ASSUME Shaped, NEW p \in Pids, NEW s, NEW g,
         proc' = [proc EXCEPT ![p].pc = "lock", ![p].at = s, ![p].goal = g]
  PROVE  /\ Only(p) /\ proc'[p].pc = "lock" /\ proc'[p].at = s /\ proc'[p].goal = g
         /\ proc'[p].f = proc[p].f /\ proc'[p].next = proc[p].next
<1> DEFINE r == [proc[p] EXCEPT !.pc = "lock", !.at = s, !.goal = g]
<1>1. proc' = [proc EXCEPT ![p] = r]
  BY DEF Shaped
<1>2. DOMAIN r = Fields /\ r.pc = "lock" /\ r.at = s /\ r.goal = g /\ r.f = proc[p].f
      /\ r.next = proc[p].next
  BY DEF Shaped, Fields
<1> HIDE DEF r
<1>3. Only(p) /\ proc'[p] = r
  BY <1>1, <1>2, ReplaceFacts
<1> QED
  BY <1>2, <1>3

LEMMA OpeningInv ==
  ASSUME LockInv, NEW p \in Pids,
         CreateNamed(p) \/ (\E s \in Sessions : ResumeStart(p, s)) \/ ForkStart(p)
  PROVE  LockInv'
<1>s. /\ Shaped /\ UnusedInv /\ used \in [records : Nat, stored : Nat, faults : Nat, forks : Nat]
      /\ used.forks \in Nat
  BY DEF LockInv, Shaped
<1>1. CASE CreateNamed(p) \/ \E s \in Sessions : ResumeStart(p, s)
  <2>1. PICK s \in Sessions, g \in {"create", "resume"} :
          /\ proc[p].pc = "off"
          /\ proc' = [proc EXCEPT ![p].pc = "lock", ![p].at = s, ![p].goal = g]
          /\ \/ s = Main /\ dir' = [dir EXCEPT ![Main] = "dir"]
             \/ dir[s] = "file" /\ UNCHANGED dir
          /\ UNCHANGED <<lock, used>>
    BY <1>1, Names DEF CreateNamed, ResumeStart, MayOpen, At, files
  <2>2. /\ Only(p) /\ proc'[p].pc = "lock" /\ proc'[p].at = s /\ proc'[p].goal = g
        /\ proc'[p].f = proc[p].f /\ proc'[p].next = proc[p].next
    <3>1. proc' = [proc EXCEPT ![p].pc = "lock", ![p].at = s, ![p].goal = g]
      BY <2>1
    <3> QED
      BY <1>s, <3>1, StartFacts
  <2>3. Shaped'
    BY <1>s, <2>1, <2>2, Names DEF Shaped, Only
  <2>4. UnusedInv'
    <3> SUFFICES ASSUME NEW i \in (used.forks + 1) .. Len(Spare)
                 PROVE  /\ dir'[Spare[i]] = "absent" /\ lock[Spare[i]] = "free"
                        /\ \A q \in Pids : proc'[q].at # Spare[i] /\ proc'[q].f # Spare[i]
      BY <2>1 DEF UnusedInv
    <3>1. Spare[i] \in Sessions /\ Spare[i] # Main
      BY <1>s, Names
    <3>2. /\ dir[Spare[i]] = "absent" /\ lock[Spare[i]] = "free"
          /\ \A q \in Pids : proc[q].at # Spare[i] /\ proc[q].f # Spare[i]
      BY <1>s DEF UnusedInv
    <3>3. s # Spare[i]
      BY <2>1, <3>1, <3>2
    <3> QED
      BY <1>s, <2>1, <2>2, <3>1, <3>2, <3>3 DEF Only, Shaped
  <2> QED
    BY <2>1, <2>2, <2>3, <2>4, StartsInv DEF None
<1>2. CASE ForkStart(p)
  <2> DEFINE f == Spare[used.forks + 1]
  <2>1. /\ proc[p].pc = "off" /\ used.forks < Len(Spare)
        /\ proc' = [proc EXCEPT ![p].pc = "lock", ![p].at = f, ![p].goal = "branch"]
        /\ dir' = [dir EXCEPT ![f] = "file"]
        /\ used' = [used EXCEPT !.forks = @ + 1] /\ UNCHANGED lock
    BY <1>2 DEF ForkStart, MayOpen, At
  <2>2. f \in Sessions /\ used.forks + 1 \in 1..Len(Spare)
    BY <1>s, <2>1, Names
  <2>3. /\ Only(p) /\ proc'[p].pc = "lock" /\ proc'[p].at = f /\ proc'[p].goal = "branch"
        /\ proc'[p].f = proc[p].f /\ proc'[p].next = proc[p].next
    <3>1. proc' = [proc EXCEPT ![p].pc = "lock", ![p].at = f, ![p].goal = "branch"]
      BY <2>1
    <3> QED
      BY <1>s, <3>1, StartFacts
  <2>4. /\ used' \in [records : Nat, stored : Nat, faults : Nat, forks : Nat]
        /\ used'.forks = used.forks + 1
    BY <1>s, <2>1
  <2>5. Shaped'
    BY <1>s, <2>1, <2>3, <2>4 DEF Shaped, Only
  <2>6. UnusedInv'
    <3>0. used'.forks + 1 = used.forks + 2 /\ UNCHANGED lock
      BY <1>s, <2>1, <2>4
    <3> SUFFICES ASSUME NEW i \in (used.forks + 2) .. Len(Spare)
                 PROVE  /\ dir'[Spare[i]] = "absent" /\ lock[Spare[i]] = "free"
                        /\ \A q \in Pids : proc'[q].at # Spare[i] /\ proc'[q].f # Spare[i]
      BY <3>0 DEF UnusedInv
    <3>1. Spare[i] \in Sessions /\ Spare[i] # f
      BY <1>s, <2>2, Names
    <3>2. /\ dir[Spare[i]] = "absent" /\ lock[Spare[i]] = "free"
          /\ \A q \in Pids : proc[q].at # Spare[i] /\ proc[q].f # Spare[i]
      BY <1>s DEF UnusedInv
    <3> HIDE DEF f
    <3> QED
      BY <1>s, <2>1, <2>3, <3>1, <3>2 DEF Only, Shaped
  <2> QED
    BY <2>1, <2>2, <2>3, <2>5, <2>6, StartsInv DEF None
<1> QED
  BY <1>1, <1>2

-----------------------------------------------------------------------------
(* Locks *)

\* The lock a process goes for is a lock file, and no unused name's.
LEMMA TargetFacts ==
  ASSUME LockInv, NEW p \in Pids, Alive(p)
  PROVE  /\ Target(p) \in Sessions \cup {ForkLock}
         /\ \A i \in (used.forks + 1) .. Len(Spare) : Target(p) # Spare[i]
         /\ proc[p].at \in Sessions
<1>1. proc[p].at \in Sessions /\ used.forks \in Nat
  BY DEF LockInv, PhaseInv, Phase, Shaped
<1>2. \A i \in (used.forks + 1) .. Len(Spare) : Spare[i] # ForkLock /\ Spare[i] # proc[p].at
  BY <1>1, Names DEF LockInv, UnusedInv
<1> QED
  BY <1>1, <1>2 DEF Target

\* A process goes on contending: lock files with the pid of a live process stay.
LEMMA ContendInv ==
  ASSUME LockInv, NEW p \in Pids, Only(p), Alive(p), proc[p].pc \in Contending,
         proc'[p].pc \in Contending,
         proc'[p].at = proc[p].at, proc'[p].goal = proc[p].goal, proc'[p].f = proc[p].f,
         lock' \in [Sessions \cup {ForkLock} -> {"free", "blank"} \cup Pids],
         \A l \in Sessions \cup {ForkLock} : l # Target(p) => lock'[l] = lock[l],
         \A q \in Pids : Alive(q) /\ lock[Target(p)] = q => lock'[Target(p)] = q,
         UNCHANGED <<dir, used>>, LockFileInv'
  PROVE  LockInv'
<1>1. Phase(p)'
  BY DEF LockInv, PhaseInv, Phase, Alive, Contending
<1>2. PhaseInv' /\ Shaped'
  BY <1>1, PhaseKept DEF LockInv, Shaped, Only
<1>3. \A q \in Pids : Alive(q)' <=> Alive(q)
  BY DEF Alive, Only, Contending
<1>4. \A q \in Pids, l \in Sessions \cup {ForkLock} : Alive(q) /\ lock[l] = q => lock'[l] = q
  OBVIOUS
<1>5. HolderInv'
  <2> SUFFICES ASSUME NEW q \in Pids, Alive(q)'
               PROVE  /\ proc'[q].goal = "fork" \/ proc'[q].pc \notin Contending
                            => lock'[proc'[q].at] = q
                      /\ proc'[q].goal = "fork" /\ proc'[q].pc \notin Contending
                            => lock'[ForkLock] = q
                      /\ proc'[q].f # None =>
                            /\ proc'[q].f \in Sessions /\ proc'[q].f # proc'[q].at
                            /\ proc'[q].goal = "fork"
                            /\ proc'[q].pc \notin Contending
                            /\ lock'[proc'[q].f] = q
    BY DEF HolderInv
  <2>1. CASE q # p
    BY <1>3, <1>4, <2>1, OthersHold DEF LockInv
  <2>2. CASE q = p
    <3>1. proc[p].at \in Sessions
      BY TargetFacts
    <3> QED
      BY <1>4, <2>2, <3>1 DEF LockInv, HolderInv
  <2> QED
    BY <2>1, <2>2
<1>6. UnusedInv'
  <2> SUFFICES ASSUME NEW i \in (used.forks + 1) .. Len(Spare)
               PROVE  /\ dir[Spare[i]] = "absent" /\ lock'[Spare[i]] = "free"
                      /\ \A q \in Pids : proc'[q].at # Spare[i] /\ proc'[q].f # Spare[i]
    BY DEF UnusedInv
  <2>1. Spare[i] \in Sessions /\ Spare[i] # Target(p)
    BY Names, TargetFacts DEF LockInv, Shaped
  <2>2. lock'[Spare[i]] = lock[Spare[i]]
    BY <2>1
  <2> QED
    BY <2>2 DEF LockInv, UnusedInv, Only
<1> QED
  BY <1>2, <1>5, <1>6 DEF LockInv

LEMMA LockCreateInv ==
  ASSUME LockInv, NEW p \in Pids, LockCreate(p)
  PROVE  LockInv'
<1> DEFINE T == Target(p)
<1>0. /\ proc[p].pc \in {"lock", "relock"} /\ lock[T] = "free"
      /\ lock' = [lock EXCEPT ![T] = "blank"] /\ Go(p, "made") /\ UNCHANGED <<dir, used>>
  BY DEF LockCreate, files
<1>1. Only(p) /\ Stays(p) /\ proc'[p].pc = "made" /\ Alive(p)
  BY <1>0, GoFacts DEF LockInv, Alive
<1>2. T \in Sessions \cup {ForkLock} /\ Target(p)' = T
  BY <1>1, TargetFacts DEF Target, Stays
<1> HIDE DEF T
<1>3. /\ lock' \in [Sessions \cup {ForkLock} -> {"free", "blank"} \cup Pids]
      /\ \A l \in Sessions \cup {ForkLock} : l # T => lock'[l] = lock[l]
      /\ lock'[T] = "blank"
  BY <1>0, <1>2 DEF LockInv, Shaped
<1>4. ASSUME NEW q \in Pids, q # p
      PROVE  proc'[q] = proc[q] /\ Target(q)' = Target(q)
  BY <1>1, <1>4 DEF Only, Target
<1>5. \A q \in Pids : q # p /\ proc[q].pc = "made" =>
        Target(q) # T /\ Target(q) \in Sessions \cup {ForkLock} /\ lock[Target(q)] = "blank"
  BY <1>0, TargetFacts DEF LockInv, LockFileInv, MadeBlank, Alive
<1>6. MadeBlank'
  BY <1>2, <1>3, <1>4, <1>5 DEF MadeBlank
<1>7. MadeOnce'
  BY <1>2, <1>4, <1>5 DEF LockInv, LockFileInv, MadeOnce
<1>8. PidsStarted'
  BY <1>1, <1>2, <1>3, <1>4, Names DEF LockInv, LockFileInv, PidsStarted
<1>9. DeadRead'
  <2>1. proc[p].pc # "dead" /\ proc'[p].pc # "reclaim"
    BY <1>0, <1>1
  <2> QED
    BY <2>1, <1>4 DEF LockInv, LockFileInv, DeadRead
<1>10. LockFileInv'
  BY <1>6, <1>7, <1>8, <1>9 DEF LockFileInv
<1>11. \A q \in Pids : lock[T] # q
  BY <1>0, Names
<1> QED
  BY <1>0, <1>1, <1>3, <1>10, <1>11, ContendInv DEF T, Stays, Contending

LEMMA LockStaleInv ==
  ASSUME LockInv, NEW p \in Pids, LockStale(p)
  PROVE  LockInv'
<1>0. /\ proc[p].pc = "lock" /\ Stale(Target(p)) /\ UNCHANGED <<lock, dir, used>>
      /\ proc' = [proc EXCEPT ![p].pc = "reclaim", ![p].dead = lock[Target(p)]]
  BY DEF LockStale, At, files
<1> DEFINE r == [proc[p] EXCEPT !.pc = "reclaim", !.dead = lock[Target(p)]]
<1>1. proc' = [proc EXCEPT ![p] = r]
  BY <1>0 DEF LockInv, Shaped
<1>2. /\ DOMAIN r = Fields /\ r.pc = "reclaim" /\ r.at = proc[p].at
      /\ r.goal = proc[p].goal /\ r.f = proc[p].f /\ r.dead = lock[Target(p)]
  BY DEF LockInv, Shaped, Fields
<1> HIDE DEF r
<1>3. Only(p) /\ proc'[p] = r
  BY <1>1, <1>2, ReplaceFacts DEF LockInv
<1>4. Alive(p) /\ Target(p) \in Sessions \cup {ForkLock}
  BY <1>0, TargetFacts DEF Alive
<1>5. lock[Target(p)] \in Pids /\ proc[lock[Target(p)]].pc = "dead"
  BY <1>0, <1>4 DEF Stale, Alive, LockInv, LockFileInv, PidsStarted
<1>6. ASSUME NEW q \in Pids, q # p
      PROVE  proc'[q] = proc[q] /\ Target(q)' = Target(q)
  BY <1>3, <1>6 DEF Only, Target
<1>7. MadeBlank' /\ MadeOnce'
  <2>1. \A q \in Pids : proc'[q].pc = "made" => proc[q].pc = "made" /\ Target(q)' = Target(q)
    BY <1>2, <1>3, <1>6
  <2>2. \A q \in Pids : proc[q].pc = "made" => lock[Target(q)] = "blank"
    BY DEF LockInv, LockFileInv, MadeBlank
  <2>3. MadeBlank'
    BY <1>0, <2>1, <2>2 DEF MadeBlank
  <2>4. MadeOnce'
    BY <2>1 DEF LockInv, LockFileInv, MadeOnce
  <2> QED
    BY <2>3, <2>4
<1>8. PidsStarted'
  BY <1>0, <1>2, <1>3, <1>6 DEF LockInv, LockFileInv, PidsStarted
<1>9. DeadRead'
  <2>1. proc[p].pc # "dead"
    BY <1>0
  <2> QED
    BY <2>1, <1>2, <1>3, <1>5, <1>6 DEF LockInv, LockFileInv, DeadRead
<1>10. LockFileInv'
  BY <1>7, <1>8, <1>9 DEF LockFileInv
<1>11. lock' \in [Sessions \cup {ForkLock} -> {"free", "blank"} \cup Pids]
  BY <1>0 DEF LockInv, Shaped
<1> QED
  BY <1>0, <1>2, <1>3, <1>4, <1>10, <1>11, ContendInv DEF Contending

LEMMA LockReclaimInv ==
  ASSUME LockInv, ~ReclaimRaces, NEW p \in Pids, LockReclaim(p)
  PROVE  LockInv'
<1> DEFINE T == Target(p)
<1>0. /\ proc[p].pc = "reclaim" /\ lock[T] = proc[p].dead
      /\ lock' = [lock EXCEPT ![T] = "free"] /\ Go(p, "relock") /\ UNCHANGED <<dir, used>>
  BY DEF LockReclaim, files, At
<1>1. Only(p) /\ Stays(p) /\ proc'[p].pc = "relock" /\ Alive(p)
  BY <1>0, GoFacts DEF LockInv, Alive
<1>2. T \in Sessions \cup {ForkLock}
  BY <1>1, TargetFacts
<1>3. lock[T] \in Pids /\ proc[lock[T]].pc = "dead"
  BY <1>0 DEF LockInv, LockFileInv, DeadRead
<1> HIDE DEF T
<1>4. /\ lock' \in [Sessions \cup {ForkLock} -> {"free", "blank"} \cup Pids]
      /\ \A l \in Sessions \cup {ForkLock} : l # T => lock'[l] = lock[l]
      /\ lock'[T] = "free"
  BY <1>0, <1>2 DEF LockInv, Shaped
<1>5. ASSUME NEW q \in Pids, q # p
      PROVE  proc'[q] = proc[q] /\ Target(q)' = Target(q)
  BY <1>1, <1>5 DEF Only, Target
<1>6. \A q \in Pids : q # p /\ proc[q].pc = "made" =>
        Target(q) # T /\ Target(q) \in Sessions \cup {ForkLock} /\ lock[Target(q)] = "blank"
  BY <1>3, Names, TargetFacts DEF LockInv, LockFileInv, MadeBlank, Alive
<1>7. MadeBlank' /\ MadeOnce'
  BY <1>1, <1>4, <1>5, <1>6 DEF LockInv, LockFileInv, MadeBlank, MadeOnce
<1>8. PidsStarted'
  BY <1>1, <1>2, <1>4, <1>5, Names DEF LockInv, LockFileInv, PidsStarted
<1>9. DeadRead'
  <2>1. proc[p].pc # "dead" /\ proc'[p].pc # "reclaim"
    BY <1>0, <1>1
  <2> QED
    BY <2>1, <1>5 DEF LockInv, LockFileInv, DeadRead
<1>10. LockFileInv'
  BY <1>7, <1>8, <1>9 DEF LockFileInv
<1>11. \A q \in Pids : Alive(q) => lock[T] # q
  BY <1>3 DEF Alive
<1> QED
  BY <1>0, <1>1, <1>4, <1>10, <1>11, ContendInv DEF T, Stays, Contending

LEMMA LockWriteInv ==
  ASSUME LockInv, NEW p \in Pids, LockWrite(p)
  PROVE  LockInv'
<1> DEFINE T == Target(p)
<1>0. /\ proc[p].pc = "made" /\ lock' = [lock EXCEPT ![T] = p] /\ Go(p, "locked")
      /\ UNCHANGED <<dir, used>>
  BY DEF LockWrite, files, At
<1>1. /\ Only(p) /\ Stays(p) /\ proc'[p].pc = "locked" /\ proc'[p].app = proc[p].app
      /\ Alive(p) /\ Alive(p)'
  BY <1>0, GoFacts DEF LockInv, Alive
<1>2. T \in Sessions \cup {ForkLock} /\ lock[T] = "blank" /\ proc[p].at \in Sessions
      /\ \A i \in (used.forks + 1) .. Len(Spare) : T # Spare[i]
  BY <1>0, <1>1, TargetFacts DEF LockInv, LockFileInv, MadeBlank
<1>t. T = IF proc[p].goal = "fork" THEN ForkLock ELSE proc[p].at
  BY DEF Target
<1>m. \A q \in Pids : q # p /\ proc[q].pc = "made" =>
        Target(q) # T /\ Target(q) \in Sessions \cup {ForkLock} /\ lock[Target(q)] = "blank"
  BY <1>0, TargetFacts DEF LockInv, LockFileInv, MadeBlank, MadeOnce, Alive
<1> HIDE DEF T
<1>3. /\ lock' \in [Sessions \cup {ForkLock} -> {"free", "blank"} \cup Pids]
      /\ \A l \in Sessions \cup {ForkLock} : l # T => lock'[l] = lock[l]
      /\ lock'[T] = p
  BY <1>0, <1>2 DEF LockInv, Shaped
<1>4. ASSUME NEW q \in Pids, q # p
      PROVE  proc'[q] = proc[q] /\ Target(q)' = Target(q)
  BY <1>1, <1>4 DEF Only, Target
<1>5. \A l \in Sessions \cup {ForkLock}, q \in Pids : lock[l] = q => lock'[l] = q
  BY <1>2, <1>3, Names
<1>6. Phase(p)'
  BY <1>1, <1>2 DEF Phase, Stays
<1>7. PhaseInv' /\ Shaped'
  BY <1>0, <1>1, <1>3, <1>6, PhaseKept DEF LockInv, Shaped, Only
<1>8. HolderInv'
  <2> SUFFICES ASSUME NEW q \in Pids, Alive(q)'
               PROVE  /\ proc'[q].goal = "fork" \/ proc'[q].pc \notin Contending
                            => lock'[proc'[q].at] = q
                      /\ proc'[q].goal = "fork" /\ proc'[q].pc \notin Contending
                            => lock'[ForkLock] = q
                      /\ proc'[q].f # None =>
                            /\ proc'[q].f \in Sessions /\ proc'[q].f # proc'[q].at
                            /\ proc'[q].goal = "fork"
                            /\ proc'[q].pc \notin Contending
                            /\ lock'[proc'[q].f] = q
    BY DEF HolderInv
  <2>1. CASE q # p
    BY <1>1, <1>5, <2>1, OthersHold DEF LockInv
  <2>2. CASE q = p
    <3>1. proc[p].pc \in Contending /\ proc[p].f = None
      BY <1>0, <1>1 DEF Contending, LockInv, HolderInv
    <3>2. proc[p].goal = "fork" => lock[proc[p].at] = p
      BY <1>1 DEF LockInv, HolderInv
    <3>3. proc'[p].at = proc[p].at /\ proc'[p].goal = proc[p].goal /\ proc'[p].f = None
      BY <1>1, <3>1 DEF Stays
    <3> QED
      BY <1>2, <1>3, <1>5, <1>t, <2>2, <3>2, <3>3
  <2> QED
    BY <2>1, <2>2
<1>9. MadeBlank' /\ MadeOnce'
  <2>1. \A q \in Pids : proc'[q].pc = "made" =>
          /\ q # p /\ proc[q].pc = "made" /\ Target(q)' = Target(q) /\ Target(q) # T
          /\ lock'[Target(q)] = "blank"
    BY <1>1, <1>3, <1>4, <1>m
  <2> QED
    BY <2>1 DEF LockInv, LockFileInv, MadeBlank, MadeOnce
<1>10. PidsStarted'
  BY <1>1, <1>2, <1>3, <1>4 DEF LockInv, LockFileInv, PidsStarted
<1>11. DeadRead'
  <2>1. proc[p].pc # "dead" /\ proc'[p].pc # "reclaim"
    BY <1>0, <1>1
  <2> QED
    BY <2>1, <1>4 DEF LockInv, LockFileInv, DeadRead
<1>12. UnusedInv'
  <2> SUFFICES ASSUME NEW i \in (used.forks + 1) .. Len(Spare)
               PROVE  /\ dir[Spare[i]] = "absent" /\ lock'[Spare[i]] = "free"
                      /\ \A q \in Pids : proc'[q].at # Spare[i] /\ proc'[q].f # Spare[i]
    BY <1>0 DEF UnusedInv
  <2>1. Spare[i] \in Sessions /\ Spare[i] # T
    BY <1>2, Names DEF LockInv, Shaped
  <2>2. lock'[Spare[i]] = lock[Spare[i]]
    BY <1>3, <2>1
  <2> QED
    BY <1>1, <2>2 DEF LockInv, UnusedInv, Only, Stays
<1> QED
  BY <1>7, <1>8, <1>9, <1>10, <1>11, <1>12 DEF LockInv, LockFileInv

-----------------------------------------------------------------------------
(* Giving locks back *)

\* A live process ends, or is open again, and frees the locks in L, all its own.
LEMMA FreeInv ==
  ASSUME LockInv, NEW p \in Pids, Only(p), Alive(p),
         NEW L \in SUBSET (Sessions \cup {ForkLock}),
         \A l \in L : lock[l] = p,
         lock' \in [Sessions \cup {ForkLock} -> {"free", "blank"} \cup Pids],
         \A l \in Sessions \cup {ForkLock} :
            lock'[l] = IF l \in L THEN "free" ELSE lock[l],
         dir' = [s \in Sessions |-> dir'[s]],
         \A s \in Sessions : dir'[s] = dir[s] \/ dir'[s] = "absent",
         used' \in [records : Nat, stored : Nat, faults : Nat, forks : Nat],
         used'.forks = used.forks,
         \/ proc'[p] = [NoProcess EXCEPT !.pc = "dead"]
         \/ /\ proc'[p].pc = "open" /\ proc'[p].goal = None /\ proc'[p].f = None
            /\ proc'[p].at = proc[p].at /\ proc[p].at \notin L /\ lock[proc[p].at] = p
  PROVE  LockInv'
<1>1. /\ proc'[p].pc \in {"dead", "open"} /\ proc'[p].goal = None /\ proc'[p].f = None
      /\ proc'[p].pc = "dead" => proc'[p].at = None
      /\ proc'[p].pc = "open" => /\ proc'[p].at = proc[p].at /\ proc[p].at \notin L
                                 /\ lock[proc[p].at] = p
  BY DEF NoProcess
<1>2. proc[p].at \in Sessions
  BY DEF LockInv, PhaseInv, Phase
<1>3. Phase(p)'
  BY <1>1, <1>2 DEF Phase, Alive
<1>4. PhaseInv' /\ Shaped'
  BY <1>3, PhaseKept DEF LockInv, Shaped, Only
<1>5. ASSUME NEW q \in Pids, q # p
      PROVE  /\ proc'[q] = proc[q] /\ Target(q)' = Target(q)
             /\ \A l \in Sessions \cup {ForkLock} : lock[l] = q => lock'[l] = q
  BY <1>5 DEF Only, Target
<1>6. HolderInv'
  <2> SUFFICES ASSUME NEW q \in Pids, Alive(q)'
               PROVE  /\ proc'[q].goal = "fork" \/ proc'[q].pc \notin Contending
                            => lock'[proc'[q].at] = q
                      /\ proc'[q].goal = "fork" /\ proc'[q].pc \notin Contending
                            => lock'[ForkLock] = q
                      /\ proc'[q].f # None =>
                            /\ proc'[q].f \in Sessions /\ proc'[q].f # proc'[q].at
                            /\ proc'[q].goal = "fork"
                            /\ proc'[q].pc \notin Contending
                            /\ lock'[proc'[q].f] = q
    BY DEF HolderInv
  <2>1. CASE q # p
    BY <1>5, <2>1, OthersHold DEF LockInv
  <2>2. CASE q = p
    <3>1. proc'[p].pc = "open"
      BY <1>1, <2>2 DEF Alive
    <3>2. lock'[proc[p].at] = p
      BY <1>1, <1>2, <3>1
    <3> QED
      BY <1>1, <2>2, <3>1, <3>2 DEF None
  <2> QED
    BY <2>1, <2>2
<1>7. MadeBlank' /\ MadeOnce'
  <2>1. \A q \in Pids : proc'[q].pc = "made" =>
          q # p /\ proc[q].pc = "made" /\ Target(q)' = Target(q)
    BY <1>1, <1>5
  <2>2. \A q \in Pids : proc[q].pc = "made" =>
          Target(q) \in Sessions \cup {ForkLock} /\ lock[Target(q)] = "blank"
    BY TargetFacts DEF LockInv, LockFileInv, MadeBlank, Alive
  <2>3. \A q \in Pids : proc[q].pc = "made" => lock'[Target(q)] = "blank"
    BY <2>2, Names
  <2> QED
    BY <2>1, <2>3 DEF LockInv, LockFileInv, MadeBlank, MadeOnce
<1>8. PidsStarted'
  <2> SUFFICES ASSUME NEW l \in Sessions \cup {ForkLock}, lock'[l] \in Pids
               PROVE  proc'[lock'[l]].pc # "off"
    BY DEF PidsStarted
  <2>1. lock'[l] = lock[l]
    BY Names
  <2>2. proc[lock[l]].pc # "off"
    BY <2>1 DEF LockInv, LockFileInv, PidsStarted
  <2> QED
    BY <1>1, <1>5, <2>1, <2>2
<1>9. DeadRead'
  <2>1. proc[p].pc # "dead" /\ proc'[p].pc # "reclaim"
    BY <1>1 DEF Alive
  <2> QED
    BY <2>1, <1>5 DEF LockInv, LockFileInv, DeadRead
<1>10. UnusedInv'
  <2> SUFFICES ASSUME NEW i \in (used.forks + 1) .. Len(Spare), NEW q \in Pids
               PROVE  /\ dir'[Spare[i]] = "absent" /\ lock'[Spare[i]] = "free"
                      /\ proc'[q].at # Spare[i] /\ proc'[q].f # Spare[i]
    BY DEF UnusedInv
  <2>1. Spare[i] \in Sessions /\ Spare[i] # None
    BY Names DEF LockInv, Shaped
  <2>2. /\ dir[Spare[i]] = "absent" /\ lock[Spare[i]] = "free" /\ proc[p].at # Spare[i]
        /\ proc[q].at # Spare[i] /\ proc[q].f # Spare[i]
    BY DEF LockInv, UnusedInv
  <2> QED
    BY <1>1, <1>5, <2>1, <2>2
<1> QED
  BY <1>4, <1>6, <1>7, <1>8, <1>9, <1>10 DEF LockInv, LockFileInv

LEMMA RefusedFacts ==
  ASSUME Shaped, NEW p \in Pids, Refused(p)
  PROVE  /\ Only(p)
         /\ proc[p].goal # "fork" => proc'[p] = [NoProcess EXCEPT !.pc = "dead"]
         /\ proc[p].goal = "fork" => /\ proc'[p].pc = "open" /\ proc'[p].goal = None
                                     /\ proc'[p].f = proc[p].f /\ proc'[p].at = proc[p].at
                                     /\ More(p)
<1> DEFINE r == IF proc[p].goal = "fork" THEN [proc[p] EXCEPT !.pc = "open", !.goal = None]
                                         ELSE [NoProcess EXCEPT !.pc = "dead"]
<1>1. proc' = [proc EXCEPT ![p] = r]
  BY DEF Refused
<1>2. /\ proc[p].goal # "fork" => r = [NoProcess EXCEPT !.pc = "dead"]
      /\ proc[p].goal = "fork" => r = [proc[p] EXCEPT !.pc = "open", !.goal = None]
  OBVIOUS
<1> HIDE DEF r
<1>3. /\ DOMAIN r = Fields
      /\ proc[p].goal = "fork" => /\ r.pc = "open" /\ r.goal = None
                                  /\ r.f = proc[p].f /\ r.at = proc[p].at
                                  /\ r.t = proc[p].t /\ r.next = proc[p].next
                                  /\ r.entries = proc[p].entries
  <2>1. CASE proc[p].goal = "fork"
    BY <1>2, <2>1 DEF Shaped, Fields
  <2>2. CASE proc[p].goal # "fork"
    BY <1>2, <2>2, NoProcessFields
  <2> QED
    BY <2>1, <2>2
<1>4. Only(p) /\ proc'[p] = r
  BY <1>1, <1>3, ReplaceFacts
<1> QED
  BY <1>2, <1>3, <1>4 DEF More

LEMMA DeadFacts ==
  ASSUME Shaped, NEW p \in Pids,
         proc' = [proc EXCEPT ![p] = [NoProcess EXCEPT !.pc = "dead"]]
  PROVE  Only(p) /\ proc'[p] = [NoProcess EXCEPT !.pc = "dead"]
<1> DEFINE r == [NoProcess EXCEPT !.pc = "dead"]
<1>1. DOMAIN r = Fields
  BY NoProcessFields
<1> HIDE DEF r
<1>2. Only(p) /\ proc'[p] = r
  BY <1>1, ReplaceFacts DEF r
<1> QED
  BY <1>2 DEF r

LEMMA LockRefusedInv ==
  ASSUME LockInv, NEW p \in Pids, LockRefused(p)
  PROVE  LockInv'
<1>0. /\ proc[p].pc \in {"lock", "relock", "reclaim"} /\ Refused(p)
      /\ UNCHANGED <<lock, dir, used>>
  BY DEF LockRefused, At, files
<1>1. Alive(p) /\ proc[p].pc \in Contending
  BY <1>0 DEF Alive, Contending
<1>2. proc[p].f = None /\ (proc[p].goal = "fork" => lock[proc[p].at] = p)
  BY <1>1 DEF LockInv, HolderInv
<1>3. Shaped
  BY DEF LockInv
<1>4. /\ lock' \in [Sessions \cup {ForkLock} -> {"free", "blank"} \cup Pids]
      /\ dir' = [s \in Sessions |-> dir'[s]]
      /\ used' \in [records : Nat, stored : Nat, faults : Nat, forks : Nat]
  BY <1>0, <1>3 DEF Shaped
<1>5. Only(p) /\ \/ proc'[p] = [NoProcess EXCEPT !.pc = "dead"]
                 \/ /\ proc'[p].pc = "open" /\ proc'[p].goal = None /\ proc'[p].f = None
                    /\ proc'[p].at = proc[p].at /\ lock[proc[p].at] = p
  BY <1>0, <1>2, <1>3, RefusedFacts
<1> DEFINE L == {}
<1>6. /\ L \in SUBSET (Sessions \cup {ForkLock}) /\ \A l \in L : lock[l] = p
      /\ \A l \in Sessions \cup {ForkLock} : lock'[l] = IF l \in L THEN "free" ELSE lock[l]
      /\ proc[p].at \notin L
  BY <1>0
<1> HIDE DEF L
<1> QED
  BY <1>0, <1>1, <1>4, <1>5, <1>6, FreeInv

\* A process that has its Session ends: in an error, on request, or in a crash.
LEMMA EndsInv ==
  ASSUME LockInv, NEW p \in Pids,
         InitializeFails(p) \/ ResumeFails(p) \/ Close(p) \/ Crash(p)
  PROVE  LockInv'
<1>s. Shaped /\ used \in [records : Nat, stored : Nat, faults : Nat, forks : Nat]
  BY DEF LockInv, Shaped
<1>1. CASE Crash(p)
  <2>1. /\ Alive(p) /\ UNCHANGED <<lock, dir, used>>
        /\ Only(p) /\ proc'[p] = [NoProcess EXCEPT !.pc = "dead"]
    BY <1>1, <1>s, DeadFacts DEF Crash, files
  <2> DEFINE L == {}
  <2>2. /\ L \in SUBSET (Sessions \cup {ForkLock}) /\ \A l \in L : lock[l] = p
        /\ \A l \in Sessions \cup {ForkLock} : lock'[l] = IF l \in L THEN "free" ELSE lock[l]
    BY <2>1
  <2> HIDE DEF L
  <2>3. /\ lock' \in [Sessions \cup {ForkLock} -> {"free", "blank"} \cup Pids]
        /\ dir' = [s \in Sessions |-> dir'[s]]
        /\ used' \in [records : Nat, stored : Nat, faults : Nat, forks : Nat]
    BY <2>1, <1>s DEF Shaped
  <2> QED
    BY <2>1, <2>2, <2>3, FreeInv
<1>2. CASE InitializeFails(p) \/ ResumeFails(p) \/ Close(p)
  <2>1. /\ Alive(p) /\ proc[p].pc \notin Contending /\ proc[p].at \in Sessions
        /\ lock' = [lock EXCEPT ![proc[p].at] = "free"]
        /\ UNCHANGED dir
        /\ used' = used \/ used' = [used EXCEPT !.faults = @ + 1]
        /\ Only(p) /\ proc'[p] = [NoProcess EXCEPT !.pc = "dead"]
    <3>1. CASE Close(p)
      <4>1. Alive(p) /\ proc[p].pc \notin Contending /\ proc[p].at \in Sessions
        BY <3>1 DEF Close, At, Alive, Contending, LockInv, PhaseInv, Phase
      <4> QED
        BY <4>1, <3>1, <1>s, DeadFacts DEF Close, files
    <3>2. CASE ResumeFails(p)
      <4>1. /\ Alive(p) /\ proc[p].pc \notin Contending /\ proc[p].at \in Sessions
            /\ proc[p].goal # "fork"
        BY <3>2 DEF ResumeFails, At, Alive, Contending, LockInv, PhaseInv, Phase
      <4> QED
        BY <4>1, <3>2, <1>s, RefusedFacts DEF ResumeFails, files
    <3>3. CASE InitializeFails(p)
      <4>1. /\ Alive(p) /\ proc[p].pc \notin Contending /\ proc[p].at \in Sessions
            /\ proc[p].goal # "fork" /\ proc[p].app.s = proc[p].at
        BY <3>3 DEF InitializeFails, At, Alive, Contending, LockInv, PhaseInv, Phase
      <4> QED
        BY <4>1, <3>3, <1>s, RefusedFacts DEF InitializeFails
    <3> QED
      BY <1>2, <3>1, <3>2, <3>3
  <2> DEFINE L == {proc[p].at}
  <2>2. L \in SUBSET (Sessions \cup {ForkLock}) /\ \A l \in L : lock[l] = p
    BY <2>1 DEF LockInv, HolderInv
  <2>3. /\ lock' \in [Sessions \cup {ForkLock} -> {"free", "blank"} \cup Pids]
        /\ \A l \in Sessions \cup {ForkLock} : lock'[l] = IF l \in L THEN "free" ELSE lock[l]
        /\ dir' = [s \in Sessions |-> dir'[s]]
    BY <2>1, <1>s DEF Shaped
  <2>4. /\ used' \in [records : Nat, stored : Nat, faults : Nat, forks : Nat]
        /\ used'.forks = used.forks
    BY <1>s, <2>1, Spent
  <2> HIDE DEF L
  <2> QED
    BY <2>1, <2>2, <2>3, <2>4, FreeInv
<1> QED
  BY <1>1, <1>2

LEMMA AnsweredFacts ==
  ASSUME Shaped, NEW p \in Pids, NEW f, NEW b, Answered(p, f, b)
  PROVE  /\ Only(p) /\ proc'[p].pc = "open" /\ proc'[p].goal = None /\ proc'[p].f = None
         /\ proc'[p].at = proc[p].at /\ proc'[p].next = proc[p].next
         /\ proc'[p].entries = proc[p].entries
         /\ lock' = [lock EXCEPT ![ForkLock] = "free",
                         ![IF proc[p].f \in Sessions THEN proc[p].f ELSE ForkLock] = "free"]
<1> DEFINE r == [proc[p] EXCEPT !.pc = "open", !.goal = None, !.t = None, !.f = None,
                                !.app = NoAppend]
<1>1. proc' = [proc EXCEPT ![p] = r]
  BY DEF Answered, Shaped
<1>2. DOMAIN r = Fields /\ r.pc = "open" /\ r.goal = None /\ r.f = None /\ r.at = proc[p].at
      /\ r.next = proc[p].next /\ r.entries = proc[p].entries
  BY DEF Shaped, Fields
<1> HIDE DEF r
<1>3. Only(p) /\ proc'[p] = r
  BY <1>1, <1>2, ReplaceFacts
<1>4. lock' = [lock EXCEPT ![ForkLock] = "free",
                           ![IF proc[p].f \in Sessions THEN proc[p].f ELSE ForkLock] = "free"]
  BY Zenon DEF Answered
<1> QED
  BY <1>2, <1>3, <1>4

\* The caller of a fork is answered: the locks freed are the process's own, and
\* the Session it has open keeps its lock.
LEMMA AnswerInv ==
  ASSUME LockInv, NEW p \in Pids, ExistingFork(p) \/ ForkOperation(p) \/ ForkFails(p)
  PROVE  LockInv'
<1>s. Shaped /\ used \in [records : Nat, stored : Nat, faults : Nat, forks : Nat]
  BY DEF LockInv, Shaped
<1>1. /\ Alive(p) /\ proc[p].pc \notin Contending /\ proc[p].goal = "fork"
      /\ \E f, b : Answered(p, f, b)
      /\ dir' = dir \/ dir' = [dir EXCEPT ![proc[p].f] = "absent"]
      /\ used' = used \/ used' = [used EXCEPT !.faults = @ + 1]
  <2>1. CASE ExistingFork(p)
    <3>1. proc[p].pc = "locked" /\ proc[p].goal = "fork"
      BY <2>1 DEF ExistingFork, At
    <3>2. dir' = dir /\ used' = used
      BY <2>1 DEF ExistingFork, files
    <3>3. \E f, b : Answered(p, f, b)
      BY <2>1, Zenon DEF ExistingFork
    <3> QED
      BY <3>1, <3>2, <3>3 DEF Alive, Contending
  <2>2. CASE ForkOperation(p)
    <3>1. proc[p].pc = "operation" /\ proc[p].goal = "fork"
      BY <2>2 DEF ForkOperation, At, LockInv, PhaseInv, Phase
    <3>2. dir' = dir /\ used' = used
      BY <2>2 DEF ForkOperation
    <3>3. \E f, b : Answered(p, f, b)
      BY <2>2, Zenon DEF ForkOperation
    <3> QED
      BY <3>1, <3>2, <3>3 DEF Alive, Contending
  <2>3. CASE ForkFails(p)
    <3>1. proc[p].pc \in {"operation", "write"} /\ proc[p].goal = "fork"
      BY <2>3 DEF ForkFails, At, LockInv, PhaseInv, Phase
    <3>2. /\ dir' = [dir EXCEPT ![proc[p].f] = "absent"]
          /\ used' = [used EXCEPT !.faults = @ + 1]
      BY <2>3 DEF ForkFails
    <3>3. \E f, b : Answered(p, f, b)
      BY <2>3, Zenon DEF ForkFails
    <3> QED
      BY <3>1, <3>2, <3>3 DEF Alive, Contending
  <2> QED
    BY <2>1, <2>2, <2>3
<1>2. /\ Only(p) /\ proc'[p].pc = "open" /\ proc'[p].goal = None /\ proc'[p].f = None
      /\ proc'[p].at = proc[p].at
      /\ lock' = [lock EXCEPT ![ForkLock] = "free",
                      ![IF proc[p].f \in Sessions THEN proc[p].f ELSE ForkLock] = "free"]
  BY <1>s, <1>1, AnsweredFacts
<1>3. /\ lock[ForkLock] = p /\ lock[proc[p].at] = p /\ proc[p].at \in Sessions
      /\ proc[p].f # None => /\ proc[p].f \in Sessions /\ proc[p].f # proc[p].at
                             /\ lock[proc[p].f] = p
  BY <1>1 DEF LockInv, HolderInv, PhaseInv, Phase
<1> DEFINE c == IF proc[p].f \in Sessions THEN proc[p].f ELSE ForkLock
           L == {ForkLock, c}
<1>4. /\ c \in Sessions \cup {ForkLock} /\ lock[c] = p /\ c # proc[p].at
      /\ proc[p].at # ForkLock
  BY <1>3, Names
<1>5. lock' = [lock EXCEPT ![ForkLock] = "free", ![c] = "free"]
  BY <1>2
<1> HIDE DEF c
<1>6. /\ L \in SUBSET (Sessions \cup {ForkLock}) /\ \A l \in L : lock[l] = p
      /\ proc[p].at \notin L
  BY <1>3, <1>4
<1>7. /\ lock' \in [Sessions \cup {ForkLock} -> {"free", "blank"} \cup Pids]
      /\ \A l \in Sessions \cup {ForkLock} : lock'[l] = IF l \in L THEN "free" ELSE lock[l]
  BY <1>4, <1>5, <1>s DEF Shaped
<1>8. /\ dir' = [s \in Sessions |-> dir'[s]]
      /\ \A s \in Sessions : dir'[s] = dir[s] \/ dir'[s] = "absent"
  BY <1>1, <1>s DEF Shaped
<1>9. /\ used' \in [records : Nat, stored : Nat, faults : Nat, forks : Nat]
      /\ used'.forks = used.forks
  BY <1>s, <1>1, Spent
<1> HIDE DEF L
<1> QED
  BY <1>1, <1>2, <1>3, <1>6, <1>7, <1>8, <1>9, FreeInv

-----------------------------------------------------------------------------
(* Forks *)

LEMMA RequestForkInv ==
  ASSUME LockInv, NEW p \in Pids, NEW t \in Threads, RequestFork(p, t)
  PROVE  LockInv'
<1>s. Shaped
  BY DEF LockInv
<1>0. /\ proc[p].pc = "open" /\ UNCHANGED <<lock, dir, used>>
      /\ proc' = [proc EXCEPT ![p].pc = "lock", ![p].goal = "fork", ![p].t = t]
  BY DEF RequestFork, MayFork, At, files
<1> DEFINE r == [proc[p] EXCEPT !.pc = "lock", !.goal = "fork", !.t = t]
<1>1. proc' = [proc EXCEPT ![p] = r]
  BY <1>0, <1>s DEF Shaped
<1>2. /\ DOMAIN r = Fields /\ r.pc = "lock" /\ r.goal = "fork" /\ r.at = proc[p].at
      /\ r.f = proc[p].f
  BY <1>s DEF Shaped, Fields
<1> HIDE DEF r
<1>3. Only(p) /\ proc'[p] = r
  BY <1>1, <1>2, <1>s, ReplaceFacts
<1>4. Alive(p) /\ proc[p].pc \notin Contending /\ proc[p].at \in Sessions /\ proc[p].goal = None
  BY <1>0 DEF Alive, Contending, LockInv, PhaseInv, Phase
<1>5. lock[proc[p].at] = p /\ proc[p].f = None
  BY <1>4 DEF LockInv, HolderInv, None
<1>6. Phase(p)'
  BY <1>2, <1>3, <1>4 DEF Phase, Alive
<1>7. PhaseInv' /\ Shaped'
  BY <1>0, <1>3, <1>6, PhaseKept DEF LockInv, Shaped, Only
<1>8. HolderInv'
  <2> SUFFICES ASSUME NEW q \in Pids, Alive(q)'
               PROVE  /\ proc'[q].goal = "fork" \/ proc'[q].pc \notin Contending
                            => lock'[proc'[q].at] = q
                      /\ proc'[q].goal = "fork" /\ proc'[q].pc \notin Contending
                            => lock'[ForkLock] = q
                      /\ proc'[q].f # None =>
                            /\ proc'[q].f \in Sessions /\ proc'[q].f # proc'[q].at
                            /\ proc'[q].goal = "fork"
                            /\ proc'[q].pc \notin Contending
                            /\ lock'[proc'[q].f] = q
    BY DEF HolderInv
  <2>0. \A l \in Sessions \cup {ForkLock} : lock[l] = q => lock'[l] = q
    BY <1>0
  <2>1. CASE q # p
    BY <2>0, <1>3, <2>1, OthersHold DEF LockInv
  <2>2. CASE q = p
    BY <1>0, <1>2, <1>3, <1>5, <2>2 DEF Contending
  <2> QED
    BY <2>1, <2>2
<1>9. LockFileInv'
  <2>1. /\ \A q \in Pids : proc'[q].pc \in {"made", "reclaim"} => proc'[q] = proc[q]
        /\ \A q \in Pids : proc[q].pc = "dead" => proc'[q].pc = "dead"
        /\ \A q \in Pids : proc[q].pc # "off" => proc'[q].pc # "off"
    BY <1>0, <1>2, <1>3 DEF Only
  <2> QED
    BY <1>0, <2>1, SameLocks
<1>10. UnusedInv'
  <2> SUFFICES ASSUME NEW i \in (used.forks + 1) .. Len(Spare), NEW q \in Pids
               PROVE  /\ dir[Spare[i]] = "absent" /\ lock[Spare[i]] = "free"
                      /\ proc'[q].at # Spare[i] /\ proc'[q].f # Spare[i]
    BY <1>0 DEF UnusedInv
  <2>1. /\ dir[Spare[i]] = "absent" /\ lock[Spare[i]] = "free"
        /\ proc[q].at # Spare[i] /\ proc[q].f # Spare[i]
    BY DEF LockInv, UnusedInv
  <2>2. proc'[q].at = proc[q].at /\ proc'[q].f = proc[q].f
    BY <1>2, <1>3 DEF Only
  <2> QED
    BY <2>1, <2>2
<1> QED
  BY <1>7, <1>8, <1>9, <1>10 DEF LockInv

LEMMA CreateForkFacts ==
  ASSUME Shaped, NEW p \in Pids, CreateFork(p)
  PROVE  LET f == Spare[used.forks + 1] IN
         /\ proc[p].pc = "locked" /\ proc[p].goal = "fork" /\ used.forks < Len(Spare)
         /\ dir' = [dir EXCEPT ![f] = "file"] /\ lock' = [lock EXCEPT ![f] = p]
         /\ used' = [used EXCEPT !.forks = @ + 1]
         /\ Only(p) /\ proc'[p].pc = "write" /\ proc'[p].f = f
         /\ proc'[p].at = proc[p].at /\ proc'[p].goal = "fork"
         /\ proc'[p].app.purpose = "fork"
<1> DEFINE f == Spare[used.forks + 1]
           lines == <<ForkHeader, Line(2, "checkpoint", 0)>>
           App(j) == [purpose |-> "fork", s |-> f, from |-> 0, mid |-> FALSE,
                      rest |-> SubSeq(lines, j + 1, 2), v |-> 0]
<1>1. /\ proc[p].pc = "locked" /\ proc[p].goal = "fork" /\ used.forks < Len(Spare)
      /\ used' = [used EXCEPT !.forks = @ + 1]
  BY DEF CreateFork, At
<1>2. \A j : App(j).purpose = "fork"
  OBVIOUS
<1>3. PICK j \in 0 .. 1 :
        /\ dir' = [dir EXCEPT ![f] = "file"] /\ lock' = [lock EXCEPT ![f] = p]
        /\ proc' = [proc EXCEPT ![p].pc = "write", ![p].f = f, ![p].app = App(j)]
  BY Zenon DEF CreateFork
<1> DEFINE a == App(j)
<1>4. a.purpose = "fork"
  BY <1>2
<1> HIDE DEF f, App, a
<1> DEFINE r == [proc[p] EXCEPT !.pc = "write", !.f = f, !.app = a]
<1>5. proc' = [proc EXCEPT ![p] = r]
  BY <1>3 DEF Shaped, a
<1>6. /\ DOMAIN r = Fields /\ r.pc = "write" /\ r.f = f /\ r.at = proc[p].at
      /\ r.goal = proc[p].goal /\ r.app = a
  BY DEF Shaped, Fields
<1> HIDE DEF r
<1>7. Only(p) /\ proc'[p] = r
  BY <1>5, <1>6, ReplaceFacts
<1>8. /\ Only(p) /\ proc'[p].pc = "write" /\ proc'[p].f = f
      /\ proc'[p].at = proc[p].at /\ proc'[p].goal = "fork"
      /\ proc'[p].app.purpose = "fork"
  BY <1>1, <1>4, <1>6, <1>7
<1> QED
  BY <1>1, <1>3, <1>8 DEF f

\* The new Session's name was free, and nobody else's.
LEMMA CreateForkInv ==
  ASSUME LockInv, NEW p \in Pids, CreateFork(p)
  PROVE  LockInv'
<1> DEFINE f == Spare[used.forks + 1]
<1>s. /\ Shaped /\ UnusedInv /\ used \in [records : Nat, stored : Nat, faults : Nat, forks : Nat]
      /\ used.forks \in Nat
  BY DEF LockInv, Shaped
<1>1. /\ proc[p].pc = "locked" /\ proc[p].goal = "fork" /\ used.forks < Len(Spare)
      /\ dir' = [dir EXCEPT ![f] = "file"] /\ lock' = [lock EXCEPT ![f] = p]
      /\ used' = [used EXCEPT !.forks = @ + 1]
      /\ Only(p) /\ proc'[p].pc = "write" /\ proc'[p].f = f
      /\ proc'[p].at = proc[p].at /\ proc'[p].goal = "fork"
      /\ proc'[p].app.purpose = "fork"
  BY <1>s, CreateForkFacts
<1>2. /\ f \in Sessions /\ used.forks + 1 \in 1..Len(Spare)
      /\ lock[f] = "free" /\ \A q \in Pids : proc[q].at # f /\ proc[q].f # f
  BY <1>s, <1>1, Names DEF UnusedInv
<1>n. \A i \in (used.forks + 2) .. Len(Spare) : Spare[i] \in Sessions /\ Spare[i] # f
  BY <1>s, <1>2, Names
<1> HIDE DEF f
<1>3. /\ used' \in [records : Nat, stored : Nat, faults : Nat, forks : Nat]
      /\ used'.forks = used.forks + 1
  BY <1>s, <1>1
<1>4. /\ lock' \in [Sessions \cup {ForkLock} -> {"free", "blank"} \cup Pids]
      /\ \A l \in Sessions \cup {ForkLock} : l # f => lock'[l] = lock[l]
      /\ lock'[f] = p /\ f # ForkLock
  BY <1>1, <1>2, <1>s, Names DEF Shaped
<1>5. /\ Alive(p) /\ Alive(p)' /\ proc[p].at \in Sessions /\ proc[p].pc \notin Contending
      /\ lock[proc[p].at] = p /\ lock[ForkLock] = p
  BY <1>1 DEF Alive, Contending, LockInv, PhaseInv, Phase, HolderInv
<1>6. Phase(p)'
  BY <1>1, <1>5 DEF Phase
<1>7. PhaseInv' /\ Shaped'
  BY <1>1, <1>3, <1>4, <1>6, PhaseKept DEF LockInv, Shaped, Only
<1>8. \A l \in Sessions \cup {ForkLock}, q \in Pids : lock[l] = q => lock'[l] = q
  BY <1>2, <1>4, Names
<1>9. HolderInv'
  <2> SUFFICES ASSUME NEW q \in Pids, Alive(q)'
               PROVE  /\ proc'[q].goal = "fork" \/ proc'[q].pc \notin Contending
                            => lock'[proc'[q].at] = q
                      /\ proc'[q].goal = "fork" /\ proc'[q].pc \notin Contending
                            => lock'[ForkLock] = q
                      /\ proc'[q].f # None =>
                            /\ proc'[q].f \in Sessions /\ proc'[q].f # proc'[q].at
                            /\ proc'[q].goal = "fork"
                            /\ proc'[q].pc \notin Contending
                            /\ lock'[proc'[q].f] = q
    BY DEF HolderInv
  <2>1. CASE q # p
    BY <1>1, <1>8, <2>1, OthersHold DEF LockInv
  <2>2. CASE q = p
    <3>1. lock'[proc[p].at] = p /\ lock'[ForkLock] = p /\ proc[p].at # f
      BY <1>2, <1>5, <1>8
    <3> QED
      BY <1>1, <1>2, <1>4, <2>2, <3>1 DEF Contending
  <2> QED
    BY <2>1, <2>2
<1>10. ASSUME NEW q \in Pids, q # p
       PROVE  proc'[q] = proc[q] /\ Target(q)' = Target(q)
  BY <1>1, <1>10 DEF Only, Target
<1>11. MadeBlank' /\ MadeOnce'
  <2>1. \A q \in Pids : proc[q].pc = "made" =>
          Target(q) \in Sessions \cup {ForkLock} /\ lock[Target(q)] = "blank"
    BY TargetFacts DEF LockInv, LockFileInv, MadeBlank, Alive
  <2>2. \A q \in Pids : proc'[q].pc = "made" =>
          /\ q # p /\ proc[q].pc = "made" /\ Target(q)' = Target(q)
          /\ lock'[Target(q)] = "blank"
    BY <1>1, <1>2, <1>4, <1>10, <2>1
  <2> QED
    BY <2>2 DEF LockInv, LockFileInv, MadeBlank, MadeOnce
<1>12. PidsStarted'
  BY <1>1, <1>2, <1>4, <1>10 DEF LockInv, LockFileInv, PidsStarted
<1>13. DeadRead'
  <2>1. proc[p].pc # "dead" /\ proc'[p].pc # "reclaim"
    BY <1>1
  <2> QED
    BY <2>1, <1>10 DEF LockInv, LockFileInv, DeadRead
<1>14. UnusedInv'
  <2>0. used'.forks + 1 = used.forks + 2
    BY <1>s, <1>3
  <2> SUFFICES ASSUME NEW i \in (used.forks + 2) .. Len(Spare)
               PROVE  /\ dir'[Spare[i]] = "absent" /\ lock'[Spare[i]] = "free"
                      /\ \A q \in Pids : proc'[q].at # Spare[i] /\ proc'[q].f # Spare[i]
    BY <2>0 DEF UnusedInv
  <2>1. Spare[i] \in Sessions /\ Spare[i] # f
    BY <1>n
  <2>2. /\ dir[Spare[i]] = "absent" /\ lock[Spare[i]] = "free"
        /\ \A q \in Pids : proc[q].at # Spare[i] /\ proc[q].f # Spare[i]
    BY <1>s DEF UnusedInv
  <2> QED
    BY <1>s, <1>1, <1>4, <2>1, <2>2 DEF Only, Shaped
<1> QED
  BY <1>7, <1>9, <1>11, <1>12, <1>13, <1>14 DEF LockInv, LockFileInv

-----------------------------------------------------------------------------
(* The doctor, and every step *)

LEMMA AsideInv ==
  ASSUME LockInv, UNCHANGED <<proc, lock, dir>>,
         used' = used \/ used' = [used EXCEPT !.faults = @ + 1]
  PROVE  LockInv'
<1>1. /\ used' \in [records : Nat, stored : Nat, faults : Nat, forks : Nat]
      /\ used'.forks = used.forks
  BY Spent DEF LockInv, Shaped
<1>2. Shaped' /\ UnusedInv'
  BY <1>1 DEF LockInv, Shaped, UnusedInv
<1>3. PhaseInv' /\ HolderInv'
  BY DEF LockInv, PhaseInv, Phase, HolderInv, Alive
<1>4. LockFileInv'
  BY DEF LockInv, LockFileInv, MadeBlank, MadeOnce, PidsStarted, DeadRead, Target
<1> QED
  BY <1>2, <1>3, <1>4 DEF LockInv

LEMMA ProcessInv ==
  ASSUME LockInv, ~ReclaimRaces, NEW p \in Pids, Process(p)
  PROVE  LockInv'
<1>1. CASE CreateNamed(p) \/ (\E s \in Sessions : ResumeStart(p, s)) \/ ForkStart(p)
  BY <1>1, OpeningInv
<1>2. CASE LockCreate(p)
  BY <1>2, LockCreateInv
<1>3. CASE LockWrite(p)
  BY <1>3, LockWriteInv
<1>4. CASE LockStale(p)
  BY <1>4, LockStaleInv
<1>5. CASE LockReclaim(p)
  BY <1>5, LockReclaimInv
<1>6. CASE LockRefused(p)
  BY <1>6, LockRefusedInv
<1>7. CASE Initialize(p) \/ InitializeDone(p) \/ Resume(p)
  BY <1>7, LoadWorkInv
<1>8. CASE InitializeFails(p) \/ ResumeFails(p) \/ Close(p) \/ Crash(p)
  BY <1>8, EndsInv
<1>9. CASE AppendRecords(p) \/ AppendDone(p) \/ AppendFails(p)
  BY <1>9, AppendInv
<1>10. CASE StoreResult(p) \/ StoreRecord(p) \/ StoreDone(p) \/ StoreFails(p)
  BY <1>10, StoreInv
<1>11. CASE \E t \in Threads : RequestFork(p, t)
  BY <1>11, RequestForkInv
<1>12. CASE ExistingFork(p) \/ ForkOperation(p) \/ ForkFails(p)
  BY <1>12, AnswerInv
<1>13. CASE CreateFork(p)
  BY <1>13, CreateForkInv
<1>14. CASE ForkWritten(p) \/ IndexFork(p)
  BY <1>14, ForkWorkInv
<1> QED
  BY <1>1, <1>2, <1>3, <1>4, <1>5, <1>6, <1>7, <1>8, <1>9, <1>10, <1>11, <1>12, <1>13, <1>14,
     Zenon DEF Process

LEMMA LockStep ==
  ASSUME LockInv, ~ReclaimRaces, [Next]_vars
  PROVE  LockInv'
<1>1. CASE \E p \in Pids : Process(p)
  BY <1>1, ProcessInv
<1>2. CASE \E s \in Sessions : RepairRead(s)
  BY <1>2, AsideInv DEF RepairRead, files
<1>3. CASE RepairTruncate
  BY <1>3, AsideInv DEF RepairTruncate
<1>4. CASE RepairStops
  BY <1>4, AsideInv DEF RepairStops, files
<1>5. CASE UNCHANGED vars
  BY <1>5, AsideInv DEF vars
<1> QED
  BY <1>1, <1>2, <1>3, <1>4, <1>5 DEF Next

-----------------------------------------------------------------------------
(* What follows *)

LEMMA LocksExclude ==
  ASSUME LockInv
  PROVE  OneWriter
<1> SUFFICES ASSUME NEW p \in Pids, NEW q \in Pids, Alive(p), Alive(q),
                    proc[p].at = proc[q].at,
                    proc[p].pc \notin {"lock", "reclaim", "relock"},
                    proc[q].pc \notin {"lock", "reclaim", "relock"}
             PROVE  p = q
  BY DEF OneWriter
<1>1. ASSUME NEW r \in Pids, Alive(r), proc[r].pc \notin {"lock", "reclaim", "relock"}
      PROVE  \/ lock[proc[r].at] = r
             \/ proc[r].pc = "made" /\ Target(r) = proc[r].at /\ lock[proc[r].at] = "blank"
  <2>1. CASE proc[r].goal = "fork" \/ proc[r].pc # "made"
    BY <1>1, <2>1 DEF LockInv, HolderInv, Contending
  <2>2. CASE proc[r].goal # "fork" /\ proc[r].pc = "made"
    BY <2>2 DEF LockInv, LockFileInv, MadeBlank, Target
  <2> QED
    BY <2>1, <2>2
<1>2. "blank" \notin Pids
  BY Names
<1> QED
  BY <1>1, <1>2 DEF LockInv, LockFileInv, MadeOnce

\* Every reachable state satisfies the inductive invariant of the locks
\* (acquire_lock_with_reclaim, SessionLock's drop, create_fork), as long as no
\* two processes reclaim the same stale lock at once.
THEOREM LocksInvariant == ASSUME ~ReclaimRaces PROVE Spec => []LockInv
<1>1. Init => LockInv
  BY LockInit
<1>2. LockInv /\ [Next]_vars => LockInv'
  BY LockStep
<1> QED
  BY <1>1, <1>2, PTL DEF Spec

\* A Session has one writer, however many processes open, crash, close and
\* reclaim, and whichever of them fork it (acquire_lock_with_reclaim).
THEOREM SessionHasOneWriter == ASSUME ~ReclaimRaces PROVE Spec => []OneWriter
<1>1. LockInv => OneWriter
  BY LocksExclude
<1> QED
  BY <1>1, LocksInvariant, PTL

-----------------------------------------------------------------------------
(* Greatest and least numbers *)

\* A set of natural numbers that is not empty has a least one.
LEMMA LeastNumber ==
  ASSUME NEW T, T \subseteq Nat, T # {}
  PROVE  \E m \in T : \A k \in T : m <= k
<1> DEFINE R == OpToRel(<, Nat)
<1>1. IsWellFoundedOn(R, Nat)
  BY NatLessThanWellFounded
<1> HIDE DEF R
<1>2. PICK m \in T : \A k \in T : ~ (<<k, m>> \in R)
  BY <1>1, WFMin
<1>3. ASSUME NEW k \in T
      PROVE  m <= k
  <2>1. ~ (<<k, m>> \in R) /\ k \in Nat /\ m \in Nat
    BY <1>2
  <2>2. <<k, m>> \in Nat \X Nat /\ <<k, m>>[1] = k /\ <<k, m>>[2] = m
    BY <2>1
  <2>3. k < m => <<k, m>> \in R
    BY <2>2 DEF R, OpToRel
  <2> QED
    BY <2>1, <2>3
<1> QED
  BY <1>3

\* One that is bounded has a greatest one, which Max finds.
LEMMA Greatest ==
  ASSUME NEW S, S \subseteq Nat, S # {}, NEW b \in Nat, \A x \in S : x <= b
  PROVE  Max(S) \in S /\ \A x \in S : x <= Max(S)
<1> DEFINE T == {m \in Nat : \A x \in S : x <= m}
<1>1. PICK m \in T : \A k \in T : m <= k
  <2>1. T \subseteq Nat /\ b \in T
    OBVIOUS
  <2> HIDE DEF T
  <2> QED
    BY <2>1, LeastNumber
<1>2. m \in S
  <2> SUFFICES ASSUME m \notin S
               PROVE  FALSE
    OBVIOUS
  <2>1. \A x \in S : x < m
    OBVIOUS
  <2>2. m > 0
    <3>1. PICK x \in S : x \in Nat
      OBVIOUS
    <3> QED
      BY <2>1, <3>1
  <2>3. m - 1 \in T
    BY <2>1, <2>2
  <2> QED
    BY <1>1, <2>3
<1>3. m \in S /\ \A x \in S : m >= x
  BY <1>2
<1>4. Max(S) \in S /\ \A x \in S : Max(S) >= x
  BY <1>3 DEF Max
<1> QED
  BY <1>4

\* The values of a finite sequence of numbers are bounded.
LEMMA Bounded ==
  ASSUME NEW n \in Nat, NEW f, \A i \in 1 .. n : f[i] \in Nat
  PROVE  \E b \in Nat : \A i \in 1 .. n : f[i] <= b
<1> DEFINE T == {k \in 0 .. n : ~ \E b \in Nat : \A i \in 1 .. k : f[i] <= b}
<1>0. T = {} => n \notin T /\ n \in 0 .. n
  BY SMTT(30)
<1>z. n \in 0 .. n /\ n \notin T => \E b \in Nat : \A i \in 1 .. n : f[i] <= b
  OBVIOUS
<1> SUFFICES ASSUME T # {}
             PROVE  FALSE
  <2> HIDE DEF T
  <2> QED
    BY <1>0, <1>z
<1>1. PICK k \in T : \A j \in T : k <= j
  <2>1. T \subseteq Nat
    OBVIOUS
  <2> HIDE DEF T
  <2> QED
    BY <2>1, LeastNumber
<1>2. k # 0
  OBVIOUS
<1>3. k - 1 \in 0 .. n /\ k - 1 \notin T
  <2>1. k \in 0 .. n
    OBVIOUS
  <2> HIDE DEF T
  <2> QED
    BY <1>1, <1>2, <2>1
<1>4. PICK b \in Nat : \A i \in 1 .. (k - 1) : f[i] <= b
  BY <1>3
<1>5. f[k] \in Nat
  BY <1>2
<1> DEFINE c == IF f[k] <= b THEN b ELSE f[k]
<1>6. c \in Nat /\ b <= c /\ f[k] <= c
  BY <1>5
<1> HIDE DEF c
<1>7. \A i \in 1 .. k : f[i] <= c
  <2> SUFFICES ASSUME NEW i \in 1 .. k
               PROVE  f[i] <= c
    OBVIOUS
  <2>1. CASE i = k
    BY <1>6, <2>1
  <2>2. CASE i # k
    <3>1. i \in 1 .. (k - 1) /\ f[i] \in Nat
      BY <2>2
    <3> QED
      BY <1>4, <1>6, <3>1
  <2> QED
    BY <2>1, <2>2
<1> QED
  BY <1>6, <1>7

-----------------------------------------------------------------------------
(* What is in the logs *)

Kinds == {"header", "checkpoint", "entry", "result", "operation", "bad"}
LineType == [seq : Nat, kind : Kinds, v : Nat]
AppType ==
  [purpose : {"record", "init", "result", "fork"}, s : Sessions, from : Nat, mid : BOOLEAN,
   rest : Seq(LineType), v : Nat]

FilesTyped ==
  /\ log \in [Sessions -> Seq(LineType)]
  /\ tail \in [Sessions -> BOOLEAN]
  /\ acked \in [Sessions -> SUBSET LineType]
  /\ spoiled \subseteq {Main}
\* The lines are numbered from one.
Sound(s) == \A i \in 1 .. Len(log[s]) : log[s][i].seq = i

\* Nothing is in the log, and nothing was acknowledged.
Blank(s) == log[s] = <<>> /\ ~tail[s] /\ acked[s] = {}

\* The first n lines make a log that loads, when they are sound.
GoodLog(s, n) ==
  /\ dir[s] = "file" /\ n <= Len(log[s])
  /\ n > 0 /\ log[s][1].kind = "header"
  /\ \E i \in 1 .. n : log[s][i].kind = "checkpoint"

\* What was acknowledged is among the first n lines.
Keeps(s, n) ==
  /\ \A l \in acked[s] : \E i \in 1 .. n : log[s][i] = l
  /\ acked[s] # {} => GoodLog(s, n)

\* Where a process x is, with which goal, and what it writes where.
Place(x) ==
  /\ x.goal \in {None, "create", "branch", "resume", "fork"}
  /\ x.goal = None => x.pc \in {"open", "sidecar", "write"}
  /\ x.pc \in {"open", "sidecar"} => x.goal = None
  /\ x.pc \in {"indexing", "operation"} => x.goal = "fork"
  /\ x.goal = "create" => x.at = Main
  /\ x.goal = "branch" => x.at # Main
  /\ x.goal = "fork" => x.at = Main /\ x.t \in Threads
  /\ (x.f # None) <=>
       (x.goal = "fork" /\ x.pc \in {"write", "indexing", "operation"})
  /\ x.pc = "sidecar" => x.at = Main
  /\ x.pc = "write" =>
       /\ x.app \in AppType
       /\ x.app.purpose = "fork" <=> x.goal = "fork"
       /\ x.app.purpose = "init" <=> x.goal \in {"create", "branch"}
       /\ x.app.purpose \in {"record", "result"} <=> x.goal = None
       /\ x.goal = None => x.at = Main
       /\ x.app.s = IF x.goal = "fork" THEN x.f ELSE x.at

\* The Sessions whose log nobody else writes.
Owns(p, s) ==
  /\ Alive(p)
  /\ s = proc[p].f \/ (s = proc[p].at /\ proc[p].goal # "resume")
OwnedOnce == \A p, q \in Pids, s \in Sessions : Owns(p, s) /\ Owns(q, s) => p = q

\* A process in the middle of a write
WriteFiles(x) ==
  LET a == x.app  s == a.s  n == Len(log[s]) IN
  /\ a.from <= n /\ Len(a.rest) > 0 /\ tail[s]
  /\ s \notin spoiled =>
       ~a.mid /\ \A i \in 1 .. Len(a.rest) : a.rest[i].seq = n + i
  /\ Keeps(s, a.from)
  /\ x.goal = None => GoodLog(s, a.from)
  /\ x.goal # None =>
       /\ a.from = 0 /\ s \notin spoiled /\ n + Len(a.rest) = 2 /\ dir[s] = "file"
       /\ \/ n = 0 /\ a.rest[1].kind = "header" /\ a.rest[2].kind = "checkpoint"
          \/ n = 1 /\ log[s][1].kind = "header" /\ a.rest[1].kind = "checkpoint"

\* A process that makes a fork and has written its log
ForkFiles(x) ==
  /\ Len(log[x.f]) = 2 /\ GoodLog(x.f, 2) /\ ~tail[x.f] /\ acked[x.f] # {}

\* A process that has its Session open
OpenFiles(x) ==
  /\ GoodLog(x.at, Len(log[x.at]))
  /\ \/ x.at \in spoiled \/ ~tail[x.at]
     \/ x.pc = "write" /\ x.app.s = x.at

\* A process that makes its Session
NewFiles(x) ==
  /\ dir[x.at] # "absent"
  /\ x.pc # "write" => Blank(x.at)

Files(x) ==
  /\ x.goal \in {None, "fork"} => OpenFiles(x)
  /\ x.goal \in {"create", "branch"} => NewFiles(x)
  /\ x.pc = "write" => WriteFiles(x)
  /\ x.pc \in {"indexing", "operation"} => ForkFiles(x)

Indexed(x) ==
  /\ x.goal = "fork" /\ x.pc \in {"write", "indexing"} => index[x.t] = None
  /\ x.pc = "operation" => index[x.t] = x.f \/ x.t \in lapsed

Each(p) == Alive(p) => Place(proc[p]) /\ Files(proc[p])

Logs ==
  \A s \in Sessions : (s \notin spoiled => Sound(s)) /\ Keeps(s, Len(log[s]))

\* Bytes a failed write left stand behind a good log.
SpoiledGood == \A s \in spoiled : GoodLog(s, Len(log[s]))

\* A Session that is not there has no log.
Absent == \A s \in Sessions : dir[s] = "absent" => Blank(s)

\* The doctor is alone with the log it repairs.
Doctoring ==
  doctor # NoRepair =>
    /\ doctor.s \in Sessions /\ doctor.n = Len(log[doctor.s]) /\ dir[doctor.s] = "file"
    /\ \A p \in Pids : Alive(p) => doctor.s \notin {proc[p].at, proc[p].f}

Counted == \A p \in Pids : proc[p].next \in Nat

FilesInv ==
  /\ FilesTyped /\ Logs /\ SpoiledGood /\ Absent /\ Doctoring /\ OwnedOnce /\ Counted
  /\ \A p \in Pids : Each(p)

\* The thread index names forks that are there, or that failed and are gone; a
\* fork a caller was given stays as it is.
IndexTyped ==
  /\ index \in [Threads -> Sessions \cup {None}]
  /\ answers \in [Threads -> SUBSET Sessions]
Named ==
  \A t \in Threads : index[t] # None =>
    index[t] # Main /\ (acked[index[t]] # {} \/ dir[index[t]] = "absent")
Given ==
  \A t \in Threads : \A f \in answers[t] :
    f # Main /\ acked[f] # {} /\ \A p \in Pids : Alive(p) => proc[p].f # f
Agreed == \A t \in Threads \ lapsed : answers[t] \subseteq {index[t]}
Unindexed ==
  \A i \in (used.forks + 1) .. Len(Spare), t \in Threads : index[t] # Spare[i]
Indexing == \A p \in Pids : Alive(p) => Indexed(proc[p])

IndexInv == IndexTyped /\ Named /\ Given /\ Agreed /\ Unindexed /\ Indexing

-----------------------------------------------------------------------------
(* Lines *)

LEMMA LogTyped ==
  ASSUME FilesTyped, NEW s \in Sessions
  PROVE  /\ log[s] \in Seq(LineType) /\ Len(log[s]) \in Nat
         /\ DOMAIN log[s] = 1 .. Len(log[s])
         /\ \A i \in 1 .. Len(log[s]) : log[s][i] \in LineType /\ log[s][i].seq \in Nat
                                        /\ log[s][i].v \in Nat
<1>1. log[s] \in Seq(LineType)
  BY DEF FilesTyped
<1>2. \A l \in LineType : l.seq \in Nat /\ l.v \in Nat
  BY DEF LineType
<1> HIDE DEF LineType
<1>3. \A i \in 1 .. Len(log[s]) : log[s][i] \in LineType
  BY <1>1
<1> QED
  BY <1>1, <1>2, <1>3

\* A log loads when its lines are numbered, and it has a header and a checkpoint.
LEMMA LoadsMeans ==
  ASSUME FilesTyped, NEW s \in Sessions
  PROVE  Loads(s) <=> dir[s] = "file" /\ Sound(s) /\ GoodLog(s, Len(log[s]))
<1> DEFINE n == Len(log[s])
           wrong == {i \in 1 .. n : log[s][i] = Bad \/ log[s][i].seq # i}
<1>1. n \in Nat
  BY LogTyped
<1>2. wrong = {} <=> Sound(s)
  <2>1. \A i \in 1 .. n : log[s][i] = Bad => log[s][i].seq # i
    BY DEF Bad, Line
  <2> QED
    BY <2>1 DEF Sound
<1>3. LoadIssue(s) = "none" <=>
        wrong = {} /\ ~(n > 0 /\ log[s][1].kind # "header")
        /\ ~(\A i \in 1 .. n : log[s][i].kind # "checkpoint")
  BY DEF LoadIssue
<1> HIDE DEF wrong
<1>4. (\E i \in 1 .. n : log[s][i].kind = "checkpoint") => n > 0
  BY <1>1
<1> QED
  BY <1>1, <1>2, <1>3, <1>4 DEF Loads, GoodLog

LEMMA NextSeqFacts ==
  ASSUME FilesTyped, NEW s \in Sessions
  PROVE  NextSeq(s) \in Nat /\ (Sound(s) => NextSeq(s) = Len(log[s]) + 1)
<1> DEFINE n == Len(log[s])
           f == [i \in 1 .. n |-> log[s][i].seq]
           S == {0} \cup {log[s][i].seq : i \in DOMAIN log[s]}
<1>1. n \in Nat /\ DOMAIN log[s] = 1 .. n /\ \A i \in 1 .. n : log[s][i].seq \in Nat
  BY LogTyped
<1>2. PICK b \in Nat : \A i \in 1 .. n : f[i] <= b
  <2>1. \A i \in 1 .. n : f[i] \in Nat
    BY <1>1
  <2> HIDE DEF f
  <2> QED
    BY <1>1, <2>1, Bounded
<1>3. S \subseteq Nat /\ S # {} /\ \A x \in S : x <= b
  <2>1. \A i \in 1 .. n : log[s][i].seq <= b
    BY <1>2
  <2> QED
    BY <1>1, <2>1
<1>4. Max(S) \in S /\ \A x \in S : x <= Max(S)
  <2> HIDE DEF S
  <2> QED
    BY <1>3, Greatest
<1>5. NextSeq(s) = Max(S) + 1
  BY DEF NextSeq
<1>6. Sound(s) => S = 0 .. n
  BY <1>1 DEF Sound
<1>7. ASSUME Sound(s)
      PROVE  Max(S) = n
  <2>1. S = 0 .. n
    BY <1>6, <1>7
  <2> HIDE DEF S
  <2>2. n \in S /\ Max(S) \in 0 .. n /\ n <= Max(S)
    BY <1>1, <1>4, <2>1
  <2> QED
    BY <1>1, <2>2
<1>8. Max(S) \in Nat
  BY <1>3, <1>4
<1> QED
  BY <1>5, <1>7, <1>8

LEMMA EncodedFacts ==
  ASSUME FilesTyped, NEW s \in Sessions, NEW kinds \in Seq(Kinds), Len(kinds) > 0, NEW v \in Nat
  PROVE  /\ Encoded(s, kinds, v) \in Seq(LineType)
         /\ Len(Encoded(s, kinds, v)) = Len(kinds)
         /\ ~tail[s] => \A i \in 1 .. Len(kinds) :
              Encoded(s, kinds, v)[i] = Line(NextSeq(s) + i - 1, kinds[i], v)
<1> DEFINE m == Len(kinds)
           N == NextSeq(s)
           fresh == [i \in DOMAIN kinds |-> Line(NextSeq(s) + i - 1, kinds[i], v)]
<1>1. m \in Nat /\ DOMAIN kinds = 1 .. m /\ \A i \in 1 .. m : kinds[i] \in Kinds
  OBVIOUS
<1>2. N \in Nat
  BY NextSeqFacts
<1>3. \A i \in 1 .. m : Line(N + i - 1, kinds[i], v) \in LineType
  BY <1>1, <1>2 DEF Line, LineType
<1>4. fresh \in [1 .. m -> LineType] /\ fresh \in Seq(LineType) /\ Len(fresh) = m
  BY <1>1, <1>3
<1>5. Bad \in LineType
  BY DEF Bad, Line, LineType, Kinds
<1>6. tail[s] \in BOOLEAN
  BY DEF FilesTyped
<1>7. Encoded(s, kinds, v) = IF tail[s] THEN <<Bad>> \o Tail(fresh) ELSE fresh
  BY DEF Encoded
<1>8. ~tail[s] => \A i \in 1 .. m : fresh[i] = Line(NextSeq(s) + i - 1, kinds[i], v)
  BY <1>1
<1> HIDE DEF fresh
<1>9. CASE tail[s]
  <2>1. Tail(fresh) \in Seq(LineType) /\ Len(Tail(fresh)) = m - 1
    BY <1>1, <1>4
  <2>2. <<Bad>> \in Seq(LineType) /\ Len(<<Bad>>) = 1
    BY <1>5
  <2> QED
    BY <1>1, <1>7, <1>9, <2>1, <2>2
<1>10. CASE ~tail[s]
  BY <1>4, <1>7, <1>8, <1>10
<1> QED
  BY <1>6, <1>9, <1>10

-----------------------------------------------------------------------------
(* What a write does *)

\* The first lines of a write are on the log and the rest waits.
Begun(p, s, purpose, kinds, v) ==
  LET a == proc'[p].app  n == Len(log[s])  m == Len(log'[s]) IN
  /\ Only(p) /\ Stays(p) /\ More(p) /\ proc'[p].pc = "write"
  /\ log' \in [Sessions -> Seq(LineType)] /\ tail' \in [Sessions -> BOOLEAN]
  /\ \A r \in Sessions \ {s} : log'[r] = log[r] /\ tail'[r] = tail[r]
  /\ tail'[s]
  /\ a \in AppType /\ a.purpose = purpose /\ a.s = s /\ a.from = n /\ a.mid = tail[s]
  /\ Len(a.rest) > 0 /\ n <= m /\ m + Len(a.rest) = n + Len(kinds)
  /\ \A i \in 1 .. n : log'[s][i] = log[s][i]
  /\ ~tail[s] =>
       /\ \A i \in (n + 1) .. m : log'[s][i] = Line(NextSeq(s) + (i - n) - 1, kinds[i - n], v)
       /\ \A i \in 1 .. Len(a.rest) :
            a.rest[i] = Line(NextSeq(s) + (i + (m - n)) - 1, kinds[i + (m - n)], v)

LEMMA SubSeqFacts ==
  ASSUME NEW T, NEW e \in Seq(T), NEW i \in Nat \ {0}, NEW j \in Nat, i <= j + 1, j <= Len(e)
  PROVE  /\ SubSeq(e, i, j) \in Seq(T) /\ Len(SubSeq(e, i, j)) = j - i + 1
         /\ \A k \in 1 .. (j - i + 1) : SubSeq(e, i, j)[k] = e[i + k - 1]
<1>1. \A k \in i .. j : e[k] \in T
  OBVIOUS
<1> DEFINE g == [k \in 1 .. (j - i + 1) |-> e[k + i - 1]]
<1>2. SubSeq(e, i, j) = g
  OBVIOUS
<1>3. j - i + 1 \in Nat /\ \A k \in 1 .. (j - i + 1) : e[k + i - 1] \in T
  BY <1>1
<1>4. g \in Seq(T) /\ Len(g) = j - i + 1
  BY <1>3
<1> QED
  BY <1>2, <1>3, <1>4

LEMMA BeginLog ==
  ASSUME Shaped, FilesTyped, NEW p \in Pids, NEW s \in Sessions,
         NEW purpose \in {"record", "init", "result", "fork"},
         NEW kinds \in Seq(Kinds), Len(kinds) > 0, NEW v \in Nat,
         Begin(p, s, purpose, kinds, v)
  PROVE  Begun(p, s, purpose, kinds, v)
<1> DEFINE n == Len(log[s])
           e == Encoded(s, kinds, v)
           App(j) == [purpose |-> purpose, s |-> s, from |-> n, mid |-> tail[s],
                      rest |-> SubSeq(e, j + 1, Len(kinds)), v |-> v]
<1>1. PICK j \in 0 .. Len(kinds) - 1 :
        /\ log' = [log EXCEPT ![s] = @ \o SubSeq(e, 1, j)]
        /\ tail' = [tail EXCEPT ![s] = TRUE]
        /\ proc' = [proc EXCEPT ![p].pc = "write", ![p].app = App(j)]
  BY Zenon DEF Begin
<1>2. /\ e \in Seq(LineType) /\ Len(e) = Len(kinds)
      /\ ~tail[s] => \A i \in 1 .. Len(kinds) :
           e[i] = Line(NextSeq(s) + i - 1, kinds[i], v)
  BY EncodedFacts
<1> HIDE DEF e
<1>3. Len(kinds) \in Nat /\ j \in Nat /\ n \in Nat /\ log[s] \in Seq(LineType)
  BY LogTyped
<1> DEFINE x == SubSeq(e, 1, j)
           y == SubSeq(e, j + 1, Len(kinds))
<1>4. x \in Seq(LineType) /\ Len(x) = j /\ \A k \in 1 .. j : x[k] = e[k]
  <2>1. j <= Len(e) /\ 1 <= j + 1 /\ 1 \in Nat \ {0} /\ j - 1 + 1 = j
    BY <1>2, <1>3
  <2>2. \A k \in 1 .. j : 1 + k - 1 = k
    OBVIOUS
  <2> QED
    BY <1>2, <1>3, <2>1, <2>2, SubSeqFacts
<1>5. /\ y \in Seq(LineType) /\ Len(y) = Len(kinds) - j
      /\ \A k \in 1 .. (Len(kinds) - j) : y[k] = e[k + j]
  <2>1. /\ j + 1 \in Nat \ {0} /\ Len(kinds) <= Len(e) /\ j + 1 <= Len(kinds) + 1
        /\ Len(kinds) - (j + 1) + 1 = Len(kinds) - j
    BY <1>2, <1>3
  <2>2. \A k \in 1 .. (Len(kinds) - j) : (j + 1) + k - 1 = k + j
    BY <1>3
  <2> QED
    BY <1>2, <1>3, <2>1, <2>2, SubSeqFacts
<1>a. /\ App(j).purpose = purpose /\ App(j).s = s /\ App(j).from = n /\ App(j).mid = tail[s]
      /\ App(j).rest = y
  OBVIOUS
<1>b. App(j) \in AppType
  BY <1>3, <1>5 DEF AppType, FilesTyped
<1> HIDE DEF x, y, App
<1>6. Only(p) /\ Stays(p) /\ More(p) /\ proc'[p].pc = "write" /\ proc'[p].app = App(j)
  BY <1>1, AppFacts
<1>7. log[s] \o x \in Seq(LineType) /\ Len(log[s] \o x) = n + j
  BY <1>3, <1>4, SMTT(30)
<1>8. /\ \A i \in 1 .. n : (log[s] \o x)[i] = log[s][i]
      /\ \A i \in (n + 1) .. (n + j) : (log[s] \o x)[i] = x[i - n]
  BY <1>3, <1>4
<1>9. /\ log' \in [Sessions -> Seq(LineType)] /\ log'[s] = log[s] \o x
      /\ \A r \in Sessions \ {s} : log'[r] = log[r]
  BY <1>1, <1>7 DEF FilesTyped, x
<1>10. /\ tail' \in [Sessions -> BOOLEAN] /\ tail'[s]
       /\ \A r \in Sessions \ {s} : tail'[r] = tail[r]
  BY <1>1 DEF FilesTyped
<1>11. /\ Len(log'[s]) = n + j /\ n <= n + j /\ Len(y) > 0
       /\ n + j + Len(y) = n + Len(kinds) /\ (n + j) - n = j
  BY <1>3, <1>5, <1>7, <1>9
<1>12. ~tail[s] => \A i \in (n + 1) .. (n + j) :
          log'[s][i] = Line(NextSeq(s) + (i - n) - 1, kinds[i - n], v)
  <2>1. \A i \in (n + 1) .. (n + j) : i - n \in 1 .. j /\ i - n \in 1 .. Len(kinds)
    BY <1>3
  <2> QED
    BY <1>2, <1>4, <1>8, <1>9, <2>1
<1>13. ~tail[s] => \A i \in 1 .. Len(y) :
          y[i] = Line(NextSeq(s) + (i + j) - 1, kinds[i + j], v)
  <2>1. \A i \in 1 .. (Len(kinds) - j) : i + j \in 1 .. Len(kinds)
    BY <1>3
  <2> QED
    BY <1>2, <1>5, <2>1
<1>14. \A i \in 1 .. n : log'[s][i] = log[s][i]
  BY <1>8, <1>9
<1> HIDE DEF n
<1>15. n = Len(log[s])
  BY DEF n
<1> QED
  BY <1>6, <1>9, <1>10, <1>11, <1>12, <1>13, <1>14, <1>15, <1>a, <1>b, SMTT(30) DEF Begun

\* Nothing happens to the files of other Sessions.
Elsewhere(s) ==
  \A r \in Sessions \ {s} :
    /\ log'[r] = log[r] /\ tail'[r] = tail[r] /\ acked'[r] = acked[r] /\ dir'[r] = dir[r]
    /\ (r \in spoiled' <=> r \in spoiled)

\* The rest of a write reaches the log.
LEMMA WrittenFiles ==
  ASSUME FilesTyped, Logs, NEW p \in Pids, Place(proc[p]), WriteFiles(proc[p]), proc[p].pc = "write",
         Written(p), UNCHANGED <<dir, spoiled>>, NEW s, s = proc[p].app.s
  PROVE  /\ s \in Sessions /\ FilesTyped' /\ Elsewhere(s)
         /\ ~tail'[s] /\ (s \notin spoiled => Sound(s)') /\ Keeps(s, Len(log[s]))'
         /\ acked[s] \subseteq acked'[s] /\ acked'[s] # {}
         /\ GoodLog(s, Len(log[s]))'
         /\ proc[p].goal # None => Len(log'[s]) = 2
<1> DEFINE a == proc[p].app
           n == Len(log[s])
           y == a.rest
           h == log[s] \o y
<1>1. /\ a \in AppType /\ s \in Sessions /\ y \in Seq(LineType) /\ Len(y) \in Nat
      /\ a.from \in Nat
  BY DEF Place, AppType
<1>2. /\ log[s] \in Seq(LineType) /\ n \in Nat /\ DOMAIN log[s] = 1 .. n
      /\ \A i \in 1 .. n : log[s][i] \in LineType
  BY <1>1, LogTyped
<1>3. /\ a.from <= n /\ Len(y) > 0 /\ tail[s] /\ Keeps(s, a.from)
      /\ s \notin spoiled => \A i \in 1 .. Len(y) : y[i].seq = n + i
      /\ proc[p].goal = None => GoodLog(s, a.from)
      /\ proc[p].goal # None =>
           /\ a.from = 0 /\ n + Len(y) = 2 /\ dir[s] = "file"
           /\ \/ n = 0 /\ y[1].kind = "header" /\ y[2].kind = "checkpoint"
              \/ n = 1 /\ log[s][1].kind = "header" /\ y[1].kind = "checkpoint"
  BY DEF WriteFiles
<1>n. n \in Nat /\ Len(y) \in Nat
  BY <1>1, <1>2
<1> HIDE DEF y, a, n
<1>4. h \in Seq(LineType) /\ Len(h) = n + Len(y) /\ DOMAIN h = 1 .. (n + Len(y))
  BY <1>1, <1>2 DEF n
<1>5. /\ \A i \in 1 .. n : h[i] = log[s][i]
      /\ \A i \in (n + 1) .. (n + Len(y)) : h[i] = y[i - n]
  BY <1>1, <1>2 DEF n
<1>6. log' = [log EXCEPT ![s] = h]
  <2>1. log' = [log EXCEPT ![a.s] = @ \o IF tail[a.s] THEN a.rest ELSE <<Bad>>]
    BY DEF Written, a
  <2>2. a.s = s
    BY DEF a
  <2> QED
    BY <1>3, <2>1, <2>2 DEF y
<1>7. /\ tail' = [tail EXCEPT ![s] = FALSE]
      /\ acked' = [acked EXCEPT ![s] =
           @ \cup Range(SubSeq(log'[s], a.from + 1, Len(log'[s])))]
  BY DEF Written, a
<1> HIDE DEF h
<1>8. /\ log' \in [Sessions -> Seq(LineType)] /\ log'[s] = h
      /\ \A r \in Sessions \ {s} : log'[r] = log[r]
  BY <1>1, <1>4, <1>6 DEF FilesTyped
<1>9. /\ tail' \in [Sessions -> BOOLEAN] /\ ~tail'[s]
      /\ \A r \in Sessions \ {s} : tail'[r] = tail[r]
  BY <1>1, <1>7 DEF FilesTyped
<1>10. SubSeq(h, a.from + 1, Len(h)) \in Seq(LineType)
       /\ Len(SubSeq(h, a.from + 1, Len(h))) = n + Len(y) - a.from
       /\ \A k \in 1 .. (n + Len(y) - a.from) :
            SubSeq(h, a.from + 1, Len(h))[k] = h[a.from + k]
  <2> DEFINE c == a.from
             m == Len(h)
  <2>0. c \in Nat /\ m \in Nat /\ c <= m /\ m = n + Len(y)
    BY <1>1, <1>2, <1>3, <1>4
  <2> HIDE DEF c, m
  <2>a. c + 1 \in Nat \ {0} /\ c + 1 <= m + 1 /\ m <= m /\ m - (c + 1) + 1 = m - c
    BY <2>0
  <2>b. m - (c + 1) + 1 = n + Len(y) - c
    BY <1>n, <2>0, <2>a
  <2>1. /\ a.from + 1 \in Nat \ {0} /\ Len(h) \in Nat /\ a.from + 1 <= Len(h) + 1
        /\ Len(h) <= Len(h) /\ Len(h) - (a.from + 1) + 1 = n + Len(y) - a.from
    BY <2>0, <2>a, <2>b DEF c, m
  <2>2. \A k \in 1 .. (n + Len(y) - a.from) : a.from + 1 + k - 1 = a.from + k
    BY <1>1
  <2>3. /\ SubSeq(h, a.from + 1, Len(h)) \in Seq(LineType)
        /\ Len(SubSeq(h, a.from + 1, Len(h))) = Len(h) - (a.from + 1) + 1
        /\ \A k \in 1 .. (Len(h) - (a.from + 1) + 1) :
             SubSeq(h, a.from + 1, Len(h))[k] = h[(a.from + 1) + k - 1]
    BY <1>4, <2>1, SubSeqFacts
  <2> QED
    BY <2>1, <2>2, <2>3
<1> DEFINE R == Range(SubSeq(h, a.from + 1, Len(h)))
<1>11. /\ R = {h[a.from + k] : k \in 1 .. (n + Len(y) - a.from)}
       /\ R \subseteq LineType /\ R # {}
  <2> DEFINE z == SubSeq(h, a.from + 1, Len(h))
             d == n + Len(y) - a.from
  <2>0. d \in Nat /\ d > 0
    BY <1>1, <1>2, <1>3
  <2>1. z \in Seq(LineType) /\ Len(z) = d /\ d \in Nat /\ d > 0
        /\ \A k \in 1 .. d : z[k] = h[a.from + k]
    BY <1>10, <2>0
  <2>2. R = {z[k] : k \in DOMAIN z}
    BY DEF Range
  <2> HIDE DEF z, d, R
  <2>3. DOMAIN z = 1 .. d /\ \A k \in 1 .. d : z[k] \in LineType
    BY <2>1
  <2>4. R = {h[a.from + k] : k \in 1 .. d}
    BY <2>1, <2>2, <2>3
  <2>5. h[a.from + 1] \in R
    BY <2>1, <2>4
  <2>6. R \subseteq LineType
    BY <2>2, <2>3
  <2> QED
    BY <2>4, <2>5, <2>6 DEF d
<1>12. \A l \in R : \E i \in 1 .. (n + Len(y)) : h[i] = l
  <2>1. \A k \in 1 .. (n + Len(y) - a.from) : a.from + k \in 1 .. (n + Len(y))
    BY <1>1, <1>2
  <2> HIDE DEF R
  <2> QED
    BY <1>11, <2>1
<1>13. acked' = [acked EXCEPT ![s] = acked[s] \cup R]
  BY <1>7, <1>8
<1> HIDE DEF R
<1>14. /\ acked' \in [Sessions -> SUBSET LineType] /\ acked'[s] = acked[s] \cup R
       /\ \A r \in Sessions \ {s} : acked'[r] = acked[r]
  BY <1>1, <1>11, <1>13 DEF FilesTyped
<1>15. FilesTyped' /\ Elsewhere(s)
  BY <1>8, <1>9, <1>14 DEF Elsewhere, FilesTyped
<1>16. s \notin spoiled => \A i \in 1 .. (n + Len(y)) : h[i].seq = i
  <2> SUFFICES ASSUME s \notin spoiled, NEW i \in 1 .. (n + Len(y))
               PROVE  h[i].seq = i
    OBVIOUS
  <2>1. CASE i <= n
    BY <1>1, <1>2, <1>5, <2>1 DEF Logs, Sound, n
  <2>2. CASE i > n
    <3>1. i - n \in 1 .. Len(y) /\ i \in (n + 1) .. (n + Len(y)) /\ n + (i - n) = i
      BY <1>1, <1>2, <2>2
    <3> QED
      BY <1>3, <1>5, <3>1
  <2> QED
    BY <1>2, <2>1, <2>2
<1>17. GoodLog(s, Len(log[s]))'
  <2>1. CASE proc[p].goal = None
    <3>1. /\ dir[s] = "file" /\ a.from > 0 /\ log[s][1].kind = "header"
          /\ \E i \in 1 .. a.from : log[s][i].kind = "checkpoint"
      BY <1>3, <2>1 DEF GoodLog
    <3>2. PICK i \in 1 .. a.from : log[s][i].kind = "checkpoint"
      BY <3>1
    <3>3. i \in 1 .. n /\ i \in 1 .. (n + Len(y)) /\ 1 \in 1 .. n
      BY <1>1, <1>2, <1>3
    <3>4. h[i].kind = "checkpoint" /\ h[1].kind = "header"
      BY <1>5, <3>1, <3>2, <3>3
    <3> QED
      BY <1>1, <1>2, <1>4, <1>8, <3>1, <3>3, <3>4 DEF GoodLog
  <2>2. CASE proc[p].goal # None
    <3>1. n + Len(y) = 2 /\ dir[s] = "file"
      BY <1>3, <2>2
    <3>2. h[1].kind = "header" /\ h[2].kind = "checkpoint"
      <4>1. CASE n = 0 /\ y[1].kind = "header" /\ y[2].kind = "checkpoint"
        <5>1. 1 \in (n + 1) .. (n + Len(y)) /\ 2 \in (n + 1) .. (n + Len(y))
              /\ 1 - n = 1 /\ 2 - n = 2
          <6>1. n = 0 /\ Len(y) = 2
            BY <1>n, <3>1, <4>1
          <6>2. n + 1 = 1 /\ n + Len(y) = 2 /\ 1 - n = 1 /\ 2 - n = 2
            BY <6>1
          <6> QED
            BY <6>2
        <5> QED
          BY <1>5, <4>1, <5>1
      <4>2. CASE n = 1 /\ log[s][1].kind = "header" /\ y[1].kind = "checkpoint"
        BY <1>5, <3>1, <4>2
      <4> QED
        BY <1>3, <2>2, <4>1, <4>2
    <3>3. Len(h) = 2 /\ 2 \in 1 .. 2
      BY <1>4, <3>1
    <3> QED
      BY <1>8, <3>1, <3>2, <3>3 DEF GoodLog
  <2> QED
    BY <2>1, <2>2
<1>18. Keeps(s, Len(log[s]))'
  <2>1. \A l \in acked[s] : \E i \in 1 .. (n + Len(y)) : h[i] = l
    <3> SUFFICES ASSUME NEW l \in acked[s]
                 PROVE  \E i \in 1 .. (n + Len(y)) : h[i] = l
      OBVIOUS
    <3>1. PICK i \in 1 .. a.from : log[s][i] = l
      BY <1>3 DEF Keeps
    <3>2. i \in 1 .. n /\ i \in 1 .. (n + Len(y))
      BY <1>1, <1>2, <1>3
    <3> QED
      BY <1>5, <3>1, <3>2
  <2>2. \A l \in acked'[s] : \E i \in 1 .. Len(log'[s]) : log'[s][i] = l
    BY <1>4, <1>8, <1>12, <1>14, <2>1
  <2> QED
    BY <1>17, <2>2 DEF Keeps
<1>19. s \notin spoiled => Sound(s)'
  BY <1>4, <1>8, <1>16 DEF Sound
<1> QED
  BY <1>1, <1>3, <1>4, <1>8, <1>9, <1>11, <1>14, <1>15, <1>17, <1>18, <1>19

\* A failed write is rolled back.
LEMMA CutFiles ==
  ASSUME FilesTyped, Logs, NEW p \in Pids, Place(proc[p]), WriteFiles(proc[p]), proc[p].pc = "write",
         NEW s, s = proc[p].app.s,
         log' = [log EXCEPT ![s] = SubSeq(@, 1, proc[p].app.from)],
         tail' = [tail EXCEPT ![s] = TailAfterRollback(proc[p].app)],
         UNCHANGED <<dir, spoiled, acked>>
  PROVE  /\ s \in Sessions /\ FilesTyped' /\ Elsewhere(s)
         /\ (s \notin spoiled => Sound(s)' /\ ~tail'[s]) /\ Keeps(s, Len(log[s]))'
         /\ proc[p].goal = None => GoodLog(s, Len(log[s]))'
         /\ proc[p].goal # None => log'[s] = <<>> /\ ~tail'[s]
<1> DEFINE a == proc[p].app
           n == Len(log[s])
           h == SubSeq(log[s], 1, a.from)
<1>1. /\ a \in AppType /\ s \in Sessions /\ a.from \in Nat /\ a.mid \in BOOLEAN
  BY DEF Place, AppType
<1>2. /\ log[s] \in Seq(LineType) /\ n \in Nat
  BY <1>1, LogTyped
<1>3. /\ a.from <= n /\ Keeps(s, a.from)
      /\ s \notin spoiled => ~a.mid
      /\ proc[p].goal = None => GoodLog(s, a.from)
      /\ proc[p].goal # None => a.from = 0 /\ s \notin spoiled
  BY DEF WriteFiles
<1>4. /\ h \in Seq(LineType) /\ Len(h) = a.from
      /\ \A i \in 1 .. a.from : h[i] = log[s][i]
  <2>1. 1 \in Nat \ {0} /\ 1 <= a.from + 1 /\ a.from - 1 + 1 = a.from
    BY <1>1
  <2>2. \A k \in 1 .. a.from : 1 + k - 1 = k
    OBVIOUS
  <2> QED
    BY <1>1, <1>2, <1>3, <2>1, <2>2, SubSeqFacts
<1>5. log' = [log EXCEPT ![s] = h] /\ tail' = [tail EXCEPT ![s] = a.mid]
  BY DEF TailAfterRollback
<1> HIDE DEF h, a, n
<1>0. a = proc[p].app
  BY DEF a
<1>6. /\ log' \in [Sessions -> Seq(LineType)] /\ log'[s] = h
      /\ \A r \in Sessions \ {s} : log'[r] = log[r]
  <2>1. log \in [Sessions -> Seq(LineType)] /\ h \in Seq(LineType)
    BY <1>4 DEF FilesTyped
  <2>2. log' = [log EXCEPT ![s] = h]
    BY <1>5
  <2>3. log' \in [Sessions -> Seq(LineType)]
    BY <2>1, <2>2
  <2>4. log'[s] = h
    BY <1>1, <2>1, <2>2
  <2>5. \A r \in Sessions \ {s} : log'[r] = log[r]
    BY <2>1, <2>2
  <2> QED
    BY <2>3, <2>4, <2>5
<1>7. /\ tail' \in [Sessions -> BOOLEAN] /\ tail'[s] = a.mid
      /\ \A r \in Sessions \ {s} : tail'[r] = tail[r]
  BY <1>1, <1>5 DEF FilesTyped
<1>8. FilesTyped' /\ Elsewhere(s)
  BY <1>6, <1>7 DEF Elsewhere, FilesTyped
<1>9. s \notin spoiled => Sound(s)'
  <2>1. ASSUME s \notin spoiled, NEW i \in 1 .. a.from
        PROVE  log'[s][i].seq = i
    <3>1. i \in 1 .. n
      BY <1>1, <1>2, <1>3
    <3>2. log[s][i].seq = i
      BY <1>1, <2>1, <3>1 DEF Logs, Sound, n
    <3> QED
      BY <1>4, <1>6, <3>2
  <2> QED
    BY <1>4, <1>6, <2>1 DEF Sound
<1>10. ASSUME GoodLog(s, a.from)
       PROVE  GoodLog(s, Len(log[s]))'
  <2>1. 1 \in 1 .. a.from
    BY <1>1, <1>10 DEF GoodLog
  <2>2. dir[s] = "file" /\ log[s][1].kind = "header"
    BY <1>10 DEF GoodLog
  <2>3. a.from > 0
    BY <1>10 DEF GoodLog
  <2>4. PICK i \in 1 .. a.from : log[s][i].kind = "checkpoint"
    BY <1>10 DEF GoodLog
  <2>5. Len(log'[s]) = a.from
    BY <1>4, <1>6
  <2>6. dir'[s] = "file" /\ log'[s][1].kind = "header"
    BY <1>4, <1>6, <2>1, <2>2
  <2>7. i \in 1 .. Len(log'[s]) /\ log'[s][i].kind = "checkpoint"
    BY <1>4, <1>6, <2>4, <2>5
  <2>8. PICK k \in Nat : k = a.from
    BY <1>1
  <2>9. k <= k /\ k > 0
    <3>1. k > 0
      BY <2>3, <2>8, Zenon
    <3> QED
      BY <3>1
  <2>10. Len(log'[s]) = k
    BY <2>5, <2>8, Zenon
  <2>11. Len(log'[s]) <= Len(log'[s]) /\ Len(log'[s]) > 0
    BY <2>9, <2>10, Zenon
  <2> QED
    BY <2>6, <2>7, <2>11, Zenon DEF GoodLog
<1>11. Keeps(s, Len(log[s]))'
  <2>1. Keeps(s, a.from)
    BY <1>3
  <2>2. Len(log'[s]) = a.from /\ acked' = acked
    BY <1>4, <1>6
  <2>3. ASSUME NEW l \in acked[s]
        PROVE  \E i \in 1 .. Len(log'[s]) : log'[s][i] = l
    <3>1. PICK i \in 1 .. a.from : log[s][i] = l
      BY <2>1, <2>3, Zenon DEF Keeps
    <3>2. i \in 1 .. Len(log'[s])
      BY <2>2, <3>1, Zenon
    <3>3. log'[s][i] = l
      BY <1>4, <1>6, <3>1, Zenon
    <3> QED
      BY <3>2, <3>3, Zenon
  <2>4. acked[s] # {} => GoodLog(s, Len(log[s]))'
    <3>1. acked[s] # {} => GoodLog(s, a.from)
      BY <2>1, Zenon DEF Keeps
    <3> QED
      BY <1>10, <3>1, Zenon
  <2> QED
    BY <2>2, <2>3, <2>4, Zenon DEF Keeps
<1>12. proc[p].goal # None => log'[s] = <<>>
  BY <1>3, <1>4, <1>6
<1> QED
  BY <1>1, <1>3, <1>7, <1>8, <1>9, <1>10, <1>11, <1>12

-----------------------------------------------------------------------------
(* What a step does to the other processes *)

LEMMA OwnFacts ==
  ASSUME LockInv, NEW q \in Pids, Alive(q), Place(proc[q])
  PROVE  /\ proc[q].at \in Sessions
         /\ proc[q].goal # "resume" => Owns(q, proc[q].at)
         /\ proc[q].f # None => Owns(q, proc[q].f) /\ proc[q].f \in Sessions
         /\ proc[q].pc = "write" => Owns(q, proc[q].app.s) /\ proc[q].app.s \in Sessions
<1>1. proc[q].at \in Sessions
  BY DEF LockInv, PhaseInv, Phase
<1>2. proc[q].f # None => proc[q].f \in Sessions
  BY DEF LockInv, HolderInv
<1>3. proc[q].pc = "write" => \/ proc[q].app.s = proc[q].f /\ proc[q].f # None
                              \/ proc[q].app.s = proc[q].at /\ proc[q].goal # "resume"
  <2> DEFINE x == proc[q]
  <2>1. Place(x)
    OBVIOUS
  <2> HIDE DEF x
  <2>2. x.pc = "write" => \/ x.app.s = x.f /\ x.f # None
                          \/ x.app.s = x.at /\ x.goal # "resume"
    <3> SUFFICES ASSUME x.pc = "write"
                 PROVE  \/ x.app.s = x.f /\ x.f # None
                        \/ x.app.s = x.at /\ x.goal # "resume"
      OBVIOUS
    <3>1. x.app.purpose = "fork" <=> x.goal = "fork"
      BY <2>1 DEF Place
    <3>2. CASE x.goal = "fork"
      BY <2>1, <3>2 DEF Place
    <3>3. CASE x.goal # "fork"
      <4>1. x.app.s = x.at
        BY <2>1, <3>3 DEF Place
      <4>2. x.app \in AppType
        BY <2>1 DEF Place
      <4>3. x.app.purpose \in {"record", "init", "result", "fork"}
        BY <4>2 DEF AppType
      <4>4. x.goal \in {None, "create", "branch"}
        BY <2>1, <3>1, <3>3, <4>3 DEF Place
      <4> QED
        BY <4>1, <4>4 DEF None
    <3> QED
      BY <3>2, <3>3
  <2> QED
    BY <2>2 DEF x
<1> QED
  BY <1>1, <1>2, <1>3 DEF Owns

\* What the invariant says of a process depends on the Sessions it owns.
LEMMA SameFiles ==
  ASSUME NEW x, Place(x), Files(x), x.at \in Sessions,
         \A r \in Sessions :
           (r = x.at /\ x.goal # "resume") \/ r = x.f \/ (x.pc = "write" /\ r = x.app.s) =>
             /\ log'[r] = log[r] /\ tail'[r] = tail[r] /\ acked'[r] = acked[r]
             /\ dir'[r] = dir[r] /\ (r \in spoiled' <=> r \in spoiled),
         x.f # None => x.f \in Sessions,
         x.pc = "write" => x.app.s \in Sessions
  PROVE  Files(x)'
<1>1. ASSUME x.goal \in {None, "fork"}
      PROVE  OpenFiles(x)'
  BY <1>1 DEF Files, OpenFiles, GoodLog, None
<1>2. ASSUME x.goal \in {"create", "branch"}
      PROVE  NewFiles(x)'
  BY <1>2 DEF Files, NewFiles, Blank
<1>3. ASSUME x.pc = "write"
      PROVE  WriteFiles(x)'
  <2>1. WriteFiles(x)
    BY <1>3 DEF Files
  <2> DEFINE s == x.app.s
  <2>2. /\ log'[s] = log[s] /\ tail'[s] = tail[s] /\ acked'[s] = acked[s]
        /\ dir'[s] = dir[s] /\ (s \in spoiled' <=> s \in spoiled)
    BY <1>3
  <2>3. \A n : (GoodLog(s, n)' <=> GoodLog(s, n)) /\ (Keeps(s, n)' <=> Keeps(s, n))
    BY <2>2 DEF GoodLog, Keeps
  <2> QED
    <3>1. /\ (GoodLog(s, x.app.from)' <=> GoodLog(s, x.app.from))
          /\ (Keeps(s, x.app.from)' <=> Keeps(s, x.app.from))
      BY <2>3
    <3>2. Keeps(s, x.app.from) /\ (x.goal = None => GoodLog(s, x.app.from))
      BY <2>1 DEF WriteFiles
    <3>3. Keeps(s, x.app.from)' /\ (x.goal = None => GoodLog(s, x.app.from)')
      BY <3>1, <3>2
    <3>4. x.app.from <= Len(log'[s]) /\ Len(x.app.rest) > 0 /\ tail'[s]
      BY <2>1, <2>2 DEF WriteFiles
    <3>5. s \notin spoiled' =>
            ~x.app.mid /\ \A i \in 1 .. Len(x.app.rest) : x.app.rest[i].seq = Len(log'[s]) + i
      BY <2>1, <2>2 DEF WriteFiles
    <3>6. x.goal # None =>
            /\ x.app.from = 0 /\ s \notin spoiled' /\ Len(log'[s]) + Len(x.app.rest) = 2
            /\ dir'[s] = "file"
            /\ \/ /\ Len(log'[s]) = 0 /\ x.app.rest[1].kind = "header"
                  /\ x.app.rest[2].kind = "checkpoint"
               \/ /\ Len(log'[s]) = 1 /\ log'[s][1].kind = "header"
                  /\ x.app.rest[1].kind = "checkpoint"
      BY <2>1, <2>2 DEF WriteFiles
    <3> QED
      BY <3>3, <3>4, <3>5, <3>6 DEF WriteFiles
<1>4. ASSUME x.pc \in {"indexing", "operation"}
      PROVE  ForkFiles(x)'
  <2>1. x.goal = "fork" => x.f # None
    BY <1>4 DEF Place
  <2>2. x.f # None => ForkFiles(x)'
    BY <1>4 DEF Files, ForkFiles, GoodLog
  <2>3. x.goal = "fork"
    BY <1>4 DEF Place, None
  <2> QED
    BY <2>1, <2>2, <2>3
<1> QED
  BY <1>1, <1>2, <1>3, <1>4 DEF Files

LEMMA OthersKeep ==
  ASSUME LockInv, FilesInv, NEW p \in Pids, Only(p), NEW s, Elsewhere(s),
         NEW q \in Pids, q # p, Alive(q)', ~Owns(q, s)
  PROVE  Place(proc'[q]) /\ Files(proc[q])'
<1>1. proc'[q] = proc[q] /\ Alive(q)
  BY DEF Only, Alive
<1>2. Place(proc[q]) /\ Files(proc[q])
  BY <1>1 DEF FilesInv, Each
<1>3. PICK x : x = proc[q]
  OBVIOUS
<1>4. /\ x.at \in Sessions
      /\ x.goal # "resume" => x.at # s
      /\ x.f # None => x.f # s /\ x.f \in Sessions
      /\ x.pc = "write" => x.app.s # s /\ x.app.s \in Sessions
  BY <1>1, <1>2, <1>3, OwnFacts
<1>5. \A r \in Sessions : r # s =>
        /\ log'[r] = log[r] /\ tail'[r] = tail[r] /\ acked'[r] = acked[r] /\ dir'[r] = dir[r]
        /\ (r \in spoiled' <=> r \in spoiled)
  BY DEF Elsewhere
<1>6. None \notin Sessions
  BY Names
<1>7. Files(x)'
  BY <1>2, <1>3, <1>4, <1>5, <1>6, SameFiles
<1> QED
  BY <1>1, <1>2, <1>3, <1>7

\* A step of process p that changes the files of at most one Session, s, which
\* no other process owns.
LEMMA FilesStep ==
  ASSUME LockInv, FilesInv, NEW p \in Pids, Only(p), NEW s \in Sessions, Elsewhere(s),
         \A q \in Pids : q # p => ~Owns(q, s),
         FilesTyped', s \notin spoiled' => Sound(s)', Keeps(s, Len(log[s]))',
         s \in spoiled' => GoodLog(s, Len(log[s]))',
         UNCHANGED doctor, doctor # NoRepair => doctor.s # s,
         dir'[s] = "absent" => Blank(s)',
         proc'[p].next \in Nat, Alive(p)' => Place(proc'[p]) /\ Files(proc[p])',
         Alive(p)' /\ doctor # NoRepair => doctor.s \notin {proc'[p].at, proc'[p].f},
         \A r \in Sessions : Owns(p, r)' => Owns(p, r) \/ r = s
  PROVE  FilesInv'
<1>0. /\ Logs /\ SpoiledGood /\ Absent /\ Doctoring /\ OwnedOnce /\ Counted /\ \A q \in Pids : Each(q)
  BY DEF FilesInv
<1>1. \A q \in Pids : q # p => proc'[q] = proc[q] /\ (Alive(q)' <=> Alive(q))
  BY DEF Only, Alive
<1>2. \A r \in Sessions : r # s =>
        /\ log'[r] = log[r] /\ tail'[r] = tail[r] /\ acked'[r] = acked[r] /\ dir'[r] = dir[r]
        /\ (r \in spoiled' <=> r \in spoiled)
  BY DEF Elsewhere
<1>3. Logs'
  <2> SUFFICES ASSUME NEW r \in Sessions
               PROVE  (r \notin spoiled' => Sound(r)') /\ Keeps(r, Len(log[r]))'
    BY DEF Logs
  <2>1. CASE r = s
    BY <2>1
  <2>2. CASE r # s
    <3>1. (r \notin spoiled => Sound(r)) /\ Keeps(r, Len(log[r]))
      BY <1>0 DEF Logs
    <3> QED
      BY <1>2, <2>2, <3>1 DEF Sound, Keeps, GoodLog
  <2> QED
    BY <2>1, <2>2
<1>g. SpoiledGood'
  <2> SUFFICES ASSUME NEW r \in spoiled'
               PROVE  GoodLog(r, Len(log[r]))'
    BY DEF SpoiledGood
  <2>1. r \in Sessions
    BY Names DEF FilesTyped
  <2>2. CASE r = s
    BY <2>2
  <2>3. CASE r # s
    <3>1. r \in spoiled /\ log'[r] = log[r] /\ dir'[r] = dir[r]
      BY <1>2, <2>1, <2>3
    <3>2. GoodLog(r, Len(log[r]))
      BY <1>0, <3>1 DEF SpoiledGood
    <3> QED
      BY <3>1, <3>2 DEF GoodLog
  <2> QED
    BY <2>2, <2>3
<1>4. Absent'
  <2> SUFFICES ASSUME NEW r \in Sessions, dir'[r] = "absent"
               PROVE  Blank(r)'
    BY DEF Absent
  <2>1. CASE r = s
    BY <2>1
  <2>2. CASE r # s
    <3>1. dir[r] = "absent"
      BY <1>2, <2>2
    <3> QED
      BY <1>0, <1>2, <2>2, <3>1 DEF Absent, Blank
  <2> QED
    BY <2>1, <2>2
<1>5. Doctoring'
  <2> SUFFICES ASSUME doctor # NoRepair
               PROVE  /\ doctor.s \in Sessions /\ doctor.n = Len(log'[doctor.s])
                      /\ dir'[doctor.s] = "file"
                      /\ \A q \in Pids : Alive(q)' => doctor.s \notin {proc'[q].at, proc'[q].f}
    BY DEF Doctoring
  <2> QED
    BY <1>0, <1>1, <1>2 DEF Doctoring
<1>6. \A q \in Pids, r \in Sessions : q # p => (Owns(q, r)' <=> Owns(q, r))
  BY <1>1 DEF Owns
<1>7. OwnedOnce'
  BY <1>0, <1>6 DEF OwnedOnce
<1>c. Counted'
  BY <1>0, <1>1 DEF Counted
<1>8. ASSUME NEW q \in Pids
      PROVE  Each(q)'
  <2>1. CASE q = p
    BY <2>1 DEF Each
  <2>2. CASE q # p
    BY <2>2, OthersKeep DEF Each
  <2> QED
    BY <2>1, <2>2
<1> QED
  BY <1>3, <1>4, <1>5, <1>7, <1>8, <1>c, <1>g DEF FilesInv

\* A step that changes no files but those of Sessions nobody has.
LEMMA QuietStep ==
  ASSUME LockInv, FilesInv, NEW p \in Pids, Only(p),
         UNCHANGED <<dir, log, tail, acked, spoiled, doctor>>,
         proc'[p].next \in Nat, Alive(p)' => Place(proc'[p]) /\ Files(proc'[p]),
         Alive(p)' /\ doctor # NoRepair => doctor.s \notin {proc'[p].at, proc'[p].f},
         \A r \in Sessions : Owns(p, r)' => Owns(p, r)
  PROVE  FilesInv'
<1>0. /\ FilesTyped /\ Logs /\ SpoiledGood /\ Absent /\ Doctoring /\ OwnedOnce /\ Counted /\ \A q \in Pids : Each(q)
  BY DEF FilesInv
<1>1. \A q \in Pids : q # p => proc'[q] = proc[q] /\ (Alive(q)' <=> Alive(q))
  BY DEF Only, Alive
<1>2. FilesTyped' /\ Logs'
  <2>1. FilesTyped'
    BY <1>0 DEF FilesTyped
  <2>2. \A s : Sound(s)' <=> Sound(s)
    BY DEF Sound
  <2>4. \A s, n : Keeps(s, n)' <=> Keeps(s, n)
    BY DEF Keeps, GoodLog
  <2>3. Logs'
    <3> SUFFICES ASSUME NEW s \in Sessions
                 PROVE  (s \notin spoiled' => Sound(s)') /\ Keeps(s, Len(log[s]))'
      BY DEF Logs
    <3>1. (s \notin spoiled => Sound(s)) /\ Keeps(s, Len(log[s]))
      BY <1>0 DEF Logs
    <3>2. PICK n : n = Len(log[s])
      OBVIOUS
    <3>3. Keeps(s, n)' /\ n = Len(log'[s])
      BY <2>4, <3>1, <3>2
    <3>4. Keeps(s, Len(log[s]))'
      BY <3>3
    <3> QED
      BY <2>2, <3>1, <3>4
  <2> QED
    BY <2>1, <2>3
<1>g. SpoiledGood'
  BY <1>0 DEF SpoiledGood, GoodLog
<1>3. Absent'
  BY <1>0 DEF Absent, Blank
<1>4. Doctoring'
  BY <1>0, <1>1 DEF Doctoring
<1>5. \A q \in Pids, r \in Sessions : q # p => (Owns(q, r)' <=> Owns(q, r))
  BY <1>1 DEF Owns
<1>6. OwnedOnce'
  BY <1>0, <1>5 DEF OwnedOnce
<1>c. Counted'
  BY <1>0, <1>1 DEF Counted
<1>7. ASSUME NEW q \in Pids, Alive(q)'
      PROVE  Place(proc'[q]) /\ Files(proc'[q])
  BY <1>0, <1>1, <1>7 DEF Each
<1>8. \A x : Files(x)' <=> Files(x)
  <2>1. \A x : OpenFiles(x)' <=> OpenFiles(x)
    BY DEF OpenFiles, GoodLog
  <2>2. \A x : NewFiles(x)' <=> NewFiles(x)
    BY DEF NewFiles, Blank
  <2>3. \A x : WriteFiles(x)' <=> WriteFiles(x)
    BY DEF WriteFiles, Keeps, GoodLog
  <2>4. \A x : ForkFiles(x)' <=> ForkFiles(x)
    BY DEF ForkFiles, GoodLog
  <2> QED
    BY <2>1, <2>2, <2>3, <2>4 DEF Files
<1>9. ASSUME NEW q \in Pids
      PROVE  Each(q)'
  <2> SUFFICES ASSUME Alive(q)'
               PROVE  Place(proc'[q]) /\ Files(proc[q])'
    BY DEF Each
  <2>1. PICK x : x = proc'[q]
    OBVIOUS
  <2>2. Place(x) /\ Files(x)
    BY <1>7, <2>1
  <2>3. Files(x)'
    BY <1>8, <2>2
  <2> QED
    BY <2>1, <2>2, <2>3
<1> QED
  BY <1>2, <1>3, <1>4, <1>6, <1>9, <1>c, <1>g DEF FilesInv

-----------------------------------------------------------------------------
(* Steps that leave the logs alone *)

LEMMA EachFacts ==
  ASSUME LockInv, FilesInv, NEW p \in Pids, Alive(p)
  PROVE  /\ Place(proc[p]) /\ Files(proc[p]) /\ proc[p].next \in Nat
         /\ doctor # NoRepair => doctor.s \notin {proc[p].at, proc[p].f}
  BY DEF FilesInv, Each, Doctoring, Counted

\* A process dies.
LEMMA DeadStep ==
  ASSUME LockInv, FilesInv, NEW p \in Pids, Only(p), proc'[p] = [NoProcess EXCEPT !.pc = "dead"],
         UNCHANGED <<dir, log, tail, acked, spoiled, doctor>>
  PROVE  FilesInv'
<1>0. proc'[p].pc = "dead" /\ proc'[p].next \in Nat
  BY DEF NoProcess
<1>1. ~Alive(p)' /\ \A r \in Sessions : ~Owns(p, r)'
  BY <1>0 DEF Alive, Owns
<1> QED
  BY <1>0, <1>1, QuietStep

Early == {"lock", "reclaim", "relock", "made", "locked"}
Idle == {"open", "sidecar"}

\* A process goes on for its lock, or starts a fork, or gives it up.
LEMMA MoveStep ==
  ASSUME LockInv, FilesInv, NEW p \in Pids, Only(p), Alive(p),
         proc[p].pc \in Early \cup Idle, proc'[p].pc \in Early \cup Idle,
         proc'[p].goal = proc[p].goal \/ {proc[p].goal, proc'[p].goal} \subseteq {None, "fork"},
         proc'[p].pc \in Early => proc'[p].goal # None,
         proc'[p].pc \in Idle => proc'[p].goal = None,
         proc'[p].pc = "sidecar" => proc[p].at = Main,
         proc'[p].at = proc[p].at,
         proc'[p].goal = "fork" => proc[p].at = Main /\ proc'[p].t \in Threads,
         proc'[p].f = None, proc'[p].next \in Nat,
         UNCHANGED <<dir, log, tail, acked, spoiled, doctor>>
  PROVE  FilesInv'
<1>1. PICK x : x = proc[p]
  OBVIOUS
<1>2. PICK y : y = proc'[p]
  OBVIOUS
<1>3. Place(x) /\ Files(x) /\ (doctor # NoRepair => doctor.s # x.at)
  BY <1>1, EachFacts
<1>n. None \notin Sessions
  BY Names
<1>4. /\ x.pc \in Early \cup Idle /\ y.pc \in Early \cup Idle
      /\ y.goal = x.goal \/ {x.goal, y.goal} \subseteq {None, "fork"}
      /\ y.pc \in Early => y.goal # None
      /\ y.pc \in Idle => y.goal = None
      /\ y.pc = "sidecar" => x.at = Main
      /\ y.at = x.at /\ y.f = None /\ y.next \in Nat
      /\ y.goal = "fork" => x.at = Main /\ y.t \in Threads
  BY <1>1, <1>2
<1>m. proc'[p].next \in Nat
  BY <1>2, <1>4
<1>5. Place(y)
  BY <1>3, <1>4 DEF Place, Early, Idle, None
<1>6. Files(y)
  <2>1. ASSUME y.goal \in {None, "fork"}
        PROVE  OpenFiles(y)
    <3>1. x.goal \in {None, "fork"}
      BY <1>4, <2>1
    <3>2. OpenFiles(x)
      BY <1>3, <3>1 DEF Files
    <3>3. x.pc # "write"
      BY <1>4 DEF Early, Idle
    <3> QED
      BY <1>4, <3>2, <3>3 DEF OpenFiles
  <2>2. ASSUME y.goal \in {"create", "branch"}
        PROVE  NewFiles(y)
    <3>1. x.goal = y.goal /\ x.pc # "write"
      BY <1>4, <2>2 DEF None, Early, Idle
    <3> QED
      BY <1>3, <1>4, <2>2, <3>1 DEF Files, NewFiles
  <2>3. y.pc \notin {"write", "indexing", "operation"}
    BY <1>4 DEF Early, Idle
  <2> QED
    BY <2>1, <2>2, <2>3 DEF Files
<1>7. Alive(p)' => Place(proc'[p]) /\ Files(proc'[p])
  BY <1>2, <1>5, <1>6
<1>8. \A r \in Sessions : Owns(p, r)' => Owns(p, r)
  <2> SUFFICES ASSUME NEW r \in Sessions, Owns(p, r)'
               PROVE  Owns(p, r)
    OBVIOUS
  <2>1. r = y.at /\ y.goal # "resume"
    BY <1>2, <1>4, <1>n DEF Owns
  <2>2. x.goal # "resume"
    BY <1>4, <2>1 DEF None
  <2> QED
    BY <1>1, <1>4, <2>1, <2>2 DEF Owns
<1>9. doctor # NoRepair => doctor.s \notin {proc'[p].at, proc'[p].f}
  <2>1. doctor # NoRepair => doctor.s \in Sessions
    BY DEF FilesInv, Doctoring
  <2> QED
    BY <1>2, <1>3, <1>4, <1>n, <2>1
<1> QED
  BY <1>7, <1>8, <1>9, <1>m, QuietStep

\* A process that goes for a lock
LEMMA EarlyFacts ==
  ASSUME LockInv, FilesInv, NEW p \in Pids, proc[p].pc \in Early
  PROVE  /\ Alive(p) /\ proc[p].f = None /\ proc[p].goal # None /\ proc[p].next \in Nat
         /\ proc[p].goal = "fork" => proc[p].at = Main /\ proc[p].t \in Threads
<1>1. Alive(p)
  BY DEF Alive, Early
<1>2. Place(proc[p]) /\ proc[p].next \in Nat
  BY <1>1, EachFacts
<1> QED
  BY <1>1, <1>2 DEF Place, Early, None

LEMMA LockQuiet ==
  ASSUME LockInv, FilesInv, NEW p \in Pids,
         LockCreate(p) \/ LockWrite(p) \/ LockStale(p) \/ LockReclaim(p)
  PROVE  FilesInv'
<1>s. Shaped
  BY DEF LockInv
<1>1. /\ proc[p].pc \in Early /\ UNCHANGED <<dir, log, tail, acked, spoiled, doctor, used>>
  BY DEF LockCreate, LockWrite, LockStale, LockReclaim, At, Early, files, ghosts
<1>2. /\ Only(p) /\ proc'[p].pc \in Early /\ More(p) /\ proc'[p].at = proc[p].at
      /\ proc'[p].goal = proc[p].goal /\ proc'[p].f = proc[p].f
  <2>1. CASE LockStale(p)
    <3> DEFINE r == [proc[p] EXCEPT !.pc = "reclaim", !.dead = lock[Target(p)]]
    <3>1. proc' = [proc EXCEPT ![p] = r]
      BY <2>1, <1>s DEF LockStale, Shaped
    <3>2. /\ DOMAIN r = Fields /\ r.pc = "reclaim" /\ r.at = proc[p].at
          /\ r.goal = proc[p].goal /\ r.f = proc[p].f /\ r.t = proc[p].t
          /\ r.next = proc[p].next /\ r.entries = proc[p].entries
      BY <1>s DEF Shaped, Fields
    <3> HIDE DEF r
    <3>3. Only(p) /\ proc'[p] = r
      BY <1>s, <3>1, <3>2, ReplaceFacts
    <3> QED
      BY <3>2, <3>3 DEF More, Early
  <2>2. CASE LockCreate(p) \/ LockWrite(p) \/ LockReclaim(p)
    <3>1. PICK c \in Early : Go(p, c)
      BY <2>2 DEF LockCreate, LockWrite, LockReclaim, Early
    <3> QED
      BY <1>s, <3>1, GoFacts DEF Stays
  <2> QED
    BY <2>1, <2>2
<1>3. /\ Alive(p) /\ proc[p].f = None /\ proc[p].goal # None /\ proc[p].next \in Nat
      /\ proc[p].goal = "fork" => proc[p].at = Main /\ proc[p].t \in Threads
  BY <1>1, EarlyFacts
<1>4. proc'[p].pc \notin Idle /\ proc'[p].pc # "sidecar" /\ proc'[p].t = proc[p].t /\ proc'[p].next = proc[p].next
  BY <1>2 DEF Early, Idle, More
<1> QED
  BY <1>1, <1>2, <1>3, <1>4, MoveStep

LEMMA RefusedQuiet ==
  ASSUME LockInv, FilesInv, NEW p \in Pids, LockRefused(p) \/ ResumeFails(p)
  PROVE  FilesInv'
<1>s. Shaped
  BY DEF LockInv
<1>1. /\ proc[p].pc \in Early /\ UNCHANGED <<dir, log, tail, acked, spoiled, doctor, used>>
      /\ Refused(p)
  BY DEF LockRefused, ResumeFails, At, Early, files, ghosts
<1>2. CASE proc[p].goal # "fork"
  <2>1. proc'[p] = [NoProcess EXCEPT !.pc = "dead"] /\ Only(p)
    BY <1>s, <1>1, <1>2, RefusedFacts
  <2> QED
    BY <1>1, <2>1, DeadStep
<1>3. CASE proc[p].goal = "fork"
  <2>1. /\ Only(p) /\ proc'[p].pc = "open" /\ proc'[p].goal = None /\ proc'[p].f = proc[p].f
        /\ proc'[p].at = proc[p].at /\ proc'[p].next = proc[p].next
    BY <1>s, <1>1, <1>3, RefusedFacts DEF More
  <2>2. /\ Alive(p) /\ proc[p].f = None /\ proc[p].next \in Nat
    BY <1>1, EarlyFacts
  <2> QED
    BY <1>1, <1>3, <2>1, <2>2, MoveStep DEF Early, Idle, None
<1> QED
  BY <1>2, <1>3

LEMMA EndQuiet ==
  ASSUME LockInv, FilesInv, NEW p \in Pids, Close(p) \/ Crash(p)
  PROVE  FilesInv'
<1>s. Shaped
  BY DEF LockInv
<1>1. /\ UNCHANGED <<dir, log, tail, acked, spoiled, doctor, used>>
      /\ proc' = [proc EXCEPT ![p] = [NoProcess EXCEPT !.pc = "dead"]]
  BY DEF Close, Crash, files, ghosts
<1>2. Only(p) /\ proc'[p] = [NoProcess EXCEPT !.pc = "dead"]
  BY <1>s, <1>1, DeadFacts
<1> QED
  BY <1>1, <1>2, DeadStep

LEMMA RequestQuiet ==
  ASSUME LockInv, FilesInv, NEW p \in Pids, NEW t \in Threads, RequestFork(p, t)
  PROVE  FilesInv'
<1>s. Shaped
  BY DEF LockInv
<1>0. /\ proc[p].pc = "open" /\ proc[p].at = Main
      /\ UNCHANGED <<dir, log, tail, acked, spoiled, doctor, used>>
      /\ proc' = [proc EXCEPT ![p].pc = "lock", ![p].goal = "fork", ![p].t = t]
  BY DEF RequestFork, MayFork, At, files, ghosts
<1> DEFINE r == [proc[p] EXCEPT !.pc = "lock", !.goal = "fork", !.t = t]
<1>1. proc' = [proc EXCEPT ![p] = r]
  BY <1>0, <1>s DEF Shaped
<1>2. /\ DOMAIN r = Fields /\ r.pc = "lock" /\ r.goal = "fork" /\ r.at = proc[p].at
      /\ r.f = proc[p].f /\ r.t = t /\ r.next = proc[p].next
  BY <1>s DEF Shaped, Fields
<1> HIDE DEF r
<1>3. Only(p) /\ proc'[p] = r
  BY <1>1, <1>2, <1>s, ReplaceFacts
<1>4. Alive(p)
  BY <1>0 DEF Alive
<1>5. Place(proc[p]) /\ proc[p].next \in Nat
  BY <1>4, EachFacts
<1>6. proc[p].goal = None /\ proc[p].f = None /\ proc[p].next \in Nat
  BY <1>0, <1>5 DEF Place, None
<1>7. /\ proc'[p].pc = "lock" /\ proc'[p].goal = "fork" /\ proc'[p].at = proc[p].at
      /\ proc'[p].f = None /\ proc'[p].t = t /\ proc'[p].next = proc[p].next
  BY <1>2, <1>3, <1>6
<1>8. /\ proc[p].pc \in Early \cup Idle /\ proc'[p].pc \in Early \cup Idle
      /\ {proc[p].goal, proc'[p].goal} \subseteq {None, "fork"}
      /\ proc'[p].goal # None /\ proc'[p].pc \notin Idle /\ proc'[p].pc # "sidecar"
  BY <1>0, <1>6, <1>7 DEF Early, Idle, None
<1> QED
  BY <1>0, <1>3, <1>4, <1>6, <1>7, <1>8, MoveStep

\* A process starts for a Session whose file is there.
LEMMA ResumeStartQuiet ==
  ASSUME LockInv, FilesInv, DoctorAlone, NEW p \in Pids, NEW s \in Sessions, ResumeStart(p, s)
  PROVE  FilesInv'
<1>s. Shaped
  BY DEF LockInv
<1>0. /\ proc[p].pc = "off" /\ (doctor = NoRepair \/ doctor.s # s) /\ dir[s] = "file"
      /\ UNCHANGED <<dir, log, tail, acked, spoiled, doctor, used>>
  BY DEF ResumeStart, MayOpen, At, files, ghosts
<1>p. proc' = [proc EXCEPT ![p].pc = "lock", ![p].at = s, ![p].goal = "resume"]
  BY DEF ResumeStart
<1>1. /\ Only(p) /\ proc'[p].pc = "lock" /\ proc'[p].at = s /\ proc'[p].goal = "resume"
      /\ proc'[p].f = proc[p].f /\ proc'[p].next = proc[p].next
  BY <1>p, <1>s, StartFacts
<1>2. proc[p].f = None /\ proc[p].next \in Nat
  BY <1>0 DEF Alive, LockInv, PhaseInv, Phase, FilesInv, Counted
<1>3. Place(proc'[p]) /\ Files(proc'[p])
  BY <1>1, <1>2 DEF Place, Files, None
<1>4. None \notin Sessions
  BY Names
<1>5. \A r \in Sessions : ~Owns(p, r)'
  BY <1>1, <1>2, <1>4 DEF Owns
<1>6. doctor # NoRepair => doctor.s \notin {proc'[p].at, proc'[p].f}
  <2>1. doctor # NoRepair => doctor.s \in Sessions
    BY DEF FilesInv, Doctoring
  <2> QED
    BY <1>0, <1>1, <1>2, <1>4, <2>1
<1> QED
  BY <1>0, <1>1, <1>2, <1>3, <1>5, <1>6, QuietStep

\* A child Thread's fork is there already.
LEMMA ExistingQuiet ==
  ASSUME LockInv, FilesInv, NEW p \in Pids, ExistingFork(p)
  PROVE  FilesInv'
<1>s. Shaped
  BY DEF LockInv
<1>1. /\ proc[p].pc = "locked" /\ proc[p].goal = "fork"
      /\ UNCHANGED <<dir, log, tail, acked, spoiled, doctor, used>>
  BY DEF ExistingFork, At, files
<1>2. \E f, b : Answered(p, f, b)
  BY Zenon DEF ExistingFork
<1>3. /\ Only(p) /\ proc'[p].pc = "open" /\ proc'[p].goal = None /\ proc'[p].f = None
      /\ proc'[p].at = proc[p].at /\ proc'[p].next = proc[p].next
  BY <1>s, <1>2, AnsweredFacts
<1>4. Alive(p) /\ proc[p].next \in Nat
  BY <1>1, EarlyFacts DEF Early
<1>5. proc[p].pc \in Early /\ proc'[p].pc \in Idle /\ proc'[p].pc \notin Early
  BY <1>1, <1>3 DEF Early, Idle
<1> QED
  BY <1>1, <1>3, <1>4, <1>5, MoveStep DEF None

\* The sidecar of a result is written, or removed again.
LEMMA SidecarQuiet ==
  ASSUME LockInv, FilesInv, NEW p \in Pids, Only(p), Stays(p),
         proc[p].pc \in Idle, proc[p].at = Main, proc'[p].pc \in Idle, proc'[p].next \in Nat,
         UNCHANGED <<dir, log, tail, acked, spoiled, doctor>>
  PROVE  FilesInv'
<1>1. Alive(p)
  BY DEF Alive, Idle
<1>2. Place(proc[p])
  BY <1>1, EachFacts
<1>3. proc[p].goal = None /\ proc[p].f = None
  BY <1>2 DEF Place, Idle, None
<1>4. proc'[p].pc \notin Early
  BY DEF Early, Idle
<1> QED
  BY <1>1, <1>3, <1>4, MoveStep DEF Stays, None

LEMMA StoreResultQuiet ==
  ASSUME LockInv, FilesInv, NEW p \in Pids, StoreResult(p)
  PROVE  FilesInv'
<1>s. Shaped
  BY DEF LockInv
<1>1. /\ proc[p].pc = "open" /\ proc[p].at = Main
      /\ UNCHANGED <<dir, log, tail, acked, spoiled, doctor>>
  BY DEF StoreResult, At, ghosts
<1>p. proc' = [proc EXCEPT ![p].pc = "sidecar", ![p].next = NextHandle(p)]
  BY DEF StoreResult
<1> DEFINE r == [proc[p] EXCEPT !.pc = "sidecar", !.next = NextHandle(p)]
<1>2. proc' = [proc EXCEPT ![p] = r]
  BY <1>s, <1>p DEF Shaped
<1>3. /\ DOMAIN r = Fields /\ r.pc = "sidecar" /\ r.at = proc[p].at
      /\ r.goal = proc[p].goal /\ r.f = proc[p].f /\ r.dead = proc[p].dead
      /\ r.next = proc[p].next + 1
  BY <1>s DEF Shaped, Fields, NextHandle
<1> HIDE DEF r
<1>4. Only(p) /\ proc'[p] = r
  BY <1>s, <1>2, <1>3, ReplaceFacts
<1>5. proc[p].next \in Nat
  BY DEF FilesInv, Counted
<1>7. /\ Stays(p) /\ proc[p].pc \in Idle /\ proc'[p].pc \in Idle /\ proc'[p].next \in Nat
  <2>1. proc'[p].pc = "sidecar" /\ proc'[p].next = proc[p].next + 1 /\ Stays(p)
    BY <1>3, <1>4 DEF Stays
  <2> QED
    BY <1>1, <1>5, <2>1 DEF Idle
<1> QED
  BY <1>1, <1>4, <1>7, SidecarQuiet

LEMMA IndexQuiet ==
  ASSUME LockInv, FilesInv, NEW p \in Pids, IndexFork(p)
  PROVE  FilesInv'
<1>s. Shaped
  BY DEF LockInv
<1>1. /\ proc[p].pc = "indexing" /\ Go(p, "operation")
      /\ UNCHANGED <<dir, log, tail, acked, spoiled, doctor>>
  BY DEF IndexFork, At
<1>2. /\ Only(p) /\ Stays(p) /\ More(p) /\ proc'[p].pc = "operation"
  BY <1>s, <1>1, GoFacts
<1>4. Alive(p)
  BY <1>1 DEF Alive
<1>5. PICK x : x = proc[p]
  OBVIOUS
<1>6. PICK y : y = proc'[p]
  OBVIOUS
<1>7. /\ Place(x) /\ Files(x) /\ x.next \in Nat
      /\ doctor # NoRepair => doctor.s \notin {x.at, x.f}
  BY <1>4, <1>5, EachFacts
<1>8. /\ x.pc = "indexing" /\ y.pc = "operation" /\ y.goal = x.goal /\ y.at = x.at
      /\ y.f = x.f /\ y.t = x.t /\ y.next = x.next
  BY <1>1, <1>2, <1>5, <1>6 DEF Stays, More
<1>9. x.goal = "fork"
  BY <1>7, <1>8 DEF Place
<1>10. Place(y)
  BY <1>7, <1>8, <1>9 DEF Place, None
<1>11. Files(y)
  BY <1>7, <1>8, <1>9 DEF Files, OpenFiles, ForkFiles, None
<1>12. \A r \in Sessions : Owns(p, r)' => Owns(p, r)
  BY <1>4, <1>5, <1>6, <1>8 DEF Owns
<1> QED
  BY <1>1, <1>2, <1>5, <1>6, <1>7, <1>8, <1>10, <1>11, <1>12, QuietStep

-----------------------------------------------------------------------------
(* Steps that change a log *)

\* Nobody else owns what a process owns, and the doctor is elsewhere.
LEMMA Owner ==
  ASSUME LockInv, FilesInv, NEW p \in Pids, NEW s \in Sessions, Owns(p, s)
  PROVE  /\ \A q \in Pids : q # p => ~Owns(q, s)
         /\ doctor # NoRepair => doctor.s # s
<1>1. \A q \in Pids : q # p => ~Owns(q, s)
  BY DEF FilesInv, OwnedOnce
<1>2. s \in {proc[p].at, proc[p].f} /\ Alive(p)
  BY DEF Owns
<1>4. doctor # NoRepair => doctor.s # s
  BY <1>2, EachFacts
<1> QED
  BY <1>1, <1>4

\* A process that has its Session open, or makes it, writes to a file it owns.
LEMMA WorkStep ==
  ASSUME LockInv, FilesInv, NEW p \in Pids, Only(p), Alive(p), proc[p].goal # "resume",
         NEW s \in Sessions, Owns(p, s), Elsewhere(s), FilesTyped',
         s \notin spoiled' => Sound(s)', Keeps(s, Len(log[s]))',
         s \in spoiled' => GoodLog(s, Len(log[s]))',
         dir'[s] = "absent" => Blank(s)', UNCHANGED doctor, proc'[p].next \in Nat,
         Alive(p)' => /\ proc'[p].at = proc[p].at /\ proc'[p].f \in {None, proc[p].f}
                      /\ Place(proc'[p]) /\ Files(proc[p])'
  PROVE  FilesInv'
<1>1. /\ \A q \in Pids : q # p => ~Owns(q, s)
      /\ doctor # NoRepair => doctor.s # s
      /\ doctor # NoRepair => doctor.s \notin {proc[p].at, proc[p].f} /\ doctor.s \in Sessions
  BY Owner, EachFacts DEF FilesInv, Doctoring
<1>n. None \notin Sessions
  BY Names
<1>2. Alive(p)' /\ doctor # NoRepair => doctor.s \notin {proc'[p].at, proc'[p].f}
  BY <1>1, <1>n
<1>3. \A r \in Sessions : Owns(p, r)' => Owns(p, r)
  BY <1>n DEF Owns
<1> QED
  BY <1>1, <1>2, <1>3, FilesStep

\* What holds of the first n lines holds while they stay, and of more lines.
LEMMA PrefixKept ==
  ASSUME FilesTyped, FilesTyped', NEW s \in Sessions, NEW n \in Nat, n <= Len(log[s]), n <= Len(log'[s]),
         \A i \in 1 .. n : log'[s][i] = log[s][i],
         dir'[s] = dir[s] \/ dir'[s] = "file", acked'[s] = acked[s]
  PROVE  /\ GoodLog(s, n) => GoodLog(s, n)' /\ GoodLog(s, Len(log[s]))'
         /\ Keeps(s, n) => Keeps(s, n)' /\ Keeps(s, Len(log[s]))'
<1>1. PICK m \in Nat : m = Len(log'[s])
  BY DEF FilesTyped
<1>2. ASSUME GoodLog(s, n)
      PROVE  GoodLog(s, n)' /\ GoodLog(s, m)'
  <2>1. /\ dir'[s] = "file" /\ n > 0 /\ log[s][1].kind = "header"
        /\ \E i \in 1 .. n : log[s][i].kind = "checkpoint"
    BY <1>2 DEF GoodLog
  <2>2. PICK i \in 1 .. n : log[s][i].kind = "checkpoint"
    BY <2>1
  <2>3. log'[s][1].kind = "header" /\ log'[s][i].kind = "checkpoint" /\ i \in 1 .. m /\ m > 0
    BY <1>1, <2>1, <2>2
  <2> QED
    BY <1>1, <2>1, <2>3 DEF GoodLog
<1>3. ASSUME Keeps(s, n)
      PROVE  Keeps(s, n)' /\ Keeps(s, m)'
  <2>1. ASSUME NEW l \in acked'[s]
        PROVE  /\ \E i \in 1 .. n : log'[s][i] = l
               /\ \E i \in 1 .. m : log'[s][i] = l
    <3>1. PICK i \in 1 .. n : log[s][i] = l
      BY <1>3, <2>1 DEF Keeps
    <3>2. log'[s][i] = l /\ i \in 1 .. m
      BY <1>1, <3>1
    <3> QED
      BY <3>2
  <2>2. acked'[s] # {} => GoodLog(s, n)' /\ GoodLog(s, m)'
    BY <1>2, <1>3 DEF Keeps
  <2> QED
    BY <2>1, <2>2 DEF Keeps
<1> QED
  BY <1>1, <1>2, <1>3

\* A write that has begun
LEMMA BegunFiles ==
  ASSUME LockInv, FilesInv, NEW p \in Pids, NEW s \in Sessions, NEW purpose,
         NEW kinds \in Seq(Kinds), NEW v, Begun(p, s, purpose, kinds, v),
         dir'[s] = dir[s] \/ dir'[s] = "file", \A r \in Sessions \ {s} : dir'[r] = dir[r],
         UNCHANGED <<acked, spoiled>>
  PROVE  /\ FilesTyped' /\ Elsewhere(s)
         /\ s \notin spoiled /\ ~tail[s] =>
              /\ Sound(s)'
              /\ \A i \in 1 .. Len(proc'[p].app.rest) :
                   proc'[p].app.rest[i].seq = Len(log'[s]) + i
         /\ \A n \in Nat : n = Len(log[s]) =>
              /\ GoodLog(s, n) => GoodLog(s, n)' /\ GoodLog(s, Len(log[s]))'
              /\ Keeps(s, n) => Keeps(s, n)' /\ Keeps(s, Len(log[s]))'
<1> DEFINE n == Len(log[s])
           m == Len(log'[s])
           a == proc'[p].app
<1>t. FilesTyped
  BY DEF FilesInv
<1>1. /\ log' \in [Sessions -> Seq(LineType)] /\ tail' \in [Sessions -> BOOLEAN]
      /\ \A r \in Sessions \ {s} : log'[r] = log[r] /\ tail'[r] = tail[r]
      /\ n <= m /\ \A i \in 1 .. n : log'[s][i] = log[s][i]
      /\ ~tail[s] =>
           /\ \A i \in (n + 1) .. m : log'[s][i] = Line(NextSeq(s) + (i - n) - 1, kinds[i - n], v)
           /\ \A i \in 1 .. Len(a.rest) :
                a.rest[i] = Line(NextSeq(s) + (i + (m - n)) - 1, kinds[i + (m - n)], v)
  BY DEF Begun
<1>2. FilesTyped' /\ Elsewhere(s)
  BY <1>t, <1>1 DEF FilesTyped, Elsewhere
<1>3. n \in Nat /\ m \in Nat
  BY <1>t, <1>2, LogTyped DEF FilesTyped
<1>a. n = Len(log[s]) /\ m = Len(log'[s]) /\ a = proc'[p].app
  OBVIOUS
<1> HIDE DEF n, m, a
<1>4. ASSUME s \notin spoiled, ~tail[s]
      PROVE  /\ \A i \in 1 .. m : log'[s][i].seq = i
             /\ \A i \in 1 .. Len(a.rest) : a.rest[i].seq = m + i
  <2>1. Sound(s)
    BY <1>4 DEF FilesInv, Logs
  <2>2. NextSeq(s) = n + 1
    BY <1>a, <1>t, <2>1, NextSeqFacts
  <2>3. \A k, x, y : Line(k, x, y).seq = k
    BY DEF Line
  <2>4. ASSUME NEW i \in 1 .. m
        PROVE  log'[s][i].seq = i
    <3>0. i \in Nat
      BY <1>3
    <3>1. CASE i <= n
      <4>1. i \in 1 .. n
        BY <1>3, <3>1
      <4> QED
        BY <1>1, <1>a, <2>1, <4>1 DEF Sound
    <3>2. CASE i > n
      <4>1. i \in (n + 1) .. m
        BY <1>3, <3>2
      <4>2. (n + 1) + (i - n) - 1 = i
        BY <1>3, <3>0
      <4>3. log'[s][i] = Line(NextSeq(s) + (i - n) - 1, kinds[i - n], v)
        BY <1>1, <1>4, <4>1
      <4>4. log'[s][i].seq = NextSeq(s) + (i - n) - 1
        BY <2>3, <4>3
      <4> QED
        BY <2>2, <4>2, <4>4
    <3> QED
      BY <1>3, <3>0, <3>1, <3>2
  <2>5. ASSUME NEW i \in 1 .. Len(a.rest)
        PROVE  a.rest[i].seq = m + i
    <3>0. i \in Int
      OBVIOUS
    <3>1. (n + 1) + (i + (m - n)) - 1 = m + i
      BY <1>3, <3>0
    <3>2. a.rest[i] = Line(NextSeq(s) + (i + (m - n)) - 1, kinds[i + (m - n)], v)
      BY <1>1, <1>4
    <3>3. a.rest[i].seq = NextSeq(s) + (i + (m - n)) - 1
      BY <2>3, <3>2
    <3> QED
      BY <2>2, <3>1, <3>3
  <2> QED
    BY <2>4, <2>5
<1>s. s \notin spoiled /\ ~tail[s] =>
        /\ Sound(s)' /\ \A i \in 1 .. Len(a.rest) : a.rest[i].seq = m + i
  BY <1>4, <1>a DEF Sound
<1>5. ASSUME NEW k \in Nat, k = n
      PROVE  /\ GoodLog(s, k) => GoodLog(s, k)' /\ GoodLog(s, Len(log[s]))'
             /\ Keeps(s, k) => Keeps(s, k)' /\ Keeps(s, Len(log[s]))'
  <2>1. /\ k <= Len(log[s]) /\ k <= Len(log'[s]) /\ \A i \in 1 .. k : log'[s][i] = log[s][i]
    BY <1>1, <1>3, <1>5, <1>a
  <2> QED
    BY <1>t, <1>2, <2>1, PrefixKept
<1> QED
  BY <1>2, <1>5, <1>a, <1>s

\* An open process begins to write a record.
LEMMA BeginOpen ==
  ASSUME LockInv, FilesInv, NEW p \in Pids, NEW purpose \in {"record", "result"},
         NEW kinds \in Seq(Kinds), NEW v, Begun(p, Main, purpose, kinds, v),
         proc[p].pc \in Idle, proc[p].at = Main,
         UNCHANGED <<dir, acked, spoiled, doctor>>
  PROVE  FilesInv'
<1>1. Main \in Sessions /\ Main # None
  BY Names
<1>2. Alive(p)
  BY DEF Alive, Idle
<1>3. PICK x : x = proc[p]
  OBVIOUS
<1>4. PICK y : y = proc'[p]
  OBVIOUS
<1>5. Place(x) /\ Files(x) /\ x.next \in Nat
  BY <1>2, <1>3, EachFacts
<1>6. /\ Only(p) /\ Stays(p) /\ y.at = Main /\ y.goal = x.goal /\ y.f = x.f /\ y.pc = "write"
      /\ y.t = x.t /\ y.next = x.next
  BY <1>3, <1>4 DEF Begun, Stays, More
<1>7. PICK n \in Nat : n = Len(log[Main])
  BY <1>1, LogTyped DEF FilesInv
<1>8. /\ y.app \in AppType /\ y.app.purpose = purpose /\ y.app.s = Main /\ y.app.from = n
      /\ y.app.mid = tail[Main] /\ Len(y.app.rest) > 0 /\ n <= Len(log'[Main]) /\ tail'[Main]
  BY <1>4, <1>7 DEF Begun
<1>9. /\ FilesTyped' /\ Elsewhere(Main)
      /\ Main \notin spoiled /\ ~tail[Main] =>
           /\ Sound(Main)'
           /\ \A i \in 1 .. Len(y.app.rest) : y.app.rest[i].seq = Len(log'[Main]) + i
      /\ GoodLog(Main, n) => GoodLog(Main, n)' /\ GoodLog(Main, Len(log[Main]))'
      /\ Keeps(Main, n) => Keeps(Main, n)' /\ Keeps(Main, Len(log[Main]))'
  BY <1>1, <1>4, <1>7, BegunFiles
<1>10. /\ x.goal = None /\ x.f = None /\ x.at = Main /\ x.pc # "write"
  BY <1>3, <1>5 DEF Place, Idle, None
<1>11. /\ GoodLog(Main, n) /\ (Main \in spoiled \/ ~tail[Main])
  BY <1>5, <1>7, <1>10 DEF Files, OpenFiles
<1>12. Keeps(Main, n)
  BY <1>1, <1>7 DEF FilesInv, Logs
<1>13. Place(y)
  BY <1>6, <1>8, <1>10 DEF Place, None
<1>14. OpenFiles(y)'
  BY <1>6, <1>8, <1>9, <1>11 DEF OpenFiles
<1>15. WriteFiles(y)'
  BY <1>6, <1>8, <1>9, <1>10, <1>11, <1>12 DEF WriteFiles
<1>16. Files(y)'
  BY <1>6, <1>10, <1>14, <1>15 DEF Files, None
<1>17. Main \notin spoiled' => Sound(Main)'
  BY <1>9, <1>11
<1>18. Owns(p, Main)
  BY <1>2, <1>3, <1>10 DEF Owns, None
<1>19. /\ proc'[p].next \in Nat /\ Place(proc'[p]) /\ Files(proc[p])'
       /\ proc'[p].at = proc[p].at /\ proc'[p].f = proc[p].f /\ proc[p].goal # "resume"
  BY <1>3, <1>4, <1>5, <1>6, <1>10, <1>13, <1>16 DEF None
<1>20. dir'[Main] = "file"
  BY <1>9, <1>11 DEF GoodLog
<1> QED
  BY <1>1, <1>2, <1>6, <1>9, <1>11, <1>12, <1>17, <1>18, <1>19, <1>20, WorkStep

-----------------------------------------------------------------------------
(* Appends *)

LEMMA Writing ==
  ASSUME LockInv, FilesInv, NEW p \in Pids, proc[p].pc = "write"
  PROVE  /\ Alive(p) /\ FilesTyped /\ Logs
         /\ Place(proc[p]) /\ Files(proc[p]) /\ WriteFiles(proc[p]) /\ proc[p].next \in Nat
         /\ proc[p].app \in AppType /\ proc[p].app.s \in Sessions
         /\ Owns(p, proc[p].app.s) /\ proc[p].goal # "resume"
<1>1. Alive(p)
  BY DEF Alive
<1>2. /\ Place(proc[p]) /\ Files(proc[p]) /\ proc[p].next \in Nat
  BY <1>1, EachFacts
<1>3. PICK x : x = proc[p]
  OBVIOUS
<1>4. WriteFiles(x) /\ x.app \in AppType
  BY <1>2, <1>3 DEF Files, Place
<1>5. x.goal # "resume"
  <2>1. x.app.purpose \in {"record", "init", "result", "fork"}
    BY <1>4 DEF AppType
  <2>2. Place(x) /\ x.pc = "write"
    BY <1>2, <1>3
  <2>3. /\ x.app.purpose = "fork" => x.goal = "fork"
        /\ x.app.purpose = "init" => x.goal \in {"create", "branch"}
        /\ x.app.purpose \in {"record", "result"} => x.goal = None
    BY <2>2 DEF Place
  <2> QED
    BY <2>1, <2>3 DEF None
<1>6. FilesTyped /\ Logs
  BY DEF FilesInv
<1> QED
  BY <1>1, <1>2, <1>3, <1>4, <1>5, <1>6, OwnFacts

LEMMA AppendFiles ==
  ASSUME LockInv, FilesInv, NEW p \in Pids, AppendRecords(p)
  PROVE  FilesInv'
<1>s. Shaped /\ FilesTyped /\ used.records \in Nat
  BY DEF LockInv, Shaped, FilesInv
<1>1. /\ proc[p].pc = "open" /\ proc[p].at = Main
      /\ UNCHANGED <<dir, acked, spoiled, doctor>>
  BY DEF AppendRecords, At, ghosts
<1>2. PICK kinds \in {<<"entry">>, <<"entry", "checkpoint">>} :
        Begin(p, Main, "record", kinds, used.records + 1)
  BY DEF AppendRecords
<1>3. kinds \in Seq(Kinds) /\ Len(kinds) > 0
  <2>1. <<"entry">> \in Seq(Kinds) /\ Len(<<"entry">>) > 0
    BY DEF Kinds
  <2>2. <<"entry", "checkpoint">> \in Seq(Kinds) /\ Len(<<"entry", "checkpoint">>) > 0
    BY DEF Kinds
  <2> QED
    BY <1>2, <2>1, <2>2
<1>4. used.records + 1 \in Nat
  BY <1>s
<1>5. Main \in Sessions
  BY Names
<1>6. Begun(p, Main, "record", kinds, used.records + 1)
  BY <1>s, <1>2, <1>3, <1>4, <1>5, BeginLog
<1>7. proc[p].pc \in Idle
  BY <1>1 DEF Idle
<1> QED
  BY <1>1, <1>3, <1>4, <1>6, <1>7, BeginOpen

LEMMA StoreRecordFiles ==
  ASSUME LockInv, FilesInv, NEW p \in Pids, StoreRecord(p)
  PROVE  FilesInv'
<1>s. Shaped /\ FilesTyped
  BY DEF LockInv, FilesInv
<1>1. /\ proc[p].pc = "sidecar" /\ UNCHANGED <<dir, acked, spoiled, doctor>>
      /\ Begin(p, Main, "result", <<"result">>, proc[p].next)
  BY DEF StoreRecord, At, ghosts
<1>2. <<"result">> \in Seq(Kinds) /\ Len(<<"result">>) > 0
  BY DEF Kinds
<1>3. Alive(p)
  BY <1>1 DEF Alive
<1>4. Place(proc[p]) /\ proc[p].next \in Nat
  BY <1>3, EachFacts
<1>5. proc[p].at = Main
  BY <1>1, <1>4 DEF Place
<1>6. Begun(p, Main, "result", <<"result">>, proc[p].next)
  BY <1>s, <1>1, <1>2, <1>4, Names, BeginLog
<1>7. proc[p].pc \in Idle
  BY <1>1 DEF Idle
<1> QED
  BY <1>1, <1>2, <1>5, <1>6, <1>7, BeginOpen

\* The rest of a record reached the log of an open Session, or of a new one.
LEMMA OpenDone ==
  ASSUME LockInv, FilesInv, NEW p \in Pids, proc[p].pc = "write", proc[p].goal # "fork",
         Only(p), proc'[p].pc = "open", proc'[p].at = proc[p].at, proc'[p].goal = None,
         proc'[p].f = None, proc'[p].next \in Nat, Written(p),
         UNCHANGED <<dir, spoiled, doctor>>
  PROVE  FilesInv'
<1>1. PICK x : x = proc[p]
  OBVIOUS
<1>2. PICK y : y = proc'[p]
  OBVIOUS
<1>3. PICK s : s = x.app.s
  OBVIOUS
<1>4. /\ Alive(p) /\ FilesTyped /\ Logs /\ Place(x) /\ Files(x) /\ WriteFiles(x)
      /\ s \in Sessions /\ Owns(p, s) /\ x.goal # "resume"
  BY <1>1, <1>3, Writing
<1>5. /\ FilesTyped' /\ Elsewhere(s) /\ ~tail'[s] /\ (s \notin spoiled => Sound(s)')
      /\ Keeps(s, Len(log[s]))' /\ GoodLog(s, Len(log[s]))'
  BY <1>1, <1>3, <1>4, WrittenFiles
<1>6. s = x.at
  BY <1>1, <1>3, <1>4 DEF Place
<1>7. Place(y)
  BY <1>2 DEF Place, None
<1>8. OpenFiles(y)'
  BY <1>1, <1>2, <1>5, <1>6 DEF OpenFiles
<1>9. Files(y)'
  BY <1>2, <1>8 DEF Files, None
<1>10. /\ proc'[p].at = proc[p].at /\ proc'[p].f = None /\ Place(proc'[p]) /\ Files(proc[p])'
       /\ proc[p].goal # "resume" /\ (s \notin spoiled' => Sound(s)')
  BY <1>1, <1>2, <1>4, <1>5, <1>7, <1>9
<1>11. dir'[s] = "file"
  BY <1>5 DEF GoodLog
<1> QED
  BY <1>4, <1>5, <1>10, <1>11, WorkStep

LEMMA AppendDoneFiles ==
  ASSUME LockInv, FilesInv, NEW p \in Pids, AppendDone(p)
  PROVE  FilesInv'
<1>1. /\ proc[p].pc = "write" /\ proc[p].app.purpose = "record" /\ Written(p)
      /\ UNCHANGED <<dir, spoiled, doctor>>
  BY DEF AppendDone, At
<1>p. proc' = [proc EXCEPT ![p].pc = "open", ![p].app = NoAppend]
  BY DEF AppendDone
<1>2. Only(p) /\ Stays(p) /\ More(p) /\ proc'[p].pc = "open"
  BY <1>p, AppFacts DEF LockInv
<1>3. Place(proc[p]) /\ proc[p].next \in Nat
  BY <1>1, Writing
<1>4. proc[p].goal = None /\ proc[p].f = None
  BY <1>1, <1>3 DEF Place, None
<1>5. proc[p].goal # "fork"
  BY <1>4 DEF None
<1> QED
  BY <1>1, <1>2, <1>3, <1>4, <1>5, OpenDone DEF Stays, More

LEMMA InitializeDoneFiles ==
  ASSUME LockInv, FilesInv, NEW p \in Pids, InitializeDone(p)
  PROVE  FilesInv'
<1>1. /\ proc[p].pc = "write" /\ proc[p].app.purpose = "init" /\ Written(p)
      /\ UNCHANGED <<dir, spoiled, doctor>>
  BY DEF InitializeDone, At
<1> DEFINE r == [NoProcess EXCEPT !.pc = "open", !.at = proc[p].at]
<1>p. proc' = [proc EXCEPT ![p] = r]
  BY DEF InitializeDone
<1>2. /\ DOMAIN r = Fields /\ r.pc = "open" /\ r.at = proc[p].at /\ r.goal = None
      /\ r.f = None /\ r.next = 0
  BY DEF NoProcess, Fields
<1> HIDE DEF r
<1>3. Only(p) /\ proc'[p] = r
  BY <1>p, <1>2, ReplaceFacts DEF LockInv
<1>4. Place(proc[p])
  BY <1>1, Writing
<1>5. proc[p].goal # "fork"
  BY <1>1, <1>4 DEF Place
<1>6. 0 \in Nat
  OBVIOUS
<1> QED
  BY <1>1, <1>2, <1>3, <1>5, <1>6, OpenDone

LEMMA StoreDoneFiles ==
  ASSUME LockInv, FilesInv, NEW p \in Pids, StoreDone(p)
  PROVE  FilesInv'
<1>s. Shaped
  BY DEF LockInv
<1>1. /\ proc[p].pc = "write" /\ proc[p].app.purpose = "result" /\ Written(p)
      /\ UNCHANGED <<dir, spoiled, doctor>>
  BY DEF StoreDone, At
<1>p. \E es : proc' = [proc EXCEPT ![p].pc = "open", ![p].app = NoAppend, ![p].entries = es]
  BY DEF StoreDone
<1>q. PICK es : proc' = [proc EXCEPT ![p].pc = "open", ![p].app = NoAppend, ![p].entries = es]
  BY <1>p
<1> DEFINE r == [proc[p] EXCEPT !.pc = "open", !.app = NoAppend, !.entries = es]
<1>2. proc' = [proc EXCEPT ![p] = r]
  BY <1>q, <1>s DEF Shaped
<1>3. /\ DOMAIN r = Fields /\ r.pc = "open" /\ r.at = proc[p].at /\ r.goal = proc[p].goal
      /\ r.f = proc[p].f /\ r.next = proc[p].next
  BY <1>s DEF Shaped, Fields
<1> HIDE DEF r
<1>4. Only(p) /\ proc'[p] = r
  BY <1>s, <1>2, <1>3, ReplaceFacts
<1>5. Place(proc[p]) /\ proc[p].next \in Nat
  BY <1>1, Writing
<1>6. proc[p].goal = None /\ proc[p].f = None
  BY <1>1, <1>5 DEF Place, None
<1>7. proc[p].goal # "fork"
  BY <1>6 DEF None
<1> QED
  BY <1>1, <1>3, <1>4, <1>5, <1>6, <1>7, OpenDone

\* A new Session's fork is on its log.
LEMMA ForkWrittenFiles ==
  ASSUME LockInv, FilesInv, NEW p \in Pids, ForkWritten(p)
  PROVE  FilesInv'
<1>0. /\ proc[p].pc = "write" /\ proc[p].app.purpose = "fork" /\ Written(p)
      /\ UNCHANGED <<dir, spoiled, doctor>> /\ Go(p, "indexing")
  BY DEF ForkWritten, At
<1>g. Only(p) /\ Stays(p) /\ More(p) /\ proc'[p].pc = "indexing"
  BY <1>0, GoFacts DEF LockInv
<1>1. PICK x : x = proc[p]
  OBVIOUS
<1>2. PICK y : y = proc'[p]
  OBVIOUS
<1>3. PICK s : s = x.app.s
  OBVIOUS
<1>4. /\ Alive(p) /\ FilesTyped /\ Logs /\ Place(x) /\ Files(x) /\ WriteFiles(x)
      /\ s \in Sessions /\ Owns(p, s) /\ x.goal # "resume" /\ x.next \in Nat
  BY <1>0, <1>1, <1>3, Writing
<1>5. /\ FilesTyped' /\ Elsewhere(s) /\ ~tail'[s] /\ (s \notin spoiled => Sound(s)')
      /\ Keeps(s, Len(log[s]))' /\ GoodLog(s, Len(log[s]))' /\ acked'[s] # {}
      /\ x.goal # None => Len(log'[s]) = 2
  BY <1>0, <1>1, <1>3, <1>4, WrittenFiles
<1>6. /\ y.pc = "indexing" /\ y.at = x.at /\ y.goal = x.goal /\ y.f = x.f /\ y.t = x.t
      /\ y.next = x.next
  BY <1>1, <1>2, <1>g DEF Stays, More
<1>7. x.goal = "fork" /\ s = x.f /\ x.at = Main
  BY <1>0, <1>1, <1>3, <1>4 DEF Place
<1>8. Place(y)
  BY <1>0, <1>1, <1>4, <1>6, <1>7 DEF Place, None
<1>9. x.f # x.at /\ x.at \in Sessions
  BY <1>0, <1>1, <1>4, <1>7, Names DEF LockInv, HolderInv
<1>10. OpenFiles(x) /\ x.pc = "write"
  BY <1>0, <1>1, <1>4, <1>7 DEF Files
<1>11. /\ log'[x.at] = log[x.at] /\ tail'[x.at] = tail[x.at] /\ dir'[x.at] = dir[x.at]
       /\ (x.at \in spoiled' <=> x.at \in spoiled)
  BY <1>5, <1>7, <1>9 DEF Elsewhere
<1>12. OpenFiles(y)'
  <2>1. /\ GoodLog(x.at, Len(log[x.at])) /\ (x.at \in spoiled \/ ~tail[x.at])
    BY <1>3, <1>7, <1>9, <1>10 DEF OpenFiles
  <2> QED
    BY <1>6, <1>11, <2>1 DEF OpenFiles, GoodLog
<1>13. ForkFiles(y)'
  <2>1. Len(log'[s]) = 2
    BY <1>5, <1>7 DEF None
  <2> QED
    BY <1>5, <1>6, <1>7, <2>1 DEF ForkFiles
<1>14. Files(y)'
  BY <1>6, <1>7, <1>12, <1>13 DEF Files, None
<1>15. /\ proc'[p].at = proc[p].at /\ proc'[p].f = proc[p].f /\ Place(proc'[p])
       /\ Files(proc[p])' /\ proc'[p].next \in Nat /\ proc[p].goal # "resume"
       /\ (s \notin spoiled' => Sound(s)')
  BY <1>0, <1>1, <1>2, <1>4, <1>5, <1>6, <1>8, <1>14
<1>16. dir'[s] = "file"
  BY <1>5 DEF GoodLog
<1> QED
  BY <1>0, <1>4, <1>5, <1>15, <1>16, <1>g, WorkStep

-----------------------------------------------------------------------------
(* Failed writes *)

\* A failed write of an open Session leaves a log that is good.
LEMMA FailStep ==
  ASSUME LockInv, FilesInv, NEW p \in Pids, proc[p].pc = "write", proc[p].goal = None,
         Only(p), Stays(p), More(p), proc'[p].pc = "open", Elsewhere(Main), FilesTyped',
         Main \notin spoiled' => Sound(Main)' /\ ~tail'[Main],
         Keeps(Main, Len(log[Main]))', GoodLog(Main, Len(log[Main]))',
         UNCHANGED doctor
  PROVE  FilesInv'
<1>1. PICK x : x = proc[p]
  OBVIOUS
<1>2. PICK y : y = proc'[p]
  OBVIOUS
<1>3. /\ Alive(p) /\ Place(x) /\ x.next \in Nat /\ x.goal = None /\ Owns(p, x.app.s)
      /\ x.pc = "write"
  BY <1>1, Writing
<1>4. x.app.s = Main /\ x.at = Main /\ x.f = None
  BY <1>3 DEF Place, None
<1>5. y.pc = "open" /\ y.at = Main /\ y.goal = None /\ y.f = None /\ y.next \in Nat
  BY <1>1, <1>2, <1>3, <1>4 DEF Stays, More
<1>6. Place(y)
  BY <1>5 DEF Place, None
<1>7. OpenFiles(y)'
  BY <1>5 DEF OpenFiles
<1>8. Files(y)'
  BY <1>5, <1>7 DEF Files, None
<1>9. /\ Owns(p, Main) /\ proc'[p].next \in Nat /\ proc'[p].at = proc[p].at
      /\ proc'[p].f = None /\ Place(proc'[p]) /\ Files(proc[p])' /\ proc[p].goal # "resume"
  BY <1>1, <1>2, <1>3, <1>4, <1>5, <1>6, <1>8 DEF None
<1>10. dir'[Main] = "file"
  BY DEF GoodLog
<1> QED
  BY <1>3, <1>9, <1>10, Names, WorkStep

\* A log that stays as it is, or grows by lines nobody acknowledged
LEMMA SpoilFiles ==
  ASSUME FilesTyped, Logs, Main \in Sessions, GoodLog(Main, Len(log[Main])),
         spoiled' = spoiled \cup {Main}, UNCHANGED <<dir, log, tail, acked>>
  PROVE  /\ FilesTyped' /\ Elsewhere(Main) /\ Main \in spoiled'
         /\ Keeps(Main, Len(log[Main]))' /\ GoodLog(Main, Len(log[Main]))'
<1>1. FilesTyped'
  BY DEF FilesTyped
<1>2. Elsewhere(Main)
  BY DEF Elsewhere
<1>3. Keeps(Main, Len(log[Main]))
  BY DEF Logs
<1>4. Keeps(Main, Len(log[Main]))' /\ GoodLog(Main, Len(log[Main]))'
  BY <1>3 DEF Keeps, GoodLog
<1> QED
  BY <1>1, <1>2, <1>4

LEMMA AppendFailsFiles ==
  ASSUME LockInv, FilesInv, NEW p \in Pids, AppendFails(p)
  PROVE  FilesInv'
<1>s. Shaped
  BY DEF LockInv
<1>1. /\ proc[p].pc = "write" /\ proc[p].app.purpose = "record"
      /\ UNCHANGED <<dir, acked, doctor>>
  BY DEF AppendFails, At
<1>p. proc' = [proc EXCEPT ![p].pc = "open", ![p].app = NoAppend]
  BY DEF AppendFails
<1>2. Only(p) /\ Stays(p) /\ More(p) /\ proc'[p].pc = "open"
  BY <1>p, <1>s, AppFacts
<1>4. /\ FilesTyped /\ Logs /\ Place(proc[p]) /\ Files(proc[p]) /\ WriteFiles(proc[p])
  BY <1>1, Writing
<1>5. proc[p].goal = None /\ proc[p].app.s = Main /\ proc[p].at = Main
  BY <1>1, <1>4 DEF Place, None
<1>6. Main \in Sessions
  BY Names
<1>7. \/ /\ log' = [log EXCEPT ![Main] = SubSeq(@, 1, proc[p].app.from)]
         /\ tail' = [tail EXCEPT ![Main] = TailAfterRollback(proc[p].app)]
         /\ UNCHANGED spoiled
      \/ spoiled' = spoiled \cup {Main} /\ UNCHANGED <<log, tail>>
  BY <1>5 DEF AppendFails
<1>8. CASE spoiled' = spoiled \cup {Main} /\ UNCHANGED <<log, tail>>
  <2>1. GoodLog(Main, Len(log[Main]))
    BY <1>4, <1>5 DEF Files, OpenFiles
  <2>2. /\ FilesTyped' /\ Elsewhere(Main) /\ Main \in spoiled'
        /\ Keeps(Main, Len(log[Main]))' /\ GoodLog(Main, Len(log[Main]))'
    BY <1>1, <1>4, <1>6, <1>8, <2>1, SpoilFiles
  <2> QED
    BY <1>1, <1>2, <1>5, <2>2, FailStep
<1>9. CASE /\ log' = [log EXCEPT ![Main] = SubSeq(@, 1, proc[p].app.from)]
           /\ tail' = [tail EXCEPT ![Main] = TailAfterRollback(proc[p].app)]
           /\ UNCHANGED spoiled
  <2>1. /\ FilesTyped' /\ Elsewhere(Main)
        /\ Main \notin spoiled' => Sound(Main)' /\ ~tail'[Main]
        /\ Keeps(Main, Len(log[Main]))' /\ GoodLog(Main, Len(log[Main]))'
    BY <1>1, <1>4, <1>5, <1>9, CutFiles
  <2> QED
    BY <1>1, <1>2, <1>5, <2>1, FailStep
<1> QED
  BY <1>7, <1>8, <1>9

LEMMA Joined ==
  ASSUME NEW T, NEW a \in Seq(T), NEW b \in Seq(T)
  PROVE  /\ \A i \in 1 .. Len(a) : (a \o b)[i] = a[i]
         /\ \A i \in (Len(a) + 1) .. (Len(a) + Len(b)) : (a \o b)[i] = b[i - Len(a)]
<1>1. \A i \in 1 .. Len(a) : (a \o b)[i] = a[i]
  OBVIOUS
<1>2. ASSUME NEW i \in (Len(a) + 1) .. (Len(a) + Len(b))
      PROVE  (a \o b)[i] = b[i - Len(a)]
  OBVIOUS
<1> QED
  BY <1>1, <1>2

\* The whole line is there, but its sync failed.
LEMMA UnsyncedFiles ==
  ASSUME FilesTyped, Logs, NEW p \in Pids, Place(proc[p]), WriteFiles(proc[p]),
         proc[p].pc = "write", proc[p].goal = None,
         log' = [log EXCEPT ![Main] = @ \o proc[p].app.rest],
         tail' = [tail EXCEPT ![Main] = FALSE], UNCHANGED <<dir, spoiled, acked>>
  PROVE  /\ FilesTyped' /\ Elsewhere(Main)
         /\ Main \notin spoiled' => Sound(Main)' /\ ~tail'[Main]
         /\ Keeps(Main, Len(log[Main]))' /\ GoodLog(Main, Len(log[Main]))'
<1> DEFINE n == Len(log[Main])
           y == proc[p].app.rest
           c == proc[p].app.from
           h == log[Main] \o y
<1>0. Main \in Sessions
  BY Names
<1>1. PICK x : x = proc[p]
  OBVIOUS
<1>2. x.app \in AppType /\ x.app.s = Main
  BY <1>1 DEF Place, None
<1>3. /\ c \in Nat /\ y \in Seq(LineType) /\ Len(y) \in Nat /\ log[Main] \in Seq(LineType) /\ n \in Nat
  BY <1>0, <1>1, <1>2, LogTyped DEF AppType
<1>4. Main \notin spoiled => \A i \in 1 .. Len(y) : y[i].seq = n + i
  BY <1>1, <1>2 DEF WriteFiles
<1>c. c <= n /\ Keeps(Main, c) /\ GoodLog(Main, c)
  BY <1>1, <1>2 DEF WriteFiles
<1>5. h \in Seq(LineType) /\ Len(h) = n + Len(y)
  BY <1>3
<1>b. /\ \A i \in 1 .. n : h[i] = log[Main][i]
      /\ \A i \in (n + 1) .. (n + Len(y)) : h[i] = y[i - n]
  BY <1>3, Joined
<1>6. log' = [log EXCEPT ![Main] = h]
  OBVIOUS
<1>a. n = Len(log[Main])
  OBVIOUS
<1> HIDE DEF h, y, c, n
<1>7. /\ log' \in [Sessions -> Seq(LineType)] /\ log'[Main] = h
      /\ \A r \in Sessions \ {Main} : log'[r] = log[r]
  BY <1>0, <1>5, <1>6 DEF FilesTyped
<1>8. /\ tail' \in [Sessions -> BOOLEAN] /\ ~tail'[Main]
      /\ \A r \in Sessions \ {Main} : tail'[r] = tail[r]
  BY <1>0 DEF FilesTyped
<1>9. FilesTyped' /\ Elsewhere(Main)
  BY <1>7, <1>8 DEF FilesTyped, Elsewhere
<1>10. Main \notin spoiled => \A i \in 1 .. (n + Len(y)) : h[i].seq = i
  <2> SUFFICES ASSUME Main \notin spoiled, NEW i \in 1 .. (n + Len(y))
               PROVE  h[i].seq = i
    OBVIOUS
  <2>0. i \in Nat
    BY <1>3
  <2>a. Main \notin spoiled
    OBVIOUS
  <2>1. CASE i <= n
    <3>1. i \in 1 .. n
      BY <1>3, <2>1
    <3> QED
      BY <1>0, <1>b, <1>a, <3>1 DEF Logs, Sound
  <2>2. CASE i > n
    <3>1. i - n \in 1 .. Len(y) /\ i \in (n + 1) .. (n + Len(y)) /\ n + (i - n) = i
      BY <1>3, <2>2
    <3> QED
      BY <1>4, <1>b, <2>a, <3>1
  <2> QED
    BY <1>3, <2>0, <2>1, <2>2
<1>11. Main \notin spoiled => Sound(Main)'
  BY <1>5, <1>7, <1>10 DEF Sound
<1>12. c <= Len(log'[Main]) /\ \A i \in 1 .. c : log'[Main][i] = log[Main][i]
  <2>1. c <= n + Len(y) /\ \A i \in 1 .. c : i \in 1 .. n
    BY <1>3, <1>c
  <2> QED
    BY <1>5, <1>b, <1>7, <2>1
<1>13. Keeps(Main, Len(log[Main]))' /\ GoodLog(Main, Len(log[Main]))'
  BY <1>0, <1>3, <1>9, <1>12, <1>a, <1>c, PrefixKept
<1> QED
  BY <1>8, <1>9, <1>11, <1>13

LEMMA StoreFailsFiles ==
  ASSUME LockInv, FilesInv, NEW p \in Pids, StoreFails(p)
  PROVE  FilesInv'
<1>s. Shaped
  BY DEF LockInv
<1>1. /\ UNCHANGED <<dir, acked, doctor>>
  BY DEF StoreFails
<1>p. proc' = [proc EXCEPT ![p].pc = "open", ![p].app = NoAppend]
  BY DEF StoreFails
<1>2. Only(p) /\ Stays(p) /\ More(p) /\ proc'[p].pc = "open"
  BY <1>p, <1>s, AppFacts
<1>4. \/ proc[p].pc = "sidecar" /\ UNCHANGED <<log, tail, spoiled>>
      \/ /\ proc[p].pc = "write" /\ proc[p].app.purpose = "result"
         /\ spoiled' = spoiled \cup {Main} /\ UNCHANGED <<log, tail>>
      \/ /\ proc[p].pc = "write" /\ proc[p].app.purpose = "result"
         /\ log' = [log EXCEPT ![Main] = @ \o proc[p].app.rest]
         /\ tail' = [tail EXCEPT ![Main] = FALSE] /\ UNCHANGED spoiled
  BY DEF StoreFails, At
<1>5. CASE proc[p].pc = "sidecar" /\ UNCHANGED <<log, tail, spoiled>>
  <2>1. Alive(p)
    BY <1>5 DEF Alive
  <2>2. Place(proc[p]) /\ proc[p].next \in Nat
    BY <2>1, EachFacts
  <2>3. proc[p].at = Main
    BY <1>5, <2>2 DEF Place
  <2>4. proc[p].pc \in Idle /\ proc'[p].pc \in Idle /\ proc'[p].next \in Nat
    BY <1>2, <1>5, <2>2 DEF Idle, More
  <2> QED
    BY <1>1, <1>2, <1>5, <2>3, <2>4, SidecarQuiet
<1>w. ASSUME proc[p].pc = "write", proc[p].app.purpose = "result"
      PROVE  /\ FilesTyped /\ Logs /\ Place(proc[p]) /\ Files(proc[p]) /\ WriteFiles(proc[p])
             /\ proc[p].goal = None /\ proc[p].app.s = Main /\ proc[p].at = Main
             /\ Main \in Sessions
  <2>1. /\ FilesTyped /\ Logs /\ Place(proc[p]) /\ Files(proc[p]) /\ WriteFiles(proc[p])
    BY <1>w, Writing
  <2>2. proc[p].goal = None /\ proc[p].app.s = Main /\ proc[p].at = Main
    BY <1>w, <2>1 DEF Place, None
  <2> QED
    BY <2>1, <2>2, Names
<1>6. CASE /\ proc[p].pc = "write" /\ proc[p].app.purpose = "result"
           /\ spoiled' = spoiled \cup {Main} /\ UNCHANGED <<log, tail>>
  <2>1. GoodLog(Main, Len(log[Main]))
    BY <1>6, <1>w DEF Files, OpenFiles
  <2>2. /\ FilesTyped' /\ Elsewhere(Main) /\ Main \in spoiled'
        /\ Keeps(Main, Len(log[Main]))' /\ GoodLog(Main, Len(log[Main]))'
    BY <1>1, <1>6, <1>w, <2>1, SpoilFiles
  <2> QED
    BY <1>1, <1>2, <1>6, <1>w, <2>2, FailStep
<1>7. CASE /\ proc[p].pc = "write" /\ proc[p].app.purpose = "result"
           /\ log' = [log EXCEPT ![Main] = @ \o proc[p].app.rest]
           /\ tail' = [tail EXCEPT ![Main] = FALSE] /\ UNCHANGED spoiled
  <2>1. /\ FilesTyped' /\ Elsewhere(Main)
        /\ Main \notin spoiled' => Sound(Main)' /\ ~tail'[Main]
        /\ Keeps(Main, Len(log[Main]))' /\ GoodLog(Main, Len(log[Main]))'
    BY <1>1, <1>7, <1>w, UnsyncedFiles
  <2> QED
    BY <1>1, <1>2, <1>7, <1>w, <2>1, FailStep
<1> QED
  BY <1>4, <1>5, <1>6, <1>7

\* The first append of a new Session fails.
LEMMA InitializeFailsFiles ==
  ASSUME LockInv, FilesInv, NEW p \in Pids, InitializeFails(p)
  PROVE  FilesInv'
<1>s. Shaped
  BY DEF LockInv
<1>1. /\ proc[p].pc = "write" /\ proc[p].app.purpose = "init" /\ Refused(p)
      /\ log' = [log EXCEPT ![proc[p].app.s] = SubSeq(@, 1, proc[p].app.from)]
      /\ tail' = [tail EXCEPT ![proc[p].app.s] = TailAfterRollback(proc[p].app)]
      /\ UNCHANGED <<dir, acked, spoiled, doctor>>
  BY DEF InitializeFails, At, ghosts
<1>4. /\ Alive(p) /\ FilesTyped /\ Logs /\ Place(proc[p]) /\ WriteFiles(proc[p])
      /\ Owns(p, proc[p].app.s) /\ proc[p].goal # "resume"
  BY <1>1, Writing
<1>5. proc[p].goal # "fork"
  BY <1>1, <1>4 DEF Place
<1>6. PICK s : s = proc[p].app.s
  OBVIOUS
<1>7. /\ s \in Sessions /\ FilesTyped' /\ Elsewhere(s)
      /\ (s \notin spoiled => Sound(s)') /\ Keeps(s, Len(log[s]))'
  BY <1>1, <1>4, <1>6, CutFiles
<1>n. s \notin spoiled
  <2>1. proc[p].goal # None
    BY <1>1, <1>4 DEF Place, None
  <2> QED
    BY <1>4, <1>6, <2>1 DEF WriteFiles
<1>11. dir'[s] = "file"
  <2>1. proc[p].goal # None
    BY <1>1, <1>4 DEF Place, None
  <2> QED
    BY <1>1, <1>4, <1>6, <2>1 DEF WriteFiles
<1>8. Only(p) /\ proc'[p] = [NoProcess EXCEPT !.pc = "dead"]
  BY <1>s, <1>1, <1>5, RefusedFacts
<1>9. proc'[p].pc = "dead" /\ proc'[p].next \in Nat
  BY <1>8 DEF NoProcess
<1>10. ~Alive(p)' /\ (s \notin spoiled' => Sound(s)') /\ s \notin spoiled'
  BY <1>1, <1>7, <1>9, <1>n DEF Alive
<1> QED
  BY <1>1, <1>4, <1>6, <1>7, <1>8, <1>9, <1>10, <1>11, WorkStep

-----------------------------------------------------------------------------
(* New Sessions, and Sessions that are opened again *)

LEMMA CheckpointNat ==
  ASSUME FilesTyped, NEW s \in Sessions
  PROVE  CheckpointSeq(s) \in Nat
<1> DEFINE S == {0} \cup {i \in DOMAIN log[s] : log[s][i].kind = "checkpoint"}
<1>1. Len(log[s]) \in Nat /\ DOMAIN log[s] = 1 .. Len(log[s])
  BY LogTyped
<1>2. S \subseteq Nat /\ S # {} /\ \A x \in S : x <= Len(log[s])
  BY <1>1
<1>3. Max(S) \in S
  <2> HIDE DEF S
  <2> QED
    BY <1>1, <1>2, Greatest
<1> QED
  BY <1>2, <1>3 DEF CheckpointSeq

LEMMA NextIdFacts ==
  ASSUME FilesTyped, NEW s \in Sessions
  PROVE  /\ LoadedNextId(s) \in Nat
         /\ \A i \in Stored(s) : log[s][i].v <= LoadedNextId(s)
<1> DEFINE n == Len(log[s])
           f == [i \in 1 .. n |-> log[s][i].v]
           S == {0} \cup {log[s][i].v : i \in Stored(s)}
<1>1. n \in Nat /\ DOMAIN log[s] = 1 .. n /\ \A i \in 1 .. n : log[s][i].v \in Nat
  BY LogTyped
<1>2. PICK b \in Nat : \A i \in 1 .. n : f[i] <= b
  <2>1. \A i \in 1 .. n : f[i] \in Nat
    BY <1>1
  <2> HIDE DEF f
  <2> QED
    BY <1>1, <2>1, Bounded
<1>3. Stored(s) \subseteq 1 .. n
  BY <1>1 DEF Stored
<1>4. S \subseteq Nat /\ S # {} /\ \A x \in S : x <= b
  <2>1. \A i \in 1 .. n : log[s][i].v <= b
    BY <1>2
  <2> QED
    BY <1>1, <1>3, <2>1
<1>5. Max(S) \in S /\ \A x \in S : x <= Max(S)
  <2> HIDE DEF S
  <2> QED
    BY <1>4, Greatest
<1>6. LoadedNextId(s) = Max(S)
  BY DEF LoadedNextId
<1>7. \A i \in Stored(s) : log[s][i].v \in S
  OBVIOUS
<1> QED
  BY <1>4, <1>5, <1>6, <1>7

LEMMA InitializeFiles ==
  ASSUME LockInv, FilesInv, NEW p \in Pids, Initialize(p)
  PROVE  FilesInv'
<1>s. Shaped /\ FilesTyped /\ Main \in Sessions
  BY Names DEF LockInv, FilesInv
<1>1. PICK x : x = proc[p]
  OBVIOUS
<1>2. PICK y : y = proc'[p]
  OBVIOUS
<1>3. PICK s : s = x.at
  OBVIOUS
<1> DEFINE kinds == <<"header", "checkpoint">>
<1>4. /\ x.pc = "locked" /\ x.goal \in {"create", "branch"}
      /\ dir' = [dir EXCEPT ![s] = "file"] /\ UNCHANGED <<acked, spoiled, doctor>>
  BY <1>1, <1>3 DEF Initialize, At, ghosts
<1>5. PICK v \in Nat : Begin(p, s, "init", kinds, v)
  <2>1. Begin(p, s, "init", kinds, 0) \/ Begin(p, s, "init", kinds, CheckpointSeq(Main))
    BY <1>1, <1>3 DEF Initialize
  <2>2. CheckpointSeq(Main) \in Nat /\ 0 \in Nat
    BY <1>s, CheckpointNat
  <2> QED
    BY <2>1, <2>2
<1>6. kinds \in Seq(Kinds) /\ Len(kinds) = 2 /\ kinds[1] = "header" /\ kinds[2] = "checkpoint"
  BY DEF Kinds
<1> HIDE DEF kinds
<1>7. Alive(p)
  BY <1>1, <1>4 DEF Alive
<1>8. Place(x) /\ Files(x) /\ x.next \in Nat
  BY <1>1, <1>7, EachFacts
<1>9. s \in Sessions /\ Owns(p, s)
  BY <1>1, <1>3, <1>4, <1>7, <1>8, OwnFacts
<1>10. Blank(s) /\ s \notin spoiled
  <2>1. Blank(s)
    BY <1>3, <1>4, <1>8 DEF Files, NewFiles
  <2>2. Len(log[s]) = 0
    BY <2>1 DEF Blank
  <2>3. ~GoodLog(s, Len(log[s]))
    BY <2>2 DEF GoodLog
  <2> QED
    BY <2>1, <2>3 DEF FilesInv, SpoiledGood
<1>11. log[s] = <<>> /\ Len(log[s]) = 0 /\ ~tail[s] /\ acked[s] = {}
  BY <1>10 DEF Blank
<1>12. Begun(p, s, "init", kinds, v)
  BY <1>s, <1>5, <1>6, <1>9, BeginLog
<1>13. /\ Only(p) /\ Stays(p) /\ More(p) /\ y.pc = "write"
       /\ tail'[s] /\ y.app \in AppType /\ y.app.purpose = "init" /\ y.app.s = s
       /\ y.app.from = 0 /\ y.app.mid = tail[s] /\ Len(y.app.rest) > 0
       /\ Len(log'[s]) + Len(y.app.rest) = 0 + 2
  BY <1>2, <1>6, <1>11, <1>12 DEF Begun
<1>14. dir'[s] = "file" /\ \A r \in Sessions \ {s} : dir'[r] = dir[r]
  BY <1>s, <1>4, <1>9 DEF Shaped
<1>15. /\ FilesTyped' /\ Elsewhere(s) /\ Sound(s)'
       /\ \A i \in 1 .. Len(y.app.rest) : y.app.rest[i].seq = Len(log'[s]) + i
  BY <1>2, <1>4, <1>6, <1>9, <1>10, <1>11, <1>12, <1>14, BegunFiles, ZenonT(30)
<1>16. Len(log'[s]) \in Nat /\ Len(y.app.rest) \in Nat
  BY <1>9, <1>13, <1>15, LogTyped DEF AppType, FilesTyped
<1>17. PICK m \in Nat : m = Len(log'[s])
  BY <1>16
<1>18. PICK k \in Nat : k = Len(y.app.rest)
  BY <1>16
<1>19. k > 0 /\ m + k = 2
  <2>1. Len(log'[s]) + k = 0 + 2
    BY <1>13, <1>18
  <2>2. m + k = 0 + 2
    BY <1>17, <2>1
  <2> QED
    BY <1>13, <1>18, <2>2
<1>20. (m = 0 /\ k = 2) \/ (m = 1 /\ k = 1)
  BY <1>19
<1>21. \A a, b, c : Line(a, b, c).kind = b
  BY DEF Line
<1>22. /\ \A i \in (0 + 1) .. m : log'[s][i] = Line(NextSeq(s) + (i - 0) - 1, kinds[i - 0], v)
       /\ \A i \in 1 .. k : y.app.rest[i] =
            Line(NextSeq(s) + (i + (m - 0)) - 1, kinds[i + (m - 0)], v)
  <2>1. \A i \in (Len(log[s]) + 1) .. Len(log'[s]) :
          log'[s][i] = Line(NextSeq(s) + (i - Len(log[s])) - 1, kinds[i - Len(log[s])], v)
    BY <1>11, <1>12 DEF Begun
  <2>2. \A i \in 1 .. Len(proc'[p].app.rest) : proc'[p].app.rest[i] =
          Line(NextSeq(s) + (i + (Len(log'[s]) - Len(log[s]))) - 1,
               kinds[i + (Len(log'[s]) - Len(log[s]))], v)
    BY <1>11, <1>12 DEF Begun
  <2>3. Len(log[s]) = 0 /\ Len(log'[s]) = m /\ proc'[p] = y /\ Len(y.app.rest) = k
    BY <1>2, <1>11, <1>17, <1>18
  <2>4. \A i \in (0 + 1) .. m : log'[s][i] = Line(NextSeq(s) + (i - 0) - 1, kinds[i - 0], v)
    BY <2>1, <2>3
  <2>5. \A i \in 1 .. k : y.app.rest[i] =
          Line(NextSeq(s) + (i + (m - 0)) - 1, kinds[i + (m - 0)], v)
    BY <2>2, <2>3
  <2> QED
    BY <2>4, <2>5
<1>23. \/ m = 0 /\ y.app.rest[1].kind = "header" /\ y.app.rest[2].kind = "checkpoint"
       \/ m = 1 /\ log'[s][1].kind = "header" /\ y.app.rest[1].kind = "checkpoint"
  <2>1. CASE m = 0 /\ k = 2
    <3>1. 1 \in 1 .. k /\ 2 \in 1 .. k /\ 1 + (m - 0) = 1 /\ 2 + (m - 0) = 2
      BY <2>1
    <3> QED
      BY <1>6, <1>21, <1>22, <2>1, <3>1
  <2>2. CASE m = 1 /\ k = 1
    <3>1. 1 \in 1 .. k /\ 1 \in (0 + 1) .. m /\ 1 + (m - 0) = 2 /\ 1 - 0 = 1
      BY <2>2
    <3> QED
      BY <1>6, <1>21, <1>22, <2>2, <3>1
  <2> QED
    BY <1>20, <2>1, <2>2
<1>24. y.at = s /\ y.goal = x.goal /\ y.f = x.f /\ y.next \in Nat
  BY <1>1, <1>2, <1>3, <1>8, <1>13 DEF Stays, More
<1>25. Place(y)
  BY <1>3, <1>4, <1>8, <1>13, <1>24 DEF Place, None
<1>26. acked'[s] = {} /\ s \notin spoiled'
  BY <1>4, <1>10, <1>11
<1>27. Keeps(s, 0)' /\ Keeps(s, Len(log[s]))'
  BY <1>26 DEF Keeps
<1>28. WriteFiles(y)'
  <2>1. y.goal # None
    BY <1>4, <1>24 DEF None
  <2>2. 0 <= Len(log'[s]) /\ Len(log'[s]) + Len(y.app.rest) = 2
    <3>1. 0 <= m /\ m + k = 2
      BY <1>19
    <3>2. 0 <= Len(log'[s])
      BY <1>17, <3>1
    <3>3. Len(log'[s]) + k = 2
      BY <1>17, <3>1
    <3> QED
      BY <1>18, <3>2, <3>3
  <2>3. y.app.from = 0 /\ y.app.s = s /\ ~y.app.mid
    BY <1>11, <1>13
  <2> QED
    BY <1>13, <1>14, <1>15, <1>17, <1>23, <1>26, <1>27, <2>1, <2>2, <2>3 DEF WriteFiles
<1>29. Files(y)'
  BY <1>4, <1>13, <1>14, <1>24, <1>28 DEF Files, NewFiles, None
<1>30. /\ proc'[p].next \in Nat /\ Place(proc'[p]) /\ Files(proc[p])'
       /\ proc'[p].at = proc[p].at /\ proc'[p].f = proc[p].f /\ proc[p].goal # "resume"
  BY <1>1, <1>2, <1>3, <1>4, <1>24, <1>25, <1>29
<1>31. dir'[s] # "absent" /\ UNCHANGED doctor
  BY <1>4, <1>14
<1> QED
  BY <1>7, <1>9, <1>13, <1>15, <1>26, <1>27, <1>30, <1>31, WorkStep

\* Who has a Session open, or makes it, has its file or its directory.
LEMMA OwnedThere ==
  ASSUME LockInv, FilesInv, NEW q \in Pids, NEW s \in Sessions, Owns(q, s)
  PROVE  dir[s] # "absent"
<1>1. PICK x : x = proc[q]
  OBVIOUS
<1>2. Alive(q) /\ Place(x) /\ Files(x)
  BY <1>1, EachFacts DEF Owns
<1>3. s = x.f \/ (s = x.at /\ x.goal # "resume")
  BY <1>1 DEF Owns
<1>n. None \notin Sessions
  BY Names
<1>4. CASE s = x.f
  <2>1. x.f # None
    BY <1>4, <1>n
  <2>2. x.goal = "fork" /\ x.pc \in {"write", "indexing", "operation"}
    BY <1>2, <2>1 DEF Place
  <2>3. CASE x.pc = "write"
    <3>1. x.app.s = s
      BY <1>2, <1>4, <2>2, <2>3 DEF Place
    <3>2. WriteFiles(x) /\ x.goal # None
      BY <1>2, <2>2, <2>3 DEF Files, None
    <3> QED
      BY <3>1, <3>2 DEF WriteFiles
  <2>4. CASE x.pc \in {"indexing", "operation"}
    <3>1. GoodLog(s, 2)
      BY <1>2, <1>4, <2>4 DEF Files, ForkFiles
    <3> QED
      BY <3>1 DEF GoodLog
  <2> QED
    BY <2>2, <2>3, <2>4
<1>5. CASE s = x.at /\ x.goal # "resume"
  <2>1. x.goal \in {None, "fork"} \/ x.goal \in {"create", "branch"}
    BY <1>2, <1>5 DEF Place
  <2>2. GoodLog(s, Len(log[s])) \/ dir[s] # "absent"
    BY <1>2, <1>5, <2>1 DEF Files, OpenFiles, NewFiles
  <2> QED
    BY <2>2 DEF GoodLog
<1> QED
  BY <1>3, <1>4, <1>5

\* A process starts to make a Session that is not there.
LEMMA NewStep ==
  ASSUME LockInv, FilesInv, NEW p \in Pids, proc[p].pc = "off", NEW s \in Sessions,
         dir[s] = "absent", NEW d, d # "absent", dir' = [dir EXCEPT ![s] = d],
         NEW g \in {"create", "branch"}, g = "create" <=> s = Main,
         proc' = [proc EXCEPT ![p].pc = "lock", ![p].at = s, ![p].goal = g],
         UNCHANGED <<log, tail, acked, spoiled, doctor>>
  PROVE  FilesInv'
<1>s. Shaped /\ FilesTyped /\ Logs /\ Absent /\ None \notin Sessions
  BY Names DEF LockInv, FilesInv
<1>1. PICK y : y = proc'[p]
  OBVIOUS
<1>2. /\ Only(p) /\ y.pc = "lock" /\ y.at = s /\ y.goal = g
      /\ y.f = proc[p].f /\ y.next = proc[p].next
  <2>1. /\ Only(p) /\ proc'[p].pc = "lock" /\ proc'[p].at = s /\ proc'[p].goal = g
        /\ proc'[p].f = proc[p].f /\ proc'[p].next = proc[p].next
    BY <1>s, StartFacts
  <2> QED
    BY <1>1, <2>1
<1>3. proc[p].f = None /\ proc[p].next \in Nat
  BY DEF Alive, LockInv, PhaseInv, Phase, FilesInv, Counted
<1>4. Blank(s)
  BY <1>s DEF Absent
<1>5. s \notin spoiled
  BY DEF FilesInv, SpoiledGood, GoodLog
<1>6. Blank(s)' /\ s \notin spoiled'
  BY <1>4, <1>5 DEF Blank
<1>7. \A r \in Sessions \ {s} : dir'[r] = dir[r]
  BY <1>s DEF Shaped
<1>d. dir'[s] # "absent"
  BY <1>s DEF Shaped
<1>8. FilesTyped' /\ Elsewhere(s)
  BY <1>s, <1>7 DEF FilesTyped, Elsewhere
<1>9. Sound(s)' /\ Keeps(s, Len(log[s]))'
  <2>1. acked'[s] = {} /\ Len(log'[s]) = 0
    BY <1>6 DEF Blank
  <2> QED
    BY <2>1 DEF Sound, Keeps
<1>10. \A q \in Pids : q # p => ~Owns(q, s)
  BY OwnedThere
<1>11. Place(y)
  BY <1>2, <1>3 DEF Place, None
<1>12. Files(y)'
  BY <1>2, <1>6, <1>d DEF Files, NewFiles, None
<1>13. doctor # NoRepair => doctor.s # s /\ doctor.s \in Sessions
  BY DEF FilesInv, Doctoring
<1>14. \A r \in Sessions : Owns(p, r)' => r = s
  BY <1>1, <1>2, <1>3, <1>s DEF Owns
<1>15. doctor # NoRepair => doctor.s \notin {proc'[p].at, proc'[p].f}
  BY <1>1, <1>2, <1>3, <1>13, <1>s
<1>16. Place(proc'[p]) /\ Files(proc[p])' /\ proc'[p].next \in Nat
  BY <1>1, <1>2, <1>3, <1>11, <1>12
<1> QED
  BY <1>2, <1>6, <1>8, <1>9, <1>10, <1>13, <1>14, <1>15, <1>16, FilesStep

LEMMA StartingFiles ==
  ASSUME LockInv, FilesInv, DoctorAlone, NEW p \in Pids, CreateNamed(p) \/ ForkStart(p)
  PROVE  FilesInv'
<1>1. CASE CreateNamed(p)
  <2>1. /\ proc[p].pc = "off" /\ dir[Main] = "absent" /\ dir' = [dir EXCEPT ![Main] = "dir"]
        /\ UNCHANGED <<log, tail, acked, spoiled, doctor>>
    BY <1>1 DEF CreateNamed, MayOpen, At, ghosts
  <2>2. proc' = [proc EXCEPT ![p].pc = "lock", ![p].at = Main, ![p].goal = "create"]
    BY <1>1 DEF CreateNamed
  <2> QED
    BY <2>1, <2>2, Names, NewStep
<1>2. CASE ForkStart(p)
  <2> DEFINE f == Spare[used.forks + 1]
  <2>1. /\ proc[p].pc = "off" /\ used.forks < Len(Spare) /\ dir' = [dir EXCEPT ![f] = "file"]
        /\ UNCHANGED <<log, tail, acked, spoiled, doctor>>
    BY <1>2 DEF ForkStart, MayOpen, At, ghosts
  <2>2. proc' = [proc EXCEPT ![p].pc = "lock", ![p].at = f, ![p].goal = "branch"]
    BY <1>2 DEF ForkStart
  <2>3. used.forks \in Nat /\ Len(Spare) \in Nat
    BY Names DEF LockInv, Shaped
  <2>4. used.forks + 1 \in 1 .. Len(Spare) /\ used.forks + 1 \in (used.forks + 1) .. Len(Spare)
    BY <2>1, <2>3
  <2>5. f \in Sessions /\ f # Main /\ dir[f] = "absent"
    BY <2>4, Names DEF LockInv, UnusedInv
  <2> HIDE DEF f
  <2> QED
    BY <2>1, <2>2, <2>5, NewStep
<1> QED
  BY <1>1, <1>2

\* A Session is opened again: what loads is sound, and its tail is cut.
LEMMA ResumeFiles ==
  ASSUME LockInv, FilesInv, NEW p \in Pids, Resume(p)
  PROVE  FilesInv'
<1>s. Shaped /\ FilesTyped /\ Logs /\ None \notin Sessions
  BY Names DEF LockInv, FilesInv
<1>1. PICK s : s = proc[p].at
  OBVIOUS
<1>2. /\ proc[p].pc = "locked" /\ proc[p].goal = "resume" /\ Loads(s)
      /\ tail' = [tail EXCEPT ![s] = FALSE] /\ spoiled' = spoiled \ {s}
      /\ UNCHANGED <<dir, log, acked, doctor>>
  BY <1>1 DEF Resume, At
<1>p. PICK es : proc' = [proc EXCEPT ![p] = [NoProcess EXCEPT !.pc = "open", !.at = s,
                                                !.entries = es, !.next = LoadedNextId(s)]]
  BY <1>1, Zenon DEF Resume
<1> DEFINE y == [NoProcess EXCEPT !.pc = "open", !.at = s, !.entries = es,
                                  !.next = LoadedNextId(s)]
<1>3. /\ DOMAIN y = Fields /\ y.pc = "open" /\ y.at = s /\ y.goal = None /\ y.f = None
      /\ y.next = LoadedNextId(s)
  BY DEF NoProcess, Fields
<1>4. proc' = [proc EXCEPT ![p] = y]
  BY <1>p
<1> HIDE DEF y
<1>5. Only(p) /\ proc'[p] = y
  BY <1>s, <1>3, <1>4, ReplaceFacts
<1>6. Alive(p)
  BY <1>2 DEF Alive
<1>7. s \in Sessions /\ (doctor # NoRepair => doctor.s # s)
  BY <1>1, <1>6, EachFacts DEF LockInv, PhaseInv, Phase
<1>8. dir[s] = "file" /\ Sound(s) /\ GoodLog(s, Len(log[s]))
  BY <1>2, <1>7, <1>s, LoadsMeans
<1>9. FilesTyped'
  BY <1>2, <1>7, <1>s DEF FilesTyped
<1>10. Elsewhere(s)
  BY <1>2, <1>7, <1>s DEF Elsewhere, FilesTyped
<1>11. Sound(s)' /\ GoodLog(s, Len(log[s]))' /\ ~tail'[s] /\ s \notin spoiled'
  BY <1>2, <1>7, <1>8, <1>s DEF Sound, GoodLog, FilesTyped
<1>12. Keeps(s, Len(log[s]))'
  <2>1. Keeps(s, Len(log[s]))
    BY <1>7, <1>s DEF Logs
  <2> QED
    BY <1>2, <2>1 DEF Keeps, GoodLog
<1>13. \A q \in Pids : q # p => ~Owns(q, s)
  <2> SUFFICES ASSUME NEW q \in Pids, q # p, Owns(q, s)
               PROVE  FALSE
    OBVIOUS
  <2>1. lock[s] = p
    BY <1>1, <1>2, <1>6 DEF LockInv, HolderInv, Contending
  <2>2. Alive(q)
    BY DEF Owns
  <2>3. PICK x : x = proc[q]
    OBVIOUS
  <2>4. Place(x) /\ Files(x)
    BY <2>2, <2>3, EachFacts
  <2>5. s = x.f \/ (s = x.at /\ x.goal # "resume")
    BY <2>3 DEF Owns
  <2>6. CASE s = x.f
    <3>1. lock[s] = q
      BY <1>7, <1>s, <2>2, <2>3, <2>6 DEF LockInv, HolderInv
    <3> QED
      BY <2>1, <3>1
  <2>7. CASE s = x.at /\ x.goal # "resume"
    <3>1. x.goal \in {None, "create", "branch", "fork"}
      BY <2>4, <2>7 DEF Place
    <3>2. CASE x.goal \in {None, "fork"}
      <4>1. x.goal = "fork" \/ x.pc \notin Contending
        BY <2>4, <3>2 DEF Place, Contending, None
      <4>2. lock[s] = q
        BY <2>2, <2>3, <2>7, <4>1 DEF LockInv, HolderInv
      <4> QED
        BY <2>1, <4>2
    <3>3. CASE x.goal \in {"create", "branch"}
      <4>1. CASE x.pc = "write"
        <5>1. lock[s] = q
          BY <2>2, <2>3, <2>7, <4>1 DEF LockInv, HolderInv, Contending
        <5> QED
          BY <2>1, <5>1
      <4>2. CASE x.pc # "write"
        <5>1. Blank(s)
          BY <2>4, <2>7, <3>3, <4>2 DEF Files, NewFiles
        <5> QED
          BY <1>8, <5>1 DEF Blank, GoodLog
      <4> QED
        BY <4>1, <4>2
    <3> QED
      BY <3>1, <3>2, <3>3
  <2> QED
    BY <2>5, <2>6, <2>7
<1>z. PICK z : z = proc'[p]
  OBVIOUS
<1>y. z.pc = "open" /\ z.at = s /\ z.goal = None /\ z.f = None /\ z.next = LoadedNextId(s)
  BY <1>3, <1>5, <1>z
<1>14. Place(z)
  BY <1>y DEF Place, None
<1>15. OpenFiles(z)'
  BY <1>y, <1>11 DEF OpenFiles
<1>16. Files(z)'
  BY <1>y, <1>15 DEF Files, None
<1>17. LoadedNextId(s) \in Nat
  BY <1>7, <1>s, NextIdFacts
<1>18. Place(proc'[p]) /\ Files(proc[p])' /\ proc'[p].next \in Nat
  BY <1>y, <1>z, <1>14, <1>16, <1>17
<1>19. \A r \in Sessions : Owns(p, r)' => r = s
  BY <1>3, <1>5, <1>s DEF Owns
<1>20. doctor # NoRepair => doctor.s \notin {proc'[p].at, proc'[p].f}
  <2>1. doctor # NoRepair => doctor.s \in Sessions
    BY DEF FilesInv, Doctoring
  <2> QED
    BY <1>3, <1>5, <1>7, <1>s, <2>1
<1>21. dir'[s] # "absent" /\ UNCHANGED doctor
  BY <1>2, <1>8
<1> QED
  BY <1>5, <1>7, <1>9, <1>10, <1>11, <1>12, <1>13, <1>18, <1>19, <1>20, <1>21, FilesStep

-----------------------------------------------------------------------------
(* Forks *)

\* A process that forks has the Main Session open.
LEMMA Forking ==
  ASSUME LockInv, FilesInv, NEW p \in Pids, Alive(p), proc[p].goal = "fork"
  PROVE  /\ proc[p].at = Main /\ OpenFiles(proc[p]) /\ proc[p].next \in Nat
         /\ proc[p].t \in Threads
         /\ proc[p].f # None => /\ proc[p].f \in Sessions /\ proc[p].f # Main
                                /\ proc[p].f \notin spoiled /\ Owns(p, proc[p].f)
<1>1. Place(proc[p]) /\ Files(proc[p]) /\ proc[p].next \in Nat
  BY EachFacts
<1>2. proc[p].at = Main /\ OpenFiles(proc[p]) /\ proc[p].t \in Threads
  BY <1>1 DEF Place, Files, None
<1>3. proc[p].f # None => proc[p].f \in Sessions /\ proc[p].f # Main
  BY <1>2 DEF LockInv, HolderInv
<1>4. proc[p].f # None => proc[p].f \notin spoiled /\ Owns(p, proc[p].f)
  BY <1>3 DEF FilesInv, FilesTyped, Owns
<1> QED
  BY <1>1, <1>2, <1>3, <1>4

\* While nothing happens to the Main Session, it stays open.
LEMMA StaysOpen ==
  ASSUME NEW x, OpenFiles(x), x.at = Main, x.pc = "write" => x.app.s # Main,
         NEW y, y.at = Main, NEW s \in Sessions, s # Main, Elsewhere(s)
  PROVE  OpenFiles(y)'
<1>1. /\ log'[Main] = log[Main] /\ tail'[Main] = tail[Main] /\ dir'[Main] = dir[Main]
      /\ (Main \in spoiled' <=> Main \in spoiled)
  BY Names DEF Elsewhere
<1>2. GoodLog(Main, Len(log[Main])) /\ (Main \in spoiled \/ ~tail[Main])
  BY DEF OpenFiles
<1> QED
  BY <1>1, <1>2 DEF OpenFiles, GoodLog

LEMMA CreateForkFiles ==
  ASSUME LockInv, FilesInv, NEW p \in Pids, CreateFork(p)
  PROVE  FilesInv'
<1>s. /\ Shaped /\ FilesTyped /\ Logs /\ Absent /\ Main \in Sessions
      /\ used.forks \in Nat /\ Len(Spare) \in Nat
  BY Names DEF LockInv, FilesInv, Shaped
<1> DEFINE f == Spare[used.forks + 1]
           lines == <<ForkHeader, Line(2, "checkpoint", 0)>>
           App(j) == [purpose |-> "fork", s |-> f, from |-> 0, mid |-> FALSE,
                      rest |-> SubSeq(lines, j + 1, 2), v |-> 0]
<1>1. /\ proc[p].pc = "locked" /\ proc[p].goal = "fork" /\ used.forks < Len(Spare)
      /\ UNCHANGED <<acked, spoiled, doctor>>
  BY DEF CreateFork, At, ghosts
<1>2. PICK j \in 0 .. 1 :
        /\ dir' = [dir EXCEPT ![f] = "file"]
        /\ log' = [log EXCEPT ![f] = SubSeq(lines, 1, j)] /\ tail' = [tail EXCEPT ![f] = TRUE]
        /\ proc' = [proc EXCEPT ![p].pc = "write", ![p].f = f, ![p].app = App(j)]
  BY Zenon DEF CreateFork
<1>3. used.forks + 1 \in 1 .. Len(Spare) /\ used.forks + 1 \in (used.forks + 1) .. Len(Spare)
  BY <1>1, <1>s
<1>4. f \in Sessions /\ f # Main /\ dir[f] = "absent" /\ f # None
  BY <1>3, Names DEF LockInv, UnusedInv
<1>5. /\ lines \in Seq(LineType) /\ Len(lines) = 2
      /\ lines[1].kind = "header" /\ lines[2].kind = "checkpoint"
      /\ \A i \in 1 .. 2 : lines[i].seq = i
  <2>1. ForkHeader \in LineType /\ ForkHeader.kind = "header" /\ ForkHeader.seq = 1
    BY <1>s, CheckpointNat DEF ForkHeader, Line, LineType, Kinds
  <2>2. /\ Line(2, "checkpoint", 0) \in LineType
        /\ Line(2, "checkpoint", 0).kind = "checkpoint" /\ Line(2, "checkpoint", 0).seq = 2
    BY DEF Line, LineType, Kinds
  <2> HIDE DEF LineType
  <2>3. /\ lines \in Seq(LineType) /\ Len(lines) = 2 /\ lines[1] = ForkHeader
        /\ lines[2] = Line(2, "checkpoint", 0)
    BY <2>1, <2>2
  <2>4. \A i \in 1 .. 2 : i = 1 \/ i = 2
    OBVIOUS
  <2> HIDE DEF lines
  <2> QED
    BY <2>1, <2>2, <2>3, <2>4
<1> HIDE DEF lines
<1> DEFINE h == SubSeq(lines, 1, j)
           r == SubSeq(lines, j + 1, 2)
<1>6. h \in Seq(LineType) /\ Len(h) = j /\ \A k \in 1 .. j : h[k] = lines[k]
  <2>1. j \in Nat /\ 1 \in Nat \ {0} /\ 1 <= j + 1 /\ j <= Len(lines) /\ j - 1 + 1 = j
    BY <1>5
  <2>2. \A k \in 1 .. j : 1 + k - 1 = k
    OBVIOUS
  <2>3. /\ SubSeq(lines, 1, j) \in Seq(LineType) /\ Len(SubSeq(lines, 1, j)) = j - 1 + 1
        /\ \A k \in 1 .. (j - 1 + 1) : SubSeq(lines, 1, j)[k] = lines[1 + k - 1]
    <3>1. lines \in Seq(LineType)
      BY <1>5
    <3> QED
      BY <2>1, <3>1, SubSeqFacts
  <2> QED
    BY <2>1, <2>2, <2>3
<1>7. r \in Seq(LineType) /\ Len(r) = 2 - j /\ \A k \in 1 .. (2 - j) : r[k] = lines[k + j]
  <2>1. /\ 2 \in Nat /\ j + 1 \in Nat \ {0} /\ j + 1 <= 2 + 1 /\ 2 <= Len(lines)
        /\ 2 - (j + 1) + 1 = 2 - j
    BY <1>5
  <2>2. \A k \in 1 .. (2 - j) : (j + 1) + k - 1 = k + j
    OBVIOUS
  <2>3. /\ r \in Seq(LineType) /\ Len(r) = 2 - (j + 1) + 1
        /\ \A k \in 1 .. (2 - (j + 1) + 1) : r[k] = lines[(j + 1) + k - 1]
    <3>1. lines \in Seq(LineType)
      BY <1>5
    <3> QED
      BY <2>1, <3>1, SubSeqFacts
  <2> QED
    BY <2>1, <2>2, <2>3
<1>8. /\ App(j).purpose = "fork" /\ App(j).s = f /\ App(j).from = 0 /\ App(j).mid = FALSE
      /\ App(j).rest = r
  OBVIOUS
<1>9. App(j) \in AppType
  BY <1>4, <1>7 DEF AppType
<1>a. PICK a : a = App(j)
  OBVIOUS
<1> DEFINE z == [proc[p] EXCEPT !.pc = "write", !.f = f, !.app = a]
<1>b. proc' = [proc EXCEPT ![p] = z]
  BY <1>2, <1>a, <1>s DEF Shaped
<1>c. /\ DOMAIN z = Fields /\ z.pc = "write" /\ z.f = f /\ z.at = proc[p].at
      /\ z.goal = proc[p].goal /\ z.app = a /\ z.t = proc[p].t /\ z.next = proc[p].next
  BY <1>s DEF Shaped, Fields
<1> HIDE DEF z, App, h, r
<1>d. Only(p) /\ proc'[p] = z
  BY <1>s, <1>b, <1>c, ReplaceFacts
<1>e. Alive(p)
  BY <1>1 DEF Alive
<1>f. /\ proc[p].at = Main /\ OpenFiles(proc[p]) /\ proc[p].next \in Nat /\ proc[p].t \in Threads
  BY <1>1, <1>e, Forking
<1> HIDE DEF f
<1>g. PICK s : s = f
  OBVIOUS
<1>10. /\ log' \in [Sessions -> Seq(LineType)] /\ log'[s] = h
       /\ \A q \in Sessions \ {s} : log'[q] = log[q]
  BY <1>2, <1>4, <1>6, <1>g, <1>s DEF FilesTyped, h
<1>11. /\ tail' \in [Sessions -> BOOLEAN] /\ tail'[s]
       /\ \A q \in Sessions \ {s} : tail'[q] = tail[q]
  BY <1>2, <1>4, <1>g, <1>s DEF FilesTyped
<1>12. dir'[s] = "file" /\ \A q \in Sessions \ {s} : dir'[q] = dir[q]
  BY <1>2, <1>4, <1>g, <1>s DEF Shaped
<1>13. FilesTyped' /\ Elsewhere(s)
  BY <1>1, <1>10, <1>11, <1>12, <1>s DEF FilesTyped, Elsewhere
<1>14. acked'[s] = {} /\ s \notin spoiled'
  BY <1>1, <1>4, <1>g, <1>s DEF Absent, Blank, FilesTyped
<1>15. Sound(s)' /\ Keeps(s, 0)' /\ Keeps(s, Len(log[s]))'
  <2>1. \A k \in 1 .. j : log'[s][k].seq = k
    BY <1>5, <1>6, <1>10
  <2> QED
    BY <1>6, <1>10, <1>14, <2>1 DEF Sound, Keeps
<1>y. PICK y : y = proc'[p]
  OBVIOUS
<1>16. /\ y.pc = "write" /\ y.f = s /\ y.at = Main /\ y.goal = "fork" /\ y.app = a
       /\ y.t \in Threads /\ y.next \in Nat
  BY <1>1, <1>c, <1>d, <1>f, <1>g, <1>y
<1>17. a.purpose = "fork" /\ a.s = s /\ a.from = 0 /\ ~a.mid /\ a.rest = r /\ a \in AppType
  BY <1>8, <1>9, <1>a, <1>g
<1>18. Place(y)
  BY <1>4, <1>16, <1>17, <1>g DEF Place, None
<1>19. WriteFiles(y)'
  <2>1. Len(log'[s]) = j /\ Len(r) = 2 - j /\ j \in 0 .. 1
    BY <1>6, <1>7, <1>10
  <2>2. /\ 0 <= Len(log'[s]) /\ Len(r) > 0 /\ Len(log'[s]) + Len(r) = 2
    BY <2>1
  <2>3. \A i \in 1 .. Len(r) : r[i].seq = Len(log'[s]) + i
    <3>1. \A i \in 1 .. (2 - j) : i + j \in 1 .. 2 /\ i + j = j + i
      OBVIOUS
    <3> QED
      BY <1>5, <1>7, <2>1, <3>1
  <2>4. \/ Len(log'[s]) = 0 /\ r[1].kind = "header" /\ r[2].kind = "checkpoint"
        \/ Len(log'[s]) = 1 /\ log'[s][1].kind = "header" /\ r[1].kind = "checkpoint"
    <3>1. CASE j = 0
      <4>1. 1 \in 1 .. (2 - j) /\ 2 \in 1 .. (2 - j) /\ 1 + j = 1 /\ 2 + j = 2
        BY <3>1
      <4>2. r[1] = lines[1] /\ r[2] = lines[2]
        BY <1>7, <4>1
      <4> QED
        BY <1>5, <2>1, <3>1, <4>2
    <3>2. CASE j = 1
      <4>1. 1 \in 1 .. (2 - j) /\ 1 \in 1 .. j /\ 1 + j = 2
        BY <3>2
      <4>2. r[1] = lines[2] /\ h[1] = lines[1]
        BY <1>6, <1>7, <4>1
      <4> QED
        BY <1>5, <1>10, <2>1, <3>2, <4>2
    <3> QED
      BY <3>1, <3>2
  <2>5. y.goal # None
    BY <1>16 DEF None
  <2> QED
    BY <1>11, <1>12, <1>14, <1>15, <1>16, <1>17, <2>2, <2>3, <2>4, <2>5 DEF WriteFiles
<1>20. OpenFiles(y)'
  <2>1. proc[p].pc # "write"
    BY <1>1
  <2>2. s \in Sessions /\ s # Main
    BY <1>4, <1>g
  <2> QED
    BY <1>13, <1>16, <1>f, <2>1, <2>2, StaysOpen
<1>21. Files(y)'
  BY <1>16, <1>19, <1>20 DEF Files, None
<1>22. \A q \in Pids : q # p => ~Owns(q, s)
  BY <1>4, <1>g, OwnedThere
<1>23. doctor # NoRepair => doctor.s # s /\ doctor.s # Main
  BY <1>4, <1>e, <1>f, <1>g, EachFacts DEF FilesInv, Doctoring
<1>24. doctor # NoRepair => doctor.s \notin {proc'[p].at, proc'[p].f}
  BY <1>16, <1>23, <1>y
<1>25. \A q \in Sessions : Owns(p, q)' => Owns(p, q) \/ q = s
  <2>1. Owns(p, Main)
    BY <1>1, <1>e, <1>f DEF Owns
  <2> QED
    BY <1>16, <1>y, <2>1 DEF Owns
<1>26. Place(proc'[p]) /\ Files(proc[p])' /\ proc'[p].next \in Nat
  BY <1>16, <1>18, <1>21, <1>y
<1>27. s \in Sessions /\ dir'[s] # "absent" /\ UNCHANGED doctor
  BY <1>1, <1>4, <1>12, <1>g
<1> QED
  BY <1>13, <1>14, <1>15, <1>22, <1>23, <1>24, <1>25, <1>26, <1>27, <1>d, FilesStep

\* A process that forked answers its caller.
LEMMA AnswerFiles ==
  ASSUME LockInv, FilesInv, NEW p \in Pids, Alive(p), proc[p].goal = "fork", proc[p].f # None,
         NEW s, s = proc[p].f, Elsewhere(s), FilesTyped', Sound(s)', Keeps(s, Len(log[s]))',
         dir'[s] = "absent" => Blank(s)', UNCHANGED <<spoiled, doctor>>,
         NEW f, NEW b, Answered(p, f, b)
  PROVE  FilesInv'
<1>1. /\ Only(p) /\ proc'[p].pc = "open" /\ proc'[p].goal = None /\ proc'[p].f = None
      /\ proc'[p].at = proc[p].at /\ proc'[p].next = proc[p].next
  BY AnsweredFacts DEF LockInv
<1>2. PICK x : x = proc[p]
  OBVIOUS
<1>3. PICK y : y = proc'[p]
  OBVIOUS
<1>4. /\ x.at = Main /\ OpenFiles(x) /\ x.next \in Nat /\ s \in Sessions /\ s # Main
      /\ s \notin spoiled /\ Owns(p, s) /\ x.f = s /\ x.goal = "fork"
  BY <1>2, Forking
<1>5. y.pc = "open" /\ y.goal = None /\ y.f = None /\ y.at = Main /\ y.next \in Nat
  BY <1>1, <1>2, <1>3, <1>4
<1>6. x.pc = "write" => x.app.s # Main
  <2>1. Place(x)
    BY <1>2, EachFacts
  <2> QED
    BY <1>4, <2>1 DEF Place
<1>7. OpenFiles(y)'
  BY <1>4, <1>5, <1>6, StaysOpen
<1>8. Files(y)'
  BY <1>5, <1>7 DEF Files, None
<1>9. Place(y)
  BY <1>5 DEF Place, None
<1>10. /\ Place(proc'[p]) /\ Files(proc[p])' /\ proc'[p].next \in Nat /\ proc[p].goal # "resume"
       /\ s \notin spoiled'
  BY <1>2, <1>3, <1>4, <1>5, <1>8, <1>9
<1> QED
  BY <1>1, <1>4, <1>10, WorkStep

LEMMA ForkFailsFiles ==
  ASSUME LockInv, FilesInv, NEW p \in Pids, ForkFails(p)
  PROVE  FilesInv'
<1>s. Shaped /\ FilesTyped
  BY DEF LockInv, FilesInv
<1>1. PICK s : s = proc[p].f
  OBVIOUS
<1>2. /\ proc[p].pc = "operation" \/ (proc[p].pc = "write" /\ proc[p].app.purpose = "fork")
      /\ dir' = [dir EXCEPT ![s] = "absent"] /\ log' = [log EXCEPT ![s] = <<>>]
      /\ tail' = [tail EXCEPT ![s] = FALSE] /\ acked' = [acked EXCEPT ![s] = {}]
      /\ UNCHANGED <<spoiled, doctor>>
  BY <1>1 DEF ForkFails, At
<1>3. Alive(p)
  BY <1>2 DEF Alive
<1>4. proc[p].goal = "fork" /\ proc[p].f # None
  <2>1. Place(proc[p])
    BY <1>3, EachFacts
  <2> QED
    BY <1>2, <2>1 DEF Place
<1>5. s \in Sessions
  BY <1>1, <1>3, <1>4, Forking
<1>6. /\ log' \in [Sessions -> Seq(LineType)] /\ log'[s] = <<>>
      /\ \A r \in Sessions \ {s} : log'[r] = log[r]
  BY <1>2, <1>5, <1>s DEF FilesTyped
<1>7. /\ tail' \in [Sessions -> BOOLEAN] /\ ~tail'[s] /\ acked' \in [Sessions -> SUBSET LineType]
      /\ acked'[s] = {} /\ \A r \in Sessions \ {s} : tail'[r] = tail[r] /\ acked'[r] = acked[r]
  BY <1>2, <1>5, <1>s DEF FilesTyped
<1>8. \A r \in Sessions \ {s} : dir'[r] = dir[r]
  BY <1>2, <1>s DEF Shaped
<1>9. FilesTyped' /\ Elsewhere(s)
  BY <1>2, <1>6, <1>7, <1>8, <1>s DEF FilesTyped, Elsewhere
<1>10. Blank(s)' /\ Sound(s)' /\ Keeps(s, Len(log[s]))'
  <2>1. Len(log'[s]) = 0
    BY <1>6
  <2> QED
    BY <1>6, <1>7, <2>1 DEF Blank, Sound, Keeps
<1>11. Answered(p, proc[p].f, FALSE)
  BY DEF ForkFails
<1> QED
  BY <1>1, <1>2, <1>3, <1>4, <1>9, <1>10, <1>11, AnswerFiles

LEMMA ForkOperationFiles ==
  ASSUME LockInv, FilesInv, NEW p \in Pids, ForkOperation(p)
  PROVE  FilesInv'
<1>s. Shaped /\ FilesTyped /\ Logs
  BY DEF LockInv, FilesInv
<1>1. PICK s : s = proc[p].f
  OBVIOUS
<1> DEFINE l == Line(3, "operation", 0)
<1>2. /\ proc[p].pc = "operation" /\ log' = [log EXCEPT ![s] = Append(log[s], l)]
      /\ acked' = [acked EXCEPT ![s] = acked[s] \cup {l}]
      /\ UNCHANGED <<dir, tail, spoiled, doctor>> /\ Answered(p, s, TRUE)
  BY <1>1 DEF ForkOperation, At
<1>3. Alive(p)
  BY <1>2 DEF Alive
<1>4. Place(proc[p]) /\ Files(proc[p])
  BY <1>3, EachFacts
<1>5. proc[p].goal = "fork" /\ proc[p].f # None
  BY <1>2, <1>4 DEF Place
<1>6. s \in Sessions /\ s \notin spoiled
  BY <1>1, <1>3, <1>5, Forking
<1>7. Len(log[s]) = 2 /\ GoodLog(s, 2) /\ ~tail[s]
  BY <1>1, <1>2, <1>4 DEF Files, ForkFiles
<1>8. l \in LineType /\ l.seq = 3
  BY DEF Line, LineType, Kinds
<1> HIDE DEF l
<1>9. log[s] \in Seq(LineType)
  BY <1>6, <1>s, LogTyped
<1>10. /\ Append(log[s], l) \in Seq(LineType) /\ Len(Append(log[s], l)) = 3
       /\ \A i \in 1 .. 2 : Append(log[s], l)[i] = log[s][i]
       /\ Append(log[s], l)[3] = l
  <2>1. Append(log[s], l) \in Seq(LineType) /\ Len(Append(log[s], l)) = 3
    <3>1. Append(log[s], l) \in Seq(LineType) /\ Len(Append(log[s], l)) = Len(log[s]) + 1
      BY <1>8, <1>9
    <3> QED
      BY <1>7, <3>1
  <2>2. \A i \in 1 .. 2 : Append(log[s], l)[i] = log[s][i]
    BY <1>7, <1>8, <1>9
  <2>3. Append(log[s], l)[Len(log[s]) + 1] = l
    BY <1>8, <1>9
  <2>4. Len(log[s]) + 1 = 3
    BY <1>7
  <2> QED
    BY <2>1, <2>2, <2>3, <2>4
<1>11. /\ log' \in [Sessions -> Seq(LineType)] /\ log'[s] = Append(log[s], l)
       /\ \A r \in Sessions \ {s} : log'[r] = log[r]
  BY <1>2, <1>6, <1>10, <1>s DEF FilesTyped
<1>12. /\ acked' \in [Sessions -> SUBSET LineType] /\ acked'[s] = acked[s] \cup {l}
       /\ \A r \in Sessions \ {s} : acked'[r] = acked[r]
  BY <1>2, <1>6, <1>8, <1>s DEF FilesTyped
<1>13. FilesTyped' /\ Elsewhere(s)
  BY <1>2, <1>11, <1>12, <1>s DEF FilesTyped, Elsewhere
<1>14. Len(log'[s]) = 3 /\ log'[s][3] = l /\ \A i \in 1 .. 2 : log'[s][i] = log[s][i]
  BY <1>10, <1>11
<1>15. \A i \in 1 .. 3 : i \in 1 .. 2 \/ i = 3
  OBVIOUS
<1>16. Sound(s)'
  <2>1. \A i \in 1 .. 2 : log[s][i].seq = i
    BY <1>6, <1>7, <1>s DEF Logs, Sound
  <2> QED
    BY <1>8, <1>14, <1>15, <2>1 DEF Sound
<1>17. Keeps(s, Len(log[s]))'
  <2>1. Keeps(s, 2)
    BY <1>6, <1>7, <1>s DEF Logs
  <2>2. GoodLog(s, 3)'
    <3>1. /\ dir'[s] = "file" /\ log[s][1].kind = "header"
          /\ \E i \in 1 .. 2 : log[s][i].kind = "checkpoint"
      BY <1>2, <1>7 DEF GoodLog
    <3>2. \A i \in 1 .. 2 : i \in 1 .. 3
      OBVIOUS
    <3>3. /\ log'[s][1].kind = "header"
          /\ \E i \in 1 .. 3 : log'[s][i].kind = "checkpoint"
      BY <1>14, <3>1, <3>2
    <3> QED
      BY <1>14, <3>1, <3>3 DEF GoodLog
  <2>3. \A k \in acked'[s] : \E i \in 1 .. 3 : log'[s][i] = k
    <3>1. \A k \in acked[s] : \E i \in 1 .. 2 : log[s][i] = k
      BY <2>1 DEF Keeps
    <3>2. 3 \in 1 .. 3 /\ \A i \in 1 .. 2 : i \in 1 .. 3
      OBVIOUS
    <3> QED
      BY <1>12, <1>14, <3>1, <3>2
  <2> QED
    BY <1>14, <2>2, <2>3 DEF Keeps
<1>18. dir'[s] # "absent"
  BY <1>2, <1>7 DEF GoodLog
<1> QED
  BY <1>1, <1>2, <1>3, <1>5, <1>13, <1>16, <1>17, <1>18, AnswerFiles

-----------------------------------------------------------------------------
(* The doctor, and every step *)

\* A step of the doctor that leaves the files alone.
LEMMA AsideFiles ==
  ASSUME FilesInv, UNCHANGED <<dir, log, tail, proc, acked, spoiled>>, Doctoring'
  PROVE  FilesInv'
<1>1. /\ FilesTyped /\ Logs /\ SpoiledGood /\ Absent /\ OwnedOnce /\ Counted
      /\ \A p \in Pids : Each(p)
  BY DEF FilesInv
<1>2. FilesTyped' /\ SpoiledGood' /\ Absent' /\ OwnedOnce' /\ Counted'
  BY <1>1 DEF FilesTyped, SpoiledGood, GoodLog, Absent, Blank, OwnedOnce, Owns, Alive, Counted
<1>3. Logs'
  BY <1>1 DEF Logs, Sound, Keeps, GoodLog
<1>4. \A x : Files(x)' <=> Files(x)
  BY DEF Files, OpenFiles, NewFiles, WriteFiles, ForkFiles, GoodLog, Keeps, Blank
<1>5. ASSUME NEW p \in Pids
      PROVE  Each(p)'
  <2> SUFFICES ASSUME Alive(p)'
               PROVE  Place(proc'[p]) /\ Files(proc[p])'
    BY DEF Each
  <2>1. PICK x : x = proc[p]
    OBVIOUS
  <2>2. Place(x) /\ Files(x)
    BY <1>1, <2>1 DEF Each, Alive
  <2>3. Files(x)' /\ proc'[p] = x
    BY <1>4, <2>1, <2>2
  <2> QED
    BY <2>2, <2>3
<1> QED
  BY <1>2, <1>3, <1>5 DEF FilesInv

LEMMA RepairReadFiles ==
  ASSUME FilesInv, DoctorAlone, NEW s \in Sessions, RepairRead(s)
  PROVE  FilesInv'
<1>1. /\ doctor' = [s |-> s, n |-> Len(log[s])] /\ ~InUse(s) /\ Inspect(s) = "incomplete_tail"
      /\ UNCHANGED <<dir, log, tail, proc, acked, spoiled>>
  BY DEF RepairRead, files, ghosts
<1>2. dir[s] = "file"
  BY <1>1 DEF Inspect
<1>3. \A p \in Pids : Alive(p) => s \notin {proc[p].at, proc[p].f}
  BY <1>1 DEF InUse
<1>4. doctor'.s = s /\ doctor'.n = Len(log[s])
  BY <1>1
<1>5. Doctoring'
  BY <1>1, <1>2, <1>3, <1>4 DEF Doctoring, Alive
<1> QED
  BY <1>1, <1>5, AsideFiles

\* The doctor cuts the end that it read as torn, and nothing else.
LEMMA CutNothing ==
  ASSUME FilesInv, RepairTruncate
  PROVE  log' = log
<1>1. doctor.s \in Sessions /\ doctor.n = Len(log[doctor.s]) /\ FilesTyped
  BY DEF RepairTruncate, FilesInv, Doctoring
<1>2. PICK s \in Sessions : s = doctor.s
  BY <1>1
<1>3. log' = [log EXCEPT ![s] = SubSeq(log[s], 1, Len(log[s]))]
  BY <1>1, <1>2 DEF RepairTruncate
<1>4. log[s] \in Seq(LineType)
  BY <1>1, <1>2, LogTyped
<1>5. SubSeq(log[s], 1, Len(log[s])) = log[s]
  BY <1>4
<1> QED
  BY <1>1, <1>3, <1>5 DEF FilesTyped

LEMMA RepairTruncateFiles ==
  ASSUME LockInv, FilesInv, RepairTruncate
  PROVE  FilesInv'
<1>1. PICK s : s = doctor.s
  OBVIOUS
<1>2. /\ doctor # NoRepair /\ log' = log /\ doctor' = NoRepair
      /\ \E b \in BOOLEAN : tail' = [tail EXCEPT ![s] = b]
      /\ UNCHANGED <<dir, proc, acked, spoiled>>
  BY <1>1, CutNothing DEF RepairTruncate, ghosts
<1>3. /\ FilesTyped /\ Logs /\ SpoiledGood /\ Absent /\ OwnedOnce /\ Counted
      /\ \A p \in Pids : Each(p)
      /\ s \in Sessions /\ dir[s] = "file"
      /\ \A p \in Pids : Alive(p) => s \notin {proc[p].at, proc[p].f}
  BY <1>1, <1>2 DEF FilesInv, Doctoring
<1>4. tail' \in [Sessions -> BOOLEAN] /\ \A r \in Sessions \ {s} : tail'[r] = tail[r]
  BY <1>2, <1>3 DEF FilesTyped
<1>5. FilesTyped' /\ SpoiledGood' /\ OwnedOnce' /\ Counted'
  BY <1>2, <1>3, <1>4
  DEF FilesTyped, SpoiledGood, GoodLog, OwnedOnce, Owns, Alive, Counted
<1>6. Logs'
  BY <1>2, <1>3 DEF Logs, Sound, Keeps, GoodLog
<1>7. Absent'
  BY <1>2, <1>3, <1>4 DEF Absent, Blank
<1>8. Doctoring'
  BY <1>2 DEF Doctoring
<1>9. ASSUME NEW p \in Pids
      PROVE  Each(p)'
  <2> SUFFICES ASSUME Alive(p)'
               PROVE  Place(proc'[p]) /\ Files(proc[p])'
    BY DEF Each
  <2>1. PICK x : x = proc[p]
    OBVIOUS
  <2>2. Alive(p) /\ Place(x) /\ Files(x) /\ s \notin {x.at, x.f} /\ proc' = proc
    BY <1>2, <1>3, <2>1 DEF Each, Alive
  <2>3. /\ x.at \in Sessions
        /\ x.f # None => x.f \in Sessions
        /\ x.pc = "write" => x.app.s \in Sessions /\ x.app.s \in {x.at, x.f}
    BY <2>1, <2>2, OwnFacts DEF Owns
  <2>4. \A r \in Sessions :
          (r = x.at /\ x.goal # "resume") \/ r = x.f \/ (x.pc = "write" /\ r = x.app.s) =>
            /\ log'[r] = log[r] /\ tail'[r] = tail[r] /\ acked'[r] = acked[r]
            /\ dir'[r] = dir[r] /\ (r \in spoiled' <=> r \in spoiled)
    BY <1>2, <1>4, <2>2, <2>3
  <2>5. Files(x)'
    BY <2>2, <2>3, <2>4, SameFiles
  <2> QED
    BY <2>1, <2>2, <2>5
<1> QED
  BY <1>5, <1>6, <1>7, <1>8, <1>9 DEF FilesInv

LEMMA FilesInit == Init => FilesInv
<1> SUFFICES ASSUME Init
             PROVE  FilesInv
  OBVIOUS
<1>1. \A s \in Sessions : /\ log[s] = <<>> /\ tail[s] = FALSE /\ acked[s] = {}
                          /\ dir[s] = "absent" /\ Len(log[s]) = 0
  BY DEF Init
<1>2. \A p \in Pids : ~Alive(p) /\ proc[p].next = 0
  BY DEF Init, NoProcess, Alive
<1>3. FilesTyped
  <2>1. <<>> \in Seq(LineType)
    OBVIOUS
  <2> QED
    BY <2>1 DEF Init, FilesTyped
<1>4. Logs /\ Absent
  BY <1>1 DEF Logs, Sound, Keeps, Absent, Blank
<1>5. SpoiledGood /\ Doctoring
  BY DEF Init, SpoiledGood, Doctoring
<1>6. OwnedOnce /\ Counted /\ \A p \in Pids : Each(p)
  BY <1>2 DEF OwnedOnce, Owns, Counted, Each
<1> QED
  BY <1>3, <1>4, <1>5, <1>6 DEF FilesInv

LEMMA ProcessFiles ==
  ASSUME LockInv, FilesInv, DoctorAlone, NEW p \in Pids, Process(p)
  PROVE  FilesInv'
<1>1. CASE CreateNamed(p) \/ ForkStart(p)
  BY <1>1, StartingFiles
<1>2. CASE \E s \in Sessions : ResumeStart(p, s)
  BY <1>2, ResumeStartQuiet
<1>3. CASE LockCreate(p) \/ LockWrite(p) \/ LockStale(p) \/ LockReclaim(p)
  BY <1>3, LockQuiet
<1>4. CASE LockRefused(p) \/ ResumeFails(p)
  BY <1>4, RefusedQuiet
<1>5. CASE Initialize(p)
  BY <1>5, InitializeFiles
<1>6. CASE InitializeDone(p)
  BY <1>6, InitializeDoneFiles
<1>7. CASE InitializeFails(p)
  BY <1>7, InitializeFailsFiles
<1>8. CASE Resume(p)
  BY <1>8, ResumeFiles
<1>9. CASE Close(p) \/ Crash(p)
  BY <1>9, EndQuiet
<1>10. CASE AppendRecords(p)
  BY <1>10, AppendFiles
<1>11. CASE AppendDone(p)
  BY <1>11, AppendDoneFiles
<1>12. CASE AppendFails(p)
  BY <1>12, AppendFailsFiles
<1>13. CASE StoreResult(p)
  BY <1>13, StoreResultQuiet
<1>14. CASE StoreRecord(p)
  BY <1>14, StoreRecordFiles
<1>15. CASE StoreDone(p)
  BY <1>15, StoreDoneFiles
<1>16. CASE StoreFails(p)
  BY <1>16, StoreFailsFiles
<1>17. CASE \E t \in Threads : RequestFork(p, t)
  BY <1>17, RequestQuiet
<1>18. CASE ExistingFork(p)
  BY <1>18, ExistingQuiet
<1>19. CASE CreateFork(p)
  BY <1>19, CreateForkFiles
<1>20. CASE ForkWritten(p)
  BY <1>20, ForkWrittenFiles
<1>21. CASE IndexFork(p)
  BY <1>21, IndexQuiet
<1>22. CASE ForkOperation(p)
  BY <1>22, ForkOperationFiles
<1>23. CASE ForkFails(p)
  BY <1>23, ForkFailsFiles
<1> QED
  BY <1>1, <1>2, <1>3, <1>4, <1>5, <1>6, <1>7, <1>8, <1>9, <1>10, <1>11, <1>12, <1>13, <1>14,
     <1>15, <1>16, <1>17, <1>18, <1>19, <1>20, <1>21, <1>22, <1>23, Zenon DEF Process

LEMMA FilesNext ==
  ASSUME LockInv, FilesInv, DoctorAlone, [Next]_vars
  PROVE  FilesInv'
<1>1. CASE \E p \in Pids : Process(p)
  BY <1>1, ProcessFiles
<1>2. CASE \E s \in Sessions : RepairRead(s)
  BY <1>2, RepairReadFiles
<1>3. CASE RepairTruncate
  BY <1>3, RepairTruncateFiles
<1>4. CASE RepairStops
  <2>1. UNCHANGED <<dir, log, tail, proc, acked, spoiled>> /\ doctor' = NoRepair
    BY <1>4 DEF RepairStops, files, ghosts
  <2>2. Doctoring'
    BY <2>1 DEF Doctoring
  <2> QED
    BY <2>1, <2>2, AsideFiles
<1>5. CASE UNCHANGED vars
  <2>1. UNCHANGED <<dir, log, tail, proc, acked, spoiled, doctor>>
    BY <1>5 DEF vars
  <2>2. Doctoring'
    BY <2>1 DEF FilesInv, Doctoring, Alive
  <2> QED
    BY <2>1, <2>2, AsideFiles
<1> QED
  BY <1>1, <1>2, <1>3, <1>4, <1>5 DEF Next

LEMMA FilesKeep ==
  ASSUME FilesInv
  PROVE  AcknowledgedKept
<1> SUFFICES ASSUME NEW s \in Sessions, s \notin spoiled
             PROVE  /\ acked[s] \subseteq Range(log[s])
                    /\ acked[s] # {} => Loads(s)
  BY DEF AcknowledgedKept
<1>1. FilesTyped /\ Sound(s) /\ Keeps(s, Len(log[s]))
  BY DEF FilesInv, Logs
<1>2. DOMAIN log[s] = 1 .. Len(log[s])
  BY <1>1, LogTyped
<1>3. acked[s] \subseteq Range(log[s])
  BY <1>1, <1>2 DEF Keeps, Range
<1>4. acked[s] # {} => Loads(s)
  <2>1. acked[s] # {} => GoodLog(s, Len(log[s])) /\ dir[s] = "file"
    BY <1>1 DEF Keeps, GoodLog
  <2> QED
    BY <1>1, <2>1, LoadsMeans
<1> QED
  BY <1>3, <1>4

\* Every reachable state satisfies the inductive invariant of the logs, as long
\* as no two processes reclaim a lock at once and the doctor repairs only
\* Sessions nobody has open (append_records, resume, repair_incomplete_tail).
THEOREM FilesInvariant ==
  ASSUME ~ReclaimRaces, DoctorAlone
  PROVE  Spec => [](LockInv /\ FilesInv)
<1>1. Init => LockInv /\ FilesInv
  BY LockInit, FilesInit
<1>2. LockInv /\ FilesInv /\ [Next]_vars => LockInv' /\ FilesInv'
  BY LockStep, FilesNext
<1> QED
  BY <1>1, <1>2, PTL DEF Spec

\* What was acknowledged stays in the log and the log loads, over crashes,
\* failed and rolled back writes, forks and repairs (append_records,
\* refresh_append_position, load_records).
THEOREM AcknowledgedStay ==
  ASSUME ~ReclaimRaces, DoctorAlone
  PROVE  Spec => []AcknowledgedKept
<1>1. LockInv /\ FilesInv => AcknowledgedKept
  BY FilesKeep
<1> QED
  BY <1>1, FilesInvariant, PTL

LEMMA DoctorStays ==
  ASSUME NEW p \in Pids, Process(p)
  PROVE  doctor' = doctor
<1>1. CASE \/ CreateNamed(p) \/ ForkStart(p) \/ (\E s \in Sessions : ResumeStart(p, s))
           \/ LockCreate(p) \/ LockWrite(p) \/ LockStale(p) \/ LockReclaim(p)
           \/ LockRefused(p)
  BY <1>1 DEF CreateNamed, ForkStart, ResumeStart, LockCreate, LockWrite, LockStale,
     LockReclaim, LockRefused
<1>2. CASE Initialize(p) \/ InitializeDone(p) \/ InitializeFails(p)
  BY <1>2 DEF Initialize, InitializeDone, InitializeFails
<1>3. CASE Resume(p) \/ ResumeFails(p) \/ Close(p) \/ Crash(p)
  BY <1>3 DEF Resume, ResumeFails, Close, Crash
<1>4. CASE AppendRecords(p) \/ AppendDone(p) \/ AppendFails(p)
  BY <1>4 DEF AppendRecords, AppendDone, AppendFails
<1>5. CASE StoreResult(p) \/ StoreRecord(p) \/ StoreDone(p) \/ StoreFails(p)
  BY <1>5 DEF StoreResult, StoreRecord, StoreDone, StoreFails
<1>6. CASE (\E t \in Threads : RequestFork(p, t)) \/ ExistingFork(p) \/ CreateFork(p)
  BY <1>6 DEF RequestFork, ExistingFork, CreateFork
<1>7. CASE ForkWritten(p) \/ IndexFork(p) \/ ForkOperation(p) \/ ForkFails(p)
  BY <1>7 DEF ForkWritten, IndexFork, ForkOperation, ForkFails
<1> QED
  BY <1>1, <1>2, <1>3, <1>4, <1>5, <1>6, <1>7, Zenon DEF Process

\* A doctor that is alone with the Session it repairs cuts only its torn end
\* (repair_incomplete_tail); the run Doctor shows what happens when it is not.
THEOREM RepairCutsTail ==
  ASSUME ~ReclaimRaces, DoctorAlone
  PROVE  Spec => RepairOnlyTail
<1>1. ASSUME FilesInv, [Next]_vars
      PROVE  [doctor # NoRepair /\ doctor' = NoRepair => log' = log]_vars
  <2>1. CASE \E p \in Pids : Process(p)
    <3>1. UNCHANGED doctor
      BY <2>1, DoctorStays
    <3> QED
      BY <3>1
  <2>2. CASE \E s \in Sessions : RepairRead(s)
    BY <2>2 DEF RepairRead
  <2>3. CASE RepairTruncate
    BY <1>1, <2>3, CutNothing
  <2>4. CASE RepairStops
    BY <2>4 DEF RepairStops, files
  <2> QED
    BY <1>1, <2>1, <2>2, <2>3, <2>4 DEF Next
<1> QED
  BY <1>1, FilesInvariant, PTL DEF Spec, RepairOnlyTail

-----------------------------------------------------------------------------
(* The thread index and the answers *)

\* A step that leaves index and answers alone.
LEMMA IndexStep ==
  ASSUME LockInv, IndexInv, NEW p \in Pids, Only(p), UNCHANGED <<index, answers, lapsed>>,
         \A s \in Sessions : acked[s] # {} => acked'[s] # {},
         \A s \in Sessions : dir[s] = "absent" =>
           dir'[s] = "absent" \/ \A t \in Threads : index[t] # s,
         used'.forks \in Nat, used'.forks >= used.forks,
         Alive(p)' => /\ proc'[p].f # None => Alive(p) /\ proc'[p].f = proc[p].f
                      /\ Indexed(proc'[p]),
         None \notin Sessions
  PROVE  IndexInv'
<1>0. /\ IndexTyped /\ Named /\ Given /\ Agreed /\ Unindexed /\ Indexing
      /\ used.forks \in Nat /\ Len(Spare) \in Nat
  BY Names DEF IndexInv, LockInv, Shaped
<1>1. \A q \in Pids : q # p => proc'[q] = proc[q] /\ (Alive(q)' <=> Alive(q))
  BY DEF Only, Alive
<1>2. IndexTyped' /\ Agreed'
  BY <1>0 DEF IndexTyped, Agreed
<1>3. Named'
  <2> SUFFICES ASSUME NEW t \in Threads, index[t] # None
               PROVE  index[t] # Main /\ (acked'[index[t]] # {} \/ dir'[index[t]] = "absent")
    BY DEF Named
  <2>1. index[t] \in Sessions
    BY <1>0 DEF IndexTyped
  <2> QED
    BY <1>0, <2>1 DEF Named
<1>4. Given'
  <2> SUFFICES ASSUME NEW t \in Threads, NEW f \in answers[t]
               PROVE  /\ f # Main /\ acked'[f] # {}
                      /\ \A q \in Pids : Alive(q)' => proc'[q].f # f
    BY DEF Given
  <2>1. f \in Sessions /\ f # Main /\ acked[f] # {} /\ \A q \in Pids : Alive(q) => proc[q].f # f
    BY <1>0 DEF IndexTyped, Given
  <2>2. ASSUME NEW q \in Pids, Alive(q)'
        PROVE  proc'[q].f # f
    <3>1. CASE q = p
      BY <2>1, <2>2, <3>1
    <3>2. CASE q # p
      BY <1>1, <2>1, <2>2, <3>2
    <3> QED
      BY <3>1, <3>2
  <2> QED
    BY <2>1, <2>2
<1>5. Unindexed'
  <2> SUFFICES ASSUME NEW i \in (used'.forks + 1) .. Len(Spare), NEW t \in Threads
               PROVE  index[t] # Spare[i]
    BY DEF Unindexed
  <2>1. i \in (used.forks + 1) .. Len(Spare)
    BY <1>0
  <2> QED
    BY <1>0, <2>1 DEF Unindexed
<1>6. Indexing'
  <2> SUFFICES ASSUME NEW q \in Pids, Alive(q)'
               PROVE  Indexed(proc[q])'
    BY DEF Indexing
  <2>1. CASE q = p
    BY <2>1 DEF Indexed
  <2>2. CASE q # p
    <3>1. Indexed(proc[q]) /\ proc'[q] = proc[q]
      BY <1>0, <1>1, <2>2 DEF Indexing
    <3> QED
      BY <3>1 DEF Indexed
  <2> QED
    BY <2>1, <2>2
<1> QED
  BY <1>2, <1>3, <1>4, <1>5, <1>6 DEF IndexInv

\* Every step but those of a fork that is made or found
Quiet(p) ==
  \/ CreateNamed(p) \/ ForkStart(p) \/ (\E s \in Sessions : ResumeStart(p, s))
  \/ LockCreate(p) \/ LockWrite(p) \/ LockStale(p) \/ LockReclaim(p) \/ LockRefused(p)
  \/ Initialize(p) \/ InitializeDone(p) \/ InitializeFails(p)
  \/ Resume(p) \/ ResumeFails(p) \/ Close(p) \/ Crash(p)
  \/ AppendRecords(p) \/ AppendDone(p) \/ AppendFails(p)
  \/ StoreResult(p) \/ StoreRecord(p) \/ StoreDone(p) \/ StoreFails(p)
  \/ \E t \in Threads : RequestFork(p, t)

\* What most actions do to a process and to the files of forks
LEMMA QuietMoves ==
  ASSUME LockInv, FilesInv, NEW p \in Pids,
         Quiet(p)
  PROVE  /\ Only(p) /\ UNCHANGED <<index, answers, lapsed>>
         /\ proc'[p].f = proc[p].f \/ ~Alive(p)' \/ proc'[p].f = None
<1>s. Shaped
  BY DEF LockInv
<1>n. NoProcess.f = None /\ [NoProcess EXCEPT !.pc = "dead"].f = None
  BY DEF NoProcess
<1>1. CASE CreateNamed(p) \/ ForkStart(p) \/ (\E s \in Sessions : ResumeStart(p, s))
  <2>1. UNCHANGED <<index, answers, lapsed>>
    BY <1>1 DEF CreateNamed, ForkStart, ResumeStart, ghosts, files
  <2>2. \E s, g : proc' = [proc EXCEPT ![p].pc = "lock", ![p].at = s, ![p].goal = g]
    BY <1>1 DEF CreateNamed, ForkStart, ResumeStart
  <2>3. PICK s, g : proc' = [proc EXCEPT ![p].pc = "lock", ![p].at = s, ![p].goal = g]
    BY <2>2
  <2>4. Only(p) /\ proc'[p].f = proc[p].f
    BY <1>s, <2>3, StartFacts
  <2> QED
    BY <2>1, <2>4
<1>2. CASE LockCreate(p) \/ LockWrite(p) \/ LockReclaim(p)
  <2>1. PICK c \in Early : Go(p, c)
    BY <1>2 DEF LockCreate, LockWrite, LockReclaim, Early
  <2>2. Only(p) /\ proc'[p].f = proc[p].f
    BY <1>s, <2>1, GoFacts DEF Stays
  <2> QED
    BY <1>2, <2>2 DEF LockCreate, LockWrite, LockReclaim, ghosts, files
<1>3. CASE LockStale(p)
  <2> DEFINE r == [proc[p] EXCEPT !.pc = "reclaim", !.dead = lock[Target(p)]]
  <2>1. proc' = [proc EXCEPT ![p] = r]
    BY <1>3, <1>s DEF LockStale, Shaped
  <2>2. DOMAIN r = Fields /\ r.f = proc[p].f
    BY <1>s DEF Shaped, Fields
  <2> HIDE DEF r
  <2>3. Only(p) /\ proc'[p] = r
    BY <1>s, <2>1, <2>2, ReplaceFacts
  <2>4. UNCHANGED <<index, answers, lapsed>>
    BY <1>3 DEF LockStale, ghosts, files
  <2> QED
    BY <2>2, <2>3, <2>4
<1>4. CASE LockRefused(p) \/ ResumeFails(p) \/ InitializeFails(p)
  <2>1. Refused(p) /\ UNCHANGED <<index, answers, lapsed>>
    BY <1>4 DEF LockRefused, ResumeFails, InitializeFails, ghosts, files
  <2>2. Only(p) /\ (proc'[p].f = proc[p].f \/ proc'[p].f = None)
    BY <1>n, <1>s, <2>1, RefusedFacts
  <2> QED
    BY <2>1, <2>2
<1>5. CASE Initialize(p)
  <2>1. \E v : Begin(p, proc[p].at, "init", <<"header", "checkpoint">>, v)
    BY <1>5 DEF Initialize
  <2>2. Only(p) /\ proc'[p].f = proc[p].f
    BY <1>s, <2>1, BeginFacts DEF Stays
  <2>3. UNCHANGED <<index, answers, lapsed>>
    BY <1>5 DEF Initialize, ghosts
  <2> QED
    BY <2>2, <2>3
<1>6. CASE InitializeDone(p)
  <2> DEFINE r == [NoProcess EXCEPT !.pc = "open", !.at = proc[p].at]
  <2>1. proc' = [proc EXCEPT ![p] = r]
    BY <1>6 DEF InitializeDone
  <2>2. DOMAIN r = Fields /\ r.f = None
    BY DEF NoProcess, Fields
  <2> HIDE DEF r
  <2>3. Only(p) /\ proc'[p] = r
    BY <1>s, <2>1, <2>2, ReplaceFacts
  <2>4. UNCHANGED <<index, answers, lapsed>>
    BY <1>6 DEF InitializeDone
  <2> QED
    BY <2>2, <2>3, <2>4
<1>7. CASE Resume(p)
  <2>1. PICK es : proc' = [proc EXCEPT ![p] =
             [NoProcess EXCEPT !.pc = "open", !.at = proc[p].at, !.entries = es,
                               !.next = LoadedNextId(proc[p].at)]]
    BY <1>7, Zenon DEF Resume
  <2> DEFINE r == [NoProcess EXCEPT !.pc = "open", !.at = proc[p].at, !.entries = es,
                                    !.next = LoadedNextId(proc[p].at)]
  <2>2. DOMAIN r = Fields /\ r.f = None
    BY DEF NoProcess, Fields
  <2>3. proc' = [proc EXCEPT ![p] = r]
    BY <2>1
  <2> HIDE DEF r
  <2>4. Only(p) /\ proc'[p] = r
    BY <1>s, <2>2, <2>3, ReplaceFacts
  <2>5. UNCHANGED <<index, answers, lapsed>>
    BY <1>7 DEF Resume
  <2> QED
    BY <2>2, <2>4, <2>5
<1>8. CASE Close(p) \/ Crash(p)
  <2>1. /\ UNCHANGED <<index, answers, lapsed>>
        /\ proc' = [proc EXCEPT ![p] = [NoProcess EXCEPT !.pc = "dead"]]
    BY <1>8 DEF Close, Crash, files, ghosts
  <2>2. Only(p) /\ proc'[p].f = None
    BY <1>n, <1>s, <2>1, DeadFacts
  <2> QED
    BY <2>1, <2>2
<1>9. CASE AppendRecords(p) \/ StoreRecord(p)
  <2>1. \E purpose, kinds, v : Begin(p, Main, purpose, kinds, v)
    BY <1>9 DEF AppendRecords, StoreRecord
  <2>2. Only(p) /\ proc'[p].f = proc[p].f
    BY <1>s, <2>1, BeginFacts DEF Stays
  <2>3. UNCHANGED <<index, answers, lapsed>>
    BY <1>9 DEF AppendRecords, StoreRecord, ghosts
  <2> QED
    BY <2>2, <2>3
<1>10. CASE AppendDone(p) \/ AppendFails(p) \/ StoreFails(p)
  <2>1. proc' = [proc EXCEPT ![p].pc = "open", ![p].app = NoAppend]
    BY <1>10 DEF AppendDone, AppendFails, StoreFails
  <2>2. Only(p) /\ proc'[p].f = proc[p].f
    BY <1>s, <2>1, AppFacts DEF Stays
  <2>3. UNCHANGED <<index, answers, lapsed>>
    BY <1>10 DEF AppendDone, AppendFails, StoreFails
  <2> QED
    BY <2>2, <2>3
<1>11. CASE StoreResult(p)
  <2> DEFINE r == [proc[p] EXCEPT !.pc = "sidecar", !.next = NextHandle(p)]
  <2>1. proc' = [proc EXCEPT ![p].pc = "sidecar", ![p].next = NextHandle(p)]
    BY <1>11 DEF StoreResult
  <2>2. proc' = [proc EXCEPT ![p] = r]
    BY <1>s, <2>1 DEF Shaped
  <2>3. DOMAIN r = Fields /\ r.f = proc[p].f
    BY <1>s DEF Shaped, Fields
  <2> HIDE DEF r
  <2>4. Only(p) /\ proc'[p] = r
    BY <1>s, <2>2, <2>3, ReplaceFacts
  <2>5. UNCHANGED <<index, answers, lapsed>>
    BY <1>11 DEF StoreResult, ghosts
  <2> QED
    BY <2>3, <2>4, <2>5
<1>12. CASE StoreDone(p)
  <2>0. \E es : proc' = [proc EXCEPT ![p].pc = "open", ![p].app = NoAppend, ![p].entries = es]
    BY <1>12 DEF StoreDone
  <2>1. PICK es : proc' = [proc EXCEPT ![p].pc = "open", ![p].app = NoAppend,
                                       ![p].entries = es]
    BY <2>0
  <2> DEFINE r == [proc[p] EXCEPT !.pc = "open", !.app = NoAppend, !.entries = es]
  <2>2. proc' = [proc EXCEPT ![p] = r]
    BY <1>s, <2>1 DEF Shaped
  <2>3. DOMAIN r = Fields /\ r.f = proc[p].f
    BY <1>s DEF Shaped, Fields
  <2> HIDE DEF r
  <2>4. Only(p) /\ proc'[p] = r
    BY <1>s, <2>2, <2>3, ReplaceFacts
  <2>5. UNCHANGED <<index, answers, lapsed>>
    BY <1>12 DEF StoreDone
  <2> QED
    BY <2>3, <2>4, <2>5
<1>13. CASE \E t \in Threads : RequestFork(p, t)
  <2>0. PICK t \in Threads : RequestFork(p, t)
    BY <1>13
  <2> DEFINE r == [proc[p] EXCEPT !.pc = "lock", !.goal = "fork", !.t = t]
  <2>1. proc' = [proc EXCEPT ![p].pc = "lock", ![p].goal = "fork", ![p].t = t]
    BY <2>0 DEF RequestFork
  <2>2. proc' = [proc EXCEPT ![p] = r]
    BY <1>s, <2>1 DEF Shaped
  <2>3. DOMAIN r = Fields /\ r.f = proc[p].f
    BY <1>s DEF Shaped, Fields
  <2> HIDE DEF r
  <2>4. Only(p) /\ proc'[p] = r
    BY <1>s, <2>2, <2>3, ReplaceFacts
  <2>5. UNCHANGED <<index, answers, lapsed>>
    BY <2>0 DEF RequestFork, files, ghosts
  <2> QED
    BY <2>3, <2>4, <2>5
<1> QED
  BY <1>1, <1>2, <1>3, <1>4, <1>5, <1>6, <1>7, <1>8, <1>9, <1>10, <1>11, <1>12, <1>13
  DEF Quiet

\* Acknowledgements are not taken back.
LEMMA WrittenAcks ==
  ASSUME FilesTyped, NEW p \in Pids, Written(p), NEW s \in Sessions, acked[s] # {}
  PROVE  acked'[s] # {}
<1>1. \E r, A : acked' = [acked EXCEPT ![r] = acked[r] \cup A]
  BY Zenon DEF Written
<1>2. PICK r, A : acked' = [acked EXCEPT ![r] = acked[r] \cup A]
  BY <1>1
<1>3. acked \in [Sessions -> SUBSET LineType]
  BY DEF FilesTyped
<1>4. acked'[s] = IF s = r THEN acked[s] \cup A ELSE acked[s]
  BY <1>2, <1>3
<1> QED
  BY <1>4

LEMMA QuietAcks ==
  ASSUME FilesInv, NEW p \in Pids, Quiet(p), NEW s \in Sessions, acked[s] # {}
  PROVE  acked'[s] # {}
<1>1. CASE \/ CreateNamed(p) \/ ForkStart(p) \/ (\E r \in Sessions : ResumeStart(p, r))
           \/ LockCreate(p) \/ LockWrite(p) \/ LockStale(p) \/ LockReclaim(p) \/ LockRefused(p)
           \/ Close(p) \/ Crash(p) \/ ResumeFails(p) \/ (\E t \in Threads : RequestFork(p, t))
  BY <1>1 DEF CreateNamed, ForkStart, ResumeStart, LockCreate, LockWrite, LockStale,
     LockReclaim, LockRefused, Close, Crash, ResumeFails, RequestFork, ghosts
<1>2. CASE \/ Initialize(p) \/ InitializeFails(p) \/ AppendRecords(p)
           \/ StoreResult(p) \/ StoreRecord(p)
  BY <1>2 DEF Initialize, InitializeFails, AppendRecords, StoreResult, StoreRecord, ghosts
<1>3. CASE Resume(p) \/ AppendFails(p) \/ StoreFails(p)
  BY <1>3 DEF Resume, AppendFails, StoreFails
<1>4. CASE InitializeDone(p) \/ AppendDone(p) \/ StoreDone(p)
  <2>1. Written(p)
    BY <1>4 DEF InitializeDone, AppendDone, StoreDone
  <2> QED
    BY <2>1, WrittenAcks DEF FilesInv
<1> QED
  BY <1>1, <1>2, <1>3, <1>4 DEF Quiet

\* A Session that appears is not in the index.
LEMMA QuietDirs ==
  ASSUME LockInv, FilesInv, IndexInv, NEW p \in Pids, Quiet(p), NEW s \in Sessions,
         dir[s] = "absent"
  PROVE  dir'[s] = "absent" \/ \A t \in Threads : index[t] # s
<1>s. Shaped /\ used.forks \in Nat /\ Len(Spare) \in Nat /\ None \notin Sessions
  BY Names DEF LockInv, Shaped
<1>1. CASE CreateNamed(p)
  <2>1. dir' = [dir EXCEPT ![Main] = "dir"]
    BY <1>1 DEF CreateNamed
  <2>2. s # Main => dir'[s] = dir[s]
    BY <1>s, <2>1 DEF Shaped
  <2>3. \A t \in Threads : index[t] # Main
    BY <1>s, Names DEF IndexInv, Named
  <2> QED
    BY <2>2, <2>3
<1>2. CASE ForkStart(p)
  <2>1. /\ used.forks < Len(Spare)
        /\ dir' = [dir EXCEPT ![Spare[used.forks + 1]] = "file"]
    BY <1>2 DEF ForkStart
  <2>2. s # Spare[used.forks + 1] => dir'[s] = dir[s]
    BY <1>s, <2>1 DEF Shaped
  <2>3. used.forks + 1 \in (used.forks + 1) .. Len(Spare)
    BY <1>s, <2>1
  <2>4. \A t \in Threads : index[t] # Spare[used.forks + 1]
    BY <2>3 DEF IndexInv, Unindexed
  <2> QED
    BY <2>2, <2>4
<1>3. CASE Initialize(p)
  <2>1. /\ proc[p].pc = "locked" /\ proc[p].goal \in {"create", "branch"}
        /\ dir' = [dir EXCEPT ![proc[p].at] = "file"]
    BY <1>3 DEF Initialize, At
  <2>2. Alive(p)
    BY <2>1 DEF Alive
  <2>3. dir[proc[p].at] # "absent"
    BY <2>1, <2>2 DEF FilesInv, Each, Files, NewFiles
  <2> QED
    BY <1>s, <2>1, <2>3 DEF Shaped
<1>4. CASE \/ (\E r \in Sessions : ResumeStart(p, r))
           \/ LockCreate(p) \/ LockWrite(p) \/ LockStale(p) \/ LockReclaim(p) \/ LockRefused(p)
           \/ Close(p) \/ Crash(p) \/ ResumeFails(p) \/ (\E t \in Threads : RequestFork(p, t))
  BY <1>4 DEF ResumeStart, LockCreate, LockWrite, LockStale,
     LockReclaim, LockRefused, Close, Crash, ResumeFails, RequestFork, files
<1>5. CASE \/ InitializeDone(p) \/ InitializeFails(p) \/ AppendRecords(p) \/ AppendDone(p)
           \/ AppendFails(p) \/ Resume(p)
  BY <1>5 DEF InitializeDone, InitializeFails, AppendRecords, AppendDone, AppendFails, Resume
<1>6. CASE StoreResult(p) \/ StoreRecord(p) \/ StoreDone(p) \/ StoreFails(p)
  BY <1>6 DEF StoreResult, StoreRecord, StoreDone, StoreFails
<1> QED
  BY <1>1, <1>2, <1>3, <1>4, <1>5, <1>6 DEF Quiet

LEMMA QuietForks ==
  ASSUME LockInv, NEW p \in Pids, Quiet(p)
  PROVE  used'.forks \in Nat /\ used'.forks >= used.forks
<1>s. used \in [records : Nat, stored : Nat, faults : Nat, forks : Nat]
  BY DEF LockInv, Shaped
<1>1. CASE ForkStart(p)
  <2>1. used' = [used EXCEPT !.forks = @ + 1]
    BY <1>1 DEF ForkStart
  <2> QED
    BY <1>s, <2>1
<1>2. CASE ~ForkStart(p)
  <2>1. \/ used' = used
        \/ used' = [used EXCEPT !.records = @ + 1]
        \/ used' = [used EXCEPT !.stored = @ + 1]
        \/ used' = [used EXCEPT !.faults = @ + 1]
    <3>1. CASE \/ CreateNamed(p) \/ (\E r \in Sessions : ResumeStart(p, r))
               \/ LockCreate(p) \/ LockWrite(p) \/ LockStale(p) \/ LockReclaim(p)
               \/ LockRefused(p) \/ Close(p) \/ Crash(p) \/ ResumeFails(p)
               \/ (\E t \in Threads : RequestFork(p, t))
      BY <3>1 DEF CreateNamed, ResumeStart, LockCreate, LockWrite, LockStale,
         LockReclaim, LockRefused, Close, Crash, ResumeFails, RequestFork
    <3>2. CASE \/ Initialize(p) \/ InitializeDone(p) \/ InitializeFails(p)
               \/ AppendRecords(p) \/ AppendDone(p) \/ AppendFails(p) \/ Resume(p)
      BY <3>2 DEF Initialize, InitializeDone, InitializeFails, AppendRecords, AppendDone,
         AppendFails, Resume
    <3>3. CASE StoreResult(p) \/ StoreRecord(p) \/ StoreDone(p) \/ StoreFails(p)
      BY <3>3 DEF StoreResult, StoreRecord, StoreDone, StoreFails
    <3> QED
      BY <1>2, <3>1, <3>2, <3>3 DEF Quiet
  <2>2. used'.forks = used.forks
    BY <1>s, <2>1, Spent
  <2> QED
    BY <1>s, <2>2
<1> QED
  BY <1>1, <1>2

\* A process that makes a fork takes none of these steps, but may crash.
LEMMA QuietUnforked ==
  ASSUME LockInv, FilesInv, NEW p \in Pids, Quiet(p)
  PROVE  Crash(p) \/ proc[p].f = None
<1>1. Phase(p)
  BY DEF LockInv, PhaseInv
<1>2. Alive(p) => Place(proc[p])
  BY DEF FilesInv, Each
<1>3. proc[p].f # None => /\ proc[p].goal = "fork"
                          /\ proc[p].pc \in {"write", "indexing", "operation"}
  BY <1>1, <1>2 DEF Phase, Place
<1>4. CASE \/ CreateNamed(p) \/ ForkStart(p) \/ (\E r \in Sessions : ResumeStart(p, r))
           \/ LockCreate(p) \/ LockWrite(p) \/ LockStale(p) \/ LockReclaim(p) \/ LockRefused(p)
           \/ Close(p) \/ ResumeFails(p) \/ (\E t \in Threads : RequestFork(p, t))
  BY <1>3, <1>4 DEF CreateNamed, ForkStart, ResumeStart, MayOpen, LockCreate, LockWrite,
     LockStale, LockReclaim, LockRefused, Close, ResumeFails, RequestFork, MayFork, At
<1>5. CASE \/ Initialize(p) \/ AppendRecords(p) \/ Resume(p) \/ StoreResult(p) \/ StoreRecord(p)
  BY <1>3, <1>5 DEF Initialize, AppendRecords, Resume, StoreResult, StoreRecord, At
<1>6. CASE InitializeDone(p) \/ InitializeFails(p)
  <2>1. proc[p].goal # "fork"
    BY <1>1, <1>6 DEF InitializeDone, InitializeFails, At, Phase
  <2> QED
    BY <1>3, <2>1
<1>7. CASE AppendDone(p) \/ AppendFails(p) \/ StoreDone(p) \/ StoreFails(p)
  <2>1. \/ proc[p].pc = "sidecar"
        \/ proc[p].pc = "write" /\ proc[p].app.purpose \in {"record", "result"}
    BY <1>7 DEF AppendDone, AppendFails, StoreDone, StoreFails, At
  <2>2. proc[p].goal = None
    BY <1>1, <2>1 DEF Phase
  <2> QED
    BY <1>3, <2>2 DEF None
<1> QED
  BY <1>4, <1>5, <1>6, <1>7 DEF Quiet

LEMMA QuietIndex ==
  ASSUME LockInv, FilesInv, IndexInv, FilesInv', NEW p \in Pids, Quiet(p)
  PROVE  IndexInv'
<1>1. /\ Only(p) /\ UNCHANGED <<index, answers, lapsed>>
      /\ proc'[p].f = proc[p].f \/ ~Alive(p)' \/ proc'[p].f = None
  BY QuietMoves
<1>2. Alive(p)' => proc'[p].f = None
  <2>1. CASE Crash(p)
    <3>1. proc' = [proc EXCEPT ![p] = [NoProcess EXCEPT !.pc = "dead"]]
      BY <2>1 DEF Crash
    <3>2. proc'[p] = [NoProcess EXCEPT !.pc = "dead"]
      BY <3>1, DeadFacts DEF LockInv
    <3>3. [NoProcess EXCEPT !.pc = "dead"].pc = "dead"
      BY DEF NoProcess
    <3> QED
      BY <3>2, <3>3 DEF Alive
  <2>2. CASE proc[p].f = None
    BY <1>1, <2>2
  <2> QED
    BY <2>1, <2>2, QuietUnforked
<1>3. ASSUME Alive(p)'
      PROVE  Indexed(proc'[p])
  <2>1. Place(proc'[p]) /\ proc'[p].f = None
    BY <1>2, <1>3 DEF FilesInv, Each
  <2>2. PICK y : y = proc'[p]
    OBVIOUS
  <2>3. Indexed(y)
    BY <2>1, <2>2 DEF Place, Indexed
  <2> QED
    BY <2>2, <2>3
<1>4. \A s \in Sessions : acked[s] # {} => acked'[s] # {}
  BY QuietAcks
<1>5. \A s \in Sessions : dir[s] = "absent" =>
        dir'[s] = "absent" \/ \A t \in Threads : index[t] # s
  BY QuietDirs
<1>6. used'.forks \in Nat /\ used'.forks >= used.forks
  BY QuietForks
<1>7. None \notin Sessions
  BY Names
<1> QED
  BY <1>1, <1>2, <1>3, <1>4, <1>5, <1>6, <1>7, IndexStep

\* Whoever has the lock of forks is the only one that makes a fork.
LEMMA ForksAlone ==
  ASSUME LockInv, NEW p \in Pids, Alive(p), proc[p].goal = "fork", proc[p].pc \notin Contending,
         NEW q \in Pids, q # p, Alive(q)
  PROVE  /\ proc[q].f = None
         /\ ~(proc[q].goal = "fork" /\ proc[q].pc \in {"write", "indexing", "operation"})
<1>1. lock[ForkLock] = p
  BY DEF LockInv, HolderInv
<1>2. proc[q].goal = "fork" => proc[q].pc \in Contending
  BY <1>1 DEF LockInv, HolderInv
<1>3. proc[q].f # None => proc[q].goal = "fork" /\ proc[q].pc \notin Contending
  BY DEF LockInv, HolderInv
<1> QED
  BY <1>2, <1>3 DEF Contending

\* A step of the process that has the lock of forks
LEMMA ForkStep ==
  ASSUME LockInv, IndexInv, NEW p \in Pids, Only(p), Alive(p),
         proc[p].goal = "fork", proc[p].pc \notin Contending,
         IndexTyped', Named', Agreed', Unindexed',
         \A t \in Threads : \A f \in answers'[t] :
           f # Main /\ acked'[f] # {} /\ (Alive(p)' => proc'[p].f # f),
         Alive(p)' => Indexed(proc[p])'
  PROVE  IndexInv'
<1>0. None \notin Sessions /\ PhaseInv
  BY Names DEF LockInv
<1>1. \A q \in Pids : q # p => proc'[q] = proc[q] /\ (Alive(q)' <=> Alive(q))
  BY DEF Only, Alive
<1>2. \A q \in Pids : q # p /\ Alive(q)' =>
        /\ proc'[q].f = None
        /\ ~(proc'[q].goal = "fork" /\ proc'[q].pc \in {"write", "indexing", "operation"})
        /\ proc'[q].pc # "operation"
  <2> SUFFICES ASSUME NEW q \in Pids, q # p, Alive(q)'
               PROVE  /\ proc'[q].f = None
                      /\ ~(proc'[q].goal = "fork" /\ proc'[q].pc \in {"write", "indexing", "operation"})
                      /\ proc'[q].pc # "operation"
    OBVIOUS
  <2>1. proc'[q] = proc[q] /\ Alive(q)
    BY <1>1
  <2>2. /\ proc[q].f = None
        /\ ~(proc[q].goal = "fork" /\ proc[q].pc \in {"write", "indexing", "operation"})
    BY <2>1, ForksAlone
  <2>3. proc[q].pc = "operation" => proc[q].goal = "fork"
    BY <1>0 DEF PhaseInv, Phase
  <2> QED
    BY <2>1, <2>2, <2>3
<1>3. Given'
  <2> SUFFICES ASSUME NEW t \in Threads, NEW f \in answers'[t]
               PROVE  /\ f # Main /\ acked'[f] # {}
                      /\ \A q \in Pids : Alive(q)' => proc'[q].f # f
    BY DEF Given
  <2>1. f \in Sessions
    BY DEF IndexTyped
  <2>2. ASSUME NEW q \in Pids, Alive(q)'
        PROVE  proc'[q].f # f
    <3>1. CASE q = p
      BY <2>2, <3>1
    <3>2. CASE q # p
      BY <1>0, <1>2, <2>1, <2>2, <3>2
    <3> QED
      BY <3>1, <3>2
  <2> QED
    BY <2>2
<1>4. Indexing'
  <2> SUFFICES ASSUME NEW q \in Pids, Alive(q)'
               PROVE  Indexed(proc[q])'
    BY DEF Indexing
  <2>1. CASE q = p
    BY <2>1
  <2>2. CASE q # p
    BY <1>2, <2>2 DEF Indexed
  <2> QED
    BY <2>1, <2>2
<1> QED
  BY <1>3, <1>4 DEF IndexInv

LEMMA ForkWrittenIndex ==
  ASSUME LockInv, FilesInv, IndexInv, NEW p \in Pids, ForkWritten(p)
  PROVE  IndexInv'
<1>0. /\ proc[p].pc = "write" /\ proc[p].app.purpose = "fork" /\ Written(p)
      /\ Go(p, "indexing") /\ UNCHANGED <<dir, used, index, answers, lapsed>>
  BY DEF ForkWritten, At
<1>g. Only(p) /\ Stays(p) /\ More(p) /\ proc'[p].pc = "indexing"
  BY <1>0, GoFacts DEF LockInv
<1>1. Alive(p) /\ proc[p].goal = "fork" /\ proc[p].pc \notin Contending
  BY <1>0 DEF Alive, LockInv, PhaseInv, Phase, Contending
<1>2. IndexTyped /\ Named /\ Given /\ Agreed /\ Unindexed /\ Indexed(proc[p])
  BY <1>1 DEF IndexInv, Indexing
<1>3. \A s \in Sessions : acked[s] # {} => acked'[s] # {}
  BY <1>0, WrittenAcks DEF FilesInv
<1>4. IndexTyped' /\ Agreed' /\ Unindexed'
  BY <1>0, <1>2 DEF IndexTyped, Agreed, Unindexed
<1>5. Named'
  <2> SUFFICES ASSUME NEW t \in Threads, index[t] # None
               PROVE  index[t] # Main /\ (acked'[index[t]] # {} \/ dir'[index[t]] = "absent")
    BY <1>0 DEF Named
  <2>1. index[t] \in Sessions /\ index[t] # Main
        /\ (acked[index[t]] # {} \/ dir[index[t]] = "absent")
    BY <1>2 DEF IndexTyped, Named
  <2> QED
    BY <1>0, <1>3, <2>1
<1>6. \A t \in Threads : \A f \in answers'[t] :
        f # Main /\ acked'[f] # {} /\ (Alive(p)' => proc'[p].f # f)
  <2> SUFFICES ASSUME NEW t \in Threads, NEW f \in answers[t]
               PROVE  f # Main /\ acked'[f] # {} /\ proc'[p].f # f
    BY <1>0
  <2>1. f \in Sessions /\ f # Main /\ acked[f] # {} /\ proc[p].f # f
    BY <1>1, <1>2 DEF IndexTyped, Given
  <2> QED
    BY <1>3, <1>g, <2>1 DEF Stays
<1>7. Indexed(proc[p])'
  BY <1>0, <1>1, <1>2, <1>g DEF Indexed, Stays, More
<1> QED
  BY <1>1, <1>4, <1>5, <1>6, <1>7, <1>g, ForkStep

LEMMA IndexForkIndex ==
  ASSUME LockInv, FilesInv, IndexInv, NEW p \in Pids, IndexFork(p)
  PROVE  IndexInv'
<1>0. /\ proc[p].pc = "indexing" /\ Go(p, "operation") /\ UNCHANGED <<dir, acked, answers>>
      /\ \/ /\ index' = [index EXCEPT ![proc[p].t] = proc[p].f]
            /\ UNCHANGED <<used, lapsed>>
         \/ /\ used' = [used EXCEPT !.faults = @ + 1]
            /\ lapsed' = lapsed \cup {proc[p].t}
            /\ UNCHANGED index
  BY DEF IndexFork, At
<1>g. Only(p) /\ Stays(p) /\ More(p) /\ proc'[p].pc = "operation"
  BY <1>0, GoFacts DEF LockInv
<1>1. Alive(p) /\ proc[p].goal = "fork" /\ proc[p].pc \notin Contending
  BY <1>0 DEF Alive, LockInv, PhaseInv, Phase, Contending
<1>2. /\ IndexTyped /\ Named /\ Given /\ Agreed /\ Unindexed /\ Indexed(proc[p])
      /\ used \in [records : Nat, stored : Nat, faults : Nat, forks : Nat]
      /\ UnusedInv /\ Len(Spare) \in Nat
  BY <1>1, Names DEF IndexInv, Indexing, LockInv, Shaped
<1>3. PICK f, t : f = proc[p].f /\ t = proc[p].t
  OBVIOUS
<1>p. Place(proc[p]) /\ Files(proc[p])
  BY <1>1, EachFacts
<1>q. f # None
  BY <1>0, <1>1, <1>3, <1>p DEF Place
<1>4. f \in Sessions /\ f # Main /\ t \in Threads
  BY <1>1, <1>3, <1>q, Forking
<1>5. acked[f] # {}
  BY <1>0, <1>3, <1>p DEF Files, ForkFiles
<1>6. index[t] = None
  BY <1>0, <1>1, <1>2, <1>3 DEF Indexed
<1>7. used'.forks = used.forks
  BY <1>0, <1>2, Spent
<1>8. /\ \A r \in Threads : r # t => index'[r] = index[r]
      /\ \/ index'[t] = f /\ lapsed' = lapsed
         \/ index' = index /\ lapsed' = lapsed \cup {t}
  BY <1>0, <1>2, <1>3, <1>4 DEF IndexTyped
<1>9. IndexTyped'
  BY <1>0, <1>2, <1>3, <1>4 DEF IndexTyped
<1>10. Named'
  <2> SUFFICES ASSUME NEW r \in Threads, index'[r] # None
               PROVE  index'[r] # Main /\ (acked[index'[r]] # {} \/ dir[index'[r]] = "absent")
    BY <1>0 DEF Named
  <2>1. index'[r] = index[r] \/ index'[r] = f
    BY <1>8
  <2> QED
    BY <1>2, <1>4, <1>5, <2>1 DEF Named
<1>11. Agreed'
  <2> SUFFICES ASSUME NEW r \in Threads \ lapsed'
               PROVE  answers[r] \subseteq {index'[r]}
    BY <1>0 DEF Agreed
  <2>1. r \in Threads \ lapsed
    BY <1>8
  <2>2. answers[r] \subseteq {index[r]}
    BY <1>2, <2>1 DEF Agreed
  <2>3. CASE r # t
    BY <1>8, <2>2, <2>3
  <2>4. CASE r = t
    <3>1. answers[r] \subseteq Sessions /\ None \notin Sessions
      BY <1>2, Names DEF IndexTyped
    <3>2. answers[r] = {}
      BY <1>6, <2>2, <2>4, <3>1
    <3> QED
      BY <3>2
  <2> QED
    BY <2>3, <2>4
<1>12. Unindexed'
  <2> SUFFICES ASSUME NEW i \in (used.forks + 1) .. Len(Spare), NEW r \in Threads
               PROVE  index'[r] # Spare[i]
    BY <1>7 DEF Unindexed
  <2>1. index[r] # Spare[i]
    BY <1>2 DEF Unindexed
  <2>2. f # Spare[i]
    BY <1>2, <1>3 DEF UnusedInv
  <2> QED
    BY <1>8, <2>1, <2>2
<1>13. \A r \in Threads : \A g \in answers'[r] :
         g # Main /\ acked'[g] # {} /\ (Alive(p)' => proc'[p].f # g)
  BY <1>0, <1>1, <1>2, <1>g DEF Given, Stays
<1>14. Indexed(proc[p])'
  <2>1. index'[t] = f \/ t \in lapsed'
    BY <1>8
  <2> QED
    BY <1>3, <1>g, <2>1 DEF Indexed, Stays, More
<1> QED
  BY <1>1, <1>9, <1>10, <1>11, <1>12, <1>13, <1>14, <1>g, ForkStep

\* A caller that forks is answered, with a Session or an error.
LEMMA AnswerIndex ==
  ASSUME LockInv, FilesInv, IndexInv, NEW p \in Pids, Alive(p),
         proc[p].goal = "fork", proc[p].pc \notin Contending,
         NEW f, NEW b \in BOOLEAN, Answered(p, f, b),
         UNCHANGED <<index, lapsed>>, used'.forks = used.forks,
         b => /\ f \in Sessions /\ f # Main /\ acked'[f] # {}
              /\ index[proc[p].t] = f \/ proc[p].t \in lapsed,
         \A s \in Sessions : acked[s] # {} =>
           acked'[s] # {} \/ (s = proc[p].f /\ dir'[s] = "absent"),
         \A s \in Sessions : dir[s] = "absent" => dir'[s] = "absent"
  PROVE  IndexInv'
<1>1. Only(p) /\ proc'[p].pc = "open" /\ proc'[p].goal = None /\ proc'[p].f = None
  BY AnsweredFacts DEF LockInv
<1>2. PICK t : t = proc[p].t
  OBVIOUS
<1>3. /\ IndexTyped /\ Named /\ Given /\ Agreed /\ Unindexed /\ None \notin Sessions
  BY Names DEF IndexInv
<1>4. answers' = IF b THEN [answers EXCEPT ![t] = answers[t] \cup {f}] ELSE answers
  BY <1>2, Zenon DEF Answered
<1>5. t \in Threads
  BY <1>2, Forking
<1>6. \A r \in Threads : answers'[r] = IF b /\ r = t THEN answers[r] \cup {f} ELSE answers[r]
  BY <1>3, <1>4, <1>5 DEF IndexTyped
<1>7. IndexTyped'
  <2>1. CASE b
    <3>1. answers[t] \cup {f} \in SUBSET Sessions
      BY <1>3, <1>5, <2>1 DEF IndexTyped
    <3> QED
      BY <1>3, <1>4, <2>1, <3>1 DEF IndexTyped
  <2>2. CASE ~b
    BY <1>3, <1>4, <2>2 DEF IndexTyped
  <2> QED
    BY <2>1, <2>2
<1>8. Named'
  <2> SUFFICES ASSUME NEW r \in Threads, index[r] # None
               PROVE  index[r] # Main /\ (acked'[index[r]] # {} \/ dir'[index[r]] = "absent")
    BY DEF Named
  <2>1. /\ index[r] \in Sessions /\ index[r] # Main
        /\ (acked[index[r]] # {} \/ dir[index[r]] = "absent")
    BY <1>3 DEF IndexTyped, Named
  <2> QED
    BY <2>1
<1>9. Agreed'
  <2> SUFFICES ASSUME NEW r \in Threads \ lapsed
               PROVE  answers'[r] \subseteq {index[r]}
    BY DEF Agreed
  <2>1. answers[r] \subseteq {index[r]}
    BY <1>3 DEF Agreed
  <2>2. b /\ r = t => index[r] = f
    BY <1>2
  <2> QED
    BY <1>6, <2>1, <2>2
<1>10. Unindexed'
  BY <1>3 DEF Unindexed
<1>11. \A r \in Threads : \A g \in answers'[r] :
         g # Main /\ acked'[g] # {} /\ (Alive(p)' => proc'[p].f # g)
  <2> SUFFICES ASSUME NEW r \in Threads, NEW g \in answers'[r]
               PROVE  g # Main /\ acked'[g] # {} /\ proc'[p].f # g
    OBVIOUS
  <2>1. g \in answers[r] \/ (b /\ g = f)
    BY <1>6
  <2>2. CASE b /\ g = f
    BY <1>1, <1>3, <2>2
  <2>3. CASE g \in answers[r]
    <3>1. g \in Sessions /\ g # Main /\ acked[g] # {} /\ proc[p].f # g
      BY <1>3, <2>3 DEF IndexTyped, Given
    <3> QED
      BY <1>1, <1>3, <3>1
  <2> QED
    BY <2>1, <2>2, <2>3
<1>12. Indexed(proc[p])'
  BY <1>1 DEF Indexed
<1> QED
  BY <1>1, <1>7, <1>8, <1>9, <1>10, <1>11, <1>12, ForkStep

LEMMA ForkOperationIndex ==
  ASSUME LockInv, FilesInv, IndexInv, NEW p \in Pids, ForkOperation(p)
  PROVE  IndexInv'
<1>1. PICK f : f = proc[p].f
  OBVIOUS
<1>2. /\ proc[p].pc = "operation" /\ UNCHANGED <<dir, index, used, lapsed>>
      /\ Answered(p, f, TRUE)
  BY <1>1 DEF ForkOperation, At
<1>3. \E A : A # {} /\ acked' = [acked EXCEPT ![f] = acked[f] \cup A]
  BY <1>1 DEF ForkOperation
<1>4. Alive(p) /\ proc[p].goal = "fork" /\ proc[p].pc \notin Contending
  BY <1>2 DEF Alive, LockInv, PhaseInv, Phase, Contending
<1>5. Place(proc[p]) /\ Indexed(proc[p]) /\ acked \in [Sessions -> SUBSET LineType]
  BY <1>4, EachFacts DEF IndexInv, Indexing, FilesInv, FilesTyped
<1>6. f # None
  BY <1>1, <1>2, <1>4, <1>5 DEF Place
<1>7. f \in Sessions /\ f # Main
  BY <1>1, <1>4, <1>6, Forking
<1>8. acked'[f] # {} /\ \A s \in Sessions : acked[s] # {} => acked'[s] # {}
  BY <1>3, <1>5, <1>7
<1>9. index[proc[p].t] = f \/ proc[p].t \in lapsed
  BY <1>1, <1>2, <1>5 DEF Indexed
<1>10. used'.forks = used.forks /\ UNCHANGED <<index, lapsed>> /\ TRUE \in BOOLEAN
       /\ \A s \in Sessions : dir[s] = "absent" => dir'[s] = "absent"
  BY <1>2
<1> QED
  BY <1>2, <1>4, <1>7, <1>8, <1>9, <1>10, AnswerIndex

LEMMA ForkFailsIndex ==
  ASSUME LockInv, FilesInv, IndexInv, NEW p \in Pids, ForkFails(p)
  PROVE  IndexInv'
<1>1. PICK f : f = proc[p].f
  OBVIOUS
<1>2. /\ \/ proc[p].pc = "operation"
         \/ proc[p].pc = "write" /\ proc[p].app.purpose = "fork"
      /\ UNCHANGED <<index, lapsed>> /\ used' = [used EXCEPT !.faults = @ + 1]
      /\ dir' = [dir EXCEPT ![f] = "absent"] /\ acked' = [acked EXCEPT ![f] = {}]
      /\ Answered(p, f, FALSE)
  BY <1>1 DEF ForkFails, At
<1>3. Alive(p) /\ proc[p].goal = "fork" /\ proc[p].pc \notin Contending
  BY <1>2 DEF Alive, LockInv, PhaseInv, Phase, Contending
<1>4. /\ acked \in [Sessions -> SUBSET LineType] /\ dir = [s \in Sessions |-> dir[s]]
      /\ used \in [records : Nat, stored : Nat, faults : Nat, forks : Nat]
  BY DEF FilesInv, FilesTyped, LockInv, Shaped
<1>5. used'.forks = used.forks
  BY <1>2, <1>4, Spent
<1>6. /\ \A s \in Sessions : acked[s] # {} => acked'[s] # {} \/ (s = f /\ dir'[s] = "absent")
      /\ \A s \in Sessions : dir[s] = "absent" => dir'[s] = "absent"
  BY <1>2, <1>4
<1>7. FALSE \in BOOLEAN
  OBVIOUS
<1> QED
  BY <1>1, <1>2, <1>3, <1>5, <1>6, <1>7, AnswerIndex

LEMMA ExistingForkIndex ==
  ASSUME LockInv, FilesInv, IndexInv, NEW p \in Pids, ExistingFork(p)
  PROVE  IndexInv'
<1>1. PICK f : f = index[proc[p].t]
  OBVIOUS
<1>2. PICK b \in BOOLEAN : b <=> (dir[f] = "file" /\ log[f] # <<>> /\ log[f][1] = ForkHeader)
  OBVIOUS
<1>3. /\ proc[p].pc = "locked" /\ proc[p].goal = "fork" /\ f # None
      /\ UNCHANGED <<dir, index, used, acked, lapsed>>
  BY <1>1 DEF ExistingFork, At, files, FoundFork
<1>a. Answered(p, f, dir[f] = "file" /\ log[f] # <<>> /\ log[f][1] = ForkHeader)
  BY <1>1, Zenon DEF ExistingFork, FoundFork
<1>b. Answered(p, f, b)
  BY <1>2, <1>a DEF Answered
<1>4. Alive(p) /\ proc[p].pc \notin Contending
  BY <1>3 DEF Alive, Contending
<1>5. proc[p].t \in Threads
  BY <1>3, <1>4, Forking
<1>6. f \in Sessions /\ f # Main /\ (acked[f] # {} \/ dir[f] = "absent")
  BY <1>1, <1>3, <1>5 DEF IndexInv, IndexTyped, Named
<1>7. b => /\ f \in Sessions /\ f # Main /\ acked'[f] # {}
           /\ index[proc[p].t] = f \/ proc[p].t \in lapsed
  BY <1>1, <1>2, <1>3, <1>6
<1>8. /\ used'.forks = used.forks /\ UNCHANGED <<index, lapsed>>
      /\ \A s \in Sessions : acked[s] # {} => acked'[s] # {} \/ (s = proc[p].f /\ dir'[s] = "absent")
      /\ \A s \in Sessions : dir[s] = "absent" => dir'[s] = "absent"
  BY <1>3
<1> QED
  BY <1>3, <1>4, <1>7, <1>8, <1>b, AnswerIndex

LEMMA CreateForkIndex ==
  ASSUME LockInv, FilesInv, IndexInv, NEW p \in Pids, CreateFork(p)
  PROVE  IndexInv'
<1>1. PICK n : n = used.forks + 1
  OBVIOUS
<1>2. PICK f : f = Spare[n]
  OBVIOUS
<1>3. /\ Shaped /\ UnusedInv /\ Len(Spare) \in Nat /\ None \notin Sessions
      /\ used \in [records : Nat, stored : Nat, faults : Nat, forks : Nat]
  BY Names DEF LockInv, Shaped
<1>4. /\ proc[p].pc = "locked" /\ proc[p].goal = "fork" /\ used.forks < Len(Spare)
      /\ dir' = [dir EXCEPT ![f] = "file"] /\ used' = [used EXCEPT !.forks = @ + 1]
      /\ Only(p) /\ proc'[p].f = f /\ proc'[p].goal = "fork"
  BY <1>1, <1>2, <1>3, CreateForkFacts
<1>5. /\ UNCHANGED <<index, acked, answers, lapsed>> /\ index[proc[p].t] = None
  BY DEF CreateFork, ghosts, FoundFork
<1>t. proc'[p].t = proc[p].t
  <2> DEFINE App(j) == [purpose |-> "fork", s |-> f, from |-> 0, mid |-> FALSE,
                        rest |-> SubSeq(<<ForkHeader, Line(2, "checkpoint", 0)>>, j + 1, 2),
                        v |-> 0]
  <2>1. PICK j \in 0 .. 1 : proc' = [proc EXCEPT ![p].pc = "write", ![p].f = f, ![p].app = App(j)]
    BY <1>1, <1>2, Zenon DEF CreateFork
  <2> DEFINE a == App(j)
  <2>2. proc' = [proc EXCEPT ![p].pc = "write", ![p].f = f, ![p].app = a]
    BY <2>1
  <2> HIDE DEF a, App
  <2>3. proc'[p].t = proc[p].t
    BY <1>3, <2>2 DEF Shaped, Fields
  <2> QED
    BY <2>3
<1>6. Alive(p) /\ proc[p].pc \notin Contending
  BY <1>4 DEF Alive, Contending
<1>7. n \in (used.forks + 1) .. Len(Spare) /\ n \in 1 .. Len(Spare) /\ used'.forks = n
  BY <1>1, <1>3, <1>4
<1>8. f \in Sessions /\ f # Main /\ dir[f] = "absent"
  BY <1>2, <1>3, <1>7, Names DEF UnusedInv
<1>9. acked[f] = {} /\ \A r \in Threads : index[r] # f
  BY <1>2, <1>7, <1>8 DEF FilesInv, Absent, Blank, IndexInv, Unindexed
<1>10. /\ IndexTyped /\ Named /\ Given /\ Agreed /\ Unindexed
  BY DEF IndexInv
<1>11. IndexTyped' /\ Agreed'
  BY <1>5, <1>10 DEF IndexTyped, Agreed
<1>12. Named'
  <2> SUFFICES ASSUME NEW r \in Threads, index[r] # None
               PROVE  index[r] # Main /\ (acked[index[r]] # {} \/ dir'[index[r]] = "absent")
    BY <1>5 DEF Named
  <2>1. /\ index[r] \in Sessions /\ index[r] # Main /\ index[r] # f
        /\ (acked[index[r]] # {} \/ dir[index[r]] = "absent")
    BY <1>9, <1>10 DEF IndexTyped, Named
  <2>2. dir'[index[r]] = dir[index[r]]
    BY <1>3, <1>4, <2>1 DEF Shaped
  <2> QED
    BY <2>1, <2>2
<1>13. Unindexed'
  <2> SUFFICES ASSUME NEW i \in (n + 1) .. Len(Spare), NEW r \in Threads
               PROVE  index[r] # Spare[i]
    BY <1>5, <1>7 DEF Unindexed
  <2>1. i \in (used.forks + 1) .. Len(Spare)
    BY <1>1, <1>3
  <2> QED
    BY <1>10, <2>1 DEF Unindexed
<1>14. \A r \in Threads : \A g \in answers'[r] :
         g # Main /\ acked'[g] # {} /\ (Alive(p)' => proc'[p].f # g)
  <2> SUFFICES ASSUME NEW r \in Threads, NEW g \in answers[r]
               PROVE  g # Main /\ acked[g] # {} /\ f # g
    BY <1>4, <1>5
  <2> QED
    BY <1>9, <1>10 DEF Given
<1>15. Indexed(proc[p])'
  <2>1. proc'[p].pc = "write"
    BY <1>3, CreateForkFacts
  <2> QED
    BY <1>5, <1>t, <2>1 DEF Indexed
<1> QED
  BY <1>4, <1>6, <1>11, <1>12, <1>13, <1>14, <1>15, ForkStep

LEMMA IndexInit == Init => IndexInv
<1> SUFFICES ASSUME Init
             PROVE  IndexInv
  OBVIOUS
<1>1. /\ \A t \in Threads : index[t] = None /\ answers[t] = {}
      /\ \A p \in Pids : ~Alive(p)
      /\ \A i \in 1 .. Len(Spare) : Spare[i] # None
      /\ used.forks = 0 /\ Len(Spare) \in Nat
  BY Names DEF Init, NoProcess, Alive
<1>2. IndexTyped
  BY DEF Init, IndexTyped
<1>3. Named /\ Given /\ Agreed /\ Indexing
  BY <1>1 DEF Named, Given, Agreed, Indexing
<1>4. Unindexed
  BY <1>1 DEF Unindexed
<1> QED
  BY <1>2, <1>3, <1>4 DEF IndexInv

\* A step that changes neither processes nor forks
LEMMA AsideIndex ==
  ASSUME IndexInv, UNCHANGED <<dir, index, proc, acked, answers, lapsed>>,
         used'.forks = used.forks
  PROVE  IndexInv'
<1>1. IndexTyped' /\ Named' /\ Agreed' /\ Unindexed'
  BY DEF IndexInv, IndexTyped, Named, Agreed, Unindexed
<1>2. Given'
  BY DEF IndexInv, Given, Alive
<1>3. Indexing'
  BY DEF IndexInv, Indexing, Indexed, Alive
<1> QED
  BY <1>1, <1>2, <1>3 DEF IndexInv

LEMMA IndexNext ==
  ASSUME LockInv, FilesInv, FilesInv', IndexInv, [Next]_vars
  PROVE  IndexInv'
<1>s. used \in [records : Nat, stored : Nat, faults : Nat, forks : Nat]
  BY DEF LockInv, Shaped
<1>1. ASSUME NEW p \in Pids, Process(p)
      PROVE  IndexInv'
  <2>1. CASE Quiet(p)
    BY <2>1, QuietIndex
  <2>2. CASE ExistingFork(p)
    BY <2>2, ExistingForkIndex
  <2>3. CASE CreateFork(p)
    BY <2>3, CreateForkIndex
  <2>4. CASE ForkWritten(p)
    BY <2>4, ForkWrittenIndex
  <2>5. CASE IndexFork(p)
    BY <2>5, IndexForkIndex
  <2>6. CASE ForkOperation(p)
    BY <2>6, ForkOperationIndex
  <2>7. CASE ForkFails(p)
    BY <2>7, ForkFailsIndex
  <2> QED
    BY <1>1, <2>1, <2>2, <2>3, <2>4, <2>5, <2>6, <2>7, Zenon DEF Process, Quiet
<1>2. CASE \E s \in Sessions : RepairRead(s)
  <2>1. UNCHANGED <<dir, index, proc, acked, answers, lapsed, used>>
    BY <1>2 DEF RepairRead, files, ghosts
  <2> QED
    BY <2>1, AsideIndex
<1>3. CASE RepairTruncate
  <2>1. /\ UNCHANGED <<dir, index, proc, acked, answers, lapsed>>
        /\ used' = used \/ used' = [used EXCEPT !.faults = @ + 1]
    BY <1>3 DEF RepairTruncate, ghosts
  <2>2. used'.forks = used.forks
    BY <1>s, <2>1, Spent
  <2> QED
    BY <2>1, <2>2, AsideIndex
<1>4. CASE RepairStops
  <2>1. /\ UNCHANGED <<dir, index, proc, acked, answers, lapsed>>
        /\ used' = used \/ used' = [used EXCEPT !.faults = @ + 1]
    BY <1>4 DEF RepairStops, files, ghosts
  <2>2. used'.forks = used.forks
    BY <1>s, <2>1, Spent
  <2> QED
    BY <2>1, <2>2, AsideIndex
<1>5. CASE UNCHANGED vars
  BY <1>5, AsideIndex DEF vars
<1> QED
  BY <1>1, <1>2, <1>3, <1>4, <1>5 DEF Next

\* Whoever was given a fork of the same child Thread was given the indexed one.
LEMMA IndexAgrees ==
  ASSUME FilesInv, IndexInv
  PROVE  ForkAgrees
<1> SUFFICES ASSUME NEW t \in Threads \ lapsed
             PROVE  /\ Cardinality(answers[t]) <= 1
                    /\ \A f \in answers[t] : Loads(f) /\ index[t] = f
  BY DEF ForkAgrees
<1>1. answers[t] \subseteq {index[t]}
  BY DEF IndexInv, Agreed
<1>2. Cardinality(answers[t]) <= 1
  <2>1. IsFiniteSet({index[t]}) /\ Cardinality({index[t]}) = 1
    BY FS_Singleton
  <2>2. Cardinality(answers[t]) <= Cardinality({index[t]})
    BY <1>1, <2>1, FS_Subset
  <2> QED
    BY <2>1, <2>2
<1>3. ASSUME NEW f \in answers[t]
      PROVE  Loads(f) /\ index[t] = f
  <2>1. f \in Sessions /\ f # Main /\ acked[f] # {}
    BY <1>3 DEF IndexInv, IndexTyped, Given
  <2>2. f \notin spoiled
    BY <2>1 DEF FilesInv, FilesTyped
  <2>3. Loads(f)
    BY <2>1, <2>2, FilesKeep DEF AcknowledgedKept
  <2> QED
    BY <1>1, <1>3, <2>3
<1> QED
  BY <1>2, <1>3

\* Every reachable state satisfies the inductive invariant of the thread index,
\* under the same assumptions (update_thread_index, existing_fork).
THEOREM IndexInvariant ==
  ASSUME ~ReclaimRaces, DoctorAlone
  PROVE  Spec => []IndexInv
<1>1. Init => LockInv /\ FilesInv /\ IndexInv
  BY LockInit, FilesInit, IndexInit
<1>2. LockInv /\ FilesInv /\ IndexInv /\ [Next]_vars => LockInv' /\ FilesInv' /\ IndexInv'
  BY LockStep, FilesNext, IndexNext
<1> QED
  BY <1>1, <1>2, PTL DEF Spec

\* Every caller that forks the same child Thread, again after a crash or an
\* error included, is given the same Session, and it loads
\* (fork_from_checkpoint_with_operation, existing_fork).
THEOREM ForksAgree ==
  ASSUME ~ReclaimRaces, DoctorAlone
  PROVE  Spec => []ForkAgrees
<1>1. FilesInv /\ IndexInv => ForkAgrees
  BY IndexAgrees
<1> QED
  BY <1>1, FilesInvariant, IndexInvariant, PTL

-----------------------------------------------------------------------------
(* Stored results *)

ResultType == [h : Nat, c : Nat]

\* The records of results in a log
Records(l) == {i \in 1 .. Len(l) : l[i].kind = "result"}

\* A process that has the Main Session open
Keeper(p) == Alive(p) /\ proc[p].at = Main /\ proc[p].goal \in {None, "fork"}

\* A result on its way to the log
Storing(x) == x.pc = "sidecar" \/ (x.pc = "write" /\ x.app.purpose = "result")

\* A result that was given is held, behind it only newer ones, or gave way to newer ones.
Covered(g, es) ==
  \/ \E k \in 1 .. Len(es) : es[k] = g /\ \A m \in (k + 1) .. Len(es) : es[m].h > g.h
  \/ Len(es) = MaxResults /\ \A m \in 1 .. Len(es) : es[m].h > g.h

\* What a process that has the Session open holds
Held(x) ==
  LET n == Len(x.entries) IN
  /\ x.entries \in Seq(ResultType) /\ n <= MaxResults
  /\ \A m \in 1 .. n :
       LET e == x.entries[m] IN
       /\ e.h <= x.next /\ (Storing(x) => e.h < x.next)
       /\ e.h \in DOMAIN side[Main] /\ side[Main][e.h] = e.c
  /\ \A g \in given : Covered(g, x.entries)
  /\ Storing(x) => x.next \in DOMAIN side[Main]

\* What it is about to write: one record of the result, or none.
Recording(x) ==
  LET a == x.app  n == Len(log[Main]) IN
  x.pc = "write" =>
    /\ a.purpose = "result" =>
         /\ a.v = x.next /\ a.from = n /\ Len(a.rest) = 1
         /\ ~a.mid => a.rest[1].kind = "result" /\ a.rest[1].v = x.next
         /\ a.mid => a.rest[1] = Bad
    /\ a.purpose = "record" =>
         /\ \A i \in 1 .. Len(a.rest) : a.rest[i].kind # "result"
         /\ \A i \in (a.from + 1) .. n : log[Main][i].kind # "result"

\* A failed write made a line unreadable, and the log does not load again.
Broken ==
  \E i \in 1 .. Len(log[Main]) :
    /\ log[Main][i] = Bad
    /\ \A p \in Pids : Keeper(p) /\ proc[p].pc = "write" /\ proc[p].app.s = Main
                         => i <= proc[p].app.from

\* The last record of a result that was given is one of those at w, or older than
\* all of them, which are as many as a Session keeps.
Known(g, w, n) ==
  \E k \in Records(log[Main]) :
    /\ log[Main][k].v = g.h
    /\ \A i \in Records(log[Main]) : i > k => log[Main][i].v > g.h
    /\ \/ /\ g.h \in DOMAIN side[Main] /\ side[Main][g.h] = g.c
          /\ \E m \in 1 .. n : w[m] = k
       \/ n = MaxResults /\ \A m \in 1 .. n : k < w[m]

\* The n records at w have their sidecars.
Recorded(w, n) ==
  /\ n <= MaxResults /\ w \in [1 .. n -> Records(log[Main])]
  /\ \A i, j \in 1 .. n : i < j => w[i] < w[j]
  /\ \A m \in 1 .. n : log[Main][w[m]].v \in DOMAIN side[Main]
  /\ \A g \in given : Known(g, w, n)

\* They are the entries of whoever has the Session open.
Entered(x, w, n) ==
  n = Len(x.entries) /\ \A m \in 1 .. n : log[Main][w[m]].v = x.entries[m].h

Witnessed(w, n) ==
  Recorded(w, n) /\ \A p \in Pids : Keeper(p) => Entered(proc[p], w, n)

Traced == Broken \/ \E n \in 0 .. MaxResults : \E w \in [1 .. n -> Records(log[Main])] : Witnessed(w, n)

SideTyped ==
  /\ DOMAIN side = Sessions
  /\ side[Main] \in [DOMAIN side[Main] -> Nat] /\ DOMAIN side[Main] \subseteq Nat

Unique ==
  /\ given \subseteq ResultType
  /\ \A g, k \in given : g.h = k.h => g = k

\* Nothing was given before the Session was made.
GivenLater ==
  /\ dir[Main] # "file" => given = {}
  /\ \A p \in Pids : Alive(p) /\ proc[p].goal = "create" => given = {}

ResultsInv ==
  /\ SideTyped /\ Unique /\ GivenLater /\ Traced
  /\ \A p \in Pids : Keeper(p) => Held(proc[p]) /\ Recording(proc[p])

\* A line that a write of these kinds can contain
Likely(l, kinds) == l.kind = "bad" \/ \E k \in 1 .. Len(kinds) : l.kind = kinds[k]

LEMMA EncodedKinds ==
  ASSUME FilesTyped, NEW s \in Sessions, NEW kinds \in Seq(Kinds), Len(kinds) > 0, NEW v \in Nat
  PROVE  /\ \A i \in 1 .. Len(kinds) : Likely(Encoded(s, kinds, v)[i], kinds)
         /\ tail[s] => Encoded(s, kinds, v)[1] = Bad
<1> DEFINE m == Len(kinds)
           fresh == [i \in DOMAIN kinds |-> Line(NextSeq(s) + i - 1, kinds[i], v)]
<1>1. m \in Nat /\ DOMAIN kinds = 1 .. m
  OBVIOUS
<1>2. Encoded(s, kinds, v) = IF tail[s] THEN <<Bad>> \o Tail(fresh) ELSE fresh
  BY DEF Encoded
<1>3. \A i \in 1 .. m : fresh[i].kind = kinds[i]
  BY <1>1 DEF Line
<1>4. fresh \in Seq({fresh[i] : i \in 1 .. m}) /\ Len(fresh) = m
  <2>1. fresh = [i \in 1 .. m |-> fresh[i]]
    BY <1>1
  <2> DEFINE T == {fresh[i] : i \in 1 .. m}
  <2>2. \A i \in 1 .. m : fresh[i] \in T
    OBVIOUS
  <2> HIDE DEF fresh, T
  <2>3. fresh \in [1 .. m -> T]
    BY <2>1, <2>2
  <2> QED
    BY <1>1, <2>3 DEF T
<1> HIDE DEF fresh
<1>5. CASE tail[s]
  <2> DEFINE t == Tail(fresh)
             e == <<Bad>> \o t
  <2>1. Len(t) = m - 1 /\ \A i \in 1 .. (m - 1) : t[i] = fresh[i + 1]
    BY <1>1, <1>4
  <2>2. t \in Seq({fresh[i] : i \in 1 .. m})
    BY <1>1, <1>4
  <2> HIDE DEF t
  <2>3. e[1] = Bad /\ \A i \in 2 .. m : e[i] = t[i - 1]
    BY <1>1, <2>1, <2>2
  <2> HIDE DEF e
  <2>4. Bad.kind = "bad"
    BY DEF Bad, Line
  <2>5. \A i \in 2 .. m : e[i] = fresh[i]
    <3> TAKE i \in 2 .. m
    <3>1. i - 1 \in 1 .. (m - 1) /\ (i - 1) + 1 = i
      BY <1>1
    <3> QED
      BY <2>1, <2>3, <3>1
  <2>6. \A i \in 1 .. m : Likely(e[i], kinds)
    <3> TAKE i \in 1 .. m
    <3>1. CASE i = 1
      BY <2>3, <2>4, <3>1 DEF Likely
    <3>2. CASE i # 1
      <4>1. i \in 2 .. m
        BY <1>1, <3>2
      <4> QED
        BY <1>3, <2>5, <4>1 DEF Likely
    <3> QED
      BY <3>1, <3>2
  <2>7. Encoded(s, kinds, v) = e
    BY <1>2, <1>5 DEF e, t
  <2> QED
    BY <2>3, <2>6, <2>7
<1>6. CASE ~tail[s]
  <2>1. Encoded(s, kinds, v) = fresh
    BY <1>2, <1>6
  <2> QED
    BY <1>3, <1>6, <2>1 DEF Likely
<1> QED
  BY <1>5, <1>6

LEMMA BegunLines ==
  ASSUME Shaped, FilesTyped, NEW p \in Pids, NEW s \in Sessions,
         NEW purpose \in {"record", "init", "result", "fork"},
         NEW kinds \in Seq(Kinds), Len(kinds) > 0, NEW v \in Nat,
         Begin(p, s, purpose, kinds, v)
  PROVE  LET a == proc'[p].app  n == Len(log[s])  m == Len(log'[s]) IN
         /\ a.v = v
         /\ \A i \in (n + 1) .. m : Likely(log'[s][i], kinds)
         /\ \A i \in 1 .. Len(a.rest) : Likely(a.rest[i], kinds)
         /\ Len(kinds) = 1 => /\ m = n /\ Len(a.rest) = 1
                              /\ tail[s] => a.rest[1] = Bad
                              /\ ~tail[s] => a.rest[1].kind = kinds[1] /\ a.rest[1].v = v
<1> DEFINE n == Len(log[s])
           e == Encoded(s, kinds, v)
           App(j) == [purpose |-> purpose, s |-> s, from |-> n, mid |-> tail[s],
                      rest |-> SubSeq(e, j + 1, Len(kinds)), v |-> v]
<1>1. PICK j \in 0 .. Len(kinds) - 1 :
        /\ log' = [log EXCEPT ![s] = @ \o SubSeq(e, 1, j)]
        /\ proc' = [proc EXCEPT ![p].pc = "write", ![p].app = App(j)]
  BY Zenon DEF Begin
<1>2. /\ e \in Seq(LineType) /\ Len(e) = Len(kinds)
      /\ ~tail[s] => \A i \in 1 .. Len(kinds) :
           e[i] = Line(NextSeq(s) + i - 1, kinds[i], v)
  BY EncodedFacts
<1>3. /\ \A i \in 1 .. Len(kinds) : Likely(e[i], kinds)
      /\ tail[s] => e[1] = Bad
  BY EncodedKinds
<1>4. ~tail[s] => e[1].kind = kinds[1] /\ e[1].v = v
  <2>1. 1 \in 1 .. Len(kinds)
    OBVIOUS
  <2> HIDE DEF e
  <2>2. ASSUME ~tail[s] PROVE \E q : e[1] = Line(q, kinds[1], v)
    BY <1>2, <2>1, <2>2
  <2>3. \A q : Line(q, kinds[1], v).kind = kinds[1] /\ Line(q, kinds[1], v).v = v
    BY DEF Line
  <2> QED
    BY <2>2, <2>3
<1> HIDE DEF e
<1>5. Len(kinds) \in Nat /\ j \in Nat /\ n \in Nat /\ log[s] \in Seq(LineType)
  BY LogTyped
<1> DEFINE x == SubSeq(e, 1, j)
           y == SubSeq(e, j + 1, Len(kinds))
<1>6. x \in Seq(LineType) /\ Len(x) = j /\ \A k \in 1 .. j : x[k] = e[k]
  <2>1. j <= Len(e) /\ 1 <= j + 1 /\ 1 \in Nat \ {0} /\ j - 1 + 1 = j
    BY <1>2, <1>5
  <2>2. \A k \in 1 .. j : 1 + k - 1 = k
    OBVIOUS
  <2> QED
    BY <1>2, <1>5, <2>1, <2>2, SubSeqFacts
<1>7. /\ y \in Seq(LineType) /\ Len(y) = Len(kinds) - j
      /\ \A k \in 1 .. (Len(kinds) - j) : y[k] = e[k + j]
  <2>1. /\ j + 1 \in Nat \ {0} /\ Len(kinds) <= Len(e) /\ j + 1 <= Len(kinds) + 1
        /\ Len(kinds) - (j + 1) + 1 = Len(kinds) - j
    BY <1>2, <1>5
  <2>2. \A k \in 1 .. (Len(kinds) - j) : (j + 1) + k - 1 = k + j
    BY <1>5
  <2> QED
    BY <1>2, <1>5, <2>1, <2>2, SubSeqFacts
<1>8. App(j).v = v /\ App(j).rest = y
  OBVIOUS
<1> HIDE DEF x, y, App
<1>9. proc'[p].app = App(j)
  BY <1>1, AppFacts
<1>10. log'[s] = log[s] \o x
  BY <1>1 DEF FilesTyped, x
<1>11. Len(log'[s]) = n + j /\ \A i \in (n + 1) .. (n + j) : log'[s][i] = x[i - n]
  <2>1. Len(log[s] \o x) = n + j
    BY <1>5, <1>6, SMTT(30)
  <2>2. \A i \in (n + 1) .. (n + j) : (log[s] \o x)[i] = x[i - n]
    BY <1>5, <1>6, Joined
  <2> QED
    BY <1>10, <2>1, <2>2
<1>12. \A i \in (n + 1) .. (n + j) : Likely(log'[s][i], kinds)
  <2> TAKE i \in (n + 1) .. (n + j)
  <2>1. i - n \in 1 .. j /\ i - n \in 1 .. Len(kinds)
    BY <1>5
  <2> QED
    BY <1>3, <1>6, <1>11, <2>1
<1>13. \A i \in 1 .. Len(y) : Likely(y[i], kinds)
  <2> TAKE i \in 1 .. Len(y)
  <2>1. i \in 1 .. (Len(kinds) - j) /\ i + j \in 1 .. Len(kinds)
    BY <1>5, <1>7
  <2> QED
    BY <1>3, <1>7, <2>1
<1>14. ASSUME Len(kinds) = 1
       PROVE  j = 0 /\ Len(y) = 1 /\ y[1] = e[1]
  <2>1. j = 0 /\ Len(kinds) - j = 1 /\ 1 + j = 1
    BY <1>5, <1>14
  <2> QED
    BY <1>7, <2>1
<1> HIDE DEF n
<1>15. n = Len(log[s])
  BY DEF n
<1> QED
  BY <1>3, <1>4, <1>5, <1>8, <1>9, <1>11, <1>12, <1>13, <1>14, <1>15

\* Nobody else has the Main Session open or makes it.
LEMMA KeeperAlone ==
  ASSUME LockInv, FilesInv, NEW p \in Pids, Alive(p), proc[p].at = Main, proc[p].goal # "resume",
         NEW q \in Pids, q # p
  PROVE  ~Keeper(q) /\ (Alive(q) => proc[q].goal # "create")
<1>1. Owns(p, Main) /\ Main \in Sessions
  BY DEF Owns, Sessions
<1>2. ~Owns(q, Main)
  BY <1>1 DEF FilesInv, OwnedOnce
<1>3. None # "resume"
  BY DEF None
<1>4. ASSUME Alive(q), proc[q].goal = "create"
      PROVE  FALSE
  <2>1. proc[q].at = Main
    BY <1>4 DEF FilesInv, Each, Place
  <2> QED
    BY <1>2, <1>4, <2>1 DEF Owns
<1> QED
  BY <1>2, <1>3, <1>4 DEF Keeper, Owns

\* The records of results stay, at their places.
SameRecords ==
  /\ Records(log'[Main]) = Records(log[Main])
  /\ \A k \in Records(log[Main]) : log'[Main][k].v = log[Main][k].v

\* An unreadable line that nobody takes back stays, and nobody will.
BadStays(p) ==
  \A i \in 1 .. Len(log[Main]) :
    /\ log[Main][i] = Bad
    /\ Keeper(p) /\ proc[p].pc = "write" /\ proc[p].app.s = Main => i <= proc[p].app.from
    => /\ i <= Len(log'[Main]) /\ log'[Main][i] = log[Main][i]
       /\ Keeper(p)' /\ proc'[p].pc = "write" /\ proc'[p].app.s = Main
            => i <= proc'[p].app.from

LEMMA BrokenKept ==
  ASSUME FilesTyped, FilesTyped', NEW p \in Pids, Only(p), BadStays(p), Broken
  PROVE  Broken'
<1>m. Main \in Sessions
  BY Names
<1>1. PICK i \in 1 .. Len(log[Main]) :
        /\ log[Main][i] = Bad
        /\ \A q \in Pids : Keeper(q) /\ proc[q].pc = "write" /\ proc[q].app.s = Main
                             => i <= proc[q].app.from
  BY DEF Broken
<1>2. /\ i <= Len(log'[Main]) /\ log'[Main][i] = Bad
      /\ Keeper(p)' /\ proc'[p].pc = "write" /\ proc'[p].app.s = Main => i <= proc'[p].app.from
  BY <1>1 DEF BadStays
<1>3. i \in 1 .. Len(log'[Main])
  <2>1. Len(log[Main]) \in Nat /\ Len(log'[Main]) \in Nat
    BY <1>m, LogTyped DEF FilesTyped
  <2> QED
    BY <1>2, <2>1
<1>4. ASSUME NEW q \in Pids, Keeper(q)', proc'[q].pc = "write", proc'[q].app.s = Main
      PROVE  i <= proc'[q].app.from
  <2>1. CASE q = p
    BY <1>2, <1>4, <2>1
  <2>2. CASE q # p
    <3>1. proc'[q] = proc[q]
      BY <2>2 DEF Only
    <3>2. Keeper(q)
      BY <1>4, <3>1 DEF Keeper, Alive
    <3> QED
      BY <1>1, <1>4, <3>1, <3>2
  <2> QED
    BY <2>1, <2>2
<1> QED
  BY <1>2, <1>3, <1>4 DEF Broken

LEMMA RecordedKept ==
  ASSUME NEW n, NEW w, Recorded(w, n), SameRecords, side'[Main] = side[Main], given' = given
  PROVE  Recorded(w, n)'
<1>r. PICK R : R = Records(log[Main])
  OBVIOUS
<1>1. Records(log'[Main]) = R /\ \A k \in R : log'[Main][k].v = log[Main][k].v
  BY <1>r DEF SameRecords
<1>2. w \in [1 .. n -> R] /\ \A m \in 1 .. n : log[Main][w[m]].v \in DOMAIN side[Main]
  BY <1>r DEF Recorded
<1>3. \A m \in 1 .. n : log'[Main][w[m]].v \in DOMAIN side'[Main]
  BY <1>1, <1>2
<1>4. ASSUME NEW g \in given'
      PROVE  Known(g, w, n)'
  <2>1. Known(g, w, n)
    BY <1>4 DEF Recorded
  <2>2. PICK k \in R :
          /\ log[Main][k].v = g.h
          /\ \A i \in R : i > k => log[Main][i].v > g.h
          /\ \/ /\ g.h \in DOMAIN side[Main] /\ side[Main][g.h] = g.c
                /\ \E m \in 1 .. n : w[m] = k
             \/ n = MaxResults /\ \A m \in 1 .. n : k < w[m]
    BY <1>r, <2>1 DEF Known
  <2>3. \A i \in R : i > k => log'[Main][i].v > g.h
    BY <1>1, <2>2
  <2>4. log'[Main][k].v = g.h
    BY <1>1, <2>2
  <2> QED
    BY <1>1, <2>2, <2>3, <2>4 DEF Known
<1>5. n <= MaxResults /\ \A i, j \in 1 .. n : i < j => w[i] < w[j]
  BY DEF Recorded
<1> QED
  BY <1>1, <1>2, <1>3, <1>4, <1>5 DEF Recorded

\* What the process holds and is about to write stays, when it has the Session open.
KeepsHeld(p) ==
  Keeper(p)' =>
    /\ Keeper(p) /\ proc'[p].entries = proc[p].entries /\ proc'[p].next = proc[p].next
    /\ Storing(proc'[p]) => Storing(proc[p])

LEMMA HeldKept ==
  ASSUME NEW x, NEW y, Held(x), side'[Main] = side[Main], given' = given,
         y.entries = x.entries, y.next = x.next, Storing(y) => Storing(x)
  PROVE  Held(y)'
<1>1. PICK es : es = x.entries
  OBVIOUS
<1>2. y.entries = es
  BY <1>1
<1>3. /\ es \in Seq(ResultType) /\ Len(es) <= MaxResults
      /\ \A m \in 1 .. Len(es) :
           /\ es[m].h <= x.next /\ (Storing(x) => es[m].h < x.next)
           /\ es[m].h \in DOMAIN side[Main] /\ side[Main][es[m].h] = es[m].c
      /\ \A g \in given : Covered(g, es)
      /\ Storing(x) => x.next \in DOMAIN side[Main]
  BY <1>1 DEF Held
<1>4. Storing(y)' <=> Storing(y)
  BY DEF Storing
<1>5. \A m \in 1 .. Len(es) :
           /\ es[m].h <= y.next /\ (Storing(y) => es[m].h < y.next)
           /\ es[m].h \in DOMAIN side'[Main] /\ side'[Main][es[m].h] = es[m].c
  BY <1>3
<1>6. \A g \in given' : Covered(g, es)
  BY <1>3
<1> QED
  BY <1>2, <1>3, <1>4, <1>5, <1>6 DEF Held, Covered

LEMMA ResultStep ==
  ASSUME LockInv, FilesInv, FilesInv', ResultsInv, NEW p \in Pids, Only(p),
         side'[Main] = side[Main], given' = given, SideTyped', GivenLater',
         SameRecords, BadStays(p), KeepsHeld(p),
         Keeper(p)' => Recording(proc[p])',
         log'[Main] = log[Main] \/ \A q \in Pids : q # p => ~Keeper(q)
  PROVE  ResultsInv'
<1>1. Unique'
  BY DEF ResultsInv, Unique
<1>2. ASSUME NEW q \in Pids, q # p, Keeper(q)'
      PROVE  Held(proc[q])' /\ Recording(proc[q])'
  <2>1. proc'[q] = proc[q]
    BY <1>2 DEF Only
  <2>2. Keeper(q)
    BY <1>2, <2>1 DEF Keeper, Alive
  <2>3. PICK x : x = proc[q]
    OBVIOUS
  <2>4. Held(x) /\ Recording(x) /\ log'[Main] = log[Main]
    BY <1>2, <2>2, <2>3 DEF ResultsInv
  <2>5. Held(x)'
    BY <2>4, HeldKept
  <2>6. Recording(x)'
    BY <2>4 DEF Recording
  <2> QED
    BY <2>1, <2>3, <2>5, <2>6
<1>3. ASSUME Keeper(p)'
      PROVE  Held(proc[p])'
  <2>1. PICK x : x = proc[p]
    OBVIOUS
  <2>2. PICK y : y = proc'[p]
    OBVIOUS
  <2>3. Held(x) /\ y.entries = x.entries /\ y.next = x.next /\ (Storing(y) => Storing(x))
    BY <1>3, <2>1, <2>2 DEF KeepsHeld, ResultsInv
  <2>4. Held(y)'
    BY <2>3, HeldKept
  <2> QED
    BY <2>2, <2>4
<1>4. Traced'
  <2>1. CASE Broken
    <3>1. Broken'
      BY <2>1, BrokenKept DEF FilesInv
    <3> QED
      BY <3>1 DEF Traced
  <2>2. CASE ~Broken
    <3>1. PICK n \in 0 .. MaxResults : \E w \in [1 .. n -> Records(log[Main])] : Witnessed(w, n)
      BY <2>2 DEF ResultsInv, Traced
    <3>2. PICK w \in [1 .. n -> Records(log[Main])] : Witnessed(w, n)
      BY <3>1
    <3>3. Recorded(w, n)'
      BY <3>2, RecordedKept DEF Witnessed
    <3>4. ASSUME NEW q \in Pids, Keeper(q)'
          PROVE  Entered(proc[q], w, n)'
      <4>1. Keeper(q) /\ proc'[q].entries = proc[q].entries
        <5>1. CASE q = p
          BY <3>4, <5>1 DEF KeepsHeld
        <5>2. CASE q # p
          BY <3>4, <5>2 DEF Keeper, Only, Alive
        <5> QED
          BY <5>1, <5>2
      <4>2. Entered(proc[q], w, n)
        BY <3>2, <4>1 DEF Witnessed
      <4>3. \A m \in 1 .. n : w[m] \in Records(log[Main])
        BY <3>2
      <4>4. \A m \in 1 .. n : log'[Main][w[m]].v = log[Main][w[m]].v
        BY <4>3 DEF SameRecords
      <4> QED
        BY <4>1, <4>2, <4>4 DEF Entered
    <3>5. Witnessed(w, n)'
      BY <3>3, <3>4 DEF Witnessed
    <3>6. w \in [1 .. n -> Records(log'[Main])]
      BY <3>2 DEF SameRecords
    <3> QED
      BY <3>1, <3>5, <3>6 DEF Traced
  <2> QED
    BY <2>1, <2>2
<1> QED
  BY <1>1, <1>2, <1>3, <1>4 DEF ResultsInv

\* Main's log and what is kept of results stay.
Untouched ==
  log'[Main] = log[Main] /\ side'[Main] = side[Main] /\ given' = given /\ DOMAIN side' = Sessions

\* Nothing has been given yet when the Session is made.
Created(p) ==
  /\ dir'[Main] = dir[Main] \/ dir'[Main] = "file" \/ given = {}
  /\ Alive(p)' /\ proc'[p].goal = "create" => (Alive(p) /\ proc[p].goal = "create") \/ given = {}

LEMMA GivenStays ==
  ASSUME GivenLater, NEW p \in Pids, Only(p), given' = given, Created(p)
  PROVE  GivenLater'
<1>1. dir'[Main] # "file" => given = {}
  BY DEF GivenLater, Created
<1>2. ASSUME NEW q \in Pids, Alive(q)', proc'[q].goal = "create"
      PROVE  given = {}
  <2>1. CASE q = p
    BY <1>2, <2>1 DEF GivenLater, Created
  <2>2. CASE q # p
    BY <1>2, <2>2 DEF GivenLater, Only, Alive
  <2> QED
    BY <2>1, <2>2
<1> QED
  BY <1>1, <1>2 DEF GivenLater

\* What a process that keeps the Session open can become, elsewhere at work.
Apart(p) ==
  Keeper(p)' =>
    /\ Keeper(p) /\ proc'[p].entries = proc[p].entries /\ proc'[p].next = proc[p].next
    /\ proc'[p].pc # "sidecar"
    /\ proc'[p].pc = "write" => proc'[p].app.purpose = "fork" /\ proc'[p].app.s # Main

LEMMA ApartStep ==
  ASSUME LockInv, FilesInv, FilesInv', ResultsInv, NEW p \in Pids, Only(p),
         Untouched, Created(p), Apart(p)
  PROVE  ResultsInv'
<1>1. SideTyped'
  BY DEF ResultsInv, SideTyped, Untouched
<1>2. GivenLater'
  BY GivenStays DEF ResultsInv, Untouched
<1>3. SameRecords
  BY DEF SameRecords, Untouched
<1>4. Main \in Sessions /\ Len(log[Main]) \in Nat
  BY Names, LogTyped DEF FilesInv
<1>5. BadStays(p)
  <2> SUFFICES ASSUME NEW i \in 1 .. Len(log[Main]), log[Main][i] = Bad,
                      Keeper(p)', proc'[p].pc = "write", proc'[p].app.s = Main
               PROVE  FALSE
    BY <1>4 DEF BadStays, Untouched
  <2> QED
    BY DEF Apart
<1>6. KeepsHeld(p)
  <2> SUFFICES ASSUME Keeper(p)'
               PROVE  ~Storing(proc'[p])
    BY DEF KeepsHeld, Apart
  <2> QED
    BY DEF Apart, Storing
<1>7. Keeper(p)' => Recording(proc[p])'
  BY DEF Recording, Apart
<1> QED
  BY <1>1, <1>2, <1>3, <1>5, <1>6, <1>7, ResultStep DEF Untouched

LEMMA DeadApart ==
  ASSUME NEW p \in Pids, proc'[p] = [NoProcess EXCEPT !.pc = "dead"]
  PROVE  Apart(p) /\ ~Alive(p)'
<1>1. proc'[p].pc = "dead"
  BY DEF NoProcess
<1> QED
  BY <1>1 DEF Apart, Keeper, Alive

\* A process starts.
LEMMA StartResults ==
  ASSUME LockInv, FilesInv, FilesInv', ResultsInv, NEW p \in Pids,
         CreateNamed(p) \/ ForkStart(p) \/ (\E s \in Sessions : ResumeStart(p, s))
  PROVE  ResultsInv'
<1>s. Shaped
  BY DEF LockInv
<1>t. SideTyped /\ GivenLater /\ Main \in Sessions
  BY Names DEF ResultsInv
<1>1. Untouched
  BY <1>t DEF Untouched, CreateNamed, ForkStart, ResumeStart, ghosts, files, SideTyped
<1>2. PICK s \in Sessions, g \in {"create", "branch", "resume"} :
        /\ proc' = [proc EXCEPT ![p].pc = "lock", ![p].at = s, ![p].goal = g]
        /\ g = "create" => dir[Main] = "absent"
  <2>1. CASE CreateNamed(p)
    BY <1>t, <2>1 DEF CreateNamed
  <2>2. CASE ForkStart(p)
    <3>1. used.forks + 1 \in 1 .. Len(Spare)
      BY <2>2, Names DEF ForkStart, LockInv, Shaped
    <3>2. Spare[used.forks + 1] \in Sessions
      BY <3>1, Names
    <3>3. "branch" # "create"
      OBVIOUS
    <3> QED
      BY <2>2, <3>2, <3>3 DEF ForkStart
  <2>3. CASE \E s \in Sessions : ResumeStart(p, s)
    <3>1. "resume" # "create"
      OBVIOUS
    <3> QED
      BY <2>3, <3>1 DEF ResumeStart
  <2> QED
    BY <2>1, <2>2, <2>3
<1>p. proc' = [proc EXCEPT ![p].pc = "lock", ![p].at = s, ![p].goal = g]
  BY <1>2
<1>3. /\ Only(p) /\ proc'[p].pc = "lock" /\ proc'[p].at = s /\ proc'[p].goal = g
      /\ proc'[p].f = proc[p].f /\ proc'[p].next = proc[p].next
  BY <1>p, <1>s, StartFacts
<1>4. Apart(p)
  <2>1. g \notin {None, "fork"}
    BY DEF None
  <2> QED
    BY <1>3, <2>1 DEF Apart, Keeper
<1>5. dir'[Main] = dir[Main] \/ dir'[Main] = "file" \/ dir[Main] = "absent"
  <2>1. CASE CreateNamed(p)
    BY <2>1 DEF CreateNamed
  <2>2. CASE ForkStart(p)
    <3>1. dir' = [dir EXCEPT ![Spare[used.forks + 1]] = "file"]
      BY <2>2 DEF ForkStart
    <3> QED
      BY <1>s, <1>t, <3>1 DEF Shaped
  <2>3. CASE \E r \in Sessions : ResumeStart(p, r)
    BY <2>3 DEF ResumeStart, files
  <2> QED
    BY <2>1, <2>2, <2>3
<1>6. Created(p)
  BY <1>2, <1>3, <1>5, <1>t DEF Created, GivenLater
<1> QED
  BY <1>1, <1>3, <1>4, <1>6, ApartStep

\* A process goes for a lock, or gives it up, or ends.
LEMMA LockResults ==
  ASSUME LockInv, FilesInv, FilesInv', ResultsInv, NEW p \in Pids,
         \/ LockCreate(p) \/ LockWrite(p) \/ LockStale(p) \/ LockReclaim(p)
         \/ LockRefused(p) \/ ResumeFails(p) \/ Close(p) \/ Crash(p)
  PROVE  ResultsInv'
<1>s. Shaped
  BY DEF LockInv
<1>t. SideTyped /\ GivenLater
  BY DEF ResultsInv
<1>1. Untouched /\ dir' = dir
  BY <1>t DEF Untouched, LockCreate, LockWrite, LockStale, LockReclaim, LockRefused, ResumeFails,
     Close, Crash, ghosts, files, SideTyped
<1>2. CASE LockCreate(p) \/ LockWrite(p) \/ LockStale(p) \/ LockReclaim(p)
  <2>1. proc[p].pc \in Early
    BY <1>2 DEF LockCreate, LockWrite, LockStale, LockReclaim, At, Early
  <2>2. /\ Only(p) /\ proc'[p].pc \in Early /\ More(p) /\ proc'[p].at = proc[p].at
        /\ proc'[p].goal = proc[p].goal
    <3>1. CASE LockStale(p)
      <4> DEFINE r == [proc[p] EXCEPT !.pc = "reclaim", !.dead = lock[Target(p)]]
      <4>1. proc' = [proc EXCEPT ![p] = r]
        BY <3>1, <1>s DEF LockStale, Shaped
      <4>2. /\ DOMAIN r = Fields /\ r.pc = "reclaim" /\ r.at = proc[p].at
            /\ r.goal = proc[p].goal /\ r.t = proc[p].t
            /\ r.next = proc[p].next /\ r.entries = proc[p].entries
        BY <1>s DEF Shaped, Fields
      <4> HIDE DEF r
      <4>3. Only(p) /\ proc'[p] = r
        BY <1>s, <4>1, <4>2, ReplaceFacts
      <4> QED
        BY <4>2, <4>3 DEF More, Early
    <3>2. CASE LockCreate(p) \/ LockWrite(p) \/ LockReclaim(p)
      <4>1. PICK c \in Early : Go(p, c)
        BY <3>2 DEF LockCreate, LockWrite, LockReclaim, Early
      <4> QED
        BY <1>s, <4>1, GoFacts DEF Stays
    <3> QED
      BY <1>2, <3>1, <3>2
  <2>3. Alive(p)
    BY <2>1 DEF Alive, Early
  <2>4. Apart(p)
    BY <2>2, <2>3 DEF Apart, Keeper, More, Early
  <2>5. Created(p)
    BY <1>1, <2>2, <2>3 DEF Created
  <2> QED
    BY <1>1, <2>2, <2>4, <2>5, ApartStep
<1>3. CASE LockRefused(p) \/ ResumeFails(p)
  <2>1. proc[p].pc \in Early /\ Refused(p)
    BY <1>3 DEF LockRefused, ResumeFails, At, Early
  <2>2. Alive(p)
    BY <2>1 DEF Alive, Early
  <2>3. CASE proc[p].goal # "fork"
    <3>1. proc'[p] = [NoProcess EXCEPT !.pc = "dead"] /\ Only(p)
      BY <1>s, <2>1, <2>3, RefusedFacts
    <3>2. Apart(p) /\ Created(p)
      BY <1>1, <3>1, DeadApart DEF Created
    <3> QED
      BY <1>1, <3>1, <3>2, ApartStep
  <2>4. CASE proc[p].goal = "fork"
    <3>1. /\ Only(p) /\ proc'[p].pc = "open" /\ proc'[p].goal = None
          /\ proc'[p].at = proc[p].at /\ More(p)
      BY <1>s, <2>1, <2>4, RefusedFacts
    <3>2. Apart(p)
      BY <2>2, <2>4, <3>1 DEF Apart, Keeper, More
    <3>3. Created(p)
      BY <1>1, <3>1 DEF Created, None
    <3> QED
      BY <1>1, <3>1, <3>2, <3>3, ApartStep
  <2> QED
    BY <2>3, <2>4
<1>4. CASE Close(p) \/ Crash(p)
  <2>1. proc' = [proc EXCEPT ![p] = [NoProcess EXCEPT !.pc = "dead"]]
    BY <1>4 DEF Close, Crash
  <2>2. Only(p) /\ proc'[p] = [NoProcess EXCEPT !.pc = "dead"]
    BY <1>s, <2>1, DeadFacts
  <2>3. Apart(p) /\ Created(p)
    BY <1>1, <2>2, DeadApart DEF Created
  <2> QED
    BY <1>1, <2>2, <2>3, ApartStep
<1> QED
  BY <1>2, <1>3, <1>4

LEMMA RequestResults ==
  ASSUME LockInv, FilesInv, FilesInv', ResultsInv, NEW p \in Pids, NEW t \in Threads,
         RequestFork(p, t)
  PROVE  ResultsInv'
<1>s. Shaped
  BY DEF LockInv
<1>t. SideTyped
  BY DEF ResultsInv
<1>0. /\ proc[p].pc = "open" /\ proc[p].at = Main
      /\ proc' = [proc EXCEPT ![p].pc = "lock", ![p].goal = "fork", ![p].t = t]
  BY DEF RequestFork, MayFork, At
<1>1. Untouched /\ dir' = dir
  BY <1>t DEF Untouched, RequestFork, ghosts, files, SideTyped
<1> DEFINE r == [proc[p] EXCEPT !.pc = "lock", !.goal = "fork", !.t = t]
<1>2. proc' = [proc EXCEPT ![p] = r]
  BY <1>0, <1>s DEF Shaped
<1>3. /\ DOMAIN r = Fields /\ r.pc = "lock" /\ r.goal = "fork" /\ r.at = proc[p].at
      /\ r.next = proc[p].next /\ r.entries = proc[p].entries
  BY <1>s DEF Shaped, Fields
<1> HIDE DEF r
<1>4. Only(p) /\ proc'[p] = r
  BY <1>2, <1>3, <1>s, ReplaceFacts
<1>5. Alive(p)
  BY <1>0 DEF Alive
<1>6. proc[p].goal = None
  BY <1>0, <1>5, EachFacts DEF Place
<1>7. Apart(p)
  BY <1>0, <1>3, <1>4, <1>5, <1>6 DEF Apart, Keeper
<1>8. Created(p)
  BY <1>1, <1>3, <1>4 DEF Created
<1> QED
  BY <1>1, <1>4, <1>7, <1>8, ApartStep

\* A fork is made or found, next to the Session.
LEMMA ForkResults ==
  ASSUME LockInv, FilesInv, FilesInv', ResultsInv, NEW p \in Pids,
         \/ ExistingFork(p) \/ CreateFork(p) \/ ForkWritten(p) \/ IndexFork(p)
         \/ ForkOperation(p) \/ ForkFails(p)
  PROVE  ResultsInv'
<1>s. Shaped /\ FilesTyped /\ Logs /\ SideTyped /\ Main \in Sessions
  BY Names DEF LockInv, FilesInv, ResultsInv
<1>g. side' = side /\ given' = given
  BY DEF ExistingFork, CreateFork, ForkWritten, IndexFork, ForkOperation, ForkFails, ghosts, files
<1>1. CASE ExistingFork(p)
  <2>0. /\ proc[p].pc = "locked" /\ proc[p].goal = "fork" /\ UNCHANGED <<log, dir>>
    BY <1>1 DEF ExistingFork, At, files
  <2>1. \E f, b : Answered(p, f, b)
    BY <1>1, Zenon DEF ExistingFork
  <2>2. /\ Only(p) /\ proc'[p].pc = "open" /\ proc'[p].goal = None
        /\ proc'[p].at = proc[p].at /\ proc'[p].next = proc[p].next
        /\ proc'[p].entries = proc[p].entries
    BY <1>s, <2>1, AnsweredFacts
  <2>3. Apart(p) /\ Created(p) /\ Untouched
    BY <1>s, <1>g, <2>0, <2>2 DEF Apart, Created, Untouched, Keeper, Alive, None, SideTyped
  <2> QED
    BY <2>2, <2>3, ApartStep
<1>2. CASE CreateFork(p)
  <2> DEFINE f == Spare[used.forks + 1]
             lines == <<ForkHeader, Line(2, "checkpoint", 0)>>
             App(j) == [purpose |-> "fork", s |-> f, from |-> 0, mid |-> FALSE,
                        rest |-> SubSeq(lines, j + 1, 2), v |-> 0]
  <2>1. /\ proc[p].pc = "locked" /\ proc[p].goal = "fork" /\ used.forks < Len(Spare)
    BY <1>2 DEF CreateFork, At
  <2>2. PICK j \in 0 .. 1 :
          /\ dir' = [dir EXCEPT ![f] = "file"]
          /\ log' = [log EXCEPT ![f] = SubSeq(lines, 1, j)]
          /\ proc' = [proc EXCEPT ![p].pc = "write", ![p].f = f, ![p].app = App(j)]
    BY <1>2, Zenon DEF CreateFork
  <2>3. f \in Sessions /\ f # Main
    <3>1. used.forks + 1 \in 1 .. Len(Spare)
      BY <2>1, Names DEF LockInv, Shaped
    <3> QED
      BY <3>1, Names
  <2>4. App(j).purpose = "fork" /\ App(j).s = f
    OBVIOUS
  <2> HIDE DEF App
  <2> DEFINE r == [proc[p] EXCEPT !.pc = "write", !.f = f, !.app = App(j)]
  <2>5. proc' = [proc EXCEPT ![p] = r]
    BY <1>s, <2>2 DEF Shaped
  <2>6. /\ DOMAIN r = Fields /\ r.pc = "write" /\ r.at = proc[p].at /\ r.goal = proc[p].goal
        /\ r.next = proc[p].next /\ r.entries = proc[p].entries /\ r.app = App(j)
    BY <1>s DEF Shaped, Fields
  <2> HIDE DEF r
  <2>7. Only(p) /\ proc'[p] = r
    BY <1>s, <2>5, <2>6, ReplaceFacts
  <2>8. log'[Main] = log[Main] /\ dir'[Main] = dir[Main]
    BY <1>s, <2>2, <2>3 DEF FilesTyped, Shaped
  <2> HIDE DEF f
  <2>9. Alive(p)
    BY <2>1 DEF Alive
  <2>10. Apart(p)
    BY <2>1, <2>3, <2>4, <2>6, <2>7, <2>9 DEF Apart, Keeper
  <2>11. Created(p) /\ Untouched
    BY <1>s, <1>g, <2>1, <2>6, <2>7, <2>8 DEF Created, Untouched, SideTyped
  <2> QED
    BY <2>7, <2>10, <2>11, ApartStep
<1>3. CASE ForkWritten(p) \/ IndexFork(p) \/ ForkOperation(p) \/ ForkFails(p)
  <2>1. \/ proc[p].pc = "write" /\ proc[p].app.purpose = "fork"
        \/ proc[p].pc \in {"indexing", "operation"}
    BY <1>3 DEF ForkWritten, IndexFork, ForkOperation, ForkFails, At
  <2>2. Alive(p)
    BY <2>1 DEF Alive
  <2>3. Place(proc[p])
    BY <2>2, EachFacts
  <2>4. /\ proc[p].goal = "fork" /\ proc[p].at = Main /\ proc[p].f # None
        /\ proc[p].pc = "write" => proc[p].app.s = proc[p].f
    BY <2>1, <2>3 DEF Place
  <2>5. PICK f \in Sessions : f = proc[p].f /\ f # Main
    BY <2>2, <2>4, Forking
  <2>6. log'[Main] = log[Main] /\ dir'[Main] = dir[Main]
    <3>1. CASE ForkWritten(p)
      <4>1. Written(p) /\ proc[p].pc = "write" /\ UNCHANGED <<dir, spoiled>>
        BY <3>1 DEF ForkWritten, At
      <4>2. WriteFiles(proc[p]) /\ proc[p].app.s = f
        BY <2>4, <2>5, <4>1, Writing
      <4>3. Elsewhere(f)
        BY <1>s, <2>3, <4>1, <4>2, WrittenFiles
      <4> QED
        BY <1>s, <2>5, <4>3 DEF Elsewhere
    <3>2. CASE IndexFork(p)
      BY <3>2 DEF IndexFork
    <3>3. CASE ForkOperation(p)
      <4>1. dir' = dir /\ \E l : log' = [log EXCEPT ![f] = l]
        BY <2>5, <3>3 DEF ForkOperation
      <4> QED
        BY <1>s, <2>5, <4>1 DEF FilesTyped
    <3>4. CASE ForkFails(p)
      <4>1. dir' = [dir EXCEPT ![f] = "absent"] /\ log' = [log EXCEPT ![f] = <<>>]
        BY <2>5, <3>4 DEF ForkFails
      <4> QED
        BY <1>s, <2>5, <4>1 DEF FilesTyped, Shaped
    <3> QED
      BY <1>3, <3>1, <3>2, <3>3, <3>4
  <2>7. /\ Only(p) /\ proc'[p].pc \in {"indexing", "operation", "open"}
        /\ proc'[p].at = proc[p].at /\ proc'[p].next = proc[p].next
        /\ proc'[p].entries = proc[p].entries /\ proc'[p].goal \in {"fork", None}
    <3>1. CASE ForkWritten(p) \/ IndexFork(p)
      <4>1. PICK c \in {"indexing", "operation"} : Go(p, c)
        BY <3>1 DEF ForkWritten, IndexFork
      <4> QED
        BY <1>s, <2>4, <4>1, GoFacts DEF Stays, More
    <3>2. CASE ForkOperation(p) \/ ForkFails(p)
      <4>1. \E h, b : Answered(p, h, b)
        BY <3>2, Zenon DEF ForkOperation, ForkFails
      <4> QED
        BY <1>s, <4>1, AnsweredFacts
    <3> QED
      BY <1>3, <3>1, <3>2
  <2>8. Apart(p)
    BY <2>2, <2>4, <2>7 DEF Apart, Keeper
  <2>9. Created(p) /\ Untouched
    BY <1>s, <1>g, <2>6, <2>7 DEF Created, Untouched, SideTyped, None
  <2> QED
    BY <2>7, <2>8, <2>9, ApartStep
<1> QED
  BY <1>1, <1>2, <1>3

\* A step of the doctor, or none.
LEMMA AsideResults ==
  ASSUME ResultsInv, UNCHANGED <<dir, log, side, proc, given>>
  PROVE  ResultsInv'
<1>1. SideTyped' /\ Unique' /\ GivenLater'
  BY DEF ResultsInv, SideTyped, Unique, GivenLater, Alive
<1>2. Broken' <=> Broken
  BY DEF Broken, Keeper, Alive
<1>3. ASSUME NEW n, NEW w, Witnessed(w, n)
      PROVE  Witnessed(w, n)'
  BY <1>3 DEF Witnessed, Recorded, Known, Entered, Keeper, Alive, Records
<1>4. Traced'
  BY <1>2, <1>3 DEF ResultsInv, Traced
<1>5. \A p \in Pids : Keeper(p)' => Held(proc[p])' /\ Recording(proc[p])'
  BY DEF ResultsInv, Keeper, Alive, Held, Recording, Covered, Storing
<1> QED
  BY <1>1, <1>4, <1>5 DEF ResultsInv

\* Nothing was given, and nobody holds anything.
LEMMA FreshResults ==
  ASSUME Unique, SideTyped', GivenLater', given' = {}, MaxResults \in Nat,
         \A q \in Pids : Keeper(q)' => proc'[q].pc = "open" /\ proc'[q].entries = <<>>
  PROVE  ResultsInv'
<1>1. Unique'
  BY DEF Unique
<1>0. Len(<<>>) = 0 /\ <<>> \in Seq(ResultType) /\ 1 .. 0 = {}
  OBVIOUS
<1>2. ASSUME NEW q \in Pids, Keeper(q)'
      PROVE  Held(proc[q])' /\ Recording(proc[q])'
  <2>1. PICK y : y = proc'[q]
    OBVIOUS
  <2>2. y.pc = "open" /\ y.entries = <<>>
    BY <1>2, <2>1
  <2>3. Held(y)'
    BY <1>0, <2>2 DEF Held, Storing
  <2>4. Recording(y)'
    BY <2>2 DEF Recording
  <2> QED
    BY <2>1, <2>3, <2>4
<1>3. Traced'
  <2> DEFINE w == [i \in 1 .. 0 |-> 0]
  <2>1. w \in [1 .. 0 -> Records(log'[Main])] /\ 0 \in 0 .. MaxResults /\ 0 <= MaxResults
    BY <1>0
  <2>2. Recorded(w, 0)'
    BY <1>0, <2>1 DEF Recorded
  <2> HIDE DEF w
  <2>3. \A q \in Pids : Keeper(q)' => Entered(proc[q], w, 0)'
    BY <1>0 DEF Entered
  <2>4. Witnessed(w, 0)'
    BY <2>2, <2>3 DEF Witnessed
  <2> QED
    BY <2>1, <2>4 DEF Traced
<1> QED
  BY <1>1, <1>2, <1>3 DEF ResultsInv

\* A new Session begins its log.
LEMMA InitializeResults ==
  ASSUME LockInv, FilesInv, FilesInv', ResultsInv, NEW p \in Pids,
         Initialize(p) \/ InitializeDone(p) \/ InitializeFails(p)
  PROVE  ResultsInv'
<1>s. /\ Shaped /\ FilesTyped /\ Logs /\ SideTyped /\ GivenLater /\ Unique /\ Main \in Sessions
      /\ MaxResults \in Nat
  BY Names, BoundsAssumption DEF LockInv, FilesInv, ResultsInv
<1>g. side' = side /\ given' = given
  BY DEF Initialize, InitializeDone, InitializeFails, ghosts
<1>1. \/ proc[p].pc = "locked" /\ proc[p].goal \in {"create", "branch"}
      \/ proc[p].pc = "write" /\ proc[p].app.purpose = "init"
  BY DEF Initialize, InitializeDone, InitializeFails, At
<1>2. Alive(p)
  BY <1>1 DEF Alive
<1>3. Place(proc[p])
  BY <1>2, EachFacts
<1>4. /\ proc[p].goal \in {"create", "branch"}
      /\ proc[p].goal = "create" => proc[p].at = Main
      /\ proc[p].goal = "branch" => proc[p].at # Main
      /\ proc[p].pc = "write" => proc[p].app.s = proc[p].at
  BY <1>1, <1>3 DEF Place
<1>5. proc[p].goal # "fork" /\ proc[p].goal # None /\ proc[p].goal # "resume"
  BY <1>4 DEF None
<1>a. proc[p].at \in Sessions
  BY <1>2, <1>3, OwnFacts
<1>6. /\ Only(p) /\ (Keeper(p)' => /\ proc'[p].pc = "open" /\ proc'[p].entries = <<>>
                                   /\ proc'[p].at = proc[p].at)
      /\ Alive(p)' /\ proc'[p].goal = "create" => proc[p].goal = "create"
  <2>1. CASE Initialize(p)
    <3>1. \E v : Begin(p, proc[p].at, "init", <<"header", "checkpoint">>, v)
      BY <2>1 DEF Initialize
    <3>2. Only(p) /\ proc'[p].goal = proc[p].goal
      BY <1>s, <3>1, BeginFacts DEF Stays
    <3> QED
      BY <1>5, <3>2 DEF Keeper
  <2>2. CASE InitializeDone(p)
    <3> DEFINE r == [NoProcess EXCEPT !.pc = "open", !.at = proc[p].at]
    <3>1. proc' = [proc EXCEPT ![p] = r]
      BY <2>2 DEF InitializeDone
    <3>2. DOMAIN r = Fields /\ r.pc = "open" /\ r.at = proc[p].at /\ r.goal = None /\ r.entries = <<>>
      BY DEF NoProcess, Fields
    <3> HIDE DEF r
    <3>3. Only(p) /\ proc'[p] = r
      BY <1>s, <3>1, <3>2, ReplaceFacts
    <3> QED
      BY <3>2, <3>3 DEF None
  <2>3. CASE InitializeFails(p)
    <3>1. Refused(p)
      BY <2>3 DEF InitializeFails
    <3>2. Only(p) /\ proc'[p] = [NoProcess EXCEPT !.pc = "dead"]
      BY <1>s, <1>5, <3>1, RefusedFacts
    <3>3. ~Alive(p)'
      BY <3>2, DeadApart
    <3> QED
      BY <3>2, <3>3 DEF Keeper
  <2> QED
    BY <2>1, <2>2, <2>3
<1>7. dir' = dir \/ dir' = [dir EXCEPT ![proc[p].at] = "file"]
  BY DEF Initialize, InitializeDone, InitializeFails
<1>8. Created(p)
  <2>1. dir'[Main] = dir[Main] \/ dir'[Main] = "file"
    BY <1>7, <1>s, <1>a DEF Shaped
  <2> QED
    BY <1>2, <1>6, <2>1 DEF Created
<1>9. SideTyped' /\ GivenLater'
  BY <1>g, <1>s, <1>6, <1>8, GivenStays DEF SideTyped
<1>10. CASE proc[p].goal = "create"
  <2>1. given = {}
    BY <1>2, <1>s, <1>10 DEF GivenLater
  <2>2. ASSUME NEW q \in Pids, q # p
        PROVE  ~Keeper(q)'
    <3>1. ~Keeper(q)
      BY <1>2, <1>4, <1>5, <1>10, <2>2, KeeperAlone
    <3> QED
      BY <1>6, <2>2, <3>1 DEF Only, Keeper, Alive
  <2> QED
    BY <1>9, <1>6, <1>g, <1>s, <2>1, <2>2, FreshResults
<1>11. CASE proc[p].goal = "branch"
  <2>1. PICK f \in Sessions : f = proc[p].at /\ f # Main
    BY <1>4, <1>11, <1>a
  <2>2. ~Keeper(p)'
    <3>1. Keeper(p)' => proc'[p].at = Main
      BY DEF Keeper
    <3> QED
      BY <1>6, <2>1, <3>1
  <2>3. log'[Main] = log[Main]
    <3>1. CASE Initialize(p)
      <4>1. \E x : log' = [log EXCEPT ![f] = x]
        BY <2>1, <3>1, Zenon DEF Initialize, Begin
      <4> QED
        BY <1>s, <2>1, <4>1 DEF FilesTyped
    <3>2. CASE InitializeDone(p)
      <4>1. Written(p) /\ proc[p].pc = "write" /\ UNCHANGED <<dir, spoiled>>
        BY <3>2 DEF InitializeDone, At
      <4>2. WriteFiles(proc[p]) /\ proc[p].app.s = f
        BY <1>4, <2>1, <4>1, Writing
      <4>3. Elsewhere(f)
        BY <1>s, <1>3, <4>1, <4>2, WrittenFiles
      <4> QED
        BY <1>s, <2>1, <4>3 DEF Elsewhere
    <3>3. CASE InitializeFails(p)
      <4>1. \E x : log' = [log EXCEPT ![f] = x]
        BY <1>4, <2>1, <3>3 DEF InitializeFails, At
      <4> QED
        BY <1>s, <2>1, <4>1 DEF FilesTyped
    <3> QED
      BY <3>1, <3>2, <3>3
  <2>4. Untouched /\ Apart(p)
    BY <1>g, <1>s, <2>2, <2>3 DEF Untouched, Apart, SideTyped
  <2> QED
    BY <1>6, <1>8, <2>4, ApartStep
<1> QED
  BY <1>4, <1>10, <1>11

LEMMA RecordsSame ==
  ASSUME FilesTyped, FilesTyped', NEW n \in Nat, n <= Len(log[Main]), n <= Len(log'[Main]),
         \A i \in 1 .. n : log'[Main][i] = log[Main][i],
         \A i \in (n + 1) .. Len(log[Main]) : log[Main][i].kind # "result",
         \A i \in (n + 1) .. Len(log'[Main]) : log'[Main][i].kind # "result"
  PROVE  SameRecords
<1>1. Len(log[Main]) \in Nat /\ Len(log'[Main]) \in Nat
  BY Names, LogTyped DEF FilesTyped
<1>2. ASSUME NEW k \in Records(log[Main])
      PROVE  k \in 1 .. n
  BY <1>1, <1>2 DEF Records
<1>3. ASSUME NEW k \in Records(log'[Main])
      PROVE  k \in 1 .. n
  BY <1>1, <1>3 DEF Records
<1>4. \A k \in 1 .. n : k \in 1 .. Len(log[Main]) /\ k \in 1 .. Len(log'[Main])
  BY <1>1
<1>5. \A k \in 1 .. n : k \in Records(log[Main]) <=> k \in Records(log'[Main])
  BY <1>4 DEF Records
<1>6. Records(log'[Main]) = Records(log[Main])
  BY <1>2, <1>3, <1>5
<1> QED
  BY <1>2, <1>6 DEF SameRecords

\* A process whose Session is open
LEMMA OpenKeeper ==
  ASSUME LockInv, FilesInv, NEW p \in Pids,
         \/ proc[p].pc \in Idle /\ proc[p].at = Main
         \/ proc[p].pc = "sidecar"
         \/ proc[p].pc = "write" /\ proc[p].app.purpose \in {"record", "result"}
  PROVE  /\ Keeper(p) /\ Alive(p) /\ proc[p].at = Main /\ proc[p].goal = None
         /\ proc[p].pc = "write" => proc[p].app.s = Main
         /\ \A q \in Pids : q # p => ~Keeper(q)
<1>1. Alive(p)
  BY DEF Alive, Idle
<1>2. Place(proc[p])
  BY <1>1, EachFacts
<1>3. /\ proc[p].at = Main /\ proc[p].goal = None
      /\ proc[p].pc = "write" => proc[p].app.s = Main
  BY <1>2 DEF Place, Idle, None
<1>4. \A q \in Pids : q # p => ~Keeper(q)
  BY <1>1, <1>3, KeeperAlone DEF None
<1> QED
  BY <1>1, <1>3, <1>4 DEF Keeper

LEMMA AppendResults ==
  ASSUME LockInv, FilesInv, FilesInv', ResultsInv, NEW p \in Pids, AppendRecords(p)
  PROVE  ResultsInv'
<1>s. /\ Shaped /\ FilesTyped /\ FilesTyped' /\ SideTyped /\ GivenLater /\ used.records \in Nat
      /\ Main \in Sessions
  BY Names DEF LockInv, Shaped, FilesInv, ResultsInv
<1>1. /\ proc[p].pc = "open" /\ proc[p].at = Main
      /\ UNCHANGED <<dir, side, given>>
  BY DEF AppendRecords, At, ghosts
<1>2. PICK kinds \in {<<"entry">>, <<"entry", "checkpoint">>} :
        Begin(p, Main, "record", kinds, used.records + 1)
  BY DEF AppendRecords
<1>3. kinds \in Seq(Kinds) /\ Len(kinds) > 0 /\ \A k \in 1 .. Len(kinds) : kinds[k] # "result"
  <2>1. CASE kinds = <<"entry">>
    BY <2>1 DEF Kinds
  <2>2. CASE kinds = <<"entry", "checkpoint">>
    <3>1. kinds \in Seq(Kinds) /\ Len(kinds) = 2
      BY <2>2 DEF Kinds
    <3>2. \A k \in 1 .. 2 : kinds[k] # "result"
      <4>1. kinds[1] = "entry" /\ kinds[2] = "checkpoint"
        BY <2>2
      <4> QED
        BY <4>1
    <3> QED
      BY <3>1, <3>2
  <2> QED
    BY <1>2, <2>1, <2>2
<1>4. used.records + 1 \in Nat
  BY <1>s
<1>5. /\ Keeper(p) /\ proc[p].goal = None /\ Alive(p)
      /\ \A q \in Pids : q # p => ~Keeper(q)
  BY <1>1, OpenKeeper DEF Idle
<1>n. PICK n \in Nat : n = Len(log[Main])
  BY <1>s, LogTyped
<1>m. PICK m \in Nat : m = Len(log'[Main])
  BY <1>s, LogTyped DEF FilesTyped
<1>6. /\ Only(p) /\ Stays(p) /\ More(p) /\ proc'[p].pc = "write"
      /\ proc'[p].app.purpose = "record" /\ proc'[p].app.s = Main /\ proc'[p].app.from = n
      /\ n <= m /\ \A i \in 1 .. n : log'[Main][i] = log[Main][i]
  <2>1. Begun(p, Main, "record", kinds, used.records + 1)
    BY <1>s, <1>2, <1>3, <1>4, BeginLog
  <2> QED
    BY <1>n, <1>m, <2>1 DEF Begun
<1>7. /\ \A i \in (n + 1) .. m : log'[Main][i].kind # "result"
      /\ \A i \in 1 .. Len(proc'[p].app.rest) : proc'[p].app.rest[i].kind # "result"
  <2>1. /\ \A i \in (n + 1) .. m : Likely(log'[Main][i], kinds)
        /\ \A i \in 1 .. Len(proc'[p].app.rest) : Likely(proc'[p].app.rest[i], kinds)
    BY <1>s, <1>2, <1>3, <1>4, <1>n, <1>m, BegunLines
  <2>2. \A l : Likely(l, kinds) => l.kind # "result"
    BY <1>3 DEF Likely
  <2> QED
    BY <2>1, <2>2
<1>8. SameRecords
  <2>1. \A i \in (n + 1) .. Len(log[Main]) : log[Main][i].kind # "result"
    BY <1>n
  <2> QED
    BY <1>s, <1>n, <1>m, <1>6, <1>7, <2>1, RecordsSame
<1>9. BadStays(p)
  BY <1>n, <1>m, <1>6 DEF BadStays
<1>10. KeepsHeld(p)
  BY <1>1, <1>5, <1>6 DEF KeepsHeld, More, Storing
<1>11. Recording(proc[p])'
  BY <1>m, <1>6, <1>7 DEF Recording
<1>12. SideTyped'
  BY <1>1, <1>s DEF SideTyped
<1>13. GivenLater'
  <2>1. Created(p)
    BY <1>1, <1>5, <1>6 DEF Created, Stays
  <2> QED
    BY <1>1, <1>6, <1>s, <2>1, GivenStays
<1> QED
  BY <1>1, <1>5, <1>6, <1>8, <1>9, <1>10, <1>11, <1>12, <1>13, ResultStep

\* The rest of a record, or a line that cannot be read
Rest(p, s) == IF tail[s] THEN proc[p].app.rest ELSE <<Bad>>

LEMMA WrittenLines ==
  ASSUME FilesTyped, NEW p \in Pids, Place(proc[p]), proc[p].pc = "write", Written(p),
         NEW s \in Sessions, proc[p].app.s = s
  PROVE  /\ Len(Rest(p, s)) \in Nat /\ Len(log'[s]) = Len(log[s]) + Len(Rest(p, s))
         /\ \A i \in 1 .. Len(log[s]) : log'[s][i] = log[s][i]
         /\ \A i \in 1 .. Len(Rest(p, s)) : log'[s][Len(log[s]) + i] = Rest(p, s)[i]
<1>n. PICK n \in Nat : n = Len(log[s])
  BY LogTyped
<1>1. proc[p].app \in AppType
  BY DEF Place
<1>2. s \in Sessions /\ proc[p].app.rest \in Seq(LineType)
  BY <1>1 DEF AppType
<1> DEFINE e == Rest(p, s)
<1>3. <<Bad>> \in Seq(LineType)
  BY DEF Bad, Line, LineType, Kinds
<1>4. e \in Seq(LineType) /\ log[s] \in Seq(LineType)
  BY <1>2, <1>3, LogTyped DEF Rest
<1>5. log' = [log EXCEPT ![s] = @ \o e]
  BY DEF Written, Rest
<1> HIDE DEF e
<1>6. log'[s] = log[s] \o e
  BY <1>2, <1>5 DEF FilesTyped
<1>7. Len(e) \in Nat /\ Len(log[s] \o e) = n + Len(e)
  BY <1>4, <1>n
<1>8. /\ \A i \in 1 .. n : (log[s] \o e)[i] = log[s][i]
      /\ \A i \in (n + 1) .. (n + Len(e)) : (log[s] \o e)[i] = e[i - n]
  BY <1>4, <1>n, Joined
<1>9. \A i \in 1 .. Len(e) : n + i \in (n + 1) .. (n + Len(e)) /\ (n + i) - n = i
  BY <1>7
<1> QED
  BY <1>6, <1>7, <1>8, <1>9, <1>n DEF e

LEMMA AppendDoneResults ==
  ASSUME LockInv, FilesInv, FilesInv', ResultsInv, NEW p \in Pids,
         AppendDone(p) \/ AppendFails(p)
  PROVE  ResultsInv'
<1>s. /\ Shaped /\ FilesTyped /\ FilesTyped' /\ SideTyped /\ GivenLater
      /\ Main \in Sessions
  BY Names DEF LockInv, FilesInv, ResultsInv
<1>1. /\ proc[p].pc = "write" /\ proc[p].app.purpose = "record"
      /\ UNCHANGED <<dir, side, given>>
      /\ proc' = [proc EXCEPT ![p].pc = "open", ![p].app = NoAppend]
  BY DEF AppendDone, AppendFails, At
<1>2. Only(p) /\ Stays(p) /\ More(p) /\ proc'[p].pc = "open"
  BY <1>1, <1>s, AppFacts
<1>3. /\ Keeper(p) /\ Alive(p) /\ proc[p].goal = None /\ proc[p].app.s = Main
      /\ \A q \in Pids : q # p => ~Keeper(q)
  BY <1>1, OpenKeeper
<1>4. Place(proc[p]) /\ WriteFiles(proc[p]) /\ proc[p].app \in AppType
  BY <1>1, Writing
<1>5. PICK n \in Nat, c \in Nat : n = Len(log[Main]) /\ c = proc[p].app.from /\ c <= n
  <2>1. Len(log[Main]) \in Nat /\ proc[p].app.from \in Nat /\ proc[p].app.from <= Len(log[Main])
    BY <1>s, <1>3, <1>4, LogTyped DEF AppType, WriteFiles
  <2> QED
    BY <2>1
<1>m. PICK m \in Nat : m = Len(log'[Main])
  BY <1>s, LogTyped DEF FilesTyped
<1>6. /\ \A i \in 1 .. Len(proc[p].app.rest) : proc[p].app.rest[i].kind # "result"
      /\ \A i \in (c + 1) .. n : log[Main][i].kind # "result"
  BY <1>1, <1>3, <1>5 DEF ResultsInv, Recording
<1>7. /\ c <= m /\ \A i \in 1 .. c : log'[Main][i] = log[Main][i]
      /\ \A i \in (c + 1) .. m : log'[Main][i].kind # "result"
  <2>1. CASE AppendDone(p)
    <3>1. Written(p)
      BY <2>1 DEF AppendDone
    <3>e. PICK e : e = Rest(p, Main)
      OBVIOUS
    <3>2. /\ Len(e) \in Nat /\ m = n + Len(e)
          /\ \A i \in 1 .. n : log'[Main][i] = log[Main][i]
          /\ \A i \in 1 .. Len(e) : log'[Main][n + i] = e[i]
      <4>1. /\ Main \in Sessions /\ proc[p].app.s = Main
            /\ proc[p].pc = "write" /\ FilesTyped /\ Place(proc[p])
        BY <1>1, <1>3, <1>4, <1>s
      <4>2. /\ Len(Rest(p, Main)) \in Nat /\ Len(log'[Main]) = Len(log[Main]) + Len(Rest(p, Main))
            /\ \A i \in 1 .. Len(log[Main]) : log'[Main][i] = log[Main][i]
            /\ \A i \in 1 .. Len(Rest(p, Main)) :
                 log'[Main][Len(log[Main]) + i] = Rest(p, Main)[i]
        BY <3>1, <4>1, WrittenLines
      <4> QED
        BY <1>5, <1>m, <3>e, <4>2
    <3>3. \A i \in 1 .. Len(e) : e[i].kind # "result"
      <4>1. <<Bad>>[1].kind # "result" /\ Len(<<Bad>>) = 1
        BY DEF Bad, Line
      <4> QED
        BY <1>6, <3>e, <4>1 DEF Rest
    <3>4. \A i \in 1 .. c : i \in 1 .. n
      BY <1>5
    <3>5. ASSUME NEW i \in (c + 1) .. m
          PROVE  log'[Main][i].kind # "result"
      <4>1. CASE i <= n
        <5>1. i \in (c + 1) .. n /\ i \in 1 .. n
          BY <1>5, <4>1
        <5> QED
          BY <1>6, <3>2, <5>1
      <4>2. CASE i > n
        <5>1. i - n \in 1 .. Len(e) /\ n + (i - n) = i
          BY <1>5, <3>2, <4>2
        <5> QED
          BY <3>2, <3>3, <5>1
      <4> QED
        BY <1>5, <4>1, <4>2
    <3>6. c <= m
      BY <1>5, <3>2
    <3> QED
      BY <3>2, <3>4, <3>5, <3>6
  <2>2. CASE AppendFails(p)
    <3>1. log' = [log EXCEPT ![Main] = SubSeq(log[Main], 1, c)] \/ log' = log
      BY <1>3, <1>5, <2>2 DEF AppendFails
    <3>2. CASE log' = log
      BY <1>5, <1>6, <1>m, <3>2
    <3>3. CASE log' = [log EXCEPT ![Main] = SubSeq(log[Main], 1, c)]
      <4>1. log'[Main] = SubSeq(log[Main], 1, c)
        BY <1>s, <3>3 DEF FilesTyped
      <4>2. log[Main] \in Seq(LineType) /\ c <= Len(log[Main])
        BY <1>s, <1>5, LogTyped
      <4>3. /\ Len(SubSeq(log[Main], 1, c)) = c
            /\ \A k \in 1 .. c : SubSeq(log[Main], 1, c)[k] = log[Main][k]
        <5>1. c - 1 + 1 = c /\ 1 <= c + 1 /\ \A k \in 1 .. c : 1 + k - 1 = k
          BY <1>5
        <5>2. 1 \in Nat \ {0}
          OBVIOUS
        <5> QED
          BY <1>5, <4>2, <5>1, <5>2, SubSeqFacts
      <4>4. m = c
        BY <1>m, <4>1, <4>3
      <4> QED
        BY <4>1, <4>3, <4>4
    <3> QED
      BY <3>1, <3>2, <3>3
  <2> QED
    BY <2>1, <2>2
<1>8. SameRecords
  BY <1>s, <1>5, <1>6, <1>7, <1>m, RecordsSame
<1>9. BadStays(p)
  <2> SUFFICES ASSUME NEW i \in 1 .. Len(log[Main]),
                      Keeper(p) /\ proc[p].pc = "write" /\ proc[p].app.s = Main
                        => i <= proc[p].app.from
               PROVE  i <= Len(log'[Main]) /\ log'[Main][i] = log[Main][i]
    BY <1>2 DEF BadStays
  <2>1. i <= c
    BY <1>1, <1>3, <1>5
  <2>2. i \in 1 .. c
    BY <1>5, <2>1
  <2> QED
    BY <1>5, <1>7, <1>m, <2>2
<1>10. KeepsHeld(p)
  BY <1>2, <1>3 DEF KeepsHeld, More, Storing
<1>11. Recording(proc[p])'
  BY <1>2 DEF Recording
<1>12. SideTyped'
  BY <1>1, <1>s DEF SideTyped
<1>13. GivenLater'
  <2>1. Created(p)
    BY <1>1, <1>2, <1>3 DEF Created, Stays
  <2> QED
    BY <1>1, <1>2, <1>s, <2>1, GivenStays
<1> QED
  BY <1>1, <1>2, <1>3, <1>8, <1>9, <1>10, <1>11, <1>12, <1>13, ResultStep

\* Nobody else has the Session open.
LEMMA AloneStep ==
  ASSUME NEW p \in Pids, Only(p), \A q \in Pids : q # p => ~Keeper(q),
         SideTyped', Unique', GivenLater', Traced',
         Keeper(p)' => Held(proc[p])' /\ Recording(proc[p])'
  PROVE  ResultsInv'
<1>1. ASSUME NEW q \in Pids, q # p
      PROVE  ~Keeper(q)'
  BY <1>1 DEF Only, Keeper, Alive
<1> QED
  BY <1>1 DEF ResultsInv

\* For the one who has it open, or nobody, the log tells what was kept.
LEMMA TracedAlone ==
  ASSUME NEW p \in Pids, Only(p), \A q \in Pids : q # p => ~Keeper(q),
         NEW n \in 0 .. MaxResults, NEW w, Recorded(w, n)',
         Keeper(p)' => Entered(proc[p], w, n)'
  PROVE  Traced'
<1>1. ASSUME NEW q \in Pids, Keeper(q)'
      PROVE  q = p
  BY <1>1 DEF Only, Keeper, Alive
<1>2. Witnessed(w, n)'
  BY <1>1 DEF Witnessed
<1>3. w \in [1 .. n -> Records(log'[Main])]
  BY DEF Recorded
<1> QED
  BY <1>2, <1>3 DEF Traced

\* What was given is older than the result that is being stored.
LEMMA GivenOlder ==
  ASSUME NEW x, Held(x), Storing(x), Unique, x.next \in Nat, NEW g \in given
  PROVE  g.h \in Nat /\ g.h < x.next
<1>1. PICK es : es = x.entries
  OBVIOUS
<1>2. /\ es \in Seq(ResultType) /\ Covered(g, es)
      /\ \A m \in 1 .. Len(es) : es[m].h < x.next
  BY <1>1 DEF Held
<1>3. g.h \in Nat /\ MaxResults \in Nat /\ MaxResults > 0
  BY BoundsAssumption DEF Unique, ResultType
<1>4. \A m \in 1 .. Len(es) : es[m].h \in Nat
  <2>1. \A m \in 1 .. Len(es) : es[m] \in ResultType
    BY <1>2
  <2> QED
    BY <2>1 DEF ResultType
<1>5. CASE \E k \in 1 .. Len(es) : es[k] = g
  BY <1>2, <1>3, <1>5
<1>6. CASE Len(es) = MaxResults /\ \A m \in 1 .. Len(es) : es[m].h > g.h
  <2>1. 1 \in 1 .. Len(es)
    BY <1>3, <1>6
  <2>2. es[1].h > g.h /\ es[1].h < x.next /\ es[1].h \in Nat
    BY <1>2, <1>4, <1>6, <2>1
  <2> QED
    BY <1>3, <2>2
<1> QED
  BY <1>2, <1>5, <1>6 DEF Covered

\* A sidecar that nothing held names is written or removed.
LEMMA SideStep ==
  ASSUME LockInv, FilesInv, FilesInv', ResultsInv, NEW p \in Pids, Only(p), Keeper(p),
         \A q \in Pids : q # p => ~Keeper(q),
         proc'[p].entries = proc[p].entries,
         NEW h, \A m \in 1 .. Len(proc[p].entries) : proc[p].entries[m].h # h,
         DOMAIN side[Main] \ {h} \subseteq DOMAIN side'[Main],
         \A x \in DOMAIN side[Main] \ {h} : side'[Main][x] = side[Main][x],
         given' = given, SideTyped', GivenLater', BadStays(p),
         Records(log[Main]) \subseteq Records(log'[Main]),
         \A k \in Records(log[Main]) : log'[Main][k].v = log[Main][k].v,
         \A k \in Records(log'[Main]) \ Records(log[Main]) :
            \A g \in given : log'[Main][k].v > g.h,
         Keeper(p)' =>
            /\ Recording(proc[p])' /\ proc'[p].next \in Nat
            /\ \A m \in 1 .. Len(proc[p].entries) :
                  proc[p].entries[m].h <= proc'[p].next
                    /\ (Storing(proc'[p]) => proc[p].entries[m].h < proc'[p].next)
            /\ Storing(proc'[p]) => proc'[p].next \in DOMAIN side'[Main]
  PROVE  ResultsInv'
<1>1. Unique'
  BY DEF ResultsInv, Unique
<1>e. PICK es : es = proc[p].entries
  OBVIOUS
<1>2. /\ es \in Seq(ResultType) /\ Len(es) <= MaxResults
      /\ \A m \in 1 .. Len(es) : es[m].h \in DOMAIN side[Main] /\ side[Main][es[m].h] = es[m].c
      /\ \A g \in given : Covered(g, es)
  BY <1>e DEF ResultsInv, Held
<1>3. \A m \in 1 .. Len(es) : es[m].h \in DOMAIN side'[Main] /\ side'[Main][es[m].h] = es[m].c
  BY <1>2, <1>e
<1>4. ASSUME Keeper(p)'
      PROVE  Held(proc[p])'
  <2>1. PICK y : y = proc'[p]
    OBVIOUS
  <2>2. /\ y.entries = es
        /\ \A m \in 1 .. Len(es) : es[m].h <= y.next /\ (Storing(y) => es[m].h < y.next)
        /\ Storing(y) => y.next \in DOMAIN side'[Main]
    BY <1>4, <1>e, <2>1
  <2>3. Storing(y)' <=> Storing(y)
    BY DEF Storing
  <2>4. Held(y)'
    BY <1>2, <1>3, <2>2, <2>3 DEF Held, Covered
  <2> QED
    BY <2>1, <2>4
<1>5. Traced'
  <2>1. CASE Broken
    <3>1. Broken'
      BY <2>1, BrokenKept DEF FilesInv
    <3> QED
      BY <3>1 DEF Traced
  <2>2. CASE ~Broken
    <3>1. PICK n \in 0 .. MaxResults : \E w \in [1 .. n -> Records(log[Main])] : Witnessed(w, n)
      BY <2>2 DEF ResultsInv, Traced
    <3>2. PICK w \in [1 .. n -> Records(log[Main])] : Witnessed(w, n)
      BY <3>1
    <3>3. /\ n <= MaxResults /\ \A i, j \in 1 .. n : i < j => w[i] < w[j]
          /\ \A g \in given : Known(g, w, n)
          /\ n = Len(es) /\ \A m \in 1 .. n : log[Main][w[m]].v = es[m].h
      BY <1>e, <3>2 DEF Witnessed, Recorded, Entered
    <3>4. \A m \in 1 .. n : w[m] \in Records(log[Main]) /\ w[m] \in Records(log'[Main])
      BY <3>2
    <3>5. \A m \in 1 .. n : log'[Main][w[m]].v = es[m].h
      BY <3>3, <3>4
    <3>6. w \in [1 .. n -> Records(log'[Main])]
      BY <3>2
    <3>7. \A m \in 1 .. n : log'[Main][w[m]].v \in DOMAIN side'[Main]
      BY <1>3, <3>3, <3>5
    <3>8. ASSUME NEW g \in given'
          PROVE  Known(g, w, n)'
      <4>1. Known(g, w, n)
        BY <3>3, <3>8
      <4>2. PICK k \in Records(log[Main]) :
              /\ log[Main][k].v = g.h
              /\ \A i \in Records(log[Main]) : i > k => log[Main][i].v > g.h
              /\ \/ /\ g.h \in DOMAIN side[Main] /\ side[Main][g.h] = g.c
                    /\ \E m \in 1 .. n : w[m] = k
                 \/ n = MaxResults /\ \A m \in 1 .. n : k < w[m]
        BY <4>1 DEF Known
      <4>3. k \in Records(log'[Main]) /\ log'[Main][k].v = g.h
        BY <4>2
      <4>4. ASSUME NEW i \in Records(log'[Main]), i > k
            PROVE  log'[Main][i].v > g.h
        <5>1. CASE i \in Records(log[Main])
          BY <4>2, <4>4, <5>1
        <5>2. CASE i \notin Records(log[Main])
          BY <3>8, <5>2
        <5> QED
          BY <5>1, <5>2
      <4>5. CASE /\ g.h \in DOMAIN side[Main] /\ side[Main][g.h] = g.c
                 /\ \E m \in 1 .. n : w[m] = k
        <5>1. PICK m \in 1 .. n : w[m] = k
          BY <4>5
        <5>2. g.h = es[m].h /\ m \in 1 .. Len(es)
          BY <3>3, <4>2, <5>1
        <5>3. g.h # h
          BY <1>e, <5>2
        <5>4. g.h \in DOMAIN side'[Main] /\ side'[Main][g.h] = g.c
          BY <4>5, <5>3
        <5> QED
          BY <4>3, <4>4, <5>1, <5>4 DEF Known
      <4>6. CASE n = MaxResults /\ \A m \in 1 .. n : k < w[m]
        BY <4>3, <4>4, <4>6 DEF Known
      <4> QED
        BY <4>2, <4>5, <4>6
    <3>9. Recorded(w, n)'
      BY <3>3, <3>6, <3>7, <3>8 DEF Recorded
    <3>10. Keeper(p)' => Entered(proc[p], w, n)'
      <4>1. n = Len(proc'[p].entries) /\ \A m \in 1 .. n : log'[Main][w[m]].v = proc'[p].entries[m].h
        BY <1>e, <3>3, <3>5
      <4> QED
        BY <4>1 DEF Entered
    <3> QED
      BY <3>9, <3>10, TracedAlone
  <2> QED
    BY <2>1, <2>2
<1> QED
  BY <1>1, <1>4, <1>5, AloneStep

LEMMA StoreResultResults ==
  ASSUME LockInv, FilesInv, FilesInv', ResultsInv, NEW p \in Pids, StoreResult(p)
  PROVE  ResultsInv'
<1>s. /\ Shaped /\ FilesTyped /\ SideTyped /\ GivenLater /\ used.stored \in Nat
      /\ Main \in Sessions
  BY Names DEF LockInv, Shaped, FilesInv, ResultsInv
<1>1. /\ proc[p].pc = "open" /\ proc[p].at = Main
      /\ UNCHANGED <<dir, log, given>>
  BY DEF StoreResult, At, ghosts
<1>2. PICK h : h = proc[p].next + 1
  OBVIOUS
<1>3. /\ side' = [side EXCEPT ![Main] = [x \in DOMAIN side[Main] \cup {h} |->
                                            IF x = h THEN used.stored + 1 ELSE side[Main][x]]]
      /\ proc' = [proc EXCEPT ![p].pc = "sidecar", ![p].next = h]
  BY <1>2 DEF StoreResult, NextHandle
<1>4. /\ Keeper(p) /\ proc[p].goal = None /\ Alive(p)
      /\ \A q \in Pids : q # p => ~Keeper(q)
  BY <1>1, OpenKeeper DEF Idle
<1>5. proc[p].next \in Nat /\ h \in Nat
  BY <1>2 DEF FilesInv, Counted
<1> DEFINE r == [proc[p] EXCEPT !.pc = "sidecar", !.next = h]
<1>6. proc' = [proc EXCEPT ![p] = r]
  BY <1>s, <1>3 DEF Shaped
<1>7. /\ DOMAIN r = Fields /\ r.pc = "sidecar" /\ r.at = proc[p].at
      /\ r.goal = proc[p].goal /\ r.next = h /\ r.entries = proc[p].entries
  BY <1>s DEF Shaped, Fields
<1> HIDE DEF r
<1>8. Only(p) /\ proc'[p] = r
  BY <1>s, <1>6, <1>7, ReplaceFacts
<1>9. Held(proc[p])
  BY <1>4 DEF ResultsInv
<1>10. \A m \in 1 .. Len(proc[p].entries) :
          /\ proc[p].entries[m].h \in Nat /\ proc[p].entries[m].h <= proc[p].next
  <2>1. PICK es : es = proc[p].entries
    OBVIOUS
  <2>2. es \in Seq(ResultType) /\ \A m \in 1 .. Len(es) : es[m].h <= proc[p].next
    BY <1>9, <2>1 DEF Held
  <2>3. \A m \in 1 .. Len(es) : es[m] \in ResultType
    BY <2>2
  <2> QED
    BY <2>1, <2>2, <2>3 DEF ResultType
<1>11. \A m \in 1 .. Len(proc[p].entries) : proc[p].entries[m].h < h
  BY <1>2, <1>5, <1>10
<1> DEFINE sd == [x \in DOMAIN side[Main] \cup {h} |->
                     IF x = h THEN used.stored + 1 ELSE side[Main][x]]
<1>12. side'[Main] = sd /\ DOMAIN side' = Sessions
  BY <1>3, <1>s DEF SideTyped
<1>13. /\ DOMAIN sd = DOMAIN side[Main] \cup {h}
       /\ \A x \in DOMAIN side[Main] \ {h} : sd[x] = side[Main][x]
  OBVIOUS
<1>14. SideTyped'
  <2>1. side[Main] \in [DOMAIN side[Main] -> Nat] /\ DOMAIN side[Main] \subseteq Nat
    BY <1>s DEF SideTyped
  <2>2. sd \in [DOMAIN side[Main] \cup {h} -> Nat]
    BY <1>s, <2>1
  <2> QED
    BY <1>5, <1>12, <1>13, <2>1, <2>2 DEF SideTyped
<1> HIDE DEF sd
<1>15. GivenLater'
  <2>1. Created(p)
    BY <1>1, <1>4, <1>7, <1>8 DEF Created
  <2> QED
    BY <1>1, <1>8, <1>s, <2>1, GivenStays
<1>16. BadStays(p)
  <2>1. Len(log[Main]) \in Nat
    BY <1>s, LogTyped
  <2> QED
    BY <1>1, <1>7, <1>8, <2>1 DEF BadStays
<1>17. Recording(proc[p])'
  BY <1>7, <1>8 DEF Recording
<1>18. \A m \in 1 .. Len(proc[p].entries) :
          proc[p].entries[m].h <= h /\ proc[p].entries[m].h # h
  BY <1>5, <1>10, <1>11
<1>19. proc'[p].next = h /\ proc'[p].entries = proc[p].entries /\ h \in DOMAIN side'[Main]
  BY <1>7, <1>8, <1>12, <1>13
<1>20. /\ DOMAIN side[Main] \ {h} \subseteq DOMAIN side'[Main]
       /\ \A x \in DOMAIN side[Main] \ {h} : side'[Main][x] = side[Main][x]
  BY <1>12, <1>13
<1> QED
  BY <1>1, <1>4, <1>5, <1>8, <1>11, <1>14, <1>15, <1>16, <1>17, <1>18, <1>19, <1>20, SideStep

LEMMA StoreRecordResults ==
  ASSUME LockInv, FilesInv, FilesInv', ResultsInv, NEW p \in Pids, StoreRecord(p)
  PROVE  ResultsInv'
<1>s. /\ Shaped /\ FilesTyped /\ FilesTyped' /\ SideTyped /\ GivenLater
      /\ Main \in Sessions
  BY Names DEF LockInv, FilesInv, ResultsInv
<1>1. /\ proc[p].pc = "sidecar" /\ UNCHANGED <<dir, side, given>>
      /\ Begin(p, Main, "result", <<"result">>, proc[p].next)
  BY DEF StoreRecord, At, ghosts
<1>2. <<"result">> \in Seq(Kinds) /\ Len(<<"result">>) = 1 /\ <<"result">>[1] = "result"
  BY DEF Kinds
<1>3. /\ Keeper(p) /\ proc[p].goal = None /\ Alive(p)
      /\ \A q \in Pids : q # p => ~Keeper(q)
  BY <1>1, OpenKeeper
<1>4. proc[p].next \in Nat
  BY DEF FilesInv, Counted
<1>n. PICK n \in Nat : n = Len(log[Main])
  BY <1>s, LogTyped
<1>k. PICK kinds : kinds = <<"result">>
  OBVIOUS
<1>l. kinds \in Seq(Kinds) /\ Len(kinds) > 0 /\ Len(kinds) = 1 /\ kinds[1] = "result"
  BY <1>2, <1>k
<1>b. Begin(p, Main, "result", kinds, proc[p].next)
  BY <1>1, <1>k
<1>5. /\ Only(p) /\ Stays(p) /\ More(p) /\ proc'[p].pc = "write"
      /\ proc'[p].app.purpose = "result" /\ proc'[p].app.s = Main /\ proc'[p].app.from = n
      /\ proc'[p].app.mid = tail[Main]
      /\ \A i \in 1 .. n : log'[Main][i] = log[Main][i]
  <2>1. Begun(p, Main, "result", kinds, proc[p].next)
    BY <1>s, <1>b, <1>l, <1>4, BeginLog
  <2> QED
    BY <1>n, <2>1 DEF Begun
<1>6. /\ proc'[p].app.v = proc[p].next /\ Len(log'[Main]) = n /\ Len(proc'[p].app.rest) = 1
      /\ tail[Main] => proc'[p].app.rest[1] = Bad
      /\ ~tail[Main] => /\ proc'[p].app.rest[1].kind = "result"
                        /\ proc'[p].app.rest[1].v = proc[p].next
  <2>1. "result" \in {"record", "init", "result", "fork"}
    OBVIOUS
  <2>2. /\ proc'[p].app.v = proc[p].next
        /\ Len(kinds) = 1 =>
             /\ Len(log'[Main]) = Len(log[Main]) /\ Len(proc'[p].app.rest) = 1
             /\ tail[Main] => proc'[p].app.rest[1] = Bad
             /\ ~tail[Main] => /\ proc'[p].app.rest[1].kind = kinds[1]
                               /\ proc'[p].app.rest[1].v = proc[p].next
    BY <1>s, <1>b, <1>l, <1>4, <2>1, BegunLines, SMTT(60)
  <2> QED
    BY <1>l, <1>n, <2>2
<1>7. SameRecords
  <2>1. \A i \in (n + 1) .. n : FALSE
    BY <1>n
  <2> QED
    BY <1>s, <1>n, <1>5, <1>6, <2>1, RecordsSame
<1>9. BadStays(p)
  BY <1>n, <1>5, <1>6 DEF BadStays
<1>10. KeepsHeld(p)
  BY <1>1, <1>3, <1>5 DEF KeepsHeld, More, Storing
<1>11. Recording(proc[p])'
  BY <1>5, <1>6 DEF Recording, More
<1>12. SideTyped'
  BY <1>1, <1>s DEF SideTyped
<1>13. GivenLater'
  <2>1. Created(p)
    BY <1>1, <1>3, <1>5 DEF Created, Stays
  <2> QED
    BY <1>1, <1>5, <1>s, <2>1, GivenStays
<1> QED
  BY <1>1, <1>3, <1>5, <1>7, <1>9, <1>10, <1>11, <1>12, <1>13, ResultStep

\* A stored result that fails: its sidecar goes, and its record may be there.
LEMMA StoreFailsResults ==
  ASSUME LockInv, FilesInv, FilesInv', ResultsInv, NEW p \in Pids, StoreFails(p)
  PROVE  ResultsInv'
<1>s. /\ Shaped /\ FilesTyped /\ FilesTyped' /\ SideTyped /\ GivenLater /\ Unique
      /\ Main \in Sessions
  BY Names DEF LockInv, FilesInv, ResultsInv
<1>1. UNCHANGED <<dir, given>>
  BY DEF StoreFails
<1>2. proc' = [proc EXCEPT ![p].pc = "open", ![p].app = NoAppend]
  BY DEF StoreFails
<1>3. Only(p) /\ Stays(p) /\ More(p) /\ proc'[p].pc = "open"
  BY <1>2, <1>s, AppFacts
<1>4. PICK h : h = proc[p].next
  OBVIOUS
<1>5. side' = [side EXCEPT ![Main] = [x \in DOMAIN side[Main] \ {h} |-> side[Main][x]]]
  BY <1>4 DEF StoreFails
<1>6. /\ Storing(proc[p])
      /\ proc[p].pc = "sidecar" \/ (proc[p].pc = "write" /\ proc[p].app.purpose = "result")
  BY DEF StoreFails, At, Storing
<1>7. /\ Keeper(p) /\ proc[p].goal = None /\ Alive(p)
      /\ proc[p].pc = "write" => proc[p].app.s = Main
      /\ \A q \in Pids : q # p => ~Keeper(q)
  BY <1>6, OpenKeeper
<1>8. h \in Nat /\ Held(proc[p]) /\ Recording(proc[p])
  BY <1>4, <1>7 DEF FilesInv, Counted, ResultsInv
<1>9. \A m \in 1 .. Len(proc[p].entries) :
          proc[p].entries[m].h \in Nat /\ proc[p].entries[m].h < h
  <2>1. PICK es : es = proc[p].entries
    OBVIOUS
  <2>2. es \in Seq(ResultType) /\ \A m \in 1 .. Len(es) : es[m].h < h
    BY <1>4, <1>6, <1>8, <2>1 DEF Held
  <2>3. \A m \in 1 .. Len(es) : es[m] \in ResultType
    BY <2>2
  <2> QED
    BY <2>1, <2>2, <2>3 DEF ResultType
<1>10. \A g \in given : g.h \in Nat /\ g.h < h
  BY <1>4, <1>6, <1>8, <1>s, GivenOlder
<1> DEFINE sd == [x \in DOMAIN side[Main] \ {h} |-> side[Main][x]]
<1>12. side'[Main] = sd /\ DOMAIN side' = Sessions
  BY <1>5, <1>s DEF SideTyped
<1>13. /\ DOMAIN sd = DOMAIN side[Main] \ {h}
       /\ \A x \in DOMAIN side[Main] \ {h} : sd[x] = side[Main][x]
  OBVIOUS
<1>14. SideTyped'
  <2>1. side[Main] \in [DOMAIN side[Main] -> Nat] /\ DOMAIN side[Main] \subseteq Nat
    BY <1>s DEF SideTyped
  <2>2. sd \in [DOMAIN side[Main] \ {h} -> Nat]
    BY <2>1
  <2> QED
    BY <1>12, <1>13, <2>1, <2>2 DEF SideTyped
<1> HIDE DEF sd
<1>15. GivenLater'
  <2>1. Created(p)
    BY <1>1, <1>3, <1>7 DEF Created, Stays
  <2> QED
    BY <1>1, <1>3, <1>s, <2>1, GivenStays
<1>n. PICK n \in Nat : n = Len(log[Main])
  BY <1>s, LogTyped
<1>16. /\ n <= Len(log'[Main]) /\ \A i \in 1 .. n : log'[Main][i] = log[Main][i]
       /\ \A i \in (n + 1) .. Len(log'[Main]) : log'[Main][i].v = h
  <2>1. CASE UNCHANGED log
    BY <1>n, <2>1
  <2>2. CASE ~UNCHANGED log
    <3>1. /\ proc[p].pc = "write" /\ proc[p].app.purpose = "result" /\ ~proc[p].app.mid
          /\ log' = [log EXCEPT ![Main] = @ \o proc[p].app.rest]
      BY <2>2 DEF StoreFails, At
    <3>2. Place(proc[p])
      BY <1>7, EachFacts
    <3>3. PICK x : x = proc[p].app.rest
      OBVIOUS
    <3>4. x \in Seq(LineType) /\ Len(x) = 1 /\ x[1].v = h
      BY <1>4, <1>8, <3>1, <3>2, <3>3 DEF Place, AppType, Recording
    <3>5. log'[Main] = log[Main] \o x /\ log[Main] \in Seq(LineType)
      BY <1>s, <3>1, <3>3, LogTyped DEF FilesTyped
    <3>6. Len(log[Main] \o x) = n + 1
      <4>1. x \in Seq(LineType) /\ log[Main] \in Seq(LineType)
        BY <3>4, <3>5
      <4>2. Len(log[Main] \o x) = Len(log[Main]) + Len(x)
        BY <4>1
      <4> QED
        BY <1>n, <3>4, <4>2
    <3>7. /\ \A i \in 1 .. n : (log[Main] \o x)[i] = log[Main][i]
          /\ \A i \in (n + 1) .. (n + 1) : (log[Main] \o x)[i] = x[i - n]
      BY <1>n, <3>4, <3>5, Joined
    <3>8. \A i \in (n + 1) .. (n + 1) : i - n = 1
      BY <1>n
    <3> QED
      BY <1>n, <3>4, <3>5, <3>6, <3>7, <3>8
  <2> QED
    BY <2>1, <2>2
<1>m. PICK m \in Nat : m = Len(log'[Main])
  BY <1>s, LogTyped DEF FilesTyped
<1>17. /\ Records(log[Main]) \subseteq Records(log'[Main])
       /\ \A k \in Records(log[Main]) : log'[Main][k].v = log[Main][k].v
       /\ \A k \in Records(log'[Main]) \ Records(log[Main]) : log'[Main][k].v = h
  <2>1. \A k \in 1 .. n : k \in 1 .. m
    BY <1>m, <1>n, <1>16
  <2>2. \A k \in 1 .. m : k \in 1 .. n \/ k \in (n + 1) .. m
    BY <1>m, <1>n
  <2> QED
    BY <1>m, <1>n, <1>16, <2>1, <2>2 DEF Records
<1>18. \A k \in Records(log'[Main]) \ Records(log[Main]) : \A g \in given : log'[Main][k].v > g.h
  BY <1>8, <1>10, <1>17
<1>19. BadStays(p)
  <2>1. \A i \in 1 .. n : i <= m
    BY <1>m, <1>n, <1>16
  <2> QED
    BY <1>3, <1>m, <1>n, <1>16, <2>1 DEF BadStays
<1>20. Recording(proc[p])' /\ ~Storing(proc'[p])
  BY <1>3 DEF Recording, Storing
<1>21. \A k \in 1 .. Len(proc[p].entries) :
          proc[p].entries[k].h <= proc'[p].next /\ proc[p].entries[k].h # h
  BY <1>3, <1>4, <1>8, <1>9 DEF More
<1>22. /\ DOMAIN side[Main] \ {h} \subseteq DOMAIN side'[Main]
       /\ \A x \in DOMAIN side[Main] \ {h} : side'[Main][x] = side[Main][x]
  BY <1>12, <1>13
<1>23. proc'[p].entries = proc[p].entries /\ proc'[p].next \in Nat
  BY <1>3, <1>4, <1>8 DEF More
<1> QED
  BY <1>1, <1>3, <1>7, <1>14, <1>15, <1>17, <1>18, <1>19, <1>20, <1>21, <1>22, <1>23, SideStep

LEMMA TrimFacts ==
  ASSUME NEW T, NEW es \in Seq(T)
  PROVE  \E d \in 0 .. Len(es) :
           /\ TrimEntries(es) \in Seq(T) /\ Len(TrimEntries(es)) = Len(es) - d
           /\ Len(es) - d <= MaxResults /\ (d > 0 => Len(es) - d = MaxResults)
           /\ \A i \in 1 .. (Len(es) - d) : TrimEntries(es)[i] = es[i + d]
<1>1. PICK n \in Nat : n = Len(es)
  OBVIOUS
<1>2. MaxResults \in Nat /\ MaxResults > 0
  BY BoundsAssumption
<1> DEFINE S == {1, n - MaxResults + 1}
           b == IF n > MaxResults THEN n - MaxResults + 1 ELSE 1
           d == IF n > MaxResults THEN n - MaxResults ELSE 0
<1>3. b \in S /\ (\A x \in S : x <= b) /\ S \subseteq Int
  BY <1>1, <1>2
<1>4. Max(S) = b
  <2>1. \E m \in S : \A x \in S : x <= m
    BY <1>3
  <2>2. Max(S) \in S /\ \A x \in S : x <= Max(S)
    <3> HIDE DEF S
    <3> QED
      BY <2>1 DEF Max
  <2>3. \A x, y \in Int : x <= y /\ y <= x => x = y
    OBVIOUS
  <2> HIDE DEF S, b
  <2> QED
    BY <1>3, <2>2, <2>3
<1>5. TrimEntries(es) = SubSeq(es, b, n)
  BY <1>1, <1>4 DEF TrimEntries
<1>6. /\ b \in Nat \ {0} /\ b <= n + 1 /\ d \in 0 .. n /\ b = d + 1
      /\ n - d <= MaxResults /\ (d > 0 => n - d = MaxResults)
  BY <1>1, <1>2
<1> HIDE DEF b, d
<1>7. n - b + 1 = n - d /\ \A i \in 1 .. (n - d) : b + i - 1 = i + d
  BY <1>1, <1>6
<1>8. /\ SubSeq(es, b, n) \in Seq(T) /\ Len(SubSeq(es, b, n)) = n - d
      /\ \A i \in 1 .. (n - d) : SubSeq(es, b, n)[i] = es[i + d]
  <2>1. n <= Len(es)
    BY <1>1
  <2> QED
    BY <1>1, <1>6, <1>7, <2>1, SubSeqFacts
<1> QED
  BY <1>1, <1>5, <1>6, <1>8

\* A result that is acknowledged: the newest entry, for which the oldest may go.
LEMMA StoreDoneResults ==
  ASSUME LockInv, FilesInv, FilesInv', ResultsInv, NEW p \in Pids, StoreDone(p)
  PROVE  ResultsInv'
<1>s. /\ Shaped /\ FilesTyped /\ FilesTyped' /\ SideTyped /\ GivenLater /\ Unique
      /\ Main \in Sessions /\ MaxResults \in Nat /\ MaxResults > 0
  BY Names, BoundsAssumption DEF LockInv, FilesInv, ResultsInv
<1>1. /\ proc[p].pc = "write" /\ proc[p].app.purpose = "result" /\ Written(p)
      /\ UNCHANGED dir
  BY DEF StoreDone, At
<1>2. Storing(proc[p])
  BY <1>1 DEF Storing
<1>3. /\ Keeper(p) /\ proc[p].goal = None /\ Alive(p) /\ proc[p].app.s = Main
      /\ \A q \in Pids : q # p => ~Keeper(q)
  BY <1>1, OpenKeeper
<1>4. Place(proc[p]) /\ WriteFiles(proc[p]) /\ proc[p].app \in AppType
  BY <1>1, Writing
<1>5. Held(proc[p]) /\ Recording(proc[p])
  BY <1>3 DEF ResultsInv
<1>h. PICK h \in Nat : h = proc[p].next
  BY DEF FilesInv, Counted
<1>l. PICK l \in Nat : l = Len(log[Main])
  BY <1>s, LogTyped
<1>6. /\ proc[p].app.v = h /\ proc[p].app.from = l /\ Len(proc[p].app.rest) = 1
      /\ ~proc[p].app.mid => proc[p].app.rest[1].kind = "result" /\ proc[p].app.rest[1].v = h
      /\ proc[p].app.mid => proc[p].app.rest[1] = Bad
  BY <1>1, <1>5, <1>h, <1>l DEF Recording
<1>e. PICK es : es = proc[p].entries
  OBVIOUS
<1>7. /\ es \in Seq(ResultType) /\ Len(es) <= MaxResults
      /\ \A m \in 1 .. Len(es) :
           es[m].h < h /\ es[m].h \in DOMAIN side[Main] /\ side[Main][es[m].h] = es[m].c
      /\ \A g \in given : Covered(g, es)
      /\ h \in DOMAIN side[Main]
  BY <1>2, <1>5, <1>e, <1>h DEF Held
<1>c. PICK c \in Nat : c = side[Main][h]
  BY <1>7, <1>s DEF SideTyped
<1> DEFINE new == [h |-> h, c |-> c]
           X == Append(es, new)
           kept == TrimEntries(X)
<1>8. new \in ResultType /\ new.h = h /\ new.c = c
  BY DEF ResultType
<1>9. /\ side' = [side EXCEPT ![Main] = Referenced(side[Main], kept)]
      /\ given' = given \cup {new}
      /\ proc' = [proc EXCEPT ![p].pc = "open", ![p].app = NoAppend, ![p].entries = kept]
  BY <1>6, <1>c, <1>e DEF StoreDone
<1>N. PICK N \in Nat : N = Len(es)
  BY <1>7
<1> HIDE DEF new
<1>10. /\ X \in Seq(ResultType) /\ Len(X) = N + 1 /\ X[N + 1] = new
       /\ \A i \in 1 .. N : X[i] = es[i]
  BY <1>7, <1>8, <1>N
<1> HIDE DEF X
<1>x. X \in Seq(ResultType)
  BY <1>10
<1>t. \E d \in 0 .. Len(X) :
         /\ kept \in Seq(ResultType) /\ Len(kept) = Len(X) - d
         /\ Len(X) - d <= MaxResults /\ (d > 0 => Len(X) - d = MaxResults)
         /\ \A i \in 1 .. (Len(X) - d) : kept[i] = X[i + d]
  BY <1>x, TrimFacts
<1> HIDE DEF kept
<1>y. Len(X) = N + 1
  BY <1>10
<1>11. PICK d \in 0 .. (N + 1) :
         /\ kept \in Seq(ResultType) /\ Len(kept) = N + 1 - d
         /\ N + 1 - d <= MaxResults /\ (d > 0 => N + 1 - d = MaxResults)
         /\ \A i \in 1 .. (N + 1 - d) : kept[i] = X[i + d]
  BY <1>t, <1>y
<1>K. PICK K \in Nat : K = N + 1 - d
  BY <1>11
<1>12. /\ K > 0 /\ K <= MaxResults /\ (d > 0 => K = MaxResults) /\ d \in Nat /\ d <= 1 /\ K + d = N + 1
  <2>1. N <= MaxResults
    BY <1>7, <1>N
  <2> QED
    BY <1>11, <1>K, <1>s, <2>1
<1>13. /\ \A i \in 1 .. K : i + d \in 1 .. (N + 1) /\ kept[i] = X[i + d]
       /\ kept[K] = new
  <2>1. \A i \in 1 .. K : i + d \in 1 .. (N + 1)
    BY <1>12
  <2>2. K \in 1 .. K
    BY <1>12
  <2> QED
    BY <1>10, <1>11, <1>K, <1>12, <2>1, <2>2
<1> DEFINE r == [proc[p] EXCEPT !.pc = "open", !.app = NoAppend, !.entries = kept]
<1>14. proc' = [proc EXCEPT ![p] = r]
  BY <1>9, <1>s DEF Shaped
<1>15. /\ DOMAIN r = Fields /\ r.pc = "open" /\ r.at = proc[p].at /\ r.goal = proc[p].goal
       /\ r.next = proc[p].next /\ r.entries = kept
  BY <1>s DEF Shaped, Fields
<1> HIDE DEF r
<1>16. Only(p) /\ proc'[p] = r
  BY <1>s, <1>14, <1>15, ReplaceFacts
<1>17. \A j \in 1 .. (N + 1) :
          X[j].h <= h /\ X[j].h \in DOMAIN side[Main] /\ side[Main][X[j].h] = X[j].c
               /\ X[j].h \in Nat
  <2> SUFFICES ASSUME NEW j \in 1 .. (N + 1)
               PROVE  X[j].h <= h /\ X[j].h \in DOMAIN side[Main] /\ side[Main][X[j].h] = X[j].c
                        /\ X[j].h \in Nat
    OBVIOUS
  <2>0. X[j] \in ResultType
    BY <1>10
  <2>1. CASE j \in 1 .. N
    <3>1. X[j] = es[j] /\ j \in 1 .. Len(es)
      BY <1>10, <1>N, <2>1
    <3>2. X[j].h < h /\ X[j].h \in DOMAIN side[Main] /\ side[Main][X[j].h] = X[j].c
      BY <1>7, <3>1
    <3>3. X[j].h \in Nat
      BY <2>0 DEF ResultType
    <3> QED
      BY <3>2, <3>3
  <2>2. CASE j \notin 1 .. N
    <3>1. j = N + 1
      BY <2>2
    <3> QED
      BY <1>7, <1>8, <1>10, <1>c, <3>1
  <2> QED
    BY <2>1, <2>2
<1>18. /\ DOMAIN side' = Sessions
       /\ DOMAIN side'[Main] = DOMAIN side[Main] \cap {kept[i].h : i \in DOMAIN kept}
       /\ \A x \in DOMAIN side'[Main] : side'[Main][x] = side[Main][x]
  <2>1. side'[Main] = Referenced(side[Main], kept) /\ DOMAIN side' = Sessions
    BY <1>9, <1>s DEF SideTyped
  <2> QED
    BY <2>1 DEF Referenced
<1>19. DOMAIN kept = 1 .. K
  BY <1>11, <1>K
<1>20. \A i \in 1 .. K : /\ kept[i].h <= h /\ kept[i].h \in DOMAIN side'[Main]
                        /\ side'[Main][kept[i].h] = kept[i].c /\ kept[i].h \in Nat
  <2>1. \A i \in 1 .. K : /\ kept[i].h <= h /\ kept[i].h \in DOMAIN side[Main]
                         /\ side[Main][kept[i].h] = kept[i].c /\ kept[i].h \in Nat
    BY <1>13, <1>17
  <2> QED
    BY <1>18, <1>19, <2>1
<1>21. SideTyped'
  <2>1. side[Main] \in [DOMAIN side[Main] -> Nat] /\ DOMAIN side[Main] \subseteq Nat
    BY <1>s DEF SideTyped
  <2>2. DOMAIN side'[Main] \subseteq Nat /\ \A x \in DOMAIN side'[Main] : side'[Main][x] \in Nat
    BY <1>18, <2>1
  <2>3. side'[Main] = [x \in DOMAIN side'[Main] |-> side'[Main][x]]
    <3>1. side'[Main] = Referenced(side[Main], kept)
      BY <1>9, <1>s DEF SideTyped
    <3> QED
      BY <3>1 DEF Referenced
  <2> QED
    BY <1>18, <2>2, <2>3 DEF SideTyped
<1>22. \A g \in given : g.h \in Nat /\ g.h < h
  BY <1>2, <1>5, <1>s, <1>h, GivenOlder
<1>23. Unique'
  <2>1. given' \subseteq ResultType
    BY <1>8, <1>9, <1>s DEF Unique
  <2>2. ASSUME NEW a \in given', NEW b \in given', a.h = b.h
        PROVE  a = b
    <3>1. CASE a \in given /\ b \in given
      BY <2>2, <3>1, <1>s DEF Unique
    <3>2. CASE a = new /\ b = new
      BY <3>2
    <3>3. CASE a \in given /\ b = new
      <4>1. a.h < h /\ a.h \in Nat /\ b.h = h
        BY <1>8, <1>22, <3>3
      <4> QED
        BY <2>2, <4>1
    <3>4. CASE a = new /\ b \in given
      <4>1. b.h < h /\ b.h \in Nat /\ a.h = h
        BY <1>8, <1>22, <3>4
      <4> QED
        BY <2>2, <4>1
    <3> QED
      BY <1>9, <3>1, <3>2, <3>3, <3>4
  <2> QED
    BY <2>1, <2>2 DEF Unique
<1>24. GivenLater'
  <2>1. dir[Main] = "file"
    <3>1. OpenFiles(proc[p]) /\ proc[p].at = Main
      BY <1>1, <1>3, Writing DEF Files, Keeper
    <3> QED
      BY <3>1 DEF OpenFiles, GoodLog
  <2>2. ASSUME NEW q \in Pids, Alive(q)', proc'[q].goal = "create"
        PROVE  FALSE
    <3>1. CASE q = p
      BY <1>3, <1>15, <1>16, <2>2, <3>1 DEF None
    <3>2. CASE q # p
      <4>1. proc'[q] = proc[q]
        BY <1>16, <3>2 DEF Only
      <4>2. proc[p].at = Main /\ proc[p].goal # "resume"
        BY <1>3 DEF Keeper, None
      <4> QED
        BY <1>3, <2>2, <3>2, <4>1, <4>2, KeeperAlone DEF Alive
    <3> QED
      BY <3>1, <3>2
  <2> QED
    BY <1>1, <2>1, <2>2 DEF GivenLater
<1>25. \A g \in given' : Covered(g, kept)
  <2>1. Covered(new, kept)
    <3>1. kept[K] = new /\ K \in 1 .. Len(kept)
      BY <1>11, <1>12, <1>13, <1>K
    <3>2. \A m \in (K + 1) .. Len(kept) : FALSE
      BY <1>11, <1>K
    <3> QED
      BY <3>1, <3>2 DEF Covered
  <2>2. ASSUME NEW g \in given
        PROVE  Covered(g, kept)
    <3>0. Len(kept) = K
      BY <1>11, <1>K
    <3>n. new.h > g.h /\ g.h \in Nat
      BY <1>8, <1>22
    <3>1. CASE \E k \in 1 .. Len(es) : es[k] = g /\ \A m \in (k + 1) .. Len(es) : es[m].h > g.h
      <4>1. PICK k \in 1 .. N : es[k] = g /\ \A m \in (k + 1) .. N : es[m].h > g.h
        BY <1>N, <3>1
      <4>2. X[k] = g /\ \A m \in (k + 1) .. (N + 1) : X[m].h > g.h
        <5>1. X[k] = g
          BY <1>10, <4>1
        <5>2. ASSUME NEW m \in (k + 1) .. (N + 1)
              PROVE  X[m].h > g.h
          <6>1. CASE m \in 1 .. N
            <7>1. m \in (k + 1) .. N
              BY <6>1
            <7> QED
              BY <1>10, <4>1, <6>1, <7>1
          <6>2. CASE m \notin 1 .. N
            <7>1. m = N + 1
              BY <6>2
            <7> QED
              BY <1>10, <3>n, <7>1
          <6> QED
            BY <6>1, <6>2
        <5> QED
          BY <5>1, <5>2
      <4>3. CASE k > d
        <5>1. k - d \in 1 .. K /\ (k - d) + d = k
          BY <1>12, <4>3
        <5>2. kept[k - d] = g
          BY <1>13, <4>2, <5>1
        <5>3. ASSUME NEW m \in (k - d + 1) .. K
              PROVE  kept[m].h > g.h
          <6>1. m + d \in (k + 1) .. (N + 1) /\ m \in 1 .. K
            BY <1>12, <4>3
          <6> QED
            BY <1>13, <4>2, <6>1
        <5> QED
          BY <3>0, <5>1, <5>2, <5>3 DEF Covered
      <4>4. CASE k <= d
        <5>1. d > 0 /\ K = MaxResults
          BY <1>12, <4>4
        <5>2. ASSUME NEW m \in 1 .. K
              PROVE  kept[m].h > g.h
          <6>1. m + d \in (k + 1) .. (N + 1)
            BY <1>12, <4>4
          <6> QED
            BY <1>13, <4>2, <6>1
        <5> QED
          BY <3>0, <5>1, <5>2 DEF Covered
      <4> QED
        BY <1>12, <4>3, <4>4
    <3>2. CASE Len(es) = MaxResults /\ \A m \in 1 .. Len(es) : es[m].h > g.h
      <4>1. K = MaxResults
        <5>1. N + 1 > MaxResults
          BY <1>N, <1>s, <3>2
        <5>2. d > 0
          BY <1>12, <5>1, <1>s
        <5> QED
          BY <1>12, <5>2
      <4>2. ASSUME NEW m \in 1 .. K
            PROVE  kept[m].h > g.h
        <5>1. m + d \in 1 .. (N + 1) /\ kept[m] = X[m + d]
          BY <1>13
        <5>2. CASE m + d \in 1 .. N
          BY <1>10, <1>N, <3>2, <5>1, <5>2
        <5>3. CASE m + d \notin 1 .. N
          <6>1. m + d = N + 1
            BY <5>1, <5>3
          <6> QED
            BY <1>10, <3>n, <5>1, <6>1
        <5> QED
          BY <5>2, <5>3
      <4> QED
        BY <3>0, <4>1, <4>2 DEF Covered
    <3> QED
      BY <1>7, <3>1, <3>2 DEF Covered
  <2> QED
    BY <1>9, <2>1, <2>2
<1>26. Held(proc[p])' /\ Recording(proc[p])'
  <2>1. Recording(proc[p])'
    BY <1>15, <1>16 DEF Recording
  <2>2. PICK y : y = proc'[p]
    OBVIOUS
  <2>3. y.entries = kept /\ y.next = h /\ y.pc = "open"
    BY <1>15, <1>16, <1>h, <2>2
  <2>4. Len(kept) = K
    BY <1>11, <1>K
  <2>5. Held(y)'
    BY <1>11, <1>12, <1>20, <1>25, <2>3, <2>4 DEF Held, Storing
  <2> QED
    BY <2>1, <2>2, <2>5
<1>27. /\ Len(log'[Main]) = l + 1 /\ \A i \in 1 .. l : log'[Main][i] = log[Main][i]
       /\ log'[Main][l + 1] = proc[p].app.rest[1]
  <2>1. Rest(p, Main) = proc[p].app.rest
    BY <1>1, <1>3, <1>4 DEF WriteFiles, Rest
  <2>2. /\ Len(log'[Main]) = Len(log[Main]) + Len(Rest(p, Main))
        /\ \A i \in 1 .. Len(log[Main]) : log'[Main][i] = log[Main][i]
        /\ \A i \in 1 .. Len(Rest(p, Main)) :
             log'[Main][Len(log[Main]) + i] = Rest(p, Main)[i]
    BY <1>1, <1>3, <1>4, <1>s, WrittenLines
  <2> QED
    BY <1>6, <1>l, <2>1, <2>2, SMTT(30)
<1>28. Traced'
  <2>1. CASE proc[p].app.mid
    <3>1. \A q \in Pids : ~(Keeper(q)' /\ proc'[q].pc = "write")
      <4>1. proc'[p].pc = "open"
        BY <1>15, <1>16
      <4> QED
        BY <1>3, <1>16, <4>1 DEF Only, Keeper, Alive
    <3>2. l + 1 \in 1 .. Len(log'[Main])
      BY <1>27
    <3>3. log'[Main][l + 1] = Bad
      BY <1>6, <1>27, <2>1
    <3>4. Broken'
      BY <3>1, <3>2, <3>3 DEF Broken
    <3> QED
      BY <3>4 DEF Traced
  <2>2. CASE Broken
    <3>1. BadStays(p)
      <4>1. proc'[p].pc = "open"
        BY <1>15, <1>16
      <4>2. \A i \in 1 .. l : i <= l + 1
        OBVIOUS
      <4> QED
        BY <1>27, <1>l, <4>1, <4>2 DEF BadStays
    <3>2. Broken'
      BY <1>16, <1>s, <2>2, <3>1, BrokenKept
    <3> QED
      BY <3>2 DEF Traced
  <2>3. CASE ~proc[p].app.mid /\ ~Broken
    <3>1. PICK n \in 0 .. MaxResults : \E w \in [1 .. n -> Records(log[Main])] : Witnessed(w, n)
      BY <2>3 DEF ResultsInv, Traced
    <3>2. PICK w \in [1 .. n -> Records(log[Main])] : Witnessed(w, n)
      BY <3>1
    <3>3. /\ \A i, j \in 1 .. n : i < j => w[i] < w[j]
          /\ \A g \in given : Known(g, w, n)
          /\ n = N /\ \A m \in 1 .. n : log[Main][w[m]].v = es[m].h
      BY <1>3, <1>e, <1>N, <3>2 DEF Witnessed, Recorded, Entered
    <3>4. /\ log'[Main][l + 1].kind = "result" /\ log'[Main][l + 1].v = h
      BY <1>6, <1>27, <2>3
    <3>5. /\ Records(log'[Main]) = Records(log[Main]) \cup {l + 1}
          /\ \A k \in Records(log[Main]) :
               k \in 1 .. l /\ log'[Main][k].v = log[Main][k].v /\ k < l + 1
      <4>1. \A k \in 1 .. (l + 1) : k \in 1 .. l \/ k = l + 1
        OBVIOUS
      <4>2. \A k \in 1 .. l : k \in 1 .. (l + 1) /\ k < l + 1
        OBVIOUS
      <4>3. l + 1 \in 1 .. (l + 1)
        OBVIOUS
      <4> QED
        BY <1>27, <1>l, <3>4, <4>1, <4>2, <4>3 DEF Records
    <3> DEFINE W == [i \in 1 .. (N + 1) |-> IF i \in 1 .. N THEN w[i] ELSE l + 1]
               w2 == [i \in 1 .. K |-> W[i + d]]
    <3>6. /\ \A i \in 1 .. N : W[i] = w[i] /\ w[i] \in Records(log[Main])
          /\ W[N + 1] = l + 1
      <4>1. N + 1 \in 1 .. (N + 1) /\ N + 1 \notin 1 .. N
        OBVIOUS
      <4>2. \A i \in 1 .. N : i \in 1 .. (N + 1)
        OBVIOUS
      <4> QED
        BY <3>2, <3>3, <4>1, <4>2
    <3>7. \A i \in 1 .. K : w2[i] = W[i + d]
      OBVIOUS
    <3>d. w2 = [i \in 1 .. K |-> w2[i]]
      OBVIOUS
    <3> HIDE DEF W, w2
    <3>i. \A i \in 1 .. (N + 1) : i \in 1 .. N \/ i = N + 1
      OBVIOUS
    <3>8. \A i \in 1 .. (N + 1) : W[i] \in Records(log'[Main]) /\ log'[Main][W[i]].v = X[i].h
      <4>1. ASSUME NEW i \in 1 .. N
            PROVE  W[i] \in Records(log'[Main]) /\ log'[Main][W[i]].v = X[i].h
        BY <1>10, <3>3, <3>5, <3>6
      <4>2. W[N + 1] \in Records(log'[Main]) /\ log'[Main][W[N + 1]].v = X[N + 1].h
        BY <1>8, <1>10, <3>4, <3>5, <3>6
      <4> QED
        BY <3>i, <4>1, <4>2
    <3>9. \A i, j \in 1 .. (N + 1) : i < j => W[i] < W[j]
      <4> SUFFICES ASSUME NEW i \in 1 .. (N + 1), NEW j \in 1 .. (N + 1), i < j
                   PROVE  W[i] < W[j]
        OBVIOUS
      <4>1. i \in 1 .. N
        OBVIOUS
      <4>2. CASE j \in 1 .. N
        BY <3>3, <3>6, <4>1, <4>2
      <4>3. CASE j = N + 1
        BY <3>5, <3>6, <4>1, <4>3
      <4> QED
        BY <3>i, <4>2, <4>3
    <3>10. w2 \in [1 .. K -> Records(log'[Main])]
      BY <1>13, <3>7, <3>8, <3>d
    <3>11. \A i, j \in 1 .. K : i < j => w2[i] < w2[j]
      <4> SUFFICES ASSUME NEW i \in 1 .. K, NEW j \in 1 .. K, i < j
                   PROVE  w2[i] < w2[j]
        OBVIOUS
      <4>1. i + d \in 1 .. (N + 1) /\ j + d \in 1 .. (N + 1) /\ i + d < j + d
        BY <1>12
      <4> QED
        BY <3>7, <3>9, <4>1
    <3>12. \A m \in 1 .. K : log'[Main][w2[m]].v = kept[m].h
      BY <1>13, <3>7, <3>8
    <3>13. ASSUME NEW g \in given'
           PROVE  Known(g, w2, K)'
      <4>1. CASE g = new
        <5>1. l + 1 \in Records(log'[Main]) /\ log'[Main][l + 1].v = g.h
          BY <1>8, <3>4, <3>5, <4>1
        <5>2. \A i \in Records(log'[Main]) : ~(i > l + 1)
          <6>1. \A i \in Records(log[Main]) : i \in 1 .. l
            BY <3>5
          <6> QED
            BY <3>5, <6>1
        <5>3. K \in 1 .. K /\ w2[K] = l + 1
          BY <1>12, <3>6, <3>7
        <5>4. g.h \in DOMAIN side'[Main] /\ side'[Main][g.h] = g.c
          BY <1>13, <1>20, <4>1, <5>3
        <5> QED
          BY <5>1, <5>2, <5>3, <5>4 DEF Known
      <4>2. CASE g \in given
        <5>1. Known(g, w, n)
          BY <3>3, <4>2
        <5>2. PICK k \in Records(log[Main]) :
                /\ log[Main][k].v = g.h
                /\ \A i \in Records(log[Main]) : i > k => log[Main][i].v > g.h
                /\ \/ /\ g.h \in DOMAIN side[Main] /\ side[Main][g.h] = g.c
                      /\ \E m \in 1 .. n : w[m] = k
                   \/ n = MaxResults /\ \A m \in 1 .. n : k < w[m]
          BY <5>1 DEF Known
        <5>3. k \in Records(log'[Main]) /\ log'[Main][k].v = g.h /\ k < l + 1
          BY <3>5, <5>2
        <5>4. \A i \in Records(log'[Main]) : i > k => log'[Main][i].v > g.h
          <6>1. h > g.h
            BY <1>22, <4>2
          <6> QED
            BY <3>4, <3>5, <5>2, <6>1
        <5>5. CASE /\ g.h \in DOMAIN side[Main] /\ side[Main][g.h] = g.c
                   /\ \E m \in 1 .. n : w[m] = k
          <6>1. PICK m \in 1 .. N : w[m] = k
            BY <3>3, <5>5
          <6>2. W[m] = k /\ m \in 1 .. (N + 1)
            BY <3>6, <6>1
          <6>3. CASE m > d
            <7>1. m - d \in 1 .. K /\ (m - d) + d = m
              BY <1>12, <6>3
            <7>2. w2[m - d] = k
              BY <3>7, <6>2, <7>1
            <7>3. kept[m - d].h = g.h
              BY <3>12, <5>3, <7>1, <7>2
            <7>4. g.h \in DOMAIN side'[Main] /\ side'[Main][g.h] = g.c
              BY <1>18, <1>20, <5>5, <7>1, <7>3
            <7> QED
              BY <5>3, <5>4, <7>1, <7>2, <7>4 DEF Known
          <6>4. CASE m <= d
            <7>1. K = MaxResults
              BY <1>12, <6>4
            <7>2. ASSUME NEW i \in 1 .. K
                  PROVE  k < w2[i]
              <8>1. i + d \in 1 .. (N + 1) /\ m < i + d
                BY <1>12, <6>4
              <8> QED
                BY <3>7, <3>9, <6>2, <8>1
            <7> QED
              BY <5>3, <5>4, <7>1, <7>2 DEF Known
          <6> QED
            BY <1>12, <6>3, <6>4
        <5>6. CASE n = MaxResults /\ \A m \in 1 .. n : k < w[m]
          <6>1. K = MaxResults
            <7>1. N + 1 > MaxResults
              BY <1>s, <3>3, <5>6
            <7>2. d > 0
              BY <1>12, <1>s, <7>1
            <7> QED
              BY <1>12, <7>2
          <6>2. ASSUME NEW i \in 1 .. K
                PROVE  k < w2[i]
            <7>1. i + d \in 1 .. (N + 1) /\ w2[i] = W[i + d]
              BY <1>13, <3>7
            <7>2. CASE i + d \in 1 .. N
              BY <3>3, <3>6, <5>6, <7>1, <7>2
            <7>3. CASE i + d = N + 1
              BY <3>6, <5>3, <7>1, <7>3
            <7> QED
              BY <3>i, <7>1, <7>2, <7>3
          <6> QED
            BY <5>3, <5>4, <6>1, <6>2 DEF Known
        <5> QED
          BY <5>2, <5>5, <5>6
      <4> QED
        BY <1>9, <4>1, <4>2
    <3>14. Recorded(w2, K)'
      <4>1. \A m \in 1 .. K : log'[Main][w2[m]].v \in DOMAIN side'[Main]
        BY <1>20, <3>12
      <4> QED
        BY <1>12, <3>10, <3>11, <3>13, <4>1 DEF Recorded
    <3>15. Entered(proc[p], w2, K)'
      <4>1. Len(kept) = K /\ proc'[p].entries = kept
        BY <1>11, <1>15, <1>16, <1>K
      <4> QED
        BY <3>12, <4>1 DEF Entered
    <3>16. K \in 0 .. MaxResults
      BY <1>12, <1>s
    <3> QED
      BY <1>3, <1>16, <3>14, <3>15, <3>16, TracedAlone
  <2> QED
    BY <2>1, <2>2, <2>3
<1> QED
  BY <1>3, <1>16, <1>21, <1>23, <1>24, <1>26, <1>28, AloneStep

\* M different places in order among N leave that many behind the first.
LEMMA Packed ==
  ASSUME NEW M \in Nat, NEW N \in Nat, NEW f, \A m \in 1 .. M : f[m] \in 1 .. N,
         \A i, j \in 1 .. M : i < j => f[i] < f[j], M > 0
  PROVE  M <= N /\ f[1] <= N - M + 1
<1> DEFINE Late(m) == f[m] > N - M + m
           T == {i \in 0 .. (M - 1) : Late(M - i)}
<1>1. T = {}
  <2> SUFFICES ASSUME T # {}
               PROVE  FALSE
    OBVIOUS
  <2>1. T \subseteq Nat
    OBVIOUS
  <2>2. PICK i \in T : \A k \in T : i <= k
    <3> HIDE DEF T
    <3> QED
      BY <2>1, LeastNumber
  <2>3. i \in 0 .. (M - 1) /\ Late(M - i)
    OBVIOUS
  <2>4. PICK m \in 1 .. M : m = M - i
    BY <2>3
  <2>5. f[m] \in 1 .. N /\ f[m] > N - M + m
    BY <2>3, <2>4
  <2>6. i > 0
    BY <2>3, <2>4, <2>5
  <2>7. m + 1 \in 1 .. M /\ m + 1 = M - (i - 1) /\ i - 1 \in 0 .. (M - 1)
    BY <2>3, <2>4, <2>6
  <2>8. f[m + 1] \in 1 .. N /\ f[m] < f[m + 1]
    BY <2>7
  <2>9. f[m + 1] > N - M + (m + 1)
    BY <2>5, <2>8
  <2>10. i - 1 \in T
    BY <2>7, <2>9
  <2>11. i <= i - 1
    BY <2>2, <2>10
  <2> QED
    BY <2>3, <2>11
<1>2. M - 1 \in 0 .. (M - 1) /\ M - (M - 1) = 1
  OBVIOUS
<1>3. ~Late(1)
  BY <1>1, <1>2
<1>4. f[1] \in 1 .. N
  OBVIOUS
<1> QED
  BY <1>3, <1>4

\* The records that are loaded, in the order of the log
LEMMA InOrderFacts ==
  ASSUME FilesTyped, NEW s \in Sessions, NEW known \in InOrder(Stored(s))
  PROVE  \E n \in Nat :
           /\ DOMAIN known = 1 .. n
           /\ \A i \in 1 .. n : known[i] \in Stored(s)
           /\ \A i, j \in 1 .. n : i < j => known[i] < known[j]
           /\ \A k \in Stored(s) : \E i \in 1 .. n : known[i] = k
<1>1. PICK l \in Nat : DOMAIN log[s] = 1 .. l
  BY LogTyped
<1>2. Stored(s) \subseteq 1 .. l
  BY <1>1 DEF Stored
<1>3. PICK K : K = Stored(s)
  OBVIOUS
<1>4. IsFiniteSet(K) /\ Cardinality(K) \in Nat
  <2>1. IsFiniteSet(1 .. l)
    BY FS_Interval
  <2>2. IsFiniteSet(K)
    BY <1>2, <1>3, <2>1, FS_Subset
  <2> QED
    BY <2>2, FS_CardinalityType
<1>5. PICK n \in Nat : n = Cardinality(K)
  BY <1>4
<1>6. /\ known \in [1 .. n -> K]
      /\ \A i, j \in DOMAIN known : i < j => known[i] < known[j]
      /\ \A k \in K : \E i \in DOMAIN known : known[i] = k
  BY <1>3, <1>5 DEF InOrder
<1>7. DOMAIN known = 1 .. n
  BY <1>6
<1> QED
  BY <1>3, <1>6, <1>7

LEMMA OpenLock ==
  ASSUME LockInv, FilesInv, NEW p \in Pids, Resume(p), proc[p].at = Main,
         NEW q \in Pids, q # p
  PROVE  ~Keeper(q)
<1> SUFFICES ASSUME Keeper(q)
             PROVE  FALSE
  OBVIOUS
<1>1. proc[p].pc = "locked" /\ Alive(p)
  BY DEF Resume, At, Alive
<1>2. lock[Main] = p
  BY <1>1 DEF LockInv, HolderInv, Contending
<1>3. Alive(q) /\ proc[q].at = Main /\ proc[q].goal \in {None, "fork"}
  BY DEF Keeper
<1>4. Place(proc[q])
  BY <1>3, EachFacts
<1>5. proc[q].goal = "fork" \/ proc[q].pc \notin Contending
  BY <1>3, <1>4 DEF Place, Contending
<1>6. lock[Main] = q
  BY <1>3, <1>5 DEF LockInv, HolderInv
<1> QED
  BY <1>2, <1>6

\* A log that loads is not broken.
LEMMA LoadsWhole ==
  ASSUME FilesTyped, Loads(Main)
  PROVE  ~Broken
<1>1. Main \in Sessions
  BY Names
<1>2. Sound(Main) /\ Len(log[Main]) \in Nat
  BY <1>1, LoadsMeans, LogTyped
<1>3. Bad.seq = 0
  BY DEF Bad, Line
<1> QED
  BY <1>2, <1>3 DEF Broken, Sound

\* The entries es are the records at w.
Entries(es, w, n) ==
  /\ n \in 0 .. MaxResults /\ w \in [1 .. n -> Records(log[Main])]
  /\ es \in Seq(ResultType) /\ Len(es) = n
  /\ \A i, j \in 1 .. n : i < j => w[i] < w[j]
  /\ \A m \in 1 .. n :
       /\ w[m] \in Stored(Main) /\ es[m].h = log[Main][w[m]].v
       /\ es[m].h \in DOMAIN side[Main] /\ es[m].c = side[Main][es[m].h]

LEMMA StoredLines ==
  ASSUME FilesTyped, SideTyped
  PROVE  /\ Stored(Main) \subseteq Records(log[Main]) /\ Records(log[Main]) \subseteq Nat
         /\ \A k \in Records(log[Main]) :
              /\ log[Main][k].v \in Nat
              /\ k \in Stored(Main) <=> log[Main][k].v \in DOMAIN side[Main]
         /\ \A h \in DOMAIN side[Main] : side[Main][h] \in Nat
<1>1. PICK l \in Nat : /\ DOMAIN log[Main] = 1 .. l /\ l = Len(log[Main])
                       /\ \A i \in 1 .. l : log[Main][i].v \in Nat
  BY Names, LogTyped
<1>2. side[Main] \in [DOMAIN side[Main] -> Nat]
  BY DEF SideTyped
<1>3. 1 .. l \subseteq Nat
  OBVIOUS
<1> QED
  BY <1>1, <1>2, <1>3 DEF Stored, Records

\* What is loaded holds, or is newer than, what the log tells of every result given.
LEMMA LoadedKnown ==
  ASSUME FilesTyped, SideTyped, NEW v, NEW n \in Nat, Recorded(v, n),
         NEW known \in InOrder(Stored(Main)), NEW es, es = TrimEntries(StoredEntries(Main, known))
  PROVE  \E M, w : Entries(es, w, M) /\ \A g \in given : Known(g, w, M)
<1>0. Main \in Sessions /\ MaxResults \in Nat /\ MaxResults > 0
  BY Names, BoundsAssumption
<1>1. PICK N \in Nat :
        /\ DOMAIN known = 1 .. N
        /\ \A i \in 1 .. N : known[i] \in Stored(Main)
        /\ \A i, j \in 1 .. N : i < j => known[i] < known[j]
        /\ \A k \in Stored(Main) : \E i \in 1 .. N : known[i] = k
  BY <1>0, InOrderFacts
<1>2. /\ Stored(Main) \subseteq Records(log[Main]) /\ Records(log[Main]) \subseteq Nat
      /\ \A k \in Records(log[Main]) :
           /\ log[Main][k].v \in Nat
           /\ k \in Stored(Main) <=> log[Main][k].v \in DOMAIN side[Main]
      /\ \A h \in DOMAIN side[Main] : side[Main][h] \in Nat
  BY StoredLines
<1> DEFINE E == StoredEntries(Main, known)
           Entry(i) == [h |-> log[Main][known[i]].v, c |-> side[Main][log[Main][known[i]].v]]
<1>3. E = [i \in 1 .. N |-> Entry(i)]
  BY <1>1 DEF StoredEntries
<1>4. \A i \in 1 .. N : /\ Entry(i) \in ResultType
                        /\ Entry(i).h = log[Main][known[i]].v
                        /\ Entry(i).h \in DOMAIN side[Main]
                        /\ Entry(i).c = side[Main][Entry(i).h]
  <2> TAKE i \in 1 .. N
  <2>1. known[i] \in Records(log[Main]) /\ known[i] \in Stored(Main)
    BY <1>1, <1>2
  <2>2. log[Main][known[i]].v \in Nat /\ log[Main][known[i]].v \in DOMAIN side[Main]
    BY <1>2, <2>1
  <2>3. side[Main][log[Main][known[i]].v] \in Nat
    BY <1>2, <2>2
  <2> QED
    BY <2>2, <2>3 DEF ResultType
<1> HIDE DEF Entry, E
<1>5. E \in Seq(ResultType) /\ Len(E) = N /\ \A i \in 1 .. N : E[i] = Entry(i)
  BY <1>3, <1>4
<1>t. E \in Seq(ResultType)
  BY <1>5
<1>6. \E d \in 0 .. Len(E) :
           /\ TrimEntries(E) \in Seq(ResultType) /\ Len(TrimEntries(E)) = Len(E) - d
           /\ Len(E) - d <= MaxResults /\ (d > 0 => Len(E) - d = MaxResults)
           /\ \A i \in 1 .. (Len(E) - d) : TrimEntries(E)[i] = E[i + d]
  BY <1>t, TrimFacts
<1>e. es = TrimEntries(E)
  BY DEF E
<1>7. PICK d \in 0 .. N :
           /\ es \in Seq(ResultType) /\ Len(es) = N - d
           /\ N - d <= MaxResults /\ (d > 0 => N - d = MaxResults)
           /\ \A i \in 1 .. (N - d) : es[i] = E[i + d]
  BY <1>5, <1>6, <1>e
<1>M. PICK M \in Nat : M = N - d
  BY <1>7
<1>8. /\ es \in Seq(ResultType) /\ Len(es) = M /\ M <= MaxResults /\ (d > 0 => M = MaxResults)
      /\ \A i \in 1 .. M : i + d \in 1 .. N /\ es[i] = Entry(i + d)
  <2>1. \A i \in 1 .. M : i + d \in 1 .. N
    BY <1>M
  <2> QED
    BY <1>5, <1>7, <1>M, <2>1
<1> DEFINE w == [i \in 1 .. M |-> known[i + d]]
<1>9. \A i \in 1 .. M : w[i] = known[i + d]
  OBVIOUS
<1>10. w \in [1 .. M -> Records(log[Main])] /\ \A i \in 1 .. M : w[i] \in Stored(Main)
  BY <1>1, <1>2, <1>8
<1> HIDE DEF w
<1>11. \A i, j \in 1 .. M : i < j => w[i] < w[j]
  <2> SUFFICES ASSUME NEW i \in 1 .. M, NEW j \in 1 .. M, i < j
               PROVE  w[i] < w[j]
    OBVIOUS
  <2>1. i + d \in 1 .. N /\ j + d \in 1 .. N /\ i + d < j + d
    BY <1>8
  <2> QED
    BY <1>1, <1>9, <2>1
<1>12. \A m \in 1 .. M :
         /\ es[m].h = log[Main][w[m]].v
         /\ es[m].h \in DOMAIN side[Main] /\ es[m].c = side[Main][es[m].h]
  <2> TAKE m \in 1 .. M
  <2>1. PICK i \in 1 .. N : i = m + d
    BY <1>8
  <2>2. es[m] = Entry(i) /\ w[m] = known[i]
    BY <1>8, <1>9, <2>1
  <2>3. /\ es[m].h = log[Main][known[i]].v
        /\ es[m].h \in DOMAIN side[Main] /\ es[m].c = side[Main][es[m].h]
    <3> HIDE DEF Entry
    <3> QED
      BY <1>4, <2>2
  <2> QED
    BY <2>2, <2>3
<1>13. Entries(es, w, M)
  <2>1. M \in 0 .. MaxResults
    BY <1>0, <1>8
  <2> QED
    BY <1>8, <1>10, <1>11, <1>12, <2>1 DEF Entries
<1>14. ASSUME NEW g \in given
       PROVE  Known(g, w, M)
  <2>1. PICK k \in Records(log[Main]) :
          /\ log[Main][k].v = g.h
          /\ \A i \in Records(log[Main]) : i > k => log[Main][i].v > g.h
          /\ \/ /\ g.h \in DOMAIN side[Main] /\ side[Main][g.h] = g.c
                /\ \E m \in 1 .. n : v[m] = k
             \/ n = MaxResults /\ \A m \in 1 .. n : k < v[m]
    BY DEF Recorded, Known
  <2>2. CASE g.h \in DOMAIN side[Main] /\ side[Main][g.h] = g.c
    <3>1. k \in Stored(Main)
      BY <1>2, <2>1, <2>2
    <3>2. PICK j \in 1 .. N : known[j] = k
      BY <1>1, <3>1
    <3>3. CASE j > d
      <4>1. j - d \in 1 .. M /\ (j - d) + d = j
        BY <1>M, <3>3
      <4>2. w[j - d] = k
        BY <1>9, <3>2, <4>1
      <4> QED
        BY <2>1, <2>2, <4>1, <4>2 DEF Known
    <3>4. CASE j <= d
      <4>1. M = MaxResults
        BY <1>8, <3>4
      <4>2. ASSUME NEW i \in 1 .. M
            PROVE  k < w[i]
        <5>1. i + d \in 1 .. N /\ j < i + d
          BY <1>8, <3>4
        <5> QED
          BY <1>1, <1>9, <3>2, <5>1
      <4> QED
        BY <2>1, <4>1, <4>2 DEF Known
    <3> QED
      BY <3>3, <3>4
  <2>3. CASE n = MaxResults /\ \A m \in 1 .. n : k < v[m]
    <3>1. /\ \A i, j \in 1 .. n : i < j => v[i] < v[j]
          /\ \A m \in 1 .. n : v[m] \in Stored(Main) /\ v[m] \in Nat
      BY <1>2 DEF Recorded
    <3> DEFINE f == [m \in 1 .. n |-> CHOOSE j \in 1 .. N : known[j] = v[m]]
    <3>2. \A m \in 1 .. n : f[m] \in 1 .. N /\ known[f[m]] = v[m]
      <4> TAKE m \in 1 .. n
      <4>1. \E j \in 1 .. N : known[j] = v[m]
        BY <1>1, <3>1
      <4> QED
        BY <4>1
    <3> HIDE DEF f
    <3>3. \A i \in 1 .. N : known[i] \in Nat
      BY <1>1, <1>2
    <3>4. \A i, j \in 1 .. n : i < j => f[i] < f[j]
      <4> SUFFICES ASSUME NEW i \in 1 .. n, NEW j \in 1 .. n, i < j, f[j] <= f[i]
                   PROVE  FALSE
        BY <3>2
      <4>1. v[i] < v[j] /\ v[i] \in Nat /\ v[j] \in Nat
        BY <3>1
      <4>2. known[f[j]] <= known[f[i]]
        <5>1. f[i] \in 1 .. N /\ f[j] \in 1 .. N
          BY <3>2
        <5>2. CASE f[j] = f[i]
          BY <3>3, <5>1, <5>2
        <5>3. CASE f[j] < f[i]
          <6>1. known[f[j]] < known[f[i]]
            BY <1>1, <5>1, <5>3
          <6> QED
            BY <3>3, <5>1, <6>1
        <5>4. f[j] < f[i] \/ f[j] = f[i]
          <6>1. f[i] \in Nat /\ f[j] \in Nat
            BY <5>1
          <6> QED
            BY <6>1
        <5> QED
          BY <5>2, <5>3, <5>4
      <4> QED
        BY <3>2, <4>1, <4>2
    <3>5. n <= N /\ f[1] <= N - n + 1
      <4>1. n > 0
        BY <1>0, <2>3
      <4>2. \A m \in 1 .. n : f[m] \in 1 .. N
        BY <3>2
      <4> QED
        BY <3>4, <4>1, <4>2, Packed
    <3>6. M = MaxResults /\ d = N - n
      BY <1>M, <1>0, <1>8, <2>3, <3>5
    <3>7. 1 \in 1 .. n /\ k < v[1] /\ k \in Nat
      BY <1>0, <1>2, <2>3
    <3>8. ASSUME NEW i \in 1 .. M
          PROVE  k < w[i]
      <4>1. f[1] \in 1 .. N /\ known[f[1]] = v[1] /\ i + d \in 1 .. N /\ f[1] <= i + d
        BY <1>8, <3>2, <3>5, <3>6, <3>7
      <4>2. known[f[1]] <= known[i + d]
        <5>1. CASE f[1] = i + d
          BY <3>3, <4>1, <5>1
        <5>2. CASE f[1] < i + d
          BY <1>1, <3>3, <4>1, <5>2
        <5> QED
          BY <4>1, <5>1, <5>2
      <4>3. known[i + d] \in Nat /\ known[f[1]] \in Nat
        BY <3>3, <4>1
      <4> QED
        BY <1>9, <3>7, <4>1, <4>2, <4>3
    <3> QED
      BY <2>1, <3>6, <3>8 DEF Known
  <2> QED
    BY <2>1, <2>2, <2>3
<1> QED
  BY <1>13, <1>14

\* What the log tells of a result, the entries tell.
LEMMA KnownCovered ==
  ASSUME FilesTyped, SideTyped, NEW es, NEW w, NEW n, Entries(es, w, n),
         NEW g \in ResultType, Known(g, w, n)
  PROVE  Covered(g, es)
<1>1. PICK k \in Records(log[Main]) :
        /\ log[Main][k].v = g.h
        /\ \A i \in Records(log[Main]) : i > k => log[Main][i].v > g.h
        /\ \/ /\ g.h \in DOMAIN side[Main] /\ side[Main][g.h] = g.c
              /\ \E m \in 1 .. n : w[m] = k
           \/ n = MaxResults /\ \A m \in 1 .. n : k < w[m]
  BY DEF Known
<1>2. /\ n \in Nat /\ Len(es) = n /\ es \in Seq(ResultType)
      /\ \A i, j \in 1 .. n : i < j => w[i] < w[j]
      /\ \A m \in 1 .. n : /\ w[m] \in Records(log[Main]) /\ es[m].h = log[Main][w[m]].v
                           /\ es[m].c = side[Main][es[m].h]
  BY DEF Entries
<1>3. Records(log[Main]) \subseteq Nat
  BY StoredLines
<1>4. CASE g.h \in DOMAIN side[Main] /\ side[Main][g.h] = g.c /\ \E m \in 1 .. n : w[m] = k
  <2>1. PICK m \in 1 .. n : w[m] = k
    BY <1>4
  <2>2. es[m].h = g.h /\ es[m].c = g.c /\ es[m] \in ResultType
    BY <1>1, <1>2, <1>4, <2>1
  <2>3. es[m] = g
    BY <2>2 DEF ResultType
  <2>4. ASSUME NEW i \in (m + 1) .. n
        PROVE  es[i].h > g.h
    <3>1. i \in 1 .. n /\ m < i
      BY <1>2
    <3>2. w[i] \in Records(log[Main]) /\ w[m] < w[i] /\ w[i] \in Nat /\ w[m] \in Nat
      BY <1>2, <1>3, <3>1
    <3> QED
      BY <1>1, <1>2, <2>1, <3>1, <3>2
  <2> QED
    BY <1>2, <2>3, <2>4 DEF Covered
<1>5. CASE n = MaxResults /\ \A m \in 1 .. n : k < w[m]
  <2>1. ASSUME NEW m \in 1 .. n
        PROVE  es[m].h > g.h
    <3>1. w[m] \in Records(log[Main]) /\ w[m] > k
      BY <1>2, <1>3, <1>5
    <3> QED
      BY <1>1, <1>2, <3>1
  <2> QED
    BY <1>2, <1>5, <2>1 DEF Covered
<1> QED
  BY <1>1, <1>4, <1>5

\* A Session is opened again, and what it kept is loaded.
LEMMA ResumeResults ==
  ASSUME LockInv, FilesInv, FilesInv', ResultsInv, NEW p \in Pids, Resume(p)
  PROVE  ResultsInv'
<1>s. /\ Shaped /\ FilesTyped /\ FilesTyped' /\ SideTyped /\ GivenLater /\ Unique
      /\ Main \in Sessions /\ MaxResults \in Nat
  BY Names, BoundsAssumption DEF LockInv, FilesInv, ResultsInv
<1>1. PICK s \in Sessions : s = proc[p].at
  <2>1. Alive(p)
    BY DEF Resume, At, Alive
  <2> QED
    BY <2>1 DEF LockInv, PhaseInv, Phase
<1>2. /\ proc[p].pc = "locked" /\ proc[p].goal = "resume" /\ Loads(s)
      /\ UNCHANGED <<dir, log, given>>
  BY <1>1 DEF Resume, At
<1>3. PICK known \in InOrder(Stored(s)) :
        LET es == TrimEntries(StoredEntries(s, known)) IN
         /\ side' = [side EXCEPT ![s] = Referenced(@, es)]
         /\ proc' = [proc EXCEPT ![p] = [NoProcess EXCEPT !.pc = "open", !.at = s,
                                            !.entries = es, !.next = LoadedNextId(s)]]
  BY <1>1, Zenon DEF Resume
<1>e. PICK es : es = TrimEntries(StoredEntries(s, known))
  OBVIOUS
<1>4. /\ side' = [side EXCEPT ![s] = Referenced(side[s], es)]
      /\ proc' = [proc EXCEPT ![p] = [NoProcess EXCEPT !.pc = "open", !.at = s,
                                            !.entries = es, !.next = LoadedNextId(s)]]
  BY <1>3, <1>e
<1> DEFINE r == [NoProcess EXCEPT !.pc = "open", !.at = s, !.entries = es,
                                  !.next = LoadedNextId(s)]
<1>5. /\ DOMAIN r = Fields /\ r.pc = "open" /\ r.at = s /\ r.goal = None
      /\ r.next = LoadedNextId(s) /\ r.entries = es
  BY DEF NoProcess, Fields
<1>6. proc' = [proc EXCEPT ![p] = r]
  BY <1>4
<1> HIDE DEF r
<1>7. Only(p) /\ proc'[p] = r
  BY <1>s, <1>5, <1>6, ReplaceFacts
<1>8. Created(p)
  BY <1>2, <1>5, <1>7 DEF Created, None
<1>9. CASE s # Main
  <2>1. side'[Main] = side[Main] /\ DOMAIN side' = Sessions
    BY <1>4, <1>9, <1>s DEF SideTyped
  <2>2. Untouched
    BY <1>2, <2>1 DEF Untouched
  <2>3. Apart(p)
    BY <1>5, <1>7, <1>9 DEF Apart, Keeper
  <2> QED
    BY <1>7, <1>8, <2>2, <2>3, ApartStep
<1>10. CASE s = Main
  <2>1. \A q \in Pids : q # p => ~Keeper(q)
    BY <1>1, <1>10, OpenLock
  <2>2. PICK n \in 0 .. MaxResults : \E w \in [1 .. n -> Records(log[Main])] : Witnessed(w, n)
    BY <1>2, <1>10, <1>s, LoadsWhole DEF ResultsInv, Traced
  <2>3. PICK v : Witnessed(v, n)
    BY <2>2
  <2>4. Recorded(v, n) /\ n \in Nat
    BY <2>3 DEF Witnessed
  <2>5. PICK M, w : Entries(es, w, M) /\ \A g \in given : Known(g, w, M)
    <3>1. known \in InOrder(Stored(Main)) /\ es = TrimEntries(StoredEntries(Main, known))
      BY <1>3, <1>e, <1>10
    <3> QED
      BY <1>s, <2>4, <3>1, LoadedKnown
  <2>6. /\ M \in 0 .. MaxResults /\ w \in [1 .. M -> Records(log[Main])]
        /\ es \in Seq(ResultType) /\ Len(es) = M /\ DOMAIN es = 1 .. M
        /\ \A i, j \in 1 .. M : i < j => w[i] < w[j]
        /\ \A m \in 1 .. M :
             /\ w[m] \in Stored(Main) /\ es[m].h = log[Main][w[m]].v
             /\ es[m].h \in DOMAIN side[Main] /\ es[m].c = side[Main][es[m].h]
    BY <2>5 DEF Entries
  <2>7. /\ DOMAIN side' = Sessions
        /\ side'[Main] = Referenced(side[Main], es)
        /\ DOMAIN side'[Main] = DOMAIN side[Main] \cap {es[i].h : i \in DOMAIN es}
        /\ \A x \in DOMAIN side'[Main] : side'[Main][x] = side[Main][x]
    <3>1. side'[Main] = Referenced(side[Main], es) /\ DOMAIN side' = Sessions
      BY <1>4, <1>10, <1>s DEF SideTyped
    <3> QED
      BY <3>1 DEF Referenced
  <2>8. \A m \in 1 .. M : es[m].h \in DOMAIN side'[Main] /\ side'[Main][es[m].h] = es[m].c
    BY <2>6, <2>7
  <2>9. SideTyped'
    <3>1. side[Main] \in [DOMAIN side[Main] -> Nat] /\ DOMAIN side[Main] \subseteq Nat
      BY <1>s DEF SideTyped
    <3>2. DOMAIN side'[Main] \subseteq Nat /\ \A x \in DOMAIN side'[Main] : side'[Main][x] \in Nat
      BY <2>7, <3>1
    <3>3. side'[Main] = [x \in DOMAIN side'[Main] |-> side'[Main][x]]
      BY <2>7 DEF Referenced
    <3> QED
      BY <2>7, <3>2, <3>3 DEF SideTyped
  <2>10. Unique' /\ GivenLater'
    <3>1. given' = given
      BY <1>2
    <3> QED
      BY <1>7, <1>8, <1>s, <3>1, GivenStays DEF Unique
  <2>11. Held(proc[p])' /\ Recording(proc[p])'
    <3>1. PICK y : y = proc'[p]
      OBVIOUS
    <3>2. y.entries = es /\ y.next = LoadedNextId(Main) /\ y.pc = "open"
      BY <1>5, <1>7, <1>10, <3>1
    <3>3. \A m \in 1 .. M : es[m].h <= y.next
      BY <1>s, <2>6, <3>2, NextIdFacts
    <3>4. \A g \in given : Covered(g, es)
      <4> TAKE g \in given
      <4>1. g \in ResultType /\ Known(g, w, M)
        BY <1>s, <2>5 DEF Unique
      <4> QED
        BY <1>s, <2>5, <4>1, KnownCovered
    <3>5. \A g \in given' : Covered(g, es)
      BY <1>2, <3>4
    <3>6. M <= MaxResults
      BY <1>s, <2>6
    <3>7. Held(y)'
      BY <2>6, <2>8, <3>2, <3>3, <3>5, <3>6 DEF Held, Storing
    <3>8. Recording(y)'
      BY <3>2 DEF Recording
    <3> QED
      BY <3>1, <3>7, <3>8
  <2>12. ASSUME NEW g \in given'
         PROVE  Known(g, w, M)'
    <3>0. PICK l : l = log[Main]
      OBVIOUS
    <3>1. g \in given /\ log'[Main] = l
      BY <1>2, <2>12, <3>0
    <3>2. PICK k \in Records(l) :
            /\ l[k].v = g.h
            /\ \A i \in Records(l) : i > k => l[i].v > g.h
            /\ \/ /\ g.h \in DOMAIN side[Main] /\ side[Main][g.h] = g.c
                  /\ \E m \in 1 .. M : w[m] = k
               \/ M = MaxResults /\ \A m \in 1 .. M : k < w[m]
      BY <2>5, <3>0, <3>1 DEF Known
    <3>3. CASE /\ g.h \in DOMAIN side[Main] /\ side[Main][g.h] = g.c
               /\ \E m \in 1 .. M : w[m] = k
      <4>1. PICK m \in 1 .. M : w[m] = k
        BY <3>3
      <4>2. es[m].h = g.h
        BY <2>6, <3>0, <3>2, <4>1
      <4>3. g.h \in DOMAIN side'[Main] /\ side'[Main][g.h] = g.c
        BY <2>7, <2>8, <3>3, <4>1, <4>2
      <4> QED
        BY <3>1, <3>2, <4>1, <4>3 DEF Known
    <3>4. CASE M = MaxResults /\ \A m \in 1 .. M : k < w[m]
      BY <3>1, <3>2, <3>4 DEF Known
    <3> QED
      BY <3>2, <3>3, <3>4
  <2>13. Recorded(w, M)'
    <3>0. PICK l : l = log[Main]
      OBVIOUS
    <3>1. log'[Main] = l /\ w \in [1 .. M -> Records(l)]
      BY <1>2, <2>6, <3>0
    <3>2. \A m \in 1 .. M : l[w[m]].v \in DOMAIN side'[Main]
      BY <2>6, <2>8, <3>0
    <3>3. M <= MaxResults
      BY <1>s, <2>6
    <3> QED
      BY <2>6, <2>12, <3>1, <3>2, <3>3 DEF Recorded
  <2>14. Entered(proc[p], w, M)'
    <3>1. log' = log /\ proc'[p].entries = es
      BY <1>2, <1>5, <1>7
    <3> QED
      BY <2>6, <3>1 DEF Entered
  <2>15. Traced'
    BY <1>7, <2>1, <2>6, <2>13, <2>14, TracedAlone
  <2> QED
    BY <1>7, <2>1, <2>9, <2>10, <2>11, <2>15, AloneStep
<1> QED
  BY <1>9, <1>10

LEMMA ResultsInit == Init => ResultsInv
<1> SUFFICES ASSUME Init
             PROVE  ResultsInv
  OBVIOUS
<1>0. MaxResults \in Nat /\ Main \in Sessions
  BY BoundsAssumption, Names
<1>1. \A p \in Pids : ~Alive(p)
  BY DEF Init, NoProcess, Alive
<1>2. \A p \in Pids : ~Keeper(p)
  BY <1>1 DEF Keeper
<1>3. given = {} /\ Unique /\ GivenLater
  BY <1>1 DEF Init, Unique, GivenLater
<1>4. SideTyped
  <2>1. side = [s \in Sessions |-> <<>>] /\ side[Main] = <<>> /\ DOMAIN side = Sessions
    BY <1>0 DEF Init
  <2>2. DOMAIN <<>> = {} /\ <<>> = [i \in {} |-> <<>>[i]]
    OBVIOUS
  <2>3. <<>> \in [{} -> Nat]
    BY <2>2
  <2> QED
    BY <2>1, <2>2, <2>3 DEF SideTyped
<1>5. Traced
  <2> DEFINE w == [i \in 1 .. 0 |-> 0]
  <2>1. w \in [1 .. 0 -> Records(log[Main])] /\ 0 \in 0 .. MaxResults /\ 0 <= MaxResults /\ 1 .. 0 = {}
    BY <1>0
  <2>2. Recorded(w, 0)
    BY <1>3, <2>1 DEF Recorded
  <2> HIDE DEF w
  <2>3. Witnessed(w, 0)
    BY <1>2, <2>2 DEF Witnessed
  <2> QED
    BY <2>1, <2>3 DEF Traced
<1> QED
  BY <1>2, <1>3, <1>4, <1>5 DEF ResultsInv

LEMMA ProcessResults ==
  ASSUME LockInv, FilesInv, FilesInv', ResultsInv, NEW p \in Pids, Process(p)
  PROVE  ResultsInv'
<1>1. CASE CreateNamed(p) \/ ForkStart(p) \/ \E s \in Sessions : ResumeStart(p, s)
  BY <1>1, StartResults
<1>2. CASE \/ LockCreate(p) \/ LockWrite(p) \/ LockStale(p) \/ LockReclaim(p)
           \/ LockRefused(p) \/ ResumeFails(p) \/ Close(p) \/ Crash(p)
  BY <1>2, LockResults
<1>3. CASE Initialize(p) \/ InitializeDone(p) \/ InitializeFails(p)
  BY <1>3, InitializeResults
<1>4. CASE Resume(p)
  BY <1>4, ResumeResults
<1>5. CASE AppendRecords(p)
  BY <1>5, AppendResults
<1>6. CASE AppendDone(p) \/ AppendFails(p)
  BY <1>6, AppendDoneResults
<1>7. CASE StoreResult(p)
  BY <1>7, StoreResultResults
<1>8. CASE StoreRecord(p)
  BY <1>8, StoreRecordResults
<1>9. CASE StoreDone(p)
  BY <1>9, StoreDoneResults
<1>10. CASE StoreFails(p)
  BY <1>10, StoreFailsResults
<1>11. CASE \E t \in Threads : RequestFork(p, t)
  BY <1>11, RequestResults
<1>12. CASE \/ ExistingFork(p) \/ CreateFork(p) \/ ForkWritten(p) \/ IndexFork(p)
            \/ ForkOperation(p) \/ ForkFails(p)
  BY <1>12, ForkResults
<1> QED
  BY <1>1, <1>2, <1>3, <1>4, <1>5, <1>6, <1>7, <1>8, <1>9, <1>10, <1>11, <1>12, Zenon DEF Process

LEMMA ResultsNext ==
  ASSUME LockInv, FilesInv, FilesInv', ResultsInv, [Next]_vars
  PROVE  ResultsInv'
<1>1. CASE \E p \in Pids : Process(p)
  BY <1>1, ProcessResults
<1>2. CASE \E s \in Sessions : RepairRead(s)
  <2>1. UNCHANGED <<dir, log, side, proc, given>>
    BY <1>2 DEF RepairRead, files, ghosts
  <2> QED
    BY <2>1, AsideResults
<1>3. CASE RepairTruncate
  <2>1. UNCHANGED <<dir, log, side, proc, given>>
    BY <1>3, CutNothing DEF RepairTruncate, ghosts
  <2> QED
    BY <2>1, AsideResults
<1>4. CASE RepairStops
  <2>1. UNCHANGED <<dir, log, side, proc, given>>
    BY <1>4 DEF RepairStops, files, ghosts
  <2> QED
    BY <2>1, AsideResults
<1>5. CASE UNCHANGED vars
  <2>1. UNCHANGED <<dir, log, side, proc, given>>
    BY <1>5 DEF vars
  <2> QED
    BY <2>1, AsideResults
<1> QED
  BY <1>1, <1>2, <1>3, <1>4, <1>5 DEF Next

LEMMA ResultsKeep ==
  ASSUME LockInv, ResultsInv
  PROVE  ResultsFaithful
<1>1. \A g, k \in given : g.h = k.h => g = k
  BY DEF ResultsInv, Unique
<1>2. given \subseteq ResultType
  BY DEF ResultsInv, Unique
<1>3. ASSUME NEW p \in Pids, At(p, "open"), proc[p].at = Main
      PROVE  LET held == Range(proc[p].entries) IN
         /\ \A e \in held, g \in given : e.h = g.h => e = g
         /\ \A g \in given \ held :
              Len(proc[p].entries) = MaxResults /\ \A e \in held : e.h > g.h
         /\ \A e \in held : e.h \in DOMAIN side[Main] /\ side[Main][e.h] = e.c
  <2>1. Keeper(p)
    <3>1. proc[p].goal = None /\ Alive(p)
      BY <1>3 DEF LockInv, PhaseInv, Phase, At, Alive
    <3> QED
      BY <1>3, <3>1 DEF Keeper
  <2>2. PICK es : es = proc[p].entries
    OBVIOUS
  <2>3. /\ es \in Seq(ResultType)
        /\ \A m \in 1 .. Len(es) : es[m].h \in DOMAIN side[Main] /\ side[Main][es[m].h] = es[m].c
        /\ \A g \in given : Covered(g, es)
    BY <2>1, <2>2 DEF ResultsInv, Held
  <2>4. Range(es) = {es[m] : m \in 1 .. Len(es)}
    BY <2>3 DEF Range
  <2>5. ASSUME NEW e \in Range(es)
        PROVE  e \in ResultType /\ e.h \in DOMAIN side[Main] /\ side[Main][e.h] = e.c
    <3>1. PICK m \in 1 .. Len(es) : e = es[m]
      BY <2>4
    <3> QED
      BY <2>3, <3>1
  <2>6. ASSUME NEW g \in given
        PROVE  \/ g \in Range(es)
               \/ Len(es) = MaxResults /\ \A e \in Range(es) : e.h > g.h
    <3>1. Covered(g, es)
      BY <2>3
    <3> QED
      BY <2>4, <3>1 DEF Covered
  <2>7. ASSUME NEW e \in Range(es), NEW g \in given, e.h = g.h
        PROVE  e = g
    <3>0. e \in ResultType /\ g \in ResultType
      BY <1>2, <2>5
    <3>1. CASE g \in Range(es)
      <4>1. e.c = g.c
        BY <2>5, <2>7, <3>1
      <4> QED
        BY <2>7, <3>0, <4>1 DEF ResultType
    <3>2. CASE \A x \in Range(es) : x.h > g.h
      <4>1. e.h > g.h /\ e.h \in Nat
        BY <3>0, <3>2 DEF ResultType
      <4> QED
        BY <2>7, <4>1
    <3> QED
      BY <2>6, <3>1, <3>2
  <2> QED
    BY <2>2, <2>5, <2>6, <2>7
<1> QED
  BY <1>1, <1>3 DEF ResultsFaithful

\* Every reachable state satisfies the inductive invariant of stored results: a
\* result that was given can be read from its sidecar, or has given way to
\* MAX_RESULTS newer ones, in what is held and in what the log tells the next
\* process (persist_session_result, load_session_results).
THEOREM ResultsInvariant ==
  ASSUME ~ReclaimRaces, DoctorAlone
  PROVE  Spec => [](LockInv /\ FilesInv /\ ResultsInv)
<1>1. Init => ResultsInv
  BY ResultsInit
<1>2. LockInv /\ FilesInv /\ FilesInv' /\ ResultsInv /\ [Next]_vars => ResultsInv'
  BY ResultsNext
<1> QED
  BY <1>1, <1>2, FilesInvariant, PTL DEF Spec

\* A handle stands for one content for ever, and its result can be read until
\* MAX_RESULTS newer ones are kept, over restarts, failed writes and trimming
\* (store_with_metadata, trim_entries, remove_unreferenced_sidecars).
THEOREM ResultsStayFaithful ==
  ASSUME ~ReclaimRaces, DoctorAlone
  PROVE  Spec => []ResultsFaithful
<1>1. LockInv /\ ResultsInv => ResultsFaithful
  BY ResultsKeep
<1> QED
  BY <1>1, ResultsInvariant, PTL
=============================================================================
