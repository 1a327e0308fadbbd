--------------------------- MODULE SessionStorage ---------------------------
(***************************************************************************)
(* The files of a Project's Sessions: the lock file of each Session, its   *)
(* append-only log, the thread index, the sidecars of stored tool results, *)
(* the forks of a checkpoint, and the doctor that inspects and repairs     *)
(* logs from outside.                                                      *)
(*                                                                         *)
(* Every file operation another process can observe, or a crash can follow,*)
(* is a step.  A process is named by its pid and runs once; what a crashed *)
(* process leaves behind is found by the next.  The file system is         *)
(* external: create_new and rename are atomic, a write may stop half-way.  *)
(***************************************************************************)
EXTENDS Naturals, Sequences, FiniteSets, SequencesExt, FiniteSetsExt

CONSTANTS
    Pids,           \* one process each
    Main,           \* the Session clients ask for by name
    Spare,          \* the identities new_id gives to forks, in order
    Threads,        \* the child Threads a caller asks to fork
    MaxRecords,     \* bound: appends other than results and forks
    MaxStored,      \* bound: results stored
    MaxResults,     \* MAX_RESULTS: the results one Session keeps
    MaxFaults,      \* bound: failed writes
    ReclaimRaces,   \* two processes may reclaim the same stale lock at once
    DoctorAlone     \* the doctor repairs only Sessions nobody has open

Forks == Range(Spare)
Sessions == {Main} \cup Forks
ForkLock == "session-fork"
None == "none"

ASSUME NamesAssumption ==
    /\ Spare \in Seq(Forks)
    /\ Main \notin Forks /\ IsInjective(Spare)
    /\ {ForkLock, None} \cap Sessions = {}
    /\ {"free", "blank"} \cap Pids = {}

ASSUME BoundsAssumption ==
    /\ {MaxRecords, MaxStored, MaxFaults} \subseteq Nat
    /\ MaxResults \in Nat \ {0}
    /\ {ReclaimRaces, DoctorAlone} \subseteq BOOLEAN

VARIABLES
    dir,        \* Session |-> "absent", "dir" (no log yet) or "file"
    log,        \* session.jsonl: the complete lines
    tail,       \* bytes follow the last complete line
    lock,       \* the lock files: "free", "blank" (no pid yet) or a pid
    index,      \* thread_index.json: child Thread |-> its Session, or "none"
    side,       \* tool output sidecars: Session |-> handle |-> content
    proc,       \* the processes
    doctor,     \* the repair in progress
    dlock,      \* Sessions whose base_dir/{id}.lock exists
    used,       \* counters: records, results, faults, forks
    acked,      \* ghost: the lines whose append was acknowledged
    answers,    \* ghost: child Thread |-> the Sessions its callers were given
    given,      \* ghost: the handles and contents callers were given
    spoiled,    \* ghost: Sessions whose failed write left bytes behind
    lapsed      \* ghost: Threads whose index update failed unnoticed

vars == <<dir, log, tail, lock, index, side, proc, doctor, dlock, used,
          acked, answers, given, spoiled, lapsed>>
ghosts == <<acked, answers, given, spoiled, lapsed>>
files == <<dir, log, tail, index, side>>

NoAppend == [purpose |-> "none"]
NoRepair == [s |-> "none", n |-> 0]
NoProcess ==
    [pc |-> "off", at |-> None, goal |-> None, t |-> None, f |-> None, dead |-> None,
     app |-> NoAppend, next |-> 0, entries |-> <<>>]

(***************************************************************************)
(* Changed definitions the properties must tell from the code's            *)
(***************************************************************************)

\* A lock is reclaimed whoever holds it.
ReclaimsAnything(l) == lock[l] \in Pids

\* A failed append leaves what it wrote.
KeepsFailedBytes(a) == TRUE

\* A retry does not look for the fork of its Thread.
NeverFindsFork(t) == None

\* Loaded results do not move next_id past theirs.
ForgetsNextId(s) == 0

(***************************************************************************)
(* Lines and loading                                                       *)
(***************************************************************************)

Line(seq, kind, v) == [seq |-> seq, kind |-> kind, v |-> v]
Bad == Line(0, "bad", 0)

\* refresh_append_position: one past the greatest seq of the readable lines
NextSeq(s) == Max({0} \cup {log[s][i].seq : i \in DOMAIN log[s]}) + 1

\* load_records: what it says of the complete lines; a tail without a newline
\* is not part of them.
LoadIssue(s) ==
    LET n == Len(log[s])
        wrong == {i \in 1 .. n : log[s][i] = Bad \/ log[s][i].seq # i}
    IN IF wrong # {}
         THEN IF log[s][Min(wrong)] = Bad THEN "invalid_record" ELSE "sequence_gap"
       ELSE IF n > 0 /\ log[s][1].kind # "header" THEN "invalid_record"
       ELSE IF \A i \in 1 .. n : log[s][i].kind # "checkpoint" THEN "missing_checkpoint"
       ELSE "none"

Loads(s) == dir[s] = "file" /\ LoadIssue(s) = "none"

CheckpointSeq(s) == Max({0} \cup {i \in DOMAIN log[s] : log[s][i].kind = "checkpoint"})

(***************************************************************************)
(* Locks                                                                   *)
(***************************************************************************)

Alive(p) == proc[p].pc \notin {"off", "dead"}
At(p, pc) == proc[p].pc = pc
Go(p, pc) == proc' = [proc EXCEPT ![p].pc = pc]
Target(p) == IF proc[p].goal = "fork" THEN ForkLock ELSE proc[p].at

\* process_exists: a lock file names a process that no longer runs
Stale(l) == lock[l] \in Pids /\ ~Alive(lock[l])

\* acquire_lock_with_reclaim, a step per file operation.  create_new makes the
\* file empty; the pid follows.
LockCreate(p) ==
    /\ proc[p].pc \in {"lock", "relock"}
    /\ lock[Target(p)] = "free"
    /\ lock' = [lock EXCEPT ![Target(p)] = "blank"]
    /\ Go(p, "made")
    /\ UNCHANGED <<files, doctor, dlock, used, ghosts>>

LockWrite(p) ==
    /\ At(p, "made")
    /\ lock' = [lock EXCEPT ![Target(p)] = p]
    /\ Go(p, "locked")
    /\ UNCHANGED <<files, doctor, dlock, used, ghosts>>

\* reclaim_stale_lock reads the pid and asks whether the process runs.
LockStale(p) ==
    /\ At(p, "lock") /\ Stale(Target(p))
    /\ proc' = [proc EXCEPT ![p].pc = "reclaim", ![p].dead = lock[Target(p)]]
    /\ UNCHANGED <<files, lock, doctor, dlock, used, ghosts>>

\* A process whose open is refused exits; a refused fork leaves the Session open.
Refused(p) ==
    proc' = [proc EXCEPT ![p] = IF @.goal = "fork" THEN [@ EXCEPT !.pc = "open", !.goal = None]
                                                   ELSE [NoProcess EXCEPT !.pc = "dead"]]

LockRefused(p) ==
    /\ \/ At(p, "lock") /\ lock[Target(p)] # "free" /\ ~Stale(Target(p))
       \/ At(p, "relock") /\ lock[Target(p)] # "free"
       \/ At(p, "reclaim") /\ lock[Target(p)] = "free"
    /\ Refused(p)
    /\ UNCHANGED <<files, lock, doctor, dlock, used, ghosts>>

\* The rename takes away whatever file has the name now; another process may
\* have replaced the stale one since.
Reclaimable(l) == lock[l] # "free"

LockReclaim(p) ==
    /\ At(p, "reclaim") /\ Reclaimable(Target(p))
    /\ ReclaimRaces \/ lock[Target(p)] = proc[p].dead
    /\ lock' = [lock EXCEPT ![Target(p)] = "free"]
    /\ Go(p, "relock")
    /\ UNCHANGED <<files, doctor, dlock, used, ghosts>>

(***************************************************************************)
(* Appending                                                               *)
(***************************************************************************)

\* Bytes left by a failed write stand before the first new line and make one
\* unreadable line with it.
Encoded(s, kinds, v) ==
    LET fresh == [i \in DOMAIN kinds |-> Line(NextSeq(s) + i - 1, kinds[i], v)]
    IN IF tail[s] THEN <<Bad>> \o Tail(fresh) ELSE fresh

\* write_all has written some of the bytes: the first j lines and part of the
\* next.  mid: the log had a tail before.
Begin(p, s, purpose, kinds, v) ==
    \E j \in 0 .. Len(kinds) - 1 :
        /\ log' = [log EXCEPT ![s] = @ \o SubSeq(Encoded(s, kinds, v), 1, j)]
        /\ tail' = [tail EXCEPT ![s] = TRUE]
        /\ proc' = [proc EXCEPT ![p].pc = "write", ![p].app =
               [purpose |-> purpose, s |-> s, from |-> Len(log[s]), mid |-> tail[s],
                rest |-> SubSeq(Encoded(s, kinds, v), j + 1, Len(kinds)), v |-> v]]

\* The rest reached the disk.  A file cut meanwhile holds no whole line there.
Written(p) ==
    LET a == proc[p].app IN
    /\ log' = [log EXCEPT ![a.s] = @ \o IF tail[a.s] THEN a.rest ELSE <<Bad>>]
    /\ tail' = [tail EXCEPT ![a.s] = FALSE]
    /\ acked' = [acked EXCEPT ![a.s] = @ \cup Range(SubSeq(log'[a.s], a.from + 1, Len(log'[a.s])))]

\* append_records: after a failed write set_len goes back to where it began.
TailAfterRollback(a) == a.mid

\* Everything an open store appends that is acknowledged to a caller: Turns,
\* operations, execution entries.
AppendRecords(p) ==
    /\ At(p, "open") /\ proc[p].at = Main
    /\ used.records < MaxRecords
    /\ \E kinds \in {<<"entry">>, <<"entry", "checkpoint">>} :
           Begin(p, Main, "record", kinds, used.records + 1)
    /\ used' = [used EXCEPT !.records = @ + 1]
    /\ UNCHANGED <<dir, lock, index, side, doctor, dlock, ghosts>>

AppendDone(p) ==
    /\ At(p, "write") /\ proc[p].app.purpose = "record"
    /\ Written(p)
    /\ proc' = [proc EXCEPT ![p].pc = "open", ![p].app = NoAppend]
    /\ UNCHANGED <<dir, lock, index, side, doctor, dlock, used, answers, given, spoiled, lapsed>>

\* The write fails and is rolled back, or the rollback fails too.
AppendFails(p) ==
    LET a == proc[p].app IN
    /\ At(p, "write") /\ a.purpose = "record" /\ used.faults < MaxFaults
    /\ \/ /\ log' = [log EXCEPT ![a.s] = SubSeq(@, 1, a.from)]
          /\ tail' = [tail EXCEPT ![a.s] = TailAfterRollback(a)]
          /\ UNCHANGED spoiled
       \/ /\ spoiled' = spoiled \cup {a.s}
          /\ UNCHANGED <<log, tail>>
    /\ proc' = [proc EXCEPT ![p].pc = "open", ![p].app = NoAppend]
    /\ used' = [used EXCEPT !.faults = @ + 1]
    /\ UNCHANGED <<dir, lock, index, side, doctor, dlock, acked, answers, given, lapsed>>

(***************************************************************************)
(* Opening and closing                                                     *)
(***************************************************************************)

\* A process is started to open one Session.
MayOpen(p, s) == At(p, "off") /\ (DoctorAlone => doctor.s # s)

\* create_named of a Session that is not there: the directory, then the lock
CreateNamed(p) ==
    /\ MayOpen(p, Main) /\ dir[Main] = "absent"
    /\ dir' = [dir EXCEPT ![Main] = "dir"]
    /\ proc' = [proc EXCEPT ![p].pc = "lock", ![p].at = Main, ![p].goal = "create"]
    /\ UNCHANGED <<log, tail, index, side, lock, doctor, dlock, used, ghosts>>

\* resume, and create_named of a directory that exists: the log must be there
ResumeStart(p, s) ==
    /\ MayOpen(p, s) /\ dir[s] = "file"
    /\ proc' = [proc EXCEPT ![p].pc = "lock", ![p].at = s, ![p].goal = "resume"]
    /\ UNCHANGED <<files, lock, doctor, dlock, used, ghosts>>

\* SessionRequest::Fork: a new Session from the settled checkpoint of another,
\* every time; the log is created before it is locked.
ForkStart(p) ==
    /\ MayOpen(p, Main) /\ Loads(Main) /\ used.forks < Len(Spare)
    /\ LET f == Spare[used.forks + 1] IN
       /\ dir' = [dir EXCEPT ![f] = "file"]
       /\ proc' = [proc EXCEPT ![p].pc = "lock", ![p].at = f, ![p].goal = "branch"]
    /\ used' = [used EXCEPT !.forks = @ + 1]
    /\ UNCHANGED <<log, tail, index, side, lock, doctor, dlock, ghosts>>

\* initialize_new_for_thread: the header, the Thread and the first checkpoint
\* in one append; a fork's header says which checkpoint it comes from.
Initialize(p) ==
    LET s == proc[p].at IN
    /\ At(p, "locked") /\ proc[p].goal \in {"create", "branch"}
    /\ dir' = [dir EXCEPT ![s] = "file"]
    /\ \/ proc[p].goal = "create" /\ Begin(p, s, "init", <<"header", "checkpoint">>, 0)
       \/ /\ proc[p].goal = "branch" /\ Loads(Main)
          /\ Begin(p, s, "init", <<"header", "checkpoint">>, CheckpointSeq(Main))
    /\ UNCHANGED <<index, side, lock, doctor, dlock, used, ghosts>>

InitializeDone(p) ==
    /\ At(p, "write") /\ proc[p].app.purpose = "init"
    /\ Written(p)
    /\ proc' = [proc EXCEPT ![p] = [NoProcess EXCEPT !.pc = "open", !.at = proc[p].at]]
    /\ UNCHANGED <<dir, lock, index, side, doctor, dlock, used, answers, given, spoiled, lapsed>>

\* The store is dropped and with it the lock; the empty log stays.
InitializeFails(p) ==
    LET a == proc[p].app IN
    /\ At(p, "write") /\ a.purpose = "init" /\ used.faults < MaxFaults
    /\ log' = [log EXCEPT ![a.s] = SubSeq(@, 1, a.from)]
    /\ tail' = [tail EXCEPT ![a.s] = TailAfterRollback(a)]
    /\ lock' = [lock EXCEPT ![a.s] = "free"]
    /\ Refused(p)
    /\ used' = [used EXCEPT !.faults = @ + 1]
    /\ UNCHANGED <<dir, index, side, doctor, dlock, ghosts>>

\* load_session_results: the result records whose sidecar can be read, and the
\* entries made of them in the order of the log
Stored(s) ==
    {i \in DOMAIN log[s] : log[s][i].kind = "result" /\ log[s][i].v \in DOMAIN side[s]}

InOrder(K) ==
    {f \in [1 .. Cardinality(K) -> K] :
        /\ \A i, j \in DOMAIN f : i < j => f[i] < f[j]
        /\ \A k \in K : \E i \in DOMAIN f : f[i] = k}

StoredEntries(s, known) ==
    [i \in DOMAIN known |->
        [h |-> log[s][known[i]].v, c |-> side[s][log[s][known[i]].v]]]

LoadedNextId(s) == Max({0} \cup {log[s][i].v : i \in Stored(s)})

\* trim_entries: the newest MAX_RESULTS stay
TrimEntries(es) == SubSeq(es, Max({1, Len(es) - MaxResults + 1}), Len(es))

\* remove_unreferenced_sidecars: everything else in the directory goes
Referenced(sc, es) == [h \in DOMAIN sc \cap {es[i].h : i \in DOMAIN es} |-> sc[h]]

\* resume: read and load under the lock, cut the tail, load the stored results.
Resume(p) ==
    LET s == proc[p].at IN
    /\ At(p, "locked") /\ proc[p].goal = "resume" /\ Loads(s)
    /\ tail' = [tail EXCEPT ![s] = FALSE]
    /\ spoiled' = spoiled \ {s}
    /\ \E known \in InOrder(Stored(s)) :
         LET es == TrimEntries(StoredEntries(s, known)) IN
         /\ side' = [side EXCEPT ![s] = Referenced(@, es)]
         /\ proc' = [proc EXCEPT ![p] = [NoProcess EXCEPT !.pc = "open", !.at = s,
                                            !.entries = es, !.next = LoadedNextId(s)]]
    /\ UNCHANGED <<dir, log, lock, index, doctor, dlock, used, acked, answers, given, lapsed>>

\* A log that does not load, or is gone: the lock is dropped with the error.
ResumeFails(p) ==
    /\ At(p, "locked")
    /\ \/ proc[p].goal = "resume" /\ ~Loads(proc[p].at)
       \/ proc[p].goal = "branch" /\ ~Loads(Main)
    /\ lock' = [lock EXCEPT ![proc[p].at] = "free"]
    /\ Refused(p)
    /\ UNCHANGED <<files, doctor, dlock, used, ghosts>>

\* The process ends; dropping the store removes the lock file, whoever's it is.
Close(p) ==
    /\ At(p, "open")
    /\ lock' = [lock EXCEPT ![proc[p].at] = "free"]
    /\ proc' = [proc EXCEPT ![p] = [NoProcess EXCEPT !.pc = "dead"]]
    /\ UNCHANGED <<files, doctor, dlock, used, ghosts>>

\* Lock files, half-written lines and sidecars stay as they are.
Crash(p) ==
    /\ Alive(p)
    /\ proc' = [proc EXCEPT ![p] = [NoProcess EXCEPT !.pc = "dead"]]
    /\ UNCHANGED <<files, lock, doctor, dlock, used, ghosts>>

(***************************************************************************)
(* Stored tool results                                                     *)
(***************************************************************************)

\* store_with_metadata
NextHandle(p) == proc[p].next + 1

\* persist_session_result: the content goes to a sidecar first, then its
\* record to the log, under the append lock.
StoreResult(p) ==
    LET h == NextHandle(p) IN
    /\ At(p, "open") /\ proc[p].at = Main /\ used.stored < MaxStored
    /\ side' = [side EXCEPT ![Main] = [x \in DOMAIN @ \cup {h} |->
                                          IF x = h THEN used.stored + 1 ELSE @[x]]]
    /\ proc' = [proc EXCEPT ![p].pc = "sidecar", ![p].next = h]
    /\ used' = [used EXCEPT !.stored = @ + 1]
    /\ UNCHANGED <<dir, log, tail, lock, index, doctor, dlock, ghosts>>

StoreRecord(p) ==
    /\ At(p, "sidecar")
    /\ Begin(p, Main, "result", <<"result">>, proc[p].next)
    /\ UNCHANGED <<dir, lock, index, side, doctor, dlock, used, ghosts>>

StoreDone(p) ==
    LET h == proc[p].app.v
        es == TrimEntries(Append(proc[p].entries, [h |-> h, c |-> side[Main][h]]))
    IN
    /\ At(p, "write") /\ proc[p].app.purpose = "result"
    /\ Written(p)
    /\ side' = [side EXCEPT ![Main] = Referenced(@, es)]
    /\ given' = given \cup {[h |-> h, c |-> side[Main][h]]}
    /\ proc' = [proc EXCEPT ![p].pc = "open", ![p].app = NoAppend, ![p].entries = es]
    /\ UNCHANGED <<dir, lock, index, doctor, dlock, used, answers, spoiled, lapsed>>

\* The sidecar is removed again.  Nothing was written to the log, or half a
\* line, which nobody rolls back, or a whole line whose sync failed.
StoreFails(p) ==
    /\ used.faults < MaxFaults
    /\ \/ At(p, "sidecar") /\ UNCHANGED <<log, tail, spoiled>>
       \/ /\ At(p, "write") /\ proc[p].app.purpose = "result"
          /\ spoiled' = spoiled \cup {Main}
          /\ UNCHANGED <<log, tail>>
       \/ /\ At(p, "write") /\ proc[p].app.purpose = "result" /\ ~proc[p].app.mid
          /\ log' = [log EXCEPT ![Main] = @ \o proc[p].app.rest]
          /\ tail' = [tail EXCEPT ![Main] = FALSE]
          /\ UNCHANGED spoiled
    /\ side' = [side EXCEPT ![Main] = [x \in DOMAIN @ \ {proc[p].next} |-> @[x]]]
    /\ proc' = [proc EXCEPT ![p].pc = "open", ![p].app = NoAppend]
    /\ used' = [used EXCEPT !.faults = @ + 1]
    /\ UNCHANGED <<dir, lock, index, doctor, dlock, acked, answers, given, lapsed>>

(***************************************************************************)
(* Forks of a checkpoint for a child Thread                                *)
(***************************************************************************)

\* prepare_active_session_fork reads the settled checkpoint of its own Session.
MayFork(p) == At(p, "open") /\ proc[p].at = Main /\ Loads(Main)

\* The lineage a fork's header records, and a retry must name again
ForkHeader == Line(1, "header", CheckpointSeq(Main))

\* fork_from_checkpoint_with_operation, first or again, for child Thread t
RequestFork(p, t) ==
    /\ MayFork(p)
    /\ proc' = [proc EXCEPT ![p].pc = "lock", ![p].goal = "fork", ![p].t = t]
    /\ UNCHANGED <<files, lock, doctor, dlock, used, ghosts>>

\* existing_fork: the thread index decides
FoundFork(t) == index[t]

\* The caller is answered; the fork lock and the child's own go.
Answered(p, f, given_) ==
    /\ lock' = [lock EXCEPT ![ForkLock] = "free",
                            ![IF proc[p].f \in Sessions THEN proc[p].f ELSE ForkLock] = "free"]
    /\ answers' = IF given_ THEN [answers EXCEPT ![proc[p].t] = @ \cup {f}] ELSE answers
    /\ proc' = [proc EXCEPT ![p].pc = "open", ![p].goal = None, ![p].t = None, ![p].f = None,
                            ![p].app = NoAppend]

\* The indexed Session is the answer when its header names this checkpoint of
\* the parent; otherwise, and when its file is gone, the caller gets an error.
ExistingFork(p) ==
    LET f == FoundFork(proc[p].t) IN
    /\ At(p, "locked") /\ proc[p].goal = "fork" /\ f # None
    /\ Answered(p, f, /\ dir[f] = "file" /\ log[f] # <<>>
                      /\ log[f][1] = ForkHeader)
    /\ UNCHANGED <<files, doctor, dlock, used, acked, given, spoiled, lapsed>>

\* A new Session, locked (nobody else knows its name yet), begins its log.
CreateFork(p) ==
    /\ At(p, "locked") /\ proc[p].goal = "fork" /\ FoundFork(proc[p].t) = None
    /\ used.forks < Len(Spare)
    /\ LET f == Spare[used.forks + 1]
           lines == <<ForkHeader, Line(2, "checkpoint", 0)>>
       IN \E j \in 0 .. 1 :
          /\ dir' = [dir EXCEPT ![f] = "file"]
          /\ lock' = [lock EXCEPT ![f] = p]
          /\ log' = [log EXCEPT ![f] = SubSeq(lines, 1, j)]
          /\ tail' = [tail EXCEPT ![f] = TRUE]
          /\ proc' = [proc EXCEPT ![p].pc = "write", ![p].f = f, ![p].app =
                 [purpose |-> "fork", s |-> f, from |-> 0, mid |-> FALSE,
                  rest |-> SubSeq(lines, j + 1, 2), v |-> 0]]
    /\ used' = [used EXCEPT !.forks = @ + 1]
    /\ UNCHANGED <<index, side, doctor, dlock, ghosts>>

ForkWritten(p) ==
    /\ At(p, "write") /\ proc[p].app.purpose = "fork"
    /\ Written(p)
    /\ Go(p, "indexing")
    /\ UNCHANGED <<dir, lock, index, side, doctor, dlock, used, answers, given, spoiled, lapsed>>

\* update_thread_index; its error is dropped
IndexFork(p) ==
    /\ At(p, "indexing")
    /\ \/ /\ index' = [index EXCEPT ![proc[p].t] = proc[p].f]
          /\ UNCHANGED <<used, lapsed>>
       \/ /\ used.faults < MaxFaults
          /\ used' = [used EXCEPT !.faults = @ + 1]
          /\ lapsed' = lapsed \cup {proc[p].t}
          /\ UNCHANGED index
    /\ Go(p, "operation")
    /\ UNCHANGED <<dir, log, tail, side, lock, doctor, dlock, acked, answers, given, spoiled>>

\* record_operation: the queued operation of the child task
ForkOperation(p) ==
    LET f == proc[p].f  l == Line(3, "operation", 0) IN
    /\ At(p, "operation")
    /\ log' = [log EXCEPT ![f] = Append(@, l)]
    /\ acked' = [acked EXCEPT ![f] = @ \cup {l}]
    /\ Answered(p, f, TRUE)
    /\ UNCHANGED <<dir, tail, index, side, doctor, dlock, used, given, spoiled, lapsed>>

\* A failed write of the new Session removes its directory; the index entry,
\* when it was made, stays.
ForkFails(p) ==
    LET f == proc[p].f IN
    /\ \/ At(p, "operation")
       \/ At(p, "write") /\ proc[p].app.purpose = "fork"
    /\ used.faults < MaxFaults
    /\ used' = [used EXCEPT !.faults = @ + 1]
    /\ dir' = [dir EXCEPT ![f] = "absent"]
    /\ log' = [log EXCEPT ![f] = <<>>]
    /\ tail' = [tail EXCEPT ![f] = FALSE]
    /\ acked' = [acked EXCEPT ![f] = {}]
    /\ Answered(p, f, FALSE)
    /\ UNCHANGED <<index, side, doctor, dlock, given, spoiled, lapsed>>

(***************************************************************************)
(* The doctor                                                              *)
(***************************************************************************)

InUse(s) == lock[s] # "free" \/ \E p \in Pids : Alive(p) /\ s \in {proc[p].at, proc[p].f}

FindingFromError(s) == LoadIssue(s)
FindingFromLoaded(s) == IF tail[s] THEN "incomplete_tail" ELSE "healthy"

\* inspect_session: the lock it looks for is base_dir/{id}.lock, which only
\* another repair makes.
Inspect(s) ==
    IF s \in dlock THEN "locked"
    ELSE IF dir[s] # "file" THEN "unreadable"
    ELSE IF ~Loads(s) THEN FindingFromError(s)
    ELSE FindingFromLoaded(s)

\* repair_incomplete_tail: lock, read, load and back up
RepairRead(s) ==
    /\ doctor = NoRepair
    /\ Inspect(s) = "incomplete_tail"
    /\ DoctorAlone => ~InUse(s)
    /\ doctor' = [s |-> s, n |-> Len(log[s])]
    /\ dlock' = dlock \cup {s}
    /\ UNCHANGED <<files, lock, proc, used, ghosts>>

\* set_len of the length read; a failed sync writes back the bytes read.
RepairTruncate ==
    /\ doctor # NoRepair
    /\ log' = [log EXCEPT ![doctor.s] = SubSeq(@, 1, doctor.n)]
    /\ \/ tail' = [tail EXCEPT ![doctor.s] = FALSE] /\ UNCHANGED used
       \/ /\ used.faults < MaxFaults
          /\ used' = [used EXCEPT !.faults = @ + 1]
          /\ tail' = [tail EXCEPT ![doctor.s] = TRUE]
    /\ doctor' = NoRepair
    /\ dlock' = dlock \ {doctor.s}
    /\ UNCHANGED <<dir, index, side, lock, proc, ghosts>>

\* The backup failed (the lock is dropped), or the doctor died (it stays).
RepairStops ==
    /\ doctor # NoRepair
    /\ doctor' = NoRepair
    /\ \/ used.faults < MaxFaults /\ used' = [used EXCEPT !.faults = @ + 1] /\ dlock' = dlock \ {doctor.s}
       \/ UNCHANGED <<dlock, used>>
    /\ UNCHANGED <<files, lock, proc, ghosts>>

(***************************************************************************)
(* Specification                                                           *)
(***************************************************************************)

Init ==
    /\ dir = [s \in Sessions |-> "absent"]
    /\ log = [s \in Sessions |-> <<>>]
    /\ tail = [s \in Sessions |-> FALSE]
    /\ lock = [l \in Sessions \cup {ForkLock} |-> "free"]
    /\ index = [t \in Threads |-> None]
    /\ side = [s \in Sessions |-> <<>>]
    /\ proc = [p \in Pids |-> NoProcess]
    /\ doctor = NoRepair
    /\ dlock = {}
    /\ used = [records |-> 0, stored |-> 0, faults |-> 0, forks |-> 0]
    /\ acked = [s \in Sessions |-> {}]
    /\ answers = [t \in Threads |-> {}]
    /\ given = {}
    /\ spoiled = {}
    /\ lapsed = {}

Process(p) ==
    \/ CreateNamed(p) \/ ForkStart(p)
    \/ \E s \in Sessions : ResumeStart(p, s)
    \/ LockCreate(p) \/ LockWrite(p) \/ LockStale(p) \/ LockReclaim(p) \/ LockRefused(p)
    \/ Initialize(p) \/ InitializeDone(p) \/ InitializeFails(p)
    \/ Resume(p) \/ ResumeFails(p) \/ Close(p) \/ Crash(p)
    \/ AppendRecords(p) \/ AppendDone(p) \/ AppendFails(p)
    \/ StoreResult(p) \/ StoreRecord(p) \/ StoreDone(p) \/ StoreFails(p)
    \/ \E t \in Threads : RequestFork(p, t)
    \/ ExistingFork(p) \/ CreateFork(p) \/ ForkWritten(p) \/ IndexFork(p)
    \/ ForkOperation(p) \/ ForkFails(p)

Next ==
    \/ \E p \in Pids : Process(p)
    \/ \E s \in Sessions : RepairRead(s)
    \/ RepairTruncate
    \/ RepairStops

Spec == Init /\ [][Next]_vars

(***************************************************************************)
(* Properties                                                              *)
(***************************************************************************)

\* A Session has one writer: no two processes are past its lock, whatever
\* stale locks earlier ones left (SESSION_LOCK_NAME, acquire_lock).
OneWriter ==
    \A p, q \in Pids :
        (/\ Alive(p) /\ Alive(q) /\ proc[p].at = proc[q].at /\ proc[p].at # None
         /\ {proc[p].pc, proc[q].pc} \cap {"lock", "reclaim", "relock"} = {}) => p = q

\* What append_records or the result store acknowledged stays in the log, and a
\* log with an acknowledged line loads again, over crashes in the middle of
\* writes, failed and rolled back writes, and repairs.  Only bytes a failed
\* write left behind in a live process are excepted.
AcknowledgedKept ==
    \A s \in Sessions \ spoiled :
        /\ acked[s] \subseteq Range(log[s])
        /\ acked[s] # {} => Loads(s)

\* Every caller that forks the same child Thread, retries included, is given
\* the same Session, and it is there (the fork lock, existing_fork); an index
\* update that failed is excepted.
ForkAgrees ==
    \A t \in Threads \ lapsed :
        /\ Cardinality(answers[t]) <= 1
        /\ \A f \in answers[t] : Loads(f) /\ index[t] = f

\* A handle stands for one content for ever, over restarts, failures and
\* trimming, and in every process that has the Session open a result can be
\* read (read_page) until MAX_RESULTS newer records have been kept.
ResultsFaithful ==
    /\ \A g, k \in given : g.h = k.h => g = k
    /\ \A p \in Pids : At(p, "open") /\ proc[p].at = Main =>
         LET held == Range(proc[p].entries) IN
         /\ \A e \in held, g \in given : e.h = g.h => e = g
         /\ \A g \in given \ held :
              Len(proc[p].entries) = MaxResults /\ \A e \in held : e.h > g.h
         /\ \A e \in held : e.h \in DOMAIN side[Main] /\ side[Main][e.h] = e.c

\* A repair removes no complete record, only the torn end of the log
\* (repair_incomplete_tail).
RepairOnlyTail ==
    [][doctor # NoRepair /\ doctor' = NoRepair => log' = log]_vars
=============================================================================
