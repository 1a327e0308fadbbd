--------------------------- MODULE WorkspaceFiles ---------------------------
(* The file tools of a Turn: read_file, read_image and apply_patch, with the
   path policy that admits their targets (mini-agent-capabilities:
   workspace.rs, workspace/files.rs, workspace/patch.rs).

   A tool call is admitted, waits for the user when its targets need an
   approval, and is resolved and validated once more when it runs.  Between
   any two of these steps another process may write a file or retarget a
   symbolic link, and the runtime may refresh the enabled Skill roots: that is
   what the second validation is for.

   Data: a file is a sequence of lines, or Absent; a name is what the model
   writes in a call, a path is what it resolves to now, and Zone says where a
   path lies with respect to the configured roots. *)
EXTENDS Integers, Sequences, SequencesExt, FiniteSets, FiniteSetsExt

CONSTANTS Paths,        \* canonical files
          Names,        \* the names tool calls use
          Zone,         \* Paths -> where the path lies
          Images,       \* the paths whose bytes are an image
          Resolved,     \* Names -> the path a name denotes at first
          Retargets,    \* <<name, path>>: the links another process may change
          Initial,      \* Paths -> the first content of a file
          ForeignTexts, \* what another process may leave in a file
          Patches,      \* the patches the model may send
          Width,        \* line -> the room it takes on a page
          PageWidth,    \* MAX_READ_PAGE_BYTES
          PageLines,    \* the "limit" arguments of read_file
          SkillWidth,   \* MAX_SKILL_READ_BYTES
          MaxFiles,     \* MAX_PATCH_FILES
          Absent        \* no file

Zones == {"inside", "writeRoot", "readRoot", "skill", "artifact", "outside"}

ASSUME ZoneAssumption == Zone \in [Paths -> Zones]
ASSUME ResolvedAssumption == /\ Resolved \in [Names -> Paths]
                             /\ Retargets \subseteq Names \X Paths
ASSUME FileBounds == {PageWidth, SkillWidth, MaxFiles} \subseteq Nat
ASSUME PageLinesAssumption == PageLines \subseteq Nat \ {0}

Texts == Seq(DOMAIN Width)

Operations == [kind : {"add", "delete", "update"}, name : Names, to : Names,
               hunks : Seq([old : Texts, new : Texts]), lines : Texts]

ASSUME TextsAssumption == /\ Initial \in [Paths -> Texts \cup {Absent}]
                          /\ ForeignTexts \subseteq Texts \cup {Absent}
ASSUME PatchesAssumption == Patches \subseteq Seq(Operations)

VARIABLES files,     \* Paths -> lines or Absent
          resolve,   \* Names -> Paths, the links as they are now
          skills,    \* the Skill files whose root is enabled (SkillReadRoots)
          access,    \* approval policy, machine-wide preset and Plan lock
          op,        \* the file call in flight, or the last one
          budget,    \* SkillReadBudget: room taken by Skill reads of this Turn
          walk,      \* the pages of one file read so far, one call after another
          foreign,   \* paths other processes wrote since the patch validated them
          overwrote, \* ghost: a patch replaced a write it should have noticed
          left       \* bound: calls, foreign writes, refreshes and faults to come

fileVars == <<files, resolve, skills, access, op, budget, walk, foreign,
              overwrote, left>>

(* ------------------------------ path policy ------------------------------ *)

IsWritePath(p) == Zone[p] \in {"inside", "writeRoot"}

IsSessionArtifact(p) == Zone[p] = "artifact"

SkillAllows(p) == Zone[p] = "skill" /\ p \in skills

IsReadOnlyPath(p) == Zone[p] = "readRoot" \/ SkillAllows(p)

EnsureReadable(p) == \/ access.full
                     \/ IsWritePath(p)
                     \/ Zone[p] = "readRoot"
                     \/ SkillAllows(p)

(* read_file and read_image: an existing file; one that lies outside every
   readable root needs an approval. *)
LocalFile(n) ==
    LET p == resolve[n]
    IN  [ok |-> files[p] # Absent, path |-> p,
         approval |-> ~(IsSessionArtifact(p) \/ EnsureReadable(p))]

(* mutate_path: the path is canonical, hence absolute, so a file outside the
   roots passes here and is left to the approval. *)
MutatePath(p) == /\ files[p] # Absent
                 /\ \/ IsSessionArtifact(p)
                    \/ ~IsReadOnlyPath(p) /\ ~access.locked

CreatePath(p) == \/ IsSessionArtifact(p)
                 \/ /\ files[p] = Absent
                    /\ ~access.locked
                    /\ ~IsReadOnlyPath(p)

(* -------------------------------- patches -------------------------------- *)

(* An operation is [kind, name, to, hunks, lines]; a hunk is [old, new]. *)

(* What parse_patch insists on besides the syntax. *)
WellFormed(ops) ==
    /\ Len(ops) \in 1..MaxFiles
    /\ \A o \in Range(ops) :
        o.kind = "update" =>
            /\ o.to = o.name => Len(o.hunks) > 0    \* to = name: no "Move to"
            /\ \A h \in Range(o.hunks) : h.old # h.new

FindHunk(lines, old) ==
    {i \in 1..(Len(lines) - Len(old) + 1) :
        SubSeq(lines, i, i + Len(old) - 1) = old}

(* A hunk without old lines appends; any other must match exactly once. *)
ApplyHunk(lines, h) ==
    IF lines = Absent THEN Absent
    ELSE IF h.old = << >> THEN lines \o h.new
    ELSE LET at == FindHunk(lines, h.old)
         IN  IF Cardinality(at) # 1 THEN Absent
             ELSE LET i == CHOOSE i \in at : TRUE
                  IN  SubSeq(lines, 1, i - 1) \o h.new
                      \o SubSeq(lines, i + Len(h.old), Len(lines))

ApplyHunks(lines, hunks) ==
    LET after[n \in 0..Len(hunks)] ==
            IF n = 0 THEN lines ELSE ApplyHunk(after[n - 1], hunks[n])
    IN  after[Len(hunks)]

Effect(p, before, after) == [path |-> p, before |-> before, after |-> after]

(* The effects of one operation on the files as they are now; a refused
   operation has none. *)
Effects(o) ==
    LET p == resolve[o.name]
        q == resolve[o.to]
        updated == ApplyHunks(files[p], o.hunks)
        readable == MutatePath(p) /\ p \notin Images /\ updated # Absent
    IN  CASE o.kind = "add" ->
               IF CreatePath(p) /\ files[p] = Absent
               THEN <<Effect(p, Absent, o.lines)>> ELSE << >>
          [] o.kind = "delete" ->
               IF MutatePath(p) THEN <<Effect(p, files[p], Absent)>> ELSE << >>
          [] o.kind = "update" /\ o.to = o.name ->
               IF readable THEN <<Effect(p, files[p], updated)>> ELSE << >>
          [] o.kind = "update" /\ o.to # o.name ->
               IF readable /\ p # q /\ CreatePath(q) /\ files[q] = Absent
               THEN <<Effect(p, files[p], Absent), Effect(q, Absent, updated)>>
               ELSE << >>

PlanOf(ops) == FlattenSeq([i \in DOMAIN ops |-> Effects(ops[i])])

TargetsOf(plan) == {plan[i].path : i \in DOMAIN plan}

(* prepare: every operation is accepted and no file is named twice. *)
Prepared(ops) ==
    LET plan == PlanOf(ops)
    IN  /\ WellFormed(ops)
        /\ \A i \in DOMAIN ops : Effects(ops[i]) # << >>
        /\ Cardinality(TargetsOf(plan)) = Len(plan)

(* admission: only a trusted runtime edits inside its roots unasked, and never
   deletes unasked. *)
PatchNeedsApproval(plan) ==
    \/ \E e \in Range(plan) : ~IsSessionArtifact(e.path) /\ ~IsWritePath(e.path)
    \/ access.policy # "trusted"
    \/ \E e \in Range(plan) : e.after = Absent

(* --------------------------------- calls --------------------------------- *)

NoOp == [tool |-> "none", st |-> "idle", name |-> CHOOSE n \in Names : TRUE,
         limit |-> 0, patch |-> << >>, targets |-> {}, approved |-> FALSE,
         plan |-> << >>, at |-> 0, result |-> "none"]

Busy == op.st \in {"asking", "admitted", "checking", "applying", "rolling"}

Spend(what) == left[what] > 0 /\ left' = [left EXCEPT ![what] = @ - 1]

(* policies: the access settings this start may have; bounds: see left. *)
FileInit(policies, bounds) ==
    /\ files = Initial
    /\ resolve = Resolved
    /\ skills = {p \in Paths : Zone[p] = "skill"}
    /\ access \in policies
    /\ op = NoOp
    /\ budget = [bytes |-> 0, stale |-> FALSE]
    /\ walk = [path |-> CHOOSE p \in Paths : TRUE, text |-> << >>, same |-> FALSE,
               seen |-> << >>, next |-> 0]
    /\ foreign = [early |-> {}, late |-> {}]
    /\ overwrote = FALSE
    /\ left = bounds

(* Ends the call; an error reaches the model as the call's result. *)
Finish(result) == op' = [op EXCEPT !.st = "done", !.result = result]

(* The user answers the approval the call waits for (Interactions). *)
Approve ==
    /\ op.st = "asking"
    /\ op' = [op EXCEPT !.st = "admitted", !.approved = TRUE]
    /\ UNCHANGED <<files, resolve, skills, access, budget, walk, foreign,
                   overwrote, left>>

Deny ==
    /\ op.st = "asking"
    /\ Finish("denied")
    /\ UNCHANGED <<files, resolve, skills, access, budget, walk, foreign,
                   overwrote, left>>

(* ------------------------------- read tools ------------------------------- *)

ReadAdmission(tool, n, limit) ==
    LET f == LocalFile(n)
    IN  /\ ~Busy
        /\ Spend("calls")
        /\ op' = [NoOp EXCEPT !.tool = tool, !.name = n, !.limit = limit,
                    !.targets = {f.path},
                    !.st = IF ~f.ok THEN "done"
                           ELSE IF f.approval THEN "asking" ELSE "admitted",
                    !.result = IF f.ok THEN "none" ELSE "refused"]
        /\ UNCHANGED <<files, resolve, skills, access, budget, walk, foreign,
                       overwrote>>

(* The call is not asked whether the approval it got is the one it needs. *)
ApprovalForgotten(f) == f.ok /\ op.targets = {f.path}

(* verify_admitted_path: the target and its need of an approval are still what
   was admitted. *)
VerifyAdmittedPath(f) ==
    f.ok /\ op.targets = {f.path} /\ op.approved = f.approval

SumWidth(lines) ==
    LET sum[n \in 0..Len(lines)] == IF n = 0 THEN 0 ELSE sum[n - 1] + Width[lines[n]]
    IN  sum[Len(lines)]

(* format_read_page: as many whole lines as fit, at most "limit" of them; a line
   that does not fit is clipped, which ends the page. *)
Page(text, offset, limit) ==
    LET end == Min({offset + limit, Len(text)})
        from == Min({offset, Len(text)})
        whole == Max({k \in 0..(end - from) :
                        SumWidth(SubSeq(text, from + 1, from + k)) <= PageWidth})
        stop == Min({from + whole + 1, end})
    IN  [first |-> from + 1, last |-> stop,
         size |-> Min({PageWidth, SumWidth(SubSeq(text, from + 1, stop))}),
         next |-> IF stop < Len(text) THEN stop ELSE 0]

(* SkillReadBudget::record: the first Skill read of a Turn starts at zero. *)
BudgetAfter(size) == (IF budget.stale THEN 0 ELSE budget.bytes) + size

WalkAfter(p, page) ==
    LET lines == [i \in 1..(page.last - page.first + 1) |-> page.first + i - 1]
    IN  IF page.first = 1
        THEN [path |-> p, text |-> files[p], same |-> TRUE, seen |-> lines,
              next |-> page.next]
        ELSE [walk EXCEPT !.same = @ /\ files[p] = walk.text,
                          !.seen = @ \o lines, !.next = page.next]

(* The model asks for the page its last read announced, or starts over. *)
Offset(p) == IF walk.path = p THEN walk.next ELSE 0

ReadPage ==
    LET f == LocalFile(op.name)
        page == Page(files[f.path], Offset(f.path), op.limit)
        counted == SkillAllows(f.path)
    IN  /\ op.st = "admitted" /\ op.tool = "read_file"
        /\ IF /\ VerifyAdmittedPath(f)
              /\ f.path \notin Images
              /\ counted => BudgetAfter(page.size) <= SkillWidth
           THEN /\ Finish("read")
                /\ walk' = WalkAfter(f.path, page)
                /\ budget' = IF counted
                             THEN [bytes |-> BudgetAfter(page.size), stale |-> FALSE]
                             ELSE budget
           ELSE Finish("failed") /\ UNCHANGED <<walk, budget>>
        /\ UNCHANGED <<files, resolve, skills, access, foreign, overwrote, left>>

(* The image goes to the attachment store; its bytes are not modelled. *)
ReadImage ==
    LET f == LocalFile(op.name)
    IN  /\ op.st = "admitted" /\ op.tool = "read_image"
        /\ Finish(IF VerifyAdmittedPath(f) /\ f.path \in Images
                  THEN "read" ELSE "failed")
        /\ UNCHANGED <<files, resolve, skills, access, budget, walk, foreign,
                       overwrote, left>>

(* ------------------------------- apply_patch ------------------------------ *)

PatchAdmission(ops) ==
    LET plan == PlanOf(ops)
    IN  /\ ~Busy
        /\ Spend("calls")
        /\ op' = [NoOp EXCEPT !.tool = "apply_patch", !.patch = ops,
                    !.targets = TargetsOf(plan),
                    !.st = IF ~Prepared(ops) THEN "done"
                           ELSE IF PatchNeedsApproval(plan) THEN "asking"
                           ELSE "admitted",
                    !.result = IF Prepared(ops) THEN "none" ELSE "refused"]
        /\ UNCHANGED <<files, resolve, skills, access, budget, walk, foreign,
                       overwrote>>

(* execute_after_admission: the patch is prepared anew on the files as they are
   now, for the admitted targets only. *)
PatchPrepare ==
    LET plan == PlanOf(op.patch)
    IN  /\ op.st = "admitted" /\ op.tool = "apply_patch"
        /\ IF Prepared(op.patch) /\ op.targets = TargetsOf(plan)
           THEN op' = [op EXCEPT !.st = "checking", !.plan = plan, !.at = 1]
           ELSE Finish("failed")
        /\ foreign' = [early |-> {}, late |-> {}]
        /\ UNCHANGED <<files, resolve, skills, access, budget, walk, overwrote,
                       left>>

(* The first loop does not compare the files. *)
PatchUnchecked ==
    /\ op.st = "checking"
    /\ op' = [op EXCEPT !.st = "applying", !.at = 1]
    /\ UNCHANGED <<files, resolve, skills, access, budget, walk, foreign,
                   overwrote, left>>

(* apply_plan, first loop: a file that changed since prepare fails the patch. *)
PatchCheck ==
    LET e == op.plan[op.at]
    IN  /\ op.st = "checking"
        /\ IF files[e.path] # e.before THEN Finish("failed")
           ELSE op' = IF op.at < Len(op.plan) THEN [op EXCEPT !.at = @ + 1]
                      ELSE [op EXCEPT !.st = "applying", !.at = 1]
        /\ foreign' = IF files[e.path] = e.before
                      THEN [foreign EXCEPT !.early = @ \ {e.path}] ELSE foreign
        /\ UNCHANGED <<files, resolve, skills, access, budget, walk, overwrote,
                       left>>

(* The file system refuses: an addition of a file that exists by now, a
   deletion of one that is gone. *)
EffectRefused(e) == \/ e.before = Absent /\ files[e.path] # Absent
                    \/ e.after = Absent /\ files[e.path] = Absent

(* A file another process wrote after the last check keeps its "late" mark
   only if the patch did not replace it. *)
PatchEffect ==
    LET e == op.plan[op.at]
    IN  /\ op.st = "applying" /\ ~EffectRefused(e)
        /\ files' = [files EXCEPT ![e.path] = e.after]
        /\ overwrote' = (overwrote \/ e.path \in foreign.early)
        /\ foreign' = [foreign EXCEPT !.late = @ \ {e.path}]
        /\ IF op.at = Len(op.plan) THEN Finish("applied")
           ELSE op' = [op EXCEPT !.at = @ + 1]
        /\ UNCHANGED <<resolve, skills, access, budget, walk, left>>

(* The failing effect: refused, or a fault of the disk.  A write that fails
   after the file was opened leaves an empty or partial file behind. *)
Leftovers(e) ==
    IF e.after = Absent THEN {files[e.path]}
    ELSE {files[e.path]} \cup {SubSeq(e.after, 1, k) : k \in 0..(Len(e.after) - 1)}

StartRollback ==
    op' = IF op.at = 1 THEN [op EXCEPT !.st = "done", !.result = "rolledBack"]
          ELSE [op EXCEPT !.st = "rolling"]

PatchEffectFails ==
    LET e == op.plan[op.at]
    IN  /\ op.st = "applying"
        /\ \/ EffectRefused(e) /\ UNCHANGED <<files, left>>
           \/ /\ ~EffectRefused(e)
              /\ Spend("faults")
              /\ \E rest \in Leftovers(e) : files' = [files EXCEPT ![e.path] = rest]
        /\ StartRollback
        /\ UNCHANGED <<resolve, skills, access, budget, walk, foreign, overwrote>>

(* The applied effects are undone, last first; "at" still names the failed one
   and Undone the ones restored so far. *)
Undone == {i \in 1..(op.at - 1) : op.plan[i].path \in op.targets}

PatchRollback ==
    LET i == Max(Undone)
        e == op.plan[i]
    IN  /\ op.st = "rolling"
        /\ files' = [files EXCEPT ![e.path] = e.before]
        /\ foreign' = [foreign EXCEPT !.late = @ \ {e.path}]
        /\ op' = [op EXCEPT !.targets = @ \ {e.path},
                    !.st = IF Undone = {i} THEN "done" ELSE "rolling",
                    !.result = IF Undone = {i} THEN "rolledBack" ELSE "none"]
        /\ UNCHANGED <<resolve, skills, access, budget, walk, overwrote, left>>

PatchRollbackFails ==
    LET e == op.plan[Max(Undone)]
    IN  /\ op.st = "rolling"
        /\ Spend("faults")
        /\ \E rest \in IF e.before = Absent THEN {files[e.path]}
                       ELSE {files[e.path], << >>} :
             files' = [files EXCEPT ![e.path] = rest]
        /\ Finish("rollbackFailed")
        /\ UNCHANGED <<resolve, skills, access, budget, walk, foreign, overwrote>>

(* ------------------------------- the others ------------------------------- *)

(* Another process, one a shell call left behind, writes or removes a file. *)
ForeignWrite(p, text) ==
    /\ Spend("foreign")
    /\ files[p] # text
    /\ files' = [files EXCEPT ![p] = text]
    /\ foreign' = IF op.st = "checking" /\ \E i \in op.at..Len(op.plan) :
                        op.plan[i].path = p
                  THEN [foreign EXCEPT !.early = @ \cup {p}]
                  ELSE [foreign EXCEPT !.late = @ \cup {p}]
    /\ UNCHANGED <<resolve, skills, access, op, budget, walk, overwrote>>

ForeignRetarget(n, p) ==
    /\ Spend("foreign")
    /\ resolve[n] # p
    /\ resolve' = [resolve EXCEPT ![n] = p]
    /\ UNCHANGED <<files, skills, access, op, budget, walk, foreign, overwrote>>

(* SkillReadRoots::replace, allowed while a Turn runs. *)
RefreshSkills(enabled) ==
    /\ Spend("refresh")
    /\ enabled # skills
    /\ skills' = enabled
    /\ UNCHANGED <<files, resolve, access, op, budget, walk, foreign, overwrote>>

(* The next Turn has another id, which the budget notices at its next read. *)
NextTurn ==
    /\ ~Busy
    /\ ~budget.stale
    /\ budget.bytes > 0
    /\ budget' = [budget EXCEPT !.stale = TRUE]
    /\ UNCHANGED <<files, resolve, skills, access, op, walk, foreign, overwrote,
                   left>>

FileToolStep ==
    \/ \E n \in Names, limit \in PageLines : ReadAdmission("read_file", n, limit)
    \/ \E n \in Names : ReadAdmission("read_image", n, 0)
    \/ \E ops \in Patches : PatchAdmission(ops)
    \/ Approve \/ Deny
    \/ ReadPage \/ ReadImage
    \/ PatchPrepare \/ PatchCheck \/ PatchEffect \/ PatchEffectFails
    \/ PatchRollback \/ PatchRollbackFails

ForeignStep == \/ \E p \in Paths, text \in ForeignTexts : ForeignWrite(p, text)
               \/ \E r \in Retargets : ForeignRetarget(r[1], r[2])

(* ------------------------------- properties ------------------------------- *)

(* A finished patch is all or nothing: every target holds its new text when the
   patch succeeded and its old text when it failed, unless another process wrote
   the file later.  Exempt are the one file whose own write failed, which
   apply_effect may leave truncated, and a rollback that failed itself.  And the
   patch never replaces what another process wrote before the final check of
   that file (apply_plan, patch.rs). *)
PatchAtomic ==
    /\ ~overwrote
    /\ op.st = "done" /\ op.tool = "apply_patch" =>
        \A i \in DOMAIN op.plan :
            LET e == op.plan[i]
            IN  e.path \notin foreign.early \cup foreign.late =>
                    /\ op.result = "applied" => files[e.path] = e.after
                    /\ op.result = "failed" => files[e.path] = e.before
                    /\ op.result = "rolledBack" /\ i # op.at =>
                            files[e.path] = e.before

(* What a call reads or writes was admitted for this call, as it resolves when
   the call runs: a file outside the readable roots is read, and one outside the
   writable roots written or any deleted, only with the user's approval, and
   under the Plan lock nothing but the Session's own artifacts is written; Skill
   files are read within the Turn's budget (verify_admitted_path, read_page,
   execute_after_admission, SkillReadBudget::record). *)
CallsStayAdmitted ==
    [][/\ op.result # "read" /\ op'.result = "read" =>
            LET f == LocalFile(op.name)
            IN  f.path \in op.targets /\ (f.approval => op.approved)
       /\ op.st = "checking" /\ op'.st = "applying" =>
            \A e \in Range(op.plan) :
                /\ e.path \in op.targets
                /\ access.locked => IsSessionArtifact(e.path)
                /\ op.approved \/ /\ e.after # Absent
                                  /\ IsSessionArtifact(e.path) \/ IsWritePath(e.path)
       /\ budget'.bytes <= SkillWidth]_fileVars

(* Reading on from each announced offset shows every line of an unchanged file
   exactly once, in order (format_read_page: the cursor moves past a clipped
   line too). *)
PagesComplete ==
    walk.same /\ walk.next = 0 => walk.seen = [i \in 1..Len(walk.text) |-> i]

(* What the file tools report is what they did: a patch is all or nothing, and
   the pages of a file are the file (apply_plan, read_page). *)
FilesTruthful == PatchAtomic /\ PagesComplete
=============================================================================
