------------------------------- MODULE Pipeline -------------------------------
(***************************************************************************)
(* The grading pipeline for one question: attempts arrive, queue their     *)
(* runs, workers claim and execute the runs, graders score attempts by     *)
(* hand, and every score row rolls up into the official question grade.    *)
(* (api/submissions.py, api/grading.py, worker/main.py, services/grades.py)*)
(*                                                                         *)
(* The granularity is that of the database: one action is one statement or *)
(* one short transaction, and a long transaction (a worker executing a run,*)
(* a grader's POST .../score) is split where another transaction can come  *)
(* between.  Isolation is READ COMMITTED: a read sees committed rows, an   *)
(* UPDATE waits for the row lock of an open transaction, and an object     *)
(* loaded at the start of a transaction keeps the values it was loaded     *)
(* with.  `proc` holds what each open transaction has read and not yet     *)
(* committed; the other variables are the committed tables.                *)
(***************************************************************************)
EXTENDS GradePolicy, FiniteSets

CONSTANTS
  Student,          \* enrollments with the student role
  Staff,            \* enrollments with another role (attempts of theirs are tests)
  Worker,           \* grader-worker processes
  Grader,           \* staff sessions that score attempts
  Settings,         \* the question-and-assignment settings a course may start from
  Policy,           \* the policies an instructor may switch to
  Sent,             \* whether attempts come with the student's outputs: kinds of Snapshot
  MaxSkew,          \* bound: clock ticks between two rows of one flush, 0 or 1
  MaxAttempts,      \* bound: attempts per enrollment
  MaxRuns,          \* bound: rows of grader_runs when a retry or an attach adds one
  MaxHandScores,    \* bound: POSTs to .../score
  MaxCrashes,       \* bound: worker deaths the environment causes
  MaxAttached,      \* bound: POSTs to .../outputs
  MaxPatches        \* bound: changes of the grade policy

Enrollment == Student \cup Staff
Attempt == 1..MaxAttempts
Sub == Enrollment \X Attempt        \* a submission; uq_attempt makes the pair a key
Proc == Worker \cup Grader

Kind == {"snapshot", "render", "autograde"}
RunId == [sub : Sub, kind : Kind, at : Nat]     \* `at` is queued_at
Status == {"received", "graded", "failed"}      \* "grading" is never committed
Snapshot == {"none", "submitted", "attached"}
Render == {"none", "rerun", "snapshot", "attached-snapshot", "attached-html"}
Grade == [attempt : Nat, points : PointsOrNone]
\* What a transaction will write of a question grade, and the row it has loaded.
PendingRow == [row : Grade, seen : Grade \cup {None}]
View == [status : Status, snapshot : Snapshot, render : Render]
Setting == [mode : {"auto", "manual", "hybrid"}, policy : {"latest", "highest", "first", "selected"},
            autograde : BOOLEAN, render : BOOLEAN, whole : BOOLEAN,
            auto_max : Nat, manual_max : Nat]

ASSUME NoneAssumption == None \notin Nat /\ None \notin Score /\ None \notin Grade
                         /\ None \notin View /\ None \notin PendingRow
                         /\ None \notin Sub /\ None \notin RunId
ASSUME RoleAssumption == Student \cap Staff = {}
ASSUME ProcAssumption == Worker \cap Grader = {}
ASSUME SettingsAssumption ==
         /\ Settings \subseteq Setting
         /\ Policy \subseteq {"latest", "highest", "first", "selected"}
         /\ Sent \subseteq {"none", "submitted"}
ASSUME BoundAssumption ==
         MaxAttempts \in Nat /\ MaxRuns \in Nat /\ MaxHandScores \in Nat
         /\ MaxCrashes \in Nat /\ MaxAttached \in Nat /\ MaxPatches \in Nat
         /\ MaxSkew \in {0, 1}

VARIABLES
  settings,     \* Assignment.settings and the Question's mode and points
  attempts,     \* number of attempts of each enrollment
  status,       \* Submission.status of each attempt
  snapshot,     \* what Submission.snapshot_artifact_id points at
  render,       \* what Submission.render_artifact_id points at
  scores,       \* committed Score rows of each attempt
  ticks,        \* last graded_at handed out for each attempt
  grades,       \* QuestionGrade of each enrollment, None when there is no row
  runs,         \* grader_runs: RunId -> status
  now,          \* last queued_at handed out
  proc,         \* what each worker and grader is doing
  used          \* how much of each bound has been used

vars == <<settings, attempts, status, snapshot, render, scores, ticks, grades,
          runs, now, proc, used>>
tables == <<settings, attempts, status, snapshot, render, scores, grades, now>>

Existing == {s \in Sub : s[2] <= attempts[s[1]]}
Whole == settings.whole
\* notebook_submission.is_receipt: a zero-point whole-notebook question.
Receipt == settings.whole /\ settings.auto_max + settings.manual_max = 0

Idle == [pc |-> "idle", run |-> None, sub |-> None, view |-> None,
         lock |-> FALSE, score |-> None, grade |-> None, stale |-> {}]

Init ==
  /\ settings \in Settings
  /\ attempts = [e \in Enrollment |-> 0]
  /\ status = [s \in Sub |-> "received"]
  /\ snapshot = [s \in Sub |-> "none"]
  /\ render = [s \in Sub |-> "none"]
  /\ scores = [s \in Sub |-> {}]
  /\ ticks = [s \in Sub |-> 0]
  /\ grades = [e \in Enrollment |-> None]
  /\ runs = [r \in {} |-> "queued"]
  /\ now = 0
  /\ proc = [p \in Proc |-> Idle]
  /\ used = [scores |-> 0, crashes |-> 0, attached |-> 0, patches |-> 0]

-----------------------------------------------------------------------------
(* Shared pieces of the handlers.                                          *)

\* The transaction of another process holds the row lock of submission s.
LockedByOther(s, p) == \E q \in Proc \ {p} : proc[q].lock /\ proc[q].sub = s
Locked(s) == \E q \in Proc : proc[q].lock /\ proc[q].sub = s

\* The row as an ORM session loads it.
Loaded(s) == [status |-> status[s], snapshot |-> snapshot[s], render |-> render[s]]

\* INSERT INTO grader_runs, with the given status.
WithRuns(new, st) == [r \in DOMAIN runs \cup new |-> IF r \in new THEN st ELSE runs[r]]

\* The rows one flush inserts, each stamped by the clock at its turn: usually all
\* alike, but the clock may tick once in between.
InsertOrder == [autograde |-> 1, snapshot |-> 2, render |-> 3]
FlushedRuns(s, kinds) ==
  {{[sub |-> s, kind |-> k, at |-> IF InsertOrder[k] > cut THEN now + 1 + MaxSkew ELSE now + 1]
      : k \in kinds} : cut \in 1..3}

\* The row sets of an enrollment's attempts as a transaction about to commit
\* row sc of attempt s sees them.
HistoryWith(s, sc) ==
  [k \in 1..attempts[s[1]] |->
     scores[<<s[1], k>>] \cup (IF k = s[2] THEN {sc} ELSE {})]

\* Mistake: the attempt just scored counts, whatever the policy says.
GradeOfAttempt(s, sc) == [attempt |-> s[2], points |-> Total(sc)]

\* services/grades.recompute_question_grade: the values it writes.
RecomputedGrade(s, sc) ==
  LET pick == PickAttempt(HistoryWith(s, sc), settings.policy, 0)
  IN  [attempt |-> pick.attempt, points |-> OfficialPoints(pick)]

\* An open transaction that found no QuestionGrade row inserts one; if another
\* committed one meanwhile, uq_qgrade rejects the insert.
Conflicts(p) ==
  /\ proc[p].grade # None
  /\ proc[p].grade.seen = None
  /\ grades[proc[p].sub[1]] # None

\* The pending write of recompute_question_grade, read at this moment. It is
\* written by a later statement, which waits for the row lock, so two open
\* transactions may commit in either order, whichever read first.
PendingGrade(s, sc) ==
  [row |-> RecomputedGrade(s, sc), seen |-> grades[s[1]]]
-----------------------------------------------------------------------------
(* The student: POST /submissions, committed as one transaction (the races *)
(* of two such requests are the subject of another module).                *)

Submit(e, snap) ==
  LET s == <<e, attempts[e] + 1>>
      kinds == {"snapshot"}
               \cup (IF settings.autograde /\ ~Whole THEN {"autograde"} ELSE {})
               \cup (IF settings.render THEN {"render"} ELSE {})
  IN  /\ attempts[e] < MaxAttempts
      /\ attempts' = [attempts EXCEPT ![e] = @ + 1]
      /\ status' = [status EXCEPT ![s] = IF Receipt THEN "graded" ELSE "received"]
      /\ snapshot' = [snapshot EXCEPT ![s] = snap]
      /\ \E new \in FlushedRuns(s, kinds) : runs' = WithRuns(new, "queued")
      /\ now' = now + 1 + MaxSkew
      /\ UNCHANGED <<settings, render, scores, ticks, grades, proc, used>>

-----------------------------------------------------------------------------
(* The worker: claim, then process().                                      *)

RunRank == [snapshot |-> 0, render |-> 1, autograde |-> 2]      \* _RUN_PRIORITY
Before(q, r) == q.at < r.at \/ (q.at = r.at /\ RunRank[q.kind] < RunRank[r.kind])
Queued == {r \in DOMAIN runs : runs[r] = "queued"}

\* claim() commits the run as running; process() then loads the submission. An
\* attempt that is not "received" keeps its status while its autograde runs.
Claim(w, r) ==
  /\ proc[w].pc = "idle"
  /\ r \in Queued /\ \A q \in Queued : ~Before(q, r)
  /\ runs' = [runs EXCEPT ![r] = "running"]
  /\ proc' = [proc EXCEPT ![w] =
       [Idle EXCEPT !.run = r, !.sub = r.sub, !.view = Loaded(r.sub),
                    !.pc = IF r.kind = "autograde" /\ status[r.sub] # "received"
                           THEN "grading" ELSE "claimed"]]
  /\ UNCHANGED <<tables, ticks, used>>

\* The run ends and its transaction commits with the given outcome.
Finish(w, outcome) ==
  /\ runs' = [runs EXCEPT ![proc[w].run] = outcome]
  /\ proc' = [proc EXCEPT ![w] = Idle]

\* process(): status "grading", flushed by the first query of grade(), which
\* waits for the row lock and then keeps it until the transaction ends.
MarkGrading(w) ==
  /\ proc[w].pc = "claimed" /\ proc[w].run.kind = "autograde"
  /\ ~Locked(proc[w].sub)
  /\ proc' = [proc EXCEPT ![w] = [@ EXCEPT !.pc = "grading", !.lock = TRUE]]
  /\ UNCHANGED <<tables, ticks, runs, used>>

\* Mistake: a draft hand score is carried over as if it were final.
CarriedDraft(s) == FinalScore(scores[s])

\* The row whose hand-entered part a re-run carries over.
Carried(s) == LatestFinal(scores[s])

\* An attempt's new score row: the automatic points and the carried-over part.
AutoScore(s, auto) ==
  LET prev == Carried(s)
  IN  [auto |-> auto,
       manual |-> IF prev = None THEN None ELSE prev.manual,
       final |-> settings.mode = "auto" \/ prev # None,
       at |-> ticks[s] + 1, by |-> "worker"]

\* Whether do_autograde's own status write differs from what it loaded.
WritesGraded(w) == settings.mode = "auto" /\ proc[w].view.status # "graded"

\* A staff attempt is scored but must not roll up into a grade.
RollsUp(s) == s[1] \notin Staff

\* do_autograde: grade() has returned; the score row is flushed and the question
\* grade recomputed.
AutoGrade(w, auto) ==
  LET s == proc[w].sub
      sc == AutoScore(s, auto)
  IN  /\ proc[w].pc = "grading"
      /\ WritesGraded(w) => ~LockedByOther(s, w)
      /\ proc' = [proc EXCEPT ![w] =
           [@ EXCEPT !.pc = "scored", !.score = sc, !.lock = proc[w].lock \/ WritesGraded(w),
                     !.grade = IF RollsUp(s) THEN PendingGrade(s, sc) ELSE None]]
      /\ ticks' = [ticks EXCEPT ![s] = @ + 1]
      /\ UNCHANGED <<tables, runs, used>>

\* Mistake: the rows of an attempt are replaced instead of added to.
OnlyRow(p) == {proc[p].score}

RowsWith(p) == scores[proc[p].sub] \cup {proc[p].score}

\* The UPDATE of a loaded row carries the columns that came to differ from it. (Points
\* are whole numbers here; a total no binary fraction holds always differs.)
ColumnWritten(new, loaded, committed) == IF new # loaded THEN new ELSE committed

\* The question grade after p's flush: a new row, or its columns over the committed one.
GradeWritten(p) ==
  LET g == proc[p].grade
      committed == grades[proc[p].sub[1]]
  IN  IF committed = None THEN g.row
      ELSE [attempt |-> ColumnWritten(g.row.attempt, g.seen.attempt, committed.attempt),
            points |-> ColumnWritten(g.row.points, g.seen.points, committed.points)]

\* The transaction of p commits its score row and its question grade.
CommitScoreOf(p) ==
  LET s == proc[p].sub
  IN  /\ scores' = [scores EXCEPT ![s] = RowsWith(p)]
      /\ grades' = IF proc[p].grade = None THEN grades
                    ELSE [grades EXCEPT ![s[1]] = GradeWritten(p)]

\* Mistake: an attempt that awaits a person is left "grading".
LeftGrading(w) ==
  IF WritesGraded(w) THEN "graded"
  ELSE IF settings.mode # "auto" THEN "grading" ELSE status[proc[w].sub]

\* process() after do_autograde: an attempt it found "received" is graded in mode
\* auto and back to "received", awaiting a person, in the other modes.
StatusAfterGrade(w) ==
  IF WritesGraded(w) THEN "graded"
  ELSE IF settings.mode # "auto" /\ proc[w].view.status = "received" THEN "received"
  ELSE status[proc[w].sub]

CommitGrade(w) ==
  LET s == proc[w].sub
  IN  /\ proc[w].pc = "scored" /\ ~Conflicts(w)
      /\ CommitScoreOf(w)
      /\ status' = [status EXCEPT ![s] = StatusAfterGrade(w)]
      /\ Finish(w, "succeeded")
      /\ UNCHANGED <<settings, attempts, snapshot, render, ticks, now, used>>

\* The insert of the question grade is rejected: the session is unusable, recording
\* the failure raises again and the worker process dies with the run "running".
GradeConflict(w) ==
  /\ proc[w].pc = "scored" /\ Conflicts(w)
  /\ proc' = [proc EXCEPT ![w] = [Idle EXCEPT !.pc = "down"]]
  /\ UNCHANGED <<tables, ticks, runs, used>>

\* Mistake: only the run is failed, as for a page.
NeverWritesFailed(w) == FALSE

\* Whether process()'s own status write differs from what it loaded.
WritesFailed(w) == proc[w].view.status # "failed"

\* grade() raises (timeout, sandbox, safety check, nothing ran): run and attempt
\* are failed; nothing is scored and the question grade is left alone.
GradeFails(w) ==
  LET s == proc[w].sub
  IN  /\ proc[w].pc = "grading"
      /\ WritesFailed(w) => ~LockedByOther(s, w)
      /\ status' = IF WritesFailed(w) THEN [status EXCEPT ![s] = "failed"] ELSE status
      /\ Finish(w, "failed")
      /\ UNCHANGED <<settings, attempts, snapshot, render, scores, ticks, grades, now, used>>

\* Mistake: an attached snapshot is treated like the student's own.
ShownUnlessRerun(view) ==
  view.snapshot # "none" /\ view.render \in {"none", "snapshot", "attached-snapshot"}

\* Whether the page of the snapshot loaded at the start becomes the render: not if
\* the render loaded at the start was of another kind, unless an instructor
\* attached the snapshot.
Shown(view) ==
  /\ view.snapshot # "none"
  /\ view.render \in {"none", "snapshot", "attached-snapshot"} \/ view.snapshot = "attached"

\* do_snapshot: a run without a snapshot succeeds and renders nothing.
FinishSnapshot(w) ==
  LET s == proc[w].sub
      view == proc[w].view
      shown == Shown(view)
  IN  /\ proc[w].pc = "claimed" /\ proc[w].run.kind = "snapshot"
      /\ shown => ~Locked(s)
      /\ render' = IF ~shown THEN render
                    ELSE [render EXCEPT ![s] = IF view.snapshot = "attached"
                                               THEN "attached-snapshot" ELSE "snapshot"]
      /\ Finish(w, "succeeded")
      /\ UNCHANGED <<settings, attempts, status, snapshot, scores, ticks, grades, now, used>>

\* do_render: the re-run's page becomes the render, whatever was there.
FinishRender(w) ==
  /\ proc[w].pc = "claimed" /\ proc[w].run.kind = "render"
  /\ ~Locked(proc[w].sub)
  /\ render' = [render EXCEPT ![proc[w].sub] = "rerun"]
  /\ Finish(w, "succeeded")
  /\ UNCHANGED <<settings, attempts, status, snapshot, scores, ticks, grades, now, used>>

\* A snapshot or render run raises: only the run is failed.
PageFails(w) ==
  /\ proc[w].pc = "claimed" /\ proc[w].run.kind # "autograde"
  /\ proc[w].run.kind = "snapshot" => proc[w].view.snapshot # "none"
  /\ Finish(w, "failed")
  /\ UNCHANGED <<tables, ticks, used>>

\* The worker process is killed: its open transaction is rolled back.
Crash(w) ==
  /\ proc[w].pc # "down" /\ used.crashes < MaxCrashes
  /\ proc' = [proc EXCEPT ![w] = [Idle EXCEPT !.pc = "down"]]
  /\ used' = [used EXCEPT !.crashes = @ + 1]
  /\ UNCHANGED <<tables, ticks, runs>>

\* Mistakes: a worker that died keeps its runs; whatever did not succeed is run again.
NoneFound == {}
NotSucceeded == {r \in DOMAIN runs : runs[r] # "succeeded"}

\* What requeue_stale's SELECT finds.
Running == {r \in DOMAIN runs : runs[r] = "running"}

\* The container starts again; loop() begins with requeue_stale(), which reads first.
Survey(w) ==
  /\ proc[w].pc = "down"
  /\ proc' = [proc EXCEPT ![w] = [Idle EXCEPT !.pc = "requeueing", !.stale = Running]]
  /\ UNCHANGED <<tables, ticks, runs, used>>

\* requeue_stale(): its UPDATE names the rows it read by their keys alone, so it also
\* overwrites an outcome committed since.  A transaction that has flushed its score
\* holds its run's row until it commits.
Requeue(w) ==
  /\ proc[w].pc = "requeueing"
  /\ \A q \in Proc : proc[q].pc = "scored" => proc[q].run \notin proc[w].stale
  /\ runs' = [r \in DOMAIN runs |-> IF r \in proc[w].stale THEN "queued" ELSE runs[r]]
  /\ proc' = [proc EXCEPT ![w] = Idle]
  /\ UNCHANGED <<tables, ticks, used>>

-----------------------------------------------------------------------------
(* Staff.                                                                  *)

\* score_submission up to its first flush: the previous score is read and the new
\* row inserted.
BeginScore(g, s, manual, final) ==
  LET prev == FinalScore(scores[s])
      sc == [auto |-> IF prev = None THEN None ELSE prev.auto, manual |-> manual,
             final |-> final, at |-> ticks[s] + 1, by |-> "staff"]
  IN  /\ proc[g].pc = "idle" /\ used.scores < MaxHandScores
      /\ manual # None => manual <= settings.manual_max
      /\ proc' = [proc EXCEPT ![g] = [Idle EXCEPT !.pc = "begun", !.sub = s,
                                                  !.view = Loaded(s), !.score = sc]]
      /\ ticks' = [ticks EXCEPT ![s] = @ + 1]
      /\ used' = [used EXCEPT !.scores = @ + 1]
      /\ UNCHANGED <<tables, runs>>

\* Mistake: a provisional score marks the attempt graded too.
MarksGradedAlways(g) == proc[g].view.status = "received"

\* A final score marks the attempt graded, unless its run had failed.
MarksGraded(g) == proc[g].score.final /\ proc[g].view.status = "received"

\* score_submission: the status update waits for the row lock, then the question
\* grade is recomputed.
RecomputeScore(g) ==
  LET s == proc[g].sub
  IN  /\ proc[g].pc = "begun"
      /\ MarksGraded(g) => ~Locked(s)
      /\ proc' = [proc EXCEPT ![g] =
           [@ EXCEPT !.pc = "scored", !.lock = MarksGraded(g),
                     !.grade = PendingGrade(s, proc[g].score)]]
      /\ UNCHANGED <<tables, ticks, runs, used>>

CommitScore(g) ==
  /\ proc[g].pc = "scored" /\ ~Conflicts(g)
  /\ CommitScoreOf(g)
  /\ status' = [status EXCEPT ![proc[g].sub] = IF MarksGraded(g) THEN "graded" ELSE @]
  /\ proc' = [proc EXCEPT ![g] = Idle]
  /\ UNCHANGED <<settings, attempts, snapshot, render, ticks, runs, now, used>>

\* uq_qgrade rejects the insert: the request answers 500 and rolls back.
ScoreConflict(g) ==
  /\ proc[g].pc = "scored" /\ Conflicts(g)
  /\ proc' = [proc EXCEPT ![g] = Idle]
  /\ UNCHANGED <<tables, ticks, runs, used>>

\* retry_submission and retry_many: _requeue.
Retry(s) ==
  /\ Cardinality(DOMAIN runs) + 2 <= MaxRuns
  /\ status[s] # "received" => ~Locked(s)
  /\ status' = [status EXCEPT ![s] = "received"]
  /\ \E new \in FlushedRuns(s, {"autograde"} \cup (IF render[s] = "none" THEN {"render"} ELSE {})) :
       runs' = WithRuns(new, "queued")
  /\ now' = now + 1 + MaxSkew
  /\ UNCHANGED <<settings, attempts, snapshot, render, scores, ticks, grades, proc, used>>

\* attach_outputs with a snapshot: it replaces the attempt's and queues its page.
AttachSnapshot(s) ==
  /\ used.attached < MaxAttached /\ ~Locked(s)
  /\ snapshot' = [snapshot EXCEPT ![s] = "attached"]
  /\ \E new \in FlushedRuns(s, {"snapshot"}) : runs' = WithRuns(new, "queued")
  /\ now' = now + 1 + MaxSkew
  /\ used' = [used EXCEPT !.attached = @ + 1]
  /\ UNCHANGED <<settings, attempts, status, render, scores, ticks, grades, proc>>

\* attach_outputs with a page: it becomes the render, and a run already succeeded
\* records it.
AttachHtml(s) ==
  /\ used.attached < MaxAttached /\ ~Locked(s)
  /\ render' = [render EXCEPT ![s] = "attached-html"]
  /\ \E new \in FlushedRuns(s, {"snapshot"}) : runs' = WithRuns(new, "succeeded")
  /\ now' = now + 1 + MaxSkew
  /\ used' = [used EXCEPT !.attached = @ + 1]
  /\ UNCHANGED <<settings, attempts, status, snapshot, scores, ticks, grades, proc>>

\* patch_assignment with another grade_policy: no grade is recomputed.
PatchPolicy(policy) ==
  /\ used.patches < MaxPatches
  /\ settings' = [settings EXCEPT !.policy = policy]
  /\ used' = [used EXCEPT !.patches = @ + 1]
  /\ UNCHANGED <<attempts, status, snapshot, render, scores, ticks, grades, runs, now, proc>>

-----------------------------------------------------------------------------
WorkerStep(w) ==
  \/ \E r \in Queued : Claim(w, r)
  \/ MarkGrading(w)
  \/ \E auto \in 0..settings.auto_max : AutoGrade(w, auto)
  \/ CommitGrade(w)
  \/ GradeConflict(w)
  \/ GradeFails(w)
  \/ FinishSnapshot(w)
  \/ FinishRender(w)
  \/ PageFails(w)
  \/ Survey(w)
  \/ Requeue(w)

RequestStep(g) == RecomputeScore(g) \/ CommitScore(g) \/ ScoreConflict(g)

StaffStep ==
  \/ \E s \in Existing :
       \/ \E g \in Grader, manual \in {None} \cup 0..settings.manual_max, final \in BOOLEAN :
            BeginScore(g, s, manual, final)
       \/ Retry(s)
       \/ AttachSnapshot(s)
       \/ AttachHtml(s)
  \/ \E policy \in Policy : PatchPolicy(policy)

Next ==
  \/ \E e \in Enrollment, snap \in Sent : Submit(e, snap)
  \/ \E w \in Worker : WorkerStep(w) \/ Crash(w)
  \/ \E g \in Grader : RequestStep(g)
  \/ StaffStep

Spec == Init /\ [][Next]_vars

\* The worker loop keeps polling and its container restarts it; a request that
\* has begun runs to its end. Nothing obliges a student or staff to act.
Fairness ==
  /\ \A w \in Worker : WF_vars(WorkerStep(w))
  /\ \A g \in Grader : WF_vars(RequestStep(g))

FairSpec == Spec /\ Fairness

-----------------------------------------------------------------------------
(* Properties.                                                             *)

ProcState ==
  [pc : {"idle", "down", "requeueing", "claimed", "grading", "begun", "scored"},
   run : RunId \cup {None}, sub : Sub \cup {None}, view : View \cup {None},
   lock : BOOLEAN, score : Score \cup {None},
   grade : PendingRow \cup {None}, stale : SUBSET RunId]

\* Every table holds what its columns allow, and attempts are numbered from 1.
TypeOK ==
  /\ settings \in Setting
  /\ attempts \in [Enrollment -> 0..MaxAttempts]
  /\ status \in [Sub -> Status]
  /\ snapshot \in [Sub -> Snapshot]
  /\ render \in [Sub -> Render]
  /\ scores \in [Sub -> SUBSET Score]
  /\ ticks \in [Sub -> Nat]
  /\ grades \in [Enrollment -> Grade \cup {None}]
  /\ DOMAIN runs \subseteq RunId
  /\ runs \in [DOMAIN runs -> {"queued", "running", "succeeded", "failed"}]
  /\ now \in Nat
  /\ proc \in [Proc -> ProcState]
  /\ used \in [scores : Nat, crashes : Nat, attached : Nat, patches : Nat]

Live(r) == runs[r] \in {"queued", "running"}
LiveRun(s, kind) == \E r \in DOMAIN runs : r.sub = s /\ r.kind = kind /\ Live(r)

\* The question's attempts are settled by the worker alone.
AutoGraded == settings.mode = "auto" /\ settings.autograde /\ ~Whole

\* An attempt is "graded" only once a final score of it is committed, or when it
\* is a receipt: neither a failed run, a provisional score, a retry nor a crash
\* between two steps leaves the word without the score.
GradedHasFinalScore ==
  \A s \in Existing : status[s] = "graded" /\ ~Receipt => FinalRows(scores[s]) # {}

\* While a student sees "grading", some queued or running autograde run will
\* settle the attempt: no order of retries, hand scores, worker deaths and
\* doubly executed runs strands it.
ReceivedHasLiveRun ==
  AutoGraded => \A s \in Existing : status[s] = "received" => LiveRun(s, "autograde")

\* The manual points the worker writes are always points a person entered for
\* that attempt: a re-run carries a hand grade over, it never invents one.
HandPointsAreHandEntered ==
  \A s \in Sub : \A x \in scores[s] :
    x.by = "worker" /\ x.manual # None
      => \E y \in scores[s] : y.by = "staff" /\ y.final /\ y.manual = x.manual /\ y.at < x.at

LatestStatus(e) == IF attempts[e] = 0 THEN "none" ELSE status[<<e, attempts[e]>>]
LatestScore(e) == IF attempts[e] = 0 THEN None ELSE FinalScore(scores[<<e, attempts[e]>>])
ByHand == settings.mode # "auto" \/ ~settings.autograde
Progress(e) == ProgressState(LatestStatus(e), LatestScore(e), ByHand)
Cell(e) == CellState(LatestStatus(e), LatestScore(e))

\* The class grid, the progress bar and the hand-grading queue tell one story:
\* a cell that shows points is a graded mark and nobody is asked to grade it, and
\* whatever the queue asks for is a mark that waits or failed.
ViewsAgree ==
  \A e \in Student :
    /\ Cell(e) = "graded" <=> Progress(e) = "graded"
    /\ NeedsManual(settings.mode, LatestScore(e)) /\ attempts[e] > 0
         => Progress(e) \in {"waiting", "failed"}

NoOpenTransaction == \A p \in Proc : proc[p].pc \in {"idle", "down", "requeueing"}
Settled(e) ==
  /\ attempts[e] > 0 /\ NoOpenTransaction
  /\ \A k \in 1..attempts[e] : status[<<e, k>>] = "graded" /\ ~LiveRun(<<e, k>>, "autograde")
History(e) == [k \in 1..attempts[e] |-> scores[<<e, k>>]]

\* Once all attempts of a student are graded and nothing is in flight, the
\* gradebook holds what the grade policy says of those attempts.
SettledGradeFollowsPolicy ==
  \A e \in Student : Settled(e) /\ ~Receipt =>
    LET pick == PickAttempt(History(e), settings.policy, 0)
    IN  grades[e] = [attempt |-> pick.attempt, points |-> OfficialPoints(pick)]

\* A grade row of a staff enrollment exists only after someone scored one of its
\* attempts by hand: the worker never rolls a test attempt up.
TestGradesOnlyByHand ==
  \A e \in Staff : grades[e] # None =>
    \E k \in Attempt : \E x \in scores[<<e, k>>] : x.by = "staff"

\* Every run that is queued reaches an outcome, through crashes and requeues.
RunsEnd ==
  \A s \in Sub, kind \in Kind : LiveRun(s, kind) ~> ~LiveRun(s, kind)

\* A student whose attempt is received is eventually told a score or a failure.
AttemptsSettle ==
  \A s \in Sub : AutoGraded /\ s \in Existing /\ status[s] = "received"
    ~> status[s] \in {"graded", "failed"}

\* The loop comes to the end of whatever is handed to it.
EverythingSettles == RunsEnd /\ AttemptsSettle

\* An attempt that came with the student's outputs eventually shows a page, unless
\* rendering them failed.
OutputsShown ==
  \A s \in Sub : s \in Existing /\ snapshot[s] # "none"
    ~> \/ render[s] # "none"
       \/ \E r \in DOMAIN runs : r.sub = s /\ r.kind = "snapshot" /\ runs[r] = "failed"

\* A snapshot an instructor attaches on purpose is eventually the page shown,
\* whatever was shown before, unless a snapshot could not be rendered.
AttachedIsShown ==
  \A s \in Sub : snapshot[s] = "attached"
    ~> \/ render[s] = "attached-snapshot"
       \/ \E r \in DOMAIN runs : r.sub = s /\ r.kind = "snapshot" /\ runs[r] = "failed"

\* The pages a student sent and an instructor attached come to be shown.
PagesShown == OutputsShown /\ AttachedIsShown

-----------------------------------------------------------------------------
(* What the documentation and the comments say, and the code does not do.  *)

\* "running: queued or being graded automatically" (services/progress.py): a mark
\* that says so has a run behind it.
RunningMeansWork ==
  \A e \in Student : Progress(e) = "running" => LiveRun(<<e, attempts[e]>>, "autograde")

\* A staff attempt is "never recorded as a grade" (api/submissions.py).
TestNeverRecorded == \A e \in Staff : grades[e] = None

\* Workers run "side by side without treading on each other"
\* (life-of-a-submission.md): no two execute the same run.
RunExclusive ==
  \A v, w \in Worker : v # w /\ proc[v].run # None => proc[v].run # proc[w].run

\* "A finished re-run stays put, unless an instructor attached this snapshot on
\* purpose" (worker/main.py): nothing else replaces the page.
RerunStays ==
  [][\A s \in Sub : render[s] = "rerun" /\ render'[s] # "rerun"
       => render'[s] \in {"attached-snapshot", "attached-html"}]_render

=============================================================================
