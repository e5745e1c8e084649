# A verified model of marimo-grader

marimo-grader receives students' marimo notebooks, executes them, lets people
grade them by hand, and keeps the official grade of every question. This
directory holds TLA+ modules translated from its source, configurations that
check them with TLC, and theorems about them that TLAPS checks. `PROJECT.json`
lists every component, run, mutant, hazard and theorem, and says for every
definition which lines of the source it stands for. Paths below are relative to
`src/backend/src/grader/` unless they say otherwise; `client/` stands for
`src/client/src/marimo_grader_client/`.

```
tlc -workers 2 -config MCGrading_pipeline.cfg MCGrading     # a run
tlapm PipelineProofs.tla                                    # the proofs of a module, a few minutes at most
```

## 1. The system

One PostgreSQL database, an API server (FastAPI, a session per request,
committed when the handler returns: `db.py:48`), one or more `grader-worker`
processes that poll it, a web interface, a client library inside the students'
notebooks (a widget in the page, a kernel behind it), a bucket for course files
and the disk of the machine that executes notebooks. The components share no
memory: they interact through the tables, the disk and the bucket, and the API
pushes events to open browser tabs.

| component | its state | its operations | what is hard | what makes it correct | module |
|---|---|---|---|---|---|
| **Worker** `worker/main.py` | `GraderRun.status`, `Submission.status`, `Score`, renders | claim, process (autograde, snapshot, render), requeue, loop | several workers, a worker killed anywhere, a row read before a long execution and written after it, a requeue that writes by key what it read before | every queued run ends, every attempt is settled, an outcome stays unless a worker that starts again overwrites it | `Pipeline`, `RunQueue` |
| **Hand grading and retry** `api/grading.py` | `Score`, `QuestionGrade`, `Submission.status` | score, retry, retry many, queue, grid, progress, export | a hand score, a re-run and a retry of one attempt in any order; five pages that read the same tables by five rules | nothing graded without a score, nobody's points invented or lost, nobody forgotten, the views agree | `Pipeline`, `Classroom` |
| **Grade rules** `services/grades.py`, `services/progress.py` | none (`QuestionGrade` is derived) | final score, counted attempt, official points, cell and mark of an attempt | ties, drafts, unscored attempts, the same rule written twice | the official grade is what the policy says of the attempts | `GradePolicy`, `Gradebook` |
| **Attempt intake** `api/submissions.py`, `services/artifacts.py`, `services/events.py`, `client/widget.py` | `Submission`, files by content, subscribers' queues, the button | submit, POST, put, publish, refetch | two POSTs of one student, lost answers, one temporary file for two writers, an event before the commit, a page whose connection drops | attempts are numbered without gaps, limits hold, what is shown is kept, the button comes back | `Intake` |
| **Notebook and session files** `client/notebook.py`, `client/__init__.py`, `worker/snapshot_render.py` | the notebook, marimo's session file, the payload | refresh, snapshot, pairing of outputs and cells | a busy kernel, late answers, half-written files, cells with equal code | what is handed in is of the click, a page shows each cell's own output | `Payload` |
| **Assignment lifecycle** `api/offerings.py`, `services/student_copy.py`, `services/notebook_submission.py` | `Assignment`, versions, `Question`, `Rubric` | create, patch, rubrics, preview, publish, sync | two instructors at once | one version per number, live questions are its questions, a preview tells the truth | `Publishing` |
| **Windows and gates** `services/availability.py`, `services/storage.py`, `api/storage.py`, `api/public.py` | settings, credentials with a lifetime | list, download, launch, submit, grant, presign | five gates written five times; a credential outlives what it was granted on | the gates agree, a private assignment looks missing, nothing is read after a close | `Availability`, `Opening` |
| **Client storage** `client/storage/` | session, mounts, copies, memoised results | connect, renew, local_path, cache | expiry during a use, a kernel killed between two steps, kernels that share a disk | a session renews itself, a path is the object, a result is computed once | `KernelSession`, `CourseFiles` |
| **Roster and staff** `api/roster.py`, `services/roster.py`, `api/admin.py`, `cli.py` | `Enrollment`, `User.platform_admin` | plan and apply, add, drop, staff, preview | a plan applied to a roster that changed | an offering keeps an instructor, an import is the file's and leaves staff alone | `Roster` |
| **Sign-in** `api/auth.py`, `auth/device.py`, `client/widget.py`, `client/storage/_auth.py` | `DeviceCode`, tokens in page and kernel | start, approve, poll, hand over; ask, mail, exchange a link | a poll whose answer is lost, a cell re-run during a sign-in, one kernel object per widget, requests that overlap | an approval arrives, each kernel object follows the page, a link is used once | `DeviceSignIn`, `LoginLinks` |
| **Sandbox, graders and caches** `worker/sandbox.py`, `worker/mograder_runner.py`, `warm_cache.py`, `url_cache.py`, `services/failures.py` | environments, data caches, an attempt's error | prepare, autograde, render, warm-cache, classify | a build killed half-way, data missing on a cold machine, a cause guessed from a text | a notebook runs in its environment, an outage is no zero, "no retry helps" is true | `Execution` |
| **Backfill** `rerender.py` | what it has tried | one render at a time when the queue is idle | stopped and started at any moment | at most one render in anybody's way, none twice | `Backfill` |

## 2. The modules

| module | what it is |
|---|---|
| `GradePolicy` | The pure rules: which score row of an attempt counts, which attempt counts under each policy, what a grid cell, a progress mark and the hand-grading queue say of an attempt. |
| `Gradebook` | One student's history on one question as it grows: the rules compared with the loops they are in the code, and what they promise over time. |
| `Classroom` | Several students and questions: triage, grid, progress, overview, retry status and Canvas export as functions of the tables; a handler or a run is one step. |
| `Pipeline` | The core: attempts, runs, workers, graders and the official grade of one question. |
| `RunQueue`, `PipelineQueue` | The abstract queue of jobs, and the refinement mapping (`INSTANCE RunQueue WITH jobs <- runs, ...`) under which `Pipeline` implements it, with its fairness too. |
| `GradeRaces` | `Pipeline` with a variable that remembers whether two recomputations of a student's grade crossed; what students and staff read. |
| `Backfill` | `grader rerender` over the abstract queue: it relies on nothing else. |
| `Availability` | Windows, refusals and effective roles as operators; used by `Intake`, `Roster`, `Opening`. |
| `Intake` | The widget, the network, the handlers, the file and the grading page, statement by statement. |
| `Payload` | What a click hands in, between page, kernel and marimo's server. |
| `Publishing` | One assignment and its instructors' overlapping requests. |
| `Roster` | One offering's enrollments. |
| `DeviceSignIn`, `LoginLinks` | The two ways to sign in. |
| `Opening`, `KernelSession` | The gates and the broker; the kernel's session that renews its credential from it (extends `Opening`). |
| `CourseFiles` | Copies and memoised results on a shared disk. |
| `Execution` | The graders' machine. |
| `MC...` | Instances. |
| `GradePolicyProofs`, `GradebookProofs` | Theorems: the rules; histories, and a class. |
| `PipelineProofs`, `PipelineQueueProofs` | The pipeline and `GradeRaces`; that it implements the queue, and the backfill over the queue. |
| `IntakeProofs`, `PublishingProofs` | Intake; publishing. |
| `AccessProofs` | Roster, gates, sessions, course files, payload. |
| `ServiceProofs` | Links, devices, the graders' machine. |

**Scenes.** An MC module that checks several modules extends them all and has one
more variable, `scene`, fixed by its initial predicate: a behaviour exercises one
of them while the others do nothing. They share no state, so this is the sum of
their state spaces, and one run answers for all of them. Where modules do
interact they are composed for good: `KernelSession` acts on `Opening`'s state,
`Backfill` on `RunQueue`'s, which `Pipeline` implements, and `Intake` has the
widget, the handlers, the store and the page in one state.

### Pipeline and the code

| variable | in the code |
|---|---|
| `settings` | `Assignment.settings` (`grade_policy`, `autograde`, `render`), the question's mode and points, whether it is the whole-notebook question |
| `attempts`, `status`, `snapshot`, `render` | the `Submission` rows of an enrollment; artifacts only by their kind, which is all the code asks of them |
| `scores`, `ticks` | the committed `Score` rows; the last `graded_at` |
| `grades` | the `QuestionGrade` rows |
| `runs`, `now` | the `GraderRun` rows with their status; the last `queued_at` |
| `proc` | what each worker and each `POST .../score` has read, holds locked and has not committed; the running rows a worker that starts has found |
| `used` | how much of each bound is used |

| action | handler |
|---|---|
| `Submit` | `create_submission`: the attempt, a receipt's status, and the runs the settings ask for |
| `Claim` | `claim()` and the load of the submission in `process()` |
| `MarkGrading`, `AutoGrade`, `CommitGrade`, `GradeConflict`, `GradeFails` | an autograde run: the "grading" flush, `do_autograde` once `grade()` has returned, the commit, the commit that `uq_qgrade` rejects, and an exception out of `grade()` |
| `FinishSnapshot`, `FinishRender`, `PageFails` | `do_snapshot`, `do_render`, and an exception out of either |
| `Crash`, `Survey`, `Requeue` | the process is killed; it starts again, and `requeue_stale()` reads the running rows; its UPDATE writes "queued" to the rows it read, by their keys |
| `BeginScore`, `RecomputeScore`, `CommitScore`, `ScoreConflict` | `score_submission`: read and insert, status and question grade, commit, rejected insert |
| `Retry` | `_requeue`, from `retry_submission` or `retry_many` |
| `AttachSnapshot`, `AttachHtml` | `attach_outputs` |
| `PatchPolicy` | `patch_assignment` with another `grade_policy` |

**Grain.** An action is one statement or one short transaction. A long
transaction is cut where another may come between, and not elsewhere:

- Isolation is READ COMMITTED, the default of the engine `db.py` creates. A
  statement sees what is committed when it runs. An UPDATE waits for the row lock
  of an open transaction (`lock`, `Locked`).
- An object loaded at the start of a transaction keeps its values (`view`).
  `claim()` commits before `process()` loads, and `expire_on_commit=False`
  (`db.py:45`) with a session of its own for each run make that load the one
  every later decision of `process()` uses.
- SQLAlchemy writes a column only when it differs from what was loaded. That is
  why `WritesGraded` and `WritesFailed` compare with `view`: a worker that found
  an attempt "failed" and fails again writes nothing, even if the row was
  retried meanwhile.
- `status = grading` is flushed by the first query of `grade()` and never
  committed: the transaction that writes it ends with another word. It is seen
  only as the row lock held while the notebook runs.
- `recompute_question_grade` reads the history, then writes the grade by a later
  statement. The read belongs to `AutoGrade` or `RecomputeScore`, the write to
  the commit, so either of two open transactions may commit first.
- The UPDATE of the grade row carries the columns that differ from the row that was
  loaded (`ColumnWritten`, `GradeWritten`). Two recomputations that cross may so leave
  the attempt of one beside the points of the other. Points are whole numbers here: a
  total that no binary fraction holds comes back from the database as a `Decimal` that
  equals no float, and is written in any case.
- `requeue_stale()` looks (`Survey`) and then writes without looking again (`Requeue`):
  an outcome a living worker has committed in between is overwritten, and the run is
  executed once more. A transaction that has flushed its score holds the run's row, so
  the UPDATE waits for it.
- If both found no row, both insert, and `uq_qgrade` rejects the second
  (`Conflicts`): a request answers 500 and rolls back; in a worker the handler
  of the exception uses the unusable session again, raises, and the process
  dies with the run "running".
- `GraderRun.queued_at` is stamped row by row while a flush is prepared, so the
  clock may tick between two rows (`MaxSkew`, `FlushedRuns`), as the comment at
  `worker/main.py:68` says.

**Abstractions.** Points are natural numbers. Rubric items, feedback and audit
rows are left out. The request that creates an attempt is one transaction here;
its races are in `Intake`. No code sets `QuestionGrade.pinned`, so `Pipeline`
computes with none pinned, though `GradePolicy` has the rule. Every write locks
the attempt's row before the grade row, so transactions cannot deadlock on the two.

### The other modules and the code

- **Intake.** `submit()` of the widget is `PressSubmit`, `Post`, `Heard`, `End` with `Enable`; a
  request may be sent again by the browser while the first is being served. The
  handler is cut into the reads (admission, the count), `put()` statement by
  statement (exists, open, write, rename), the insert, which waits for an open
  transaction with the same key, the event, and the commit, which may come before
  or after the answer. `Kill` loses open transactions and subscribers' queues. The page
  connects, loses its connection and with it its queue (the server drops both), connects
  again without fetching, and may fail to fetch what an event announced; `behind`
  remembers that an event was lost since its last fetch.
- **Payload.** The page asks the kernel for a fresh payload and submits what it has
  after twelve seconds; the kernel answers between cells, re-reads the notebook
  file, or keeps what it last read where the file cannot be read, and waits for marimo to
  have written the session file. Any answer that
  arrives resolves the click, the answer to an earlier one too: a request carries the
  click it was made by, for the properties alone. A click without a notebook ends with
  nothing posted. `Grader(source=...)` is left out.
- **Publishing.** A handler loads in `Begin` and writes in `Commit` only what it
  changed; the unique constraints hold at the commit. The student copy is data:
  whether it builds and whether it leaks.
- **Roster.** A route is one step, except the removal of a person, cut between
  what it reads and its commit, and an import, whose plan stays on screen while
  anything happens.
- **DeviceSignIn, LoginLinks.** A page has several widgets, which share one token and
  have each a channel to a kernel object of their own. A poll is cut between its read, its
  commit and its answer, which may be lost. A widget's loop goes on over a poll that
  breaks, ends at any other error and, in silence, when its cell is re-run. A mail leaves
  between the count of the day's links and the commit of the new one; a request may die
  after its mail has left, and that link names no code.
- **Opening, KernelSession.** Gates are operators of the settings, the clock and
  the enrollment; a credential is a record with an end, good until then. A tick is
  finer than the least credential.
- **CourseFiles.** A step is one call on the disk or the bucket: head, download,
  replace, record. One `.part` name serves all kernels.
- **Execution.** A notebook is what its two check cells read and answer, whether its
  question has automatic points, whether it is safe, how it runs and what it requires. A
  run's outcome follows from the data in reach; the error is the set of texts
  `services/failures.py` looks for. `warm-cache` goes through the assignments, or the one
  `--slug` names, and passes over one whose latest version has no stored instructor
  notebook, and over the datasets of one without a PEP 723 block. The rows of one flush
  may be stamped by different ticks of the clock.
- **Backfill.** `_busy` and the query for the next page are two steps; an operator
  may stop it at any moment and start it again.

## 3. The runs

Eight passing runs, each between half a minute and three minutes.
`CHECK_DEADLOCK FALSE` is in every configuration because the inputs (attempts,
scores, kills, requests) are bounded and the system rests once they are used up.

| run | what it asks | bounds and why they are enough |
|---|---|---|
| `grades` (`MCGradebook`) | Do the rules compute what the loops do, is "highest" never worse, is another attempt free? Is every latest attempt on somebody's desk, and do average, overview, export and grid agree? | 3 attempts, 3 rows, automatic NULL/1, manual NULL/0/1: ties, drafts and unscored attempts in every order. 2 students, 2 questions, 2 attempts, 4 events: a retry of what a person settled, an export, a drop, a version that leaves a question out; triage lists one failure |
| `pipeline` (`MCGrading`) | The safety of the pipeline, and that it implements the queue | five scenes: retries and a kill (2 attempts, 6 runs, three policies); hand scores in the middle of a run (2 hand scores, or one and a kill, 4 runs); a staff attempt and a change of policy; two workers on one attempt (4 runs, 1 kill), enough for a requeue to make both execute one run, and for it to overwrite an outcome; two recomputations at once (2 attempts, 2 workers, 1 retry, the best counts) |
| `lifecycle` (`MCLifecycle`) | Does every run end and every attempt settle, are pages shown, does the fair queue follow; does the backfill end? | 1 worker, re-run on, with and without a snapshot, 1 attachment, 5 runs, 1 kill, a clock that may tick between rows. Backfill: 2 pages, 2 starts, 2 renders of each, 1 death, 2 runs of others |
| `intake` (`MCIntake`) | Numbering, limits, files, events and the button | 2 clicks, 2 requests, 1 re-run of the widget's cell, 1 kill, an assignment that closes or allows one attempt; in a scene of its own a page with a queue of one and 1 lost connection or failed fetch |
| `signin` (`MCSignIn`) | Does an approval arrive, do the kernel objects follow the page, do links hold? | three scenes: 2 sign-ins in 2 widgets by 2 people; 1 sign-in with 1 broken poll, errors, an end of its code and 1 re-run of a cell; 2 links, 2 visits of each, an allowance of one |
| `publishing` (`MCPublishing`) | Do overlapping publishes, patches and rubrics leave a consistent assignment, and does a preview tell the truth? | 2 instructors, 4 requests, five uploads (points changed, a question added, none, the reserved id, a leak) |
| `access` (`MCAccess`) | Roster, gates and sessions, files, payload | six scenes: 3 people, 2 class lists, 5 requests; 8 ticks, 5 settings, 1 change, 1 credential; 2 kernels, 3 contents two of which have one size, 6 events, for copies and for memoised results; 1 save, 2 cells run, 1 click; 1 cell run and 2 clicks, for answers that come late |
| `execution` (`MCExecution`) | Environments, data, causes | one attempt with each of ten notebooks of three assignments, of which warm-cache passes over one and half of another; 2 events (retry, kill, warm-cache), a clock that may tick between rows |

**Grouped properties.** Where several facts make one promise, the property is the
conjunction of named parts, each with its own comment in the module:
`GradebookIsRight` (in `GradeRaces`) is `FollowsPolicyUnlessRaced`,
`TestGradesOnlyByHand` and `ViewsAgree`; `RulesAreTheLoops` is `OneScorePerAttempt`
and `HighestIsTheLoop`; `EverythingSettles` is `RunsEnd` and `AttemptsSettle`;
`PagesShown` is `OutputsShown` and `AttachedIsShown`; `OneAtATime` is `OneInTheWay`
and `NotTwice`; `AttemptsAreCounted`, `ShownIsKept`, `KernelFollowsPage`,
`LinksHold`, `NotebookQuestionAgrees`, `NothingOutlivesTheClose`, `DoorsAgree`,
`DataIsReached`, `ImportsAreFaithful` and `ClickIsServed` likewise. Each module's type
invariant is a part of one of its properties. To see which part fails, name it in
the configuration instead.

**Fairness.** A worker that can take a step eventually does: the loop polls forever, an
execution has a timeout, and a killed container is started again (`restart:
unless-stopped` in `src/deploy/docker-compose.prod.yml`). A handler that has begun runs
to its end or its process is killed; kills are bounded, nothing ends if they go on for
ever. In the browser a timer fires and a message that arrived is handled; nothing is
assumed of the kernel, whose cells may never end (`PayloadFairness`). A client's loop
goes on polling where the code does (`DeviceSignIn`, `Intake`, `Backfill`): no longer
once its cell is re-run or a poll was answered with an error. The backfill ends because
the runs of others are bounded in the instance: a queue that is never idle keeps it
waiting. Students and staff owe nothing.

**Exceptions.** A property says where the code gives no promise, by a variable that
remembers why: `raced` (two recomputations of one student's grade, neither committed:
the grade may then be an older one, or mix the two), `used.patches = 0` (a policy that
changed), `overlap` (patches of settings or requests for links that overlap, one link
opened twice at once), `crossed` (downloads of one object at once), `overlapped` (an
environment built twice at once), `excused` (removals that cross, an instructor
demoted), `disturbed` and `moved` (a window or an enrollment changed under a session or
a credential), `used.kills = 0` (a file lost with its process), `behind` (an event lost
with a connection or a failed fetch), `used.cut` (a sign-in whose poll was answered with
an error, lost, or whose cell was re-run), `Wasted` (mails of requests that died),
`late` (a click that ends with the answer of an earlier one), `RenderSpoke` (the error
shown is a page's), a question left out of the newest version or more failures than
triage lists (`NobodyForgotten`), more than one executor (`OneAtATime`). What then
happens is in the model, and is described below.

Every property of a passing run has a **mutant** in `PROJECT.json`: a plausible
mistake in one definition (the operators whose comment begins with "Mistake"),
under which the run's own configuration finds the property violated. The
operators are not used by the specification.

### What the code does otherwise than its documents say

Each of these runs checks one sentence of the documentation or of a comment and
TLC finds a behaviour of the code that contradicts it. The sentences are quoted in
`PROJECT.json` under "findings".

| run | behaviour |
|---|---|
| `two_workers_grade` | Of three attempts the last two are graded side by side, without a retry. The first worker reads the history before the third attempt has a score and commits last; it writes the points alone, since the attempt had not changed for it. The grade row names the third attempt with the points of the second. |
| `lost_answer` | A student whose answer was lost presses Submit again, with a new id, and has two attempts. |
| `lockout` | The only instructor adds themself as a TA; no route of the roster page brings an instructor back. |
| `cause` | When autograde goes before the render of its request, staff read the render's failure instead of the missing data, and that no retry helps: the clock ticked between the two rows. |

More divergences are stated as properties and can be reproduced by putting the
property in place of those of the configuration named:

| property | in | behaviour |
|---|---|---|
| `RunningMeansWork` | `MCGrading_pipeline` | An attempt graded by hand and then retried ends "received" with nothing queued: its mark says "running" until someone scores it again. |
| `TestNeverRecorded` | `MCGrading_pipeline` | A staff attempt scored by hand is recorded as a grade. |
| `RunExclusive` | `MCGrading_pipeline` | `requeue_stale()` gives back every running row, those of living workers too: two workers then execute one run. |
| `SettledGradeFollowsPolicy` | `MCGrading_pipeline` | A change of the grade policy recomputes nothing. |
| `RerunStays` | `MCLifecycle_lifecycle`, `Worker = {w1, w2}` | A snapshot run that began before the re-run ended replaces the re-run's page. |
| `PageUpdatesItself` | `MCIntake_intake` | The event leaves before the commit: a page that refetches at once does not show the attempt until the next event. Nor does one that was not connected, or whose fetch failed. |

Seen while translating, without a property of their own: the rank in `claim()`
only breaks ties of `queued_at`, against "Render goes before autograde when both are
queued" (`life-of-a-submission.md:60`); a receipt of an assignment with autograde off
counts as waiting for a person; the comment at `models.py:294` ("advanced only by
the worker") is out of date, since `create_submission`, `score_submission` and
`_requeue` also write `status`; the docstring of `services/events.py` names a table
`events_outbox` that does not exist; `warm-cache` says that "every published assignment
can read its data offline" (`warm_cache.py:330`) although it has passed over one whose
instructor notebook is not stored, or over the datasets of one without a PEP 723 block.

### Behaviour worth knowing that no document denies

- *Pipeline, Classroom.* A question of mode auto with autograde off waits for a
  person, but triage asks nobody. A receipt given a provisional score is "graded" in the
  grid and "waiting" in the progress bar. A hybrid attempt retried after its final hand grade
  stays "received"; a failed attempt graded by hand stays "failed". Under "first" a
  failed first attempt counts 0 in the average and nothing in overview and export.
  A withdrawn grade leaves its old points in Canvas; two assignments whose columns have
  one header share a cell.
- *Pipeline.* A worker that starts while another commits may put a run that is over back
  in the queue: it is executed once more, and its attempt is graded a second time. Two
  recomputations that cross may leave a grade row with the attempt of one and the points of
  the other.
- *Classroom.* Triage lists the 500 newest failures. A question the newest version
  left out is in neither its list of what waits nor the grid: an attempt on it waits unseen. The
  export fills the rows its template has; a student who is in none gets no grade in it.
- *Intake.* A page that reconnects does not fetch: what was handed in while it was not
  connected appears with the next event.
- *Payload.* An answer that comes after its click had given up ends the next click, with the
  notebook as it was read for the earlier one.
- *Publishing.* Settings are one JSON column: of two patches that overlap the second
  undoes the first. A whole-notebook question whose points were set by hand before a
  rubric takes the rubric's.
- *Roster.* Two instructors who drop each other both leave. An import reinstates a
  dropped TA as a TA; a line whose person cannot be told drops the student it meant;
  `add_student` refuses dropped staff; preview survives a drop; the last platform
  admin can remove themself; `grader token` changes a dropped enrollment's role and
  leaves it dropped (`cli.py:338`).
- *Sign-in.* A 401 forgets the page's token, which may be newer than the request's.
  The storage package stops at the first poll that breaks, the widget goes on. A sign-in
  in a submit widget reaches that widget's kernel object; the sign-in button's, whose token
  the storage package reads, keeps the person it had. A mail whose request died is not
  counted in the day's allowance, and its link opens nothing.
- *CourseFiles.* Of two downloads at once the older bytes may end under the newer etag.

## 4. The theorems

For every set of students, staff, workers, graders, instructors, notebooks,
kernels, links, requests and data, every setting and every bound. Assumed are the
named assumptions of the modules: `None` and its like are no values of the types
they are added to, roles and kinds of process are disjoint, bounds are numbers,
executors and questions are finitely many, the class lists that are imported name
a person once (`ClassListAssumption`). One theorem has a hypothesis of its own:
`OneStampTellsTheTruth` says what holds where the rows of one flush are stamped alike
(`Skew = FALSE`). `queued_at` decides which of them is taken first, and where the clock
ticks between two of them (`worker/main.py:68`) the statement is false: that is the run
`cause`. The other theorems hold whatever the clock does.

| theorem | property | what the inductive invariant adds |
|---|---|---|
| **`PipelineProofs`** | | |
| `TypeCorrect` | `TypeOK` | `TypeInv`: row sets are finite, a process holds exactly what its program counter says (`OpenTransactions`), and the run it executes exists |
| `GradedIsBacked` | `GradedHasFinalScore` | `PendingRowsFinal`: on a question of mode auto, a row about to be committed by a worker is final |
| `NothingStranded` | `ReceivedHasLiveRun` | `SettleInv`, below |
| `GradesAreScores` | `GradeIsACommittedScore` | `PointsInv`, column by column: the points a transaction has loaded or is about to write are the total of a committed row, or of the row it commits with them; and, unless `raced`, of a row of the attempt beside them |
| `HandPoints` | `HandPointsAreHandEntered` | `HandInv`: rows are not newer than the attempt's clock, and a worker's pending row has its manual points from an older final row of a person |
| `GradebookRight` | `GradebookIsRight` | `PolicyInv`, below, `StaffRows`, and `GradedHasFinalScore` for the views |
| **`PipelineQueueProofs`** | | |
| `QueueRefinement` | `ImplementsQueue` | `RunsInThePast`: rows are stamped after all that are there, so what is queued is new; what a starting worker has found are rows |
| `BackfillTakesTurns` | `OneAtATime` | `BackfillInv`: it adds only while no render of its own is live; the only executor holds what is running, or has found it when it starts |
| **`GradePolicyProofs`, `GradebookProofs`** | | |
| `HighestIsHighest`, `PickIsARow` | (lemmas on the rules) | the attempt "highest" names is the earliest with the greatest total; what `pick_attempt` returns is a row of the attempt it names |
| `LoopsFollowRules` | `RulesAreTheLoops` | `Dated`: the rows of an attempt have different dates, none to come; without it "the newest row" is not one row |
| `HighestIsBest`, `AnotherIsFree` | `HighestDominates`, `AnotherAttemptIsFree` | the history is a sequence of finite sets of rows |
| `NobodyIsForgotten`, `AveragesAgree` | `NobodyForgotten`, `AverageAgrees` | `ClassInv`: the official grade is the policy's wherever the latest attempt has a row, what is graded has one, what waits with nothing queued waits for a person; a failure that is not listed has as many newer ones as the list holds |
| **`IntakeProofs`** | | |
| `AttemptsCountRight` | `AttemptsAreCounted` | `CountInv`: a request took its number from a count that has not shrunk, and what is not committed shares no key with what is stored or with another |
| `ShownStaysStored` | `ShownIsKept` | `FileInv`: a file stands whole or its writer is at work, and has its final name before any attempt that needs it is stored |
| `PageShowsWhatItWasTold` | `PageShowsTheAnnounced` | itself, with `TypeOK`: a page that is not behind has an event queued or has fetched since |
| **`PublishingProofs`** | | |
| `LiveIsTheLatest` | `LiveIsLatest` | `Loaded`: what a request has read is an earlier state of the assignment, whose versions are a prefix |
| `NotebookAgrees` | `NotebookQuestionAgrees` | `Agrees`, unless two requests overlapped |
| `PublishesAsPreviewed` | `PublishDoesAsPreviewed` (of steps) | `ToldInv`: a preview still on the screen is what publishing would do now |
| **`AccessProofs`** | | |
| `AnInstructorIsKept` | `KeepsAnInstructor` | while nothing is excused, one removal is in flight, by an active instructor who is not its target |
| `ImportsKeepTheirWord` | `ImportsAreFaithful` | a plan names a person once, and a current one is the difference from the class as it is |
| `StorageStopsAtTheClose`, `SessionsRenewThemselves` | `NothingOutlivesTheClose`, `RenewsItself` | `StorageInv`: a session's mounts are those it was granted, an outcome is of the session there is |
| `DoorsAgreeAlways` | `DoorsAgree` | types; the rest is the five gates compared at every instant |
| `PathsAreTheObject`, `ComputedAtMostOnce` | `PathIsTheObject`, `ComputedOnce` (of steps) | `PathInv`: while downloads do not cross, copy and entry are of one content that every call under way has seen |
| `PagesShowTheirOwn`, `BodiesAreOfTheClick` | `PageShowsItsOwn`, and `BodyIsOfTheClick`, the safety half of `ClickIsServed` | `PayloadInv`: what is on its way to the page was read after the click it answers, and a click made with no answers outstanding is the only one asked for |
| **`ServiceProofs`** | | |
| `LinksAreKept` | `LinksHold` | between the count and the commit of a request no other of that person counts; a mail that left belongs to a link that is stored, in flight or lost |
| `KernelFollows` | `KernelFollowsPage` | of each widget: `WidgetInv`, the last token in its channel, or its kernel object's when none is, is the page's if it handed one over, and no "approved" is ahead of the first token |
| `RunsWhereItShould`, `AnOutageScoresNothing` | `RunsInItsEnv`, `OutageIsNoZero` | `EnvOK`: a process builds only an environment that is not ready, and no two build one; for the second, that a grade is explained by what its run could read and what it is about to commit follows from it |
| `NoHelpMeansNoHope`, `DataIsHad` | `NoRetryMeansNone`, `DataIsReached` | `ExecInv`: a failed attempt's error is the verdict of the run that spoke last, a run that began in a warm cache reaches what was warmed |
| `OneStampTellsTheTruth` | `AdviceIsTrue` (if `Skew = FALSE`) | `ExecInv` again: with one stamp the render of a request is claimed before its grading run |

**Why `GradebookRight` needs more than itself.** That the official grade follows
the policy once everything is settled is not inductive: it says nothing of the
transactions that will write the grade. `PolicyInv` says that (a) a transaction
that has recomputed holds, *if all the student's other attempts are graded now*, the
grade of the history as it will be with its row; (b) the official grade of a student
whose attempts are all graded, in flight or not, is that of the history. (a) survives
because an attempt that is not graded becomes graded only by a commit, which belongs to a
transaction that has recomputed the same student's grade (`RollsUpStudents`): two of them
would have been seen by `raced`. An attempt handed in meanwhile makes the "if" false, and it
stays false until the transaction is over. (b) follows from (a) at a commit and, at any other
step, from there being none. That a transaction's attempt exists (`OfExisting`) is
needed for an attempt handed in later to be another one.

**Why `NothingStranded` needs more than itself.** That a live autograde run exists
is not inductive: a run that a worker is about to fail is live, but if that worker
loaded the attempt as "failed", its failure writes no status, and an attempt
retried meanwhile would stay "received" when the run ends. `SettlingRuns` asks for a live run
*every executor of which loaded the attempt as "received"* (`WillSettle`). `Submit`
and `Retry` create such a run, since nobody executes a row that was not there,
which needs that run identities are never in the future (`RunsInThePast`). A claim
preserves it, since the worker loads the row while it reads "received". Requeues,
kills and double execution preserve it, since they only take executors away or add
one that loads "received". And the step in which such a run ends writes "graded" or
"failed", so the attempt no longer needs a run.

**Layout.** Each action has a lemma for types. Lemmas on what a step may change
(`BecomesGraded`, `BecomesPending`, `BecomesScored`, `RunsChange`, `RowsGrow`) go
through the actions once; the invariants use them and so split only on the steps
that disturb them.

The refinement has a lemma for each kind of step on the queue (it rests, grows,
records, loses) and one step per action that cites the lemma that fits; a claim, a death
and the two steps of a requeue are steps of their own.

**Data.** The provers have no induction over data, but a set of numbers has a least
one (`LeastNumber`, from the theorems on well-founded orders): a claim about every finite
set is proved by supposing a least size at which it fails. That is how a sum of the library
is shown to be a number (`SumIsNat`) and a finite set to have a newest row (`NewestIsNewest`).
A loop of the code is a recursive function. `LoopRuns` shows that the function exists,
given the set of states a round stays in, and `UpTo` carries what holds after k rounds to
k + 1: "the last final row so far" (`LastFinal`) through the scan and the two
dictionaries, "the earliest of the best so far" (`BestSoFar`) through the attempts.

**What the proofs changed.** `WrittenRow` of `Publishing` had every publish write
`active` of the whole-notebook question. An unchanged one makes no version and does not
get that far, and the invariant was false of the step as it stood; the row now depends
on `makes`. `EnvOK` had to say that a process builds only what is not ready: without it
the step in which a build ends could replace an environment somebody runs in. The
definition of `FollowsPolicyUnlessRaced` was one scene of a run before there was a proof
of it in all. The loops of `Gradebook` were folds over a sorting operator of the library
that nothing can be proved about; they are recursive functions over a sequence that is
chosen to be in order.

**With TLC only.** Liveness (`EverythingSettles`, `PagesShown`, `BackfillEnds`,
`ButtonReturns`, `ApprovalArrives`, and that a click ends, in `ClickIsServed`) and
`ImplementsFairQueue`: the prover does not deal with fairness.

## 5. The plan

1. Done: the modules of section 2, and a theorem for every safety property the passing
   runs check.
2. Beyond the runs: that `Intake`'s commits are the `Submit` of `Pipeline`, once per key.

## Not modelled

SAML (`auth/saml.py`: parsing and redirects, no state), the text of mails, audit rows
(append-only, read by nothing), configuration, migrations, and the web interface
beyond its refetch on an event: views over the API. Running a notebook is external:
`Execution` models what its outcome depends on. The text of a student copy and of
the PEP 723 block, encodings of memoised values, the file browser of the storage
package, drawing of results in the widget and the CSS of pages are wording or layout.
Components marked "partly" in `PROJECT.json` lack only such parts and handlers that
read without changing anything.
