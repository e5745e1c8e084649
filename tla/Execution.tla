----------------------------- MODULE Execution -----------------------------
(***************************************************************************)
(* The machine that executes submitted notebooks: the environments it      *)
(* builds (worker/sandbox.py), the offline copies of the data notebooks    *)
(* read (url_cache.py, warm_cache.py), the autograde and render runs       *)
(* (worker/main.py, mograder_runner.py) and what staff are told of a       *)
(* failure (services/failures.py).                                         *)
(*                                                                         *)
(* A notebook has two check cells, one of the question that is graded and  *)
(* one of another; each depends on data and on the student's answer.  The  *)
(* notebooks handed in carry a PEP 723 block, as every released copy does; *)
(* an instructor's may not.  The environments and the caches outlive the   *)
(* processes.  The worker may be killed between any two steps.             *)
(***************************************************************************)
EXTENDS Naturals, FiniteSets, Sequences

CONSTANTS
  Dataset,        \* files reached through the course's data library (HF cache)
  Url,            \* data files read from a plain URL
  Assignment,
  Course,         \* the instructor notebook of an assignment's latest version, if it is
                  \* stored: what it reads, where, how it spells it, its PEP 723 block
  Notebook,       \* the notebooks students may hand in
  Attempt,
  Pinned,         \* the worker's own requirements: the client's and the grader's
  Skew,           \* whether the clock may tick between the rows of one flush
  MaxEvents       \* bound: retries, kills and warm-cache runs

Data == Dataset \cup Url
Process == {"worker", "warmer"}
Check == {"mine", "other"}
Requirement == [name : STRING, version : STRING]

ASSUME ExecutionAssumption ==
  /\ Dataset \cap Url = {} /\ 0 \notin Attempt
  /\ \A s \in Assignment :
       /\ Course[s].given \cup Course[s].solution \subseteq Data /\ Course[s].declared \subseteq Dataset
       /\ Course[s].stored \in BOOLEAN /\ Course[s].block \in BOOLEAN
  /\ MaxEvents \in Nat /\ Skew \in BOOLEAN
  /\ \A nb \in Notebook :
       /\ nb.of \in Assignment /\ nb.auto \in BOOLEAN  \* the question has automatic points
       /\ nb.answer \in [Check -> {"right", "wrong", "raises", "blank"}]
       /\ nb.reads \in [Check -> SUBSET Data]
       /\ nb.flagged \in {"nothing", "the student's line", "a released line"}
       /\ nb.code \in {"fine", "slow", "stuck", "redefined"}

VARIABLES
  hf,             \* datasets in the HF cache
  urls,           \* URLs with a copy in the URL cache
  env,            \* the venv of each environment key: its packages, and .ready
  process,        \* what the worker and the warmer are doing
  attempt,        \* the attempts handed in
  said,           \* the assignments warm-cache went through and then said "every published
                  \* assignment can read its data offline"
  happened,
  overlapped      \* two processes built one environment at a time

execVars == <<hf, urls, env, process, attempt, said, happened, overlapped>>
caches == <<hf, urls, said>>

-----------------------------------------------------------------------------
(* Environments: rewrite_dependencies, env_key, prepare_env.               *)

FirstOfName(items, i) == \A j \in 1..(i - 1) : items[j].name # items[i].name

\* The worker's own versions of the client and of the grader, whatever the notebook lists;
\* of the others the first of each name.
Rewritten(items) ==
  Pinned \cup {items[i] : i \in {j \in 1..Len(items) :
                  FirstOfName(items, j) /\ \A p \in Pinned : p.name # items[j].name}}

\* The dependency list, sorted.
EnvKey(nb) == Rewritten(nb.requires)

NoEnv == [packages |-> {}, state |-> "absent", ready |-> FALSE]
Env(key) == IF key \in DOMAIN env THEN env[key] ELSE NoEnv
SetEnv(key, e) == env' = [k \in DOMAIN env \cup {key} |-> IF k = key THEN e ELSE env[k]]

NoProcess == [pc |-> "idle", of |-> 0, nb |-> <<>>, mapped |-> {}, warm |-> FALSE, asked |-> {},
              todo |-> {}, left |-> {}, missing |-> FALSE, check |-> FALSE]
\* Where prepare_env leads: a worker executes the notebook, warm-cache its downloads.
Goto(p, pc) == process' = [process EXCEPT ![p].pc = pc]
Key(p) == EnvKey(process[p].nb)
Building(p) == process[p].pc \in {"build", "mark"}

\* A build that has begun: an interpreter, some packages, no .ready.
Begun == [packages |-> {}, state |-> "partial", ready |-> FALSE]

\* Mistake: an interpreter in the directory is an environment.
HasPython(e) == e.state # "absent"

\* Its interpreter is there and .ready was written after the build.
IsReady(e) == e.state # "absent" /\ e.ready

Prepare(p) ==
  /\ process[p].pc = "prepare"
  /\ IF IsReady(Env(Key(p))) THEN Goto(p, "execute") /\ UNCHANGED <<env, overlapped>>
     ELSE /\ SetEnv(Key(p), Begun)
          /\ Goto(p, "build")
          /\ overlapped' = (overlapped \/ \E q \in Process \ {p} : Building(q) /\ Key(q) = Key(p))
  /\ UNCHANGED <<caches, attempt, happened>>

Build(p) ==
  /\ process[p].pc = "build"
  /\ SetEnv(Key(p), [packages |-> Rewritten(process[p].nb.requires), state |-> "whole", ready |-> FALSE])
  /\ Goto(p, "mark")
  /\ UNCHANGED <<caches, attempt, happened, overlapped>>

MarkReady(p) ==
  /\ process[p].pc = "mark"
  /\ SetEnv(Key(p), [Env(Key(p)) EXCEPT !.ready = TRUE])
  /\ Goto(p, "execute")
  /\ UNCHANGED <<caches, attempt, happened, overlapped>>

-----------------------------------------------------------------------------
(* Attempts, and why they failed.                                          *)

\* The texts services/failures.classify looks for, in its order, and whether it says
\* that a retry can help. Any other reason not to load at all (CycleError, SyntaxError) reads
\* like the second; a package that is "not installed" like the fifth.
Phrases == <<"safety check failed", "MultipleDefinitionError", "timed out after", "no check cell ran",
             "could not build", "some cells failed">>
Helps == [safety |-> FALSE, notebook |-> FALSE, timeout |-> TRUE, data |-> TRUE, grader |-> TRUE]
KindOf == [p \in {Phrases[i] : i \in 1..6} |->
  CASE p = "safety check failed" -> "safety" [] p = "timed out after" -> "timeout"
    [] p = "no check cell ran" -> "data" [] p = "could not build" -> "grader" [] OTHER -> "notebook"]

\* Mistake: cells that failed are looked for before the reason nothing ran.
CellsFirst(text) ==
  IF "some cells failed" \in text THEN "notebook"
  ELSE IF text = {} THEN "grader" ELSE KindOf[CHOOSE p \in text : TRUE]

\* The first text that matches decides; an error with none of them is the grader's.
Classify(text) ==
  IF text = {} THEN "grader"
  ELSE KindOf[Phrases[CHOOSE i \in 1..6 : Phrases[i] \in text /\ \A j \in 1..(i - 1) : Phrases[j] \notin text]]

NoAttempt == [nb |-> <<>>, status |-> "none", todo |-> <<>>, page |-> FALSE,
              error |-> {}, points |-> 0, trusted |-> FALSE, last |-> "none"]

ExecInit ==
  /\ hf = {} /\ urls = {} /\ said = {}
  /\ env = [k \in {} |-> NoEnv]
  /\ process = [p \in Process |-> NoProcess]
  /\ attempt = [a \in Attempt |-> NoAttempt]
  /\ happened = 0 /\ overlapped = FALSE

\* The order in which the runs of one flush are claimed: the render first, unless the clock
\* ticked after the autograde row, which is inserted before it.
ClaimOrder(kinds) == {kinds \o <<"autograde">>} \cup (IF Skew THEN {<<"autograde">> \o kinds} ELSE {})

HandIn(a, nb) ==
  /\ attempt[a].status = "none"
  /\ \E order \in ClaimOrder(<<"render">>) :
       attempt' = [attempt EXCEPT ![a] =
         [NoAttempt EXCEPT !.nb = nb, !.status = "received", !.todo = order]]
  /\ UNCHANGED <<caches, env, process, happened, overlapped>>

Happens == happened < MaxEvents /\ happened' = happened + 1

\* retry_submission, whatever the status; the page may be rendered twice.
Retried(a) ==
  /\ Happens /\ attempt[a].status # "none"
  /\ \E order \in ClaimOrder(IF attempt[a].page THEN <<>> ELSE <<"render">>) :
       attempt' = [attempt EXCEPT ![a].status = "received", ![a].todo = @ \o order]
  /\ UNCHANGED <<caches, env, process, overlapped>>

-----------------------------------------------------------------------------
(* The worker: one run at a time.                                          *)

Current == process["worker"].of
Running(kind) == Current # 0 /\ Head(attempt[Current].todo) = kind

\* The run ends: the attempt as it leaves it, the worker idle.
Ended(a, changed) ==
  /\ attempt' = [attempt EXCEPT ![a] =
       [changed EXCEPT !.todo = Tail(attempt[a].todo), !.last = Head(attempt[a].todo),
                       !.trusted = IF Running("autograde") THEN process["worker"].warm ELSE @]]
  /\ process' = [process EXCEPT !["worker"] = NoProcess]

\* A failed render leaves the status alone, yet its error is the newest one recorded.
Failed(a, text) ==
  Ended(a, [attempt[a] EXCEPT !.error = text,
              !.status = IF Running("autograde") THEN "failed" ELSE @])

\* student_safety_findings: a line the release has, flagged there too, is excused.
Unsafe(nb) == nb.flagged = "the student's line"

\* rewrite_urls points a notebook that is graded at the copies there are now.
StartRun(a) ==
  /\ Current = 0 /\ attempt[a].todo # <<>>
  /\ LET run == [NoProcess EXCEPT !.of = a, !.nb = attempt[a].nb]
     IN  process' = [process EXCEPT !["worker"] =
           IF Head(attempt[a].todo) = "autograde"
           THEN [run EXCEPT !.pc = "scan", !.mapped = urls, !.warm = attempt[a].nb.of \in said]
           ELSE [run EXCEPT !.pc = "prepare"]]
  /\ UNCHANGED <<caches, env, attempt, happened, overlapped>>

Scan ==
  /\ process["worker"].pc = "scan"
  /\ IF Unsafe(process["worker"].nb) THEN Failed(Current, {"safety check failed"})
     ELSE Goto("worker", "prepare") /\ UNCHANGED attempt
  /\ UNCHANGED <<caches, env, happened, overlapped>>

CannotBuild ==
  /\ process["worker"].pc = "build"
  /\ Failed(Current, {"could not build"})
  /\ UNCHANGED <<caches, env, happened, overlapped>>

Executing(kind) == process["worker"].pc = "execute" /\ Running(kind)

\* A cell raises when its data is not there, also before it is answered.
Raised(nb, reach) == {c \in Check : nb.answer[c] = "raises" \/ ~(nb.reads[c] \subseteq reach)}
Ran(nb, reach) == {c \in Check \ Raised(nb, reach) : nb.answer[c] # "blank"}

\* Mistake: whatever finished is scored.
AlwaysScored(nb, reach) == FALSE

\* nothing_ran_reason: there are automatic points, no check ran and some cell raised. Where
\* all is blank, nothing raised.
NothingRan(nb, reach) == nb.auto /\ Ran(nb, reach) = {} /\ Raised(nb, reach) # {}

TimesOut(nb) == nb.code \in {"slow", "stuck"}

\* Without network: the copies mapped at the start, and the HF cache as it is.
Autograde ==
  LET nb == process["worker"].nb
      reach == hf \cup process["worker"].mapped
      a == Current
  IN  /\ Executing("autograde")
      /\ \/ TimesOut(nb) /\ Failed(a, {"timed out after"})
         \/ nb.code = "redefined" /\ Failed(a, {"MultipleDefinitionError"})
         \/ /\ nb.code \in {"fine", "slow"}
            /\ IF NothingRan(nb, reach) THEN Failed(a, {"no check cell ran", "some cells failed"})
               ELSE Ended(a, [attempt[a] EXCEPT !.status = "graded",
                                !.points = IF nb.auto /\ "mine" \in Ran(nb, reach) /\ nb.answer["mine"] = "right"
                                           THEN 1 ELSE 0])
      /\ UNCHANGED <<caches, env, happened, overlapped>>

\* With network, if it is up: datasets read are in the HF cache afterwards. The exporter
\* reports a notebook some cell of which raised as an error.
Render ==
  LET nb == process["worker"].nb
      read == nb.reads["mine"] \cup nb.reads["other"]
      a == Current
  IN  /\ Executing("render")
      /\ \/ TimesOut(nb) /\ Failed(a, {"timed out after"}) /\ UNCHANGED hf
         \/ nb.code = "redefined" /\ Failed(a, {"MultipleDefinitionError"}) /\ UNCHANGED hf
         \/ /\ nb.code \in {"fine", "slow"}
            /\ \E reach \in {hf, hf \cup read} :
                 /\ hf' = hf \cup (reach \cap Dataset)
                 /\ IF Raised(nb, reach) # {} THEN Failed(a, {"some cells failed"})
                    ELSE Ended(a, [attempt[a] EXCEPT !.page = TRUE])
      /\ UNCHANGED <<urls, said, env, happened, overlapped>>

\* The worker is killed and starts again: requeue_stale gives the run back.
Killed ==
  /\ Happens /\ Current # 0
  /\ process' = [process EXCEPT !["worker"] = NoProcess]
  /\ UNCHANGED <<caches, env, attempt, overlapped>>

-----------------------------------------------------------------------------
(* grader warm-cache.                                                      *)

\* Mistake: the copy students download is scanned.
StudentCopy(s) == Course[s].given

\* The instructor notebook, with its solutions; a copy of it runs in a prepared environment.
InstructorCopy(s) == Course[s].given \cup Course[s].solution

\* What a scan of the notebook finds, and what the assignment declares.
References(s) == (InstructorCopy(s) \cap Course[s].spelled) \cup Course[s].declared

\* All published assignments, or the one given with --slug; one whose instructor notebook is
\* not stored is passed over, and that is no problem to count.
Warm(check, asked) ==
  /\ Happens /\ process["warmer"].pc = "idle"
  /\ asked = Assignment \/ Cardinality(asked) = 1
  /\ process' = [process EXCEPT !["warmer"] =
       [NoProcess EXCEPT !.pc = "next", !.asked = asked, !.check = check,
                         !.todo = {s \in asked : Course[s].stored}]]
  /\ UNCHANGED <<caches, env, attempt, overlapped>>

WarmNext(s) ==
  /\ process["warmer"].pc = "next" /\ s \in process["warmer"].todo
  /\ LET rest == process["warmer"].todo \ {s}
     IN  process' = [process EXCEPT !["warmer"] =
           [@ EXCEPT !.pc = "urls", !.of = s, !.nb = Course[s], !.todo = rest, !.left = References(s)]]
  /\ UNCHANGED <<caches, env, attempt, happened, overlapped>>

\* The assignment is done with.
NextAssignment ==
  process' = [process EXCEPT !["warmer"] = [@ EXCEPT !.pc = "next", !.of = 0, !.nb = <<>>, !.left = {}]]

\* A datum that is there counts; with --check nothing is fetched; a fetch may fail.
Dealt(d, missing) ==
  process' = [process EXCEPT !["warmer"].left = @ \ {d}, !["warmer"].missing = @ \/ missing]

Fetch(d, cache) ==
  \/ d \in cache /\ Dealt(d, FALSE) /\ UNCHANGED caches
  \/ d \notin cache /\ Dealt(d, TRUE) /\ UNCHANGED caches
  \/ /\ d \notin cache /\ ~process["warmer"].check /\ Dealt(d, FALSE)
     /\ hf' = hf \cup ({d} \cap Dataset) /\ urls' = urls \cup ({d} \cap Url) /\ UNCHANGED said

WarmUrl(u) ==
  /\ process["warmer"].pc = "urls" /\ u \in process["warmer"].left
  /\ Fetch(u, urls)
  /\ UNCHANGED <<env, attempt, happened, overlapped>>

\* The URLs are dealt with. The datasets are downloaded in the notebook's environment, and
\* passed over, as no problem either, where it has no PEP 723 block.
WarmPrepare ==
  /\ process["warmer"].pc = "urls" /\ process["warmer"].left \cap Url = {}
  /\ IF process["warmer"].left # {} /\ process["warmer"].nb.block THEN Goto("warmer", "prepare")
     ELSE NextAssignment
  /\ UNCHANGED <<caches, env, attempt, happened, overlapped>>

WarmDataset(d) ==
  /\ process["warmer"].pc = "execute" /\ d \in process["warmer"].left
  /\ Fetch(d, hf)
  /\ UNCHANGED <<env, attempt, happened, overlapped>>

WarmedAll ==
  /\ process["warmer"].pc = "execute" /\ process["warmer"].left = {} /\ NextAssignment
  /\ UNCHANGED <<caches, env, attempt, happened, overlapped>>

\* "Cache warm", or so many problems.
WarmEnds ==
  /\ process["warmer"].pc = "next" /\ process["warmer"].todo = {}
  /\ said' = IF process["warmer"].missing THEN said ELSE said \cup process["warmer"].asked
  /\ process' = [process EXCEPT !["warmer"] = NoProcess]
  /\ UNCHANGED <<hf, urls, env, attempt, happened, overlapped>>

\* The build raises, or the command is interrupted.
WarmStops ==
  /\ process["warmer"].pc # "idle"
  /\ process' = [process EXCEPT !["warmer"] = NoProcess]
  /\ UNCHANGED <<caches, env, attempt, happened, overlapped>>

ExecNext ==
  \/ \E a \in Attempt :
       \/ \E nb \in Notebook : HandIn(a, nb)
       \/ Retried(a)
       \/ StartRun(a)
  \/ \E p \in Process : Prepare(p) \/ Build(p) \/ MarkReady(p)
  \/ Scan \/ CannotBuild \/ Autograde \/ Render \/ Killed
  \/ \E check \in BOOLEAN : \E asked \in SUBSET Assignment : Warm(check, asked)
  \/ \E s \in Assignment : WarmNext(s)
  \/ \E u \in Url : WarmUrl(u)
  \/ \E d \in Dataset : WarmDataset(d)
  \/ WarmPrepare \/ WarmedAll \/ WarmEnds \/ WarmStops

ExecSpec == ExecInit /\ [][ExecNext]_execVars

-----------------------------------------------------------------------------
(* Properties.                                                             *)

\* Every record is of its kind, a run in progress is the next one of its attempt, and an
\* environment marked ready is whole unless two processes built it at once.
ExecTypeOK ==
  /\ hf \subseteq Dataset /\ urls \subseteq Url
  /\ \A key \in DOMAIN env :
       env[key].state \in {"partial", "whole"} /\ (env[key].ready => env[key].state = "whole" \/ overlapped)
  /\ \A p \in Process :
       process[p].pc \in {"idle", "scan", "next", "urls", "prepare", "build", "mark", "execute"}
  /\ \A a \in Attempt :
       /\ attempt[a].status \in {"none", "received", "graded", "failed"}
       /\ attempt[a].error \subseteq {Phrases[i] : i \in 1..6}
  /\ Current # 0 => attempt[Current].todo # <<>>
  /\ happened \in 0..MaxEvents

\* prepare_env ("building it if needed"): a notebook executes in an environment that was
\* built to its end and holds every package it declares, in the versions it declares and
\* the worker's own, whatever was killed half-way, unless two processes built it at once.
RunsInItsEnv ==
  /\ ExecTypeOK
  /\ \A p \in Process :
    process[p].pc = "execute" /\ ~overlapped =>
    Env(Key(p)).state = "whole" /\ Rewritten(process[p].nb.requires) \subseteq Env(Key(p)).packages

\* Some state of the grader grades the notebook: it is safe, it runs, and with all its data
\* there some check runs or nothing raises.
CanSucceed(nb) == nb.flagged # "the student's line" /\ nb.code \in {"fine", "slow"} /\ ~NothingRan(nb, Data)

\* Staff are told that only the student can fix the attempt: a retry fails the same way.
ToldNoRetry(a) ==
  attempt[a].status = "failed" /\ attempt[a].todo = <<>> /\ ~Helps[Classify(attempt[a].error)]

\* The error shown is what a render says of cells that raised, of a page rendered after the
\* attempt was graded: the clock ticked between the rows of their request.
RenderSpoke(a) == attempt[a].last = "render" /\ attempt[a].error = {"some cells failed"}

\* services/failures: staff are told that only the student can fix an attempt, and that a
\* retry fails the same way, only when no retry could ever succeed, unless it is the render
\* that spoke last.
NoRetryMeansNone ==
  \A a \in Attempt : ToldNoRetry(a) /\ ~RenderSpoke(a) => ~CanSucceed(attempt[a].nb)

\* services/failures ("A retry fails the same way"): the same of every error staff are shown.
AdviceIsTrue == \A a \in Attempt : ToldNoRetry(a) => ~CanSucceed(attempt[a].nb)

\* mograder_runner ("something every question needs failed"): a right answer is given no
\* points only where another check of the notebook ran and had less to read; data that every
\* question needs costs nobody a point, whenever it went missing and whatever was retried.
OutageIsNoZero ==
  \A a \in Attempt :
    LET nb == attempt[a].nb
    IN  attempt[a].status = "graded" /\ nb.auto /\ nb.answer["mine"] = "right" /\ attempt[a].points = 0 =>
          \E c \in Check \ {"mine"} :
            nb.answer[c] \in {"right", "wrong"} /\ ~(nb.reads["mine"] \subseteq nb.reads[c])

\* What warm-cache provides of an assignment: what its instructor notebook spells out and
\* what it declares, if the notebook is stored; the datasets only if it has a PEP 723 block.
Provided(s) ==
  {d \in ((Course[s].given \cup Course[s].solution) \cap Course[s].spelled) \cup Course[s].declared :
     Course[s].stored /\ (d \in Dataset => Course[s].block)}

\* warm-cache ("can read its data offline"): an attempt whose run began after it said so,
\* having gone through the attempt's assignment, and that reads only what it provides of
\* it, gets the points of its right answer unless the environment could not be built.
WarmMeansGraded ==
  \A a \in Attempt :
    LET nb == attempt[a].nb
    IN  /\ attempt[a].status \in {"graded", "failed"} /\ attempt[a].todo = <<>>
        /\ attempt[a].trusted /\ ~RenderSpoke(a)
        /\ nb.flagged # "the student's line" /\ nb.code = "fine" /\ nb.auto /\ nb.answer["mine"] = "right"
        /\ nb.reads["mine"] \cup nb.reads["other"] \subseteq Provided(nb.of)
        => IF attempt[a].status = "graded" THEN attempt[a].points = 1
           ELSE "could not build" \in attempt[a].error

\* worker/main.py ("makes the cold case recover on the first submission rather than the
\* second"): an attempt that was graded after its page was rendered does not end failed for
\* want of a dataset.
ColdRecovers ==
  \A a \in Attempt :
    /\ attempt[a].status = "failed" /\ attempt[a].todo = <<>> /\ attempt[a].page
    /\ attempt[a].last = "autograde" /\ Classify(attempt[a].error) = "data"
    => (attempt[a].nb.reads["mine"] \cup attempt[a].nb.reads["other"]) \cap Url # {}

\* Data that can be had is had: after warm-cache at once, on a cold machine from the run
\* that may download.
DataIsReached == WarmMeansGraded /\ ColdRecovers
=============================================================================
