------------------------- MODULE PipelineQueueProofs -------------------------
(***************************************************************************)
(* The pipeline implements the abstract queue, for any number of students, *)
(* workers and graders: every step of the pipeline queues, takes, records, *)
(* loses or returns jobs, or leaves the queue as it is. And the backfill   *)
(* of the pages keeps at most one render in the one worker's way.          *)
(***************************************************************************)
EXTENDS PipelineProofs, PipelineQueue, Backfill

\* What the workers hold, which of them run and what those that start again have found, as
\* the refinement mapping has it.
Held == [w \in Worker |-> proc[w].run]
Phases == [w \in Worker |-> PhaseOf(proc[w].pc)]
Found == [w \in Worker |-> proc[w].stale]

USE DEF Proc, AtRest

\* Nothing is queued, nothing is held and every worker runs.
LEMMA QueueStarts == Init => Queue!QueueInit
BY DEF Init, Idle, PhaseOf, Queue!QueueInit

\* A step of one worker changes what is held, its phase and what it found at its place alone.
LEMMA HeldChanges ==
  ASSUME TypeInv, NEW w \in Worker, NEW x, proc' = [proc EXCEPT ![w] = x]
  PROVE  /\ Held' = [Held EXCEPT ![w] = x.run]
         /\ Phases' = [Phases EXCEPT ![w] = PhaseOf(x.pc)]
         /\ Found' = [Found EXCEPT ![w] = x.stale]
         /\ x.run = proc[w].run => Held' = Held
         /\ PhaseOf(x.pc) = PhaseOf(proc[w].pc) => Phases' = Phases
         /\ x.stale = proc[w].stale => Found' = Found
<1> DEFINE ph == PhaseOf(x.pc)
<1>1. \A q \in Worker : proc'[q] = IF q = w THEN x ELSE proc[q]
  BY DEF TypeInv, TypeOK
<1>2. \A q \in Worker : /\ proc'[q].run = IF q = w THEN x.run ELSE proc[q].run
                        /\ PhaseOf(proc'[q].pc) = IF q = w THEN ph ELSE PhaseOf(proc[q].pc)
                        /\ proc'[q].stale = IF q = w THEN x.stale ELSE proc[q].stale
  BY <1>1
<1> HIDE DEF ph
<1>3. Held' = [Held EXCEPT ![w] = x.run] /\ (x.run = proc[w].run => Held' = Held)
  BY <1>2 DEF Held
<1>4. Phases' = [Phases EXCEPT ![w] = ph] /\ (ph = PhaseOf(proc[w].pc) => Phases' = Phases)
  BY <1>2 DEF Phases
<1>5. Found' = [Found EXCEPT ![w] = x.stale] /\ (x.stale = proc[w].stale => Found' = Found)
  BY <1>2 DEF Found
<1> QED BY <1>3, <1>4, <1>5 DEF ph

\* A step of one process that keeps its run, and does not go down or come up, leaves the
\* queue as it is.
LEMMA QueueRests ==
  ASSUME TypeInv, NEW p \in Proc, NEW x, proc' = [proc EXCEPT ![p] = x], runs' = runs,
         x.run = proc[p].run, PhaseOf(x.pc) = PhaseOf(proc[p].pc), x.stale = proc[p].stale
  PROVE  UNCHANGED Queue!queueVars
<1>1. \A q \in Proc : proc'[q] = IF q = p THEN x ELSE proc[q]
  BY DEF TypeInv, TypeOK
<1>2. Held' = Held
  BY <1>1 DEF Held
<1>3. Phases' = Phases
  BY <1>1 DEF Phases
<1>4. Found' = Found
  BY <1>1 DEF Found
<1> QED BY <1>2, <1>3, <1>4 DEF Held, Phases, Found, Queue!queueVars

\* Who is in a transaction, or idle, is up and has found nothing.
LEMMA UpHolds ==
  ASSUME TypeInv, NEW p \in Proc
  PROVE  /\ proc[p].pc \notin {"down", "requeueing"} => PhaseOf(proc[p].pc) = "up" /\ proc[p].stale = {}
         /\ proc[p].pc = "down" => proc[p].stale = {}
BY ProcTypes DEF OpenAs, PhaseOf

\* Rows that are stamped after everything in the table are new jobs.
LEMMA QueueGrows ==
  ASSUME TypeInv, RunsInThePast, NEW s \in Sub, NEW kinds \in SUBSET Kind,
         NEW new \in FlushedRuns(s, kinds), NEW st \in {"queued", "succeeded"},
         runs' = WithRuns(new, st), proc' = proc
  PROVE  Queue!QueueNext
<1>1. new \subseteq RunId /\ \A r \in new : now < r.at
  BY FlushedRows DEF TypeInv
<1>2. new \subseteq RunId \ DOMAIN runs
  BY <1>1 DEF RunsInThePast, TypeInv, TypeOK, RunId
<1>3. DOMAIN runs' \ DOMAIN runs = new
  BY <1>2 DEF WithRuns
<1>4. Queue!Enqueue(DOMAIN runs' \ DOMAIN runs, st)
  BY <1>2, <1>3 DEF WithRuns, Queue!Enqueue
<1> QED BY <1>4 DEF Queue!QueueNext

\* The run a worker executes ends with its outcome.
LEMMA QueueRecords ==
  ASSUME TypeInv, NEW w \in Worker, proc[w].run # None,
         NEW outcome \in {"succeeded", "failed"}, Finish(w, outcome)
  PROVE  Queue!QueueNext
<1>1. Idle.run = None /\ PhaseOf(Idle.pc) = "up" /\ Idle.stale = {}
  BY DEF Idle, PhaseOf
<1>2. PhaseOf(proc[w].pc) = "up" /\ proc[w].stale = {}
  BY ProcTypes, UpHolds DEF OpenAs, AtRest
<1>3. Held' = [Held EXCEPT ![w] = None] /\ Phases' = Phases /\ Found' = Found
  <2>1. Held' = [Held EXCEPT ![w] = Idle.run]
    BY HeldChanges DEF Finish
  <2>2. PhaseOf(Idle.pc) = PhaseOf(proc[w].pc) => Phases' = Phases
    BY HeldChanges DEF Finish
  <2>3. Idle.stale = proc[w].stale => Found' = Found
    BY HeldChanges DEF Finish
  <2> QED BY <1>1, <1>2, <2>1, <2>2, <2>3
<1>4. runs' = [runs EXCEPT ![proc[w].run] = outcome]
  BY DEF Finish
<1>5. Queue!Record(w, outcome)
  BY <1>3, <1>4 DEF Held, Phases, Found, Queue!Record
<1> QED BY <1>5 DEF Queue!QueueNext, Queue!Execute, Queue!Outcome

\* What a worker that went down is left with.
Down == [Idle EXCEPT !.pc = "down"]

\* A worker that goes down leaves the queue with what it held.
LEMMA QueueLoses ==
  ASSUME TypeInv, NEW w \in Worker, proc[w].pc # "down", runs' = runs,
         proc' = [proc EXCEPT ![w] = Down]
  PROVE  Queue!QueueNext
<1>1. Down.run = None /\ PhaseOf(Down.pc) = "down" /\ Down.stale = {}
  BY DEF Down, Idle, PhaseOf
<1>2. PhaseOf(proc[w].pc) # "down"
  BY DEF PhaseOf
<1> HIDE DEF Down
<1>3. /\ Held' = [Held EXCEPT ![w] = None] /\ Phases' = [Phases EXCEPT ![w] = "down"]
      /\ Found' = [Found EXCEPT ![w] = {}]
  <2>1. Held' = [Held EXCEPT ![w] = Down.run]
    BY HeldChanges
  <2>2. Phases' = [Phases EXCEPT ![w] = PhaseOf(Down.pc)]
    BY HeldChanges
  <2>3. Found' = [Found EXCEPT ![w] = Down.stale]
    BY HeldChanges
  <2> QED BY <1>1, <2>1, <2>2, <2>3
<1>4. Queue!Lose(w)
  BY <1>2, <1>3 DEF Held, Phases, Found, Queue!Lose
<1> QED BY <1>4 DEF Queue!QueueNext

\* A claim takes a queued run for a worker that has none.
LEMMA QueueTakes ==
  ASSUME TypeInv, NEW w \in Worker, NEW r \in Queued, Claim(w, r)
  PROVE  Queue!QueueNext
<1> DEFINE x == [Idle EXCEPT !.run = r, !.sub = r.sub, !.view = Loaded(r.sub),
                             !.pc = IF r.kind = "autograde" /\ status[r.sub] # "received"
                                    THEN "grading" ELSE "claimed"]
<1>1. proc' = [proc EXCEPT ![w] = x]
  BY DEF Claim
<1>2. x.run = r /\ PhaseOf(x.pc) = "up" /\ x.stale = {}
  BY DEF Idle, PhaseOf
<1>3. proc[w].pc = "idle" /\ proc[w].run = None /\ PhaseOf(proc[w].pc) = "up" /\ proc[w].stale = {}
  BY ProcTypes, UpHolds DEF OpenAs, Claim, AtRest
<1> HIDE DEF x
<1>4. Held' = [Held EXCEPT ![w] = r] /\ Phases' = Phases /\ Found' = Found
  <2>1. Held' = [Held EXCEPT ![w] = x.run]
    BY <1>1, HeldChanges
  <2>2. PhaseOf(x.pc) = PhaseOf(proc[w].pc) => Phases' = Phases
    BY <1>1, HeldChanges
  <2>3. x.stale = proc[w].stale => Found' = Found
    BY <1>1, HeldChanges
  <2> QED BY <1>2, <1>3, <2>1, <2>2, <2>3
<1>5. r \in DOMAIN runs /\ runs[r] = "queued" /\ runs' = [runs EXCEPT ![r] = "running"]
  BY DEF Queued, Claim
<1>6. Queue!Take(w, r)
  BY <1>3, <1>4, <1>5 DEF Held, Phases, Found, Queue!Take
<1> QED BY <1>5, <1>6 DEF Queue!QueueNext, Queue!Execute

\* A worker that starts again finds whatever is marked running.
LEMMA QueueWakes ==
  ASSUME TypeInv, NEW w \in Worker, Survey(w)
  PROVE  Queue!QueueNext
<1> DEFINE x == [Idle EXCEPT !.pc = "requeueing", !.stale = Running]
<1>1. proc' = [proc EXCEPT ![w] = x] /\ runs' = runs /\ proc[w].pc = "down"
  BY DEF Survey
<1>2. x.run = None /\ PhaseOf(x.pc) = "starting" /\ x.stale = Running
  BY DEF Idle, PhaseOf
<1>3. proc[w].run = None /\ PhaseOf(proc[w].pc) = "down"
  BY <1>1, ProcTypes DEF OpenAs, PhaseOf, AtRest
<1> HIDE DEF x
<1>4. Held' = Held /\ Phases' = [Phases EXCEPT ![w] = "starting"] /\ Found' = [Found EXCEPT ![w] = Running]
  <2>1. x.run = proc[w].run => Held' = Held
    BY <1>1, HeldChanges
  <2>2. Phases' = [Phases EXCEPT ![w] = PhaseOf(x.pc)]
    BY <1>1, HeldChanges
  <2>3. Found' = [Found EXCEPT ![w] = x.stale]
    BY <1>1, HeldChanges
  <2> QED BY <1>2, <1>3, <2>1, <2>2, <2>3
<1>5. Queue!Wake(w)
  BY <1>1, <1>3, <1>4 DEF Held, Phases, Found, Running, Queue!Wake
<1> QED BY <1>5 DEF Queue!QueueNext, Queue!Execute

\* It puts back what it found.
LEMMA QueueReturns ==
  ASSUME TypeInv, NEW w \in Worker, Requeue(w)
  PROVE  Queue!QueueNext
<1>1. proc' = [proc EXCEPT ![w] = Idle] /\ proc[w].pc = "requeueing"
  BY DEF Requeue
<1>2. Idle.run = None /\ PhaseOf(Idle.pc) = "up" /\ Idle.stale = {}
  BY DEF Idle, PhaseOf
<1>3. proc[w].run = None /\ PhaseOf(proc[w].pc) = "starting"
  BY <1>1, ProcTypes DEF OpenAs, PhaseOf, AtRest
<1>4. Held' = Held /\ Phases' = [Phases EXCEPT ![w] = "up"] /\ Found' = [Found EXCEPT ![w] = {}]
  <2>1. Idle.run = proc[w].run => Held' = Held
    BY <1>1, HeldChanges
  <2>2. Phases' = [Phases EXCEPT ![w] = PhaseOf(Idle.pc)]
    BY <1>1, HeldChanges
  <2>3. Found' = [Found EXCEPT ![w] = Idle.stale]
    BY <1>1, HeldChanges
  <2> QED BY <1>2, <1>3, <2>1, <2>2, <2>3
<1>5. runs' = [r \in DOMAIN runs |-> IF r \in Found[w] THEN "queued" ELSE runs[r]]
  BY DEF Requeue, Found
<1>6. Queue!Return(w)
  BY <1>3, <1>4, <1>5 DEF Held, Phases, Found, Queue!Return
<1> QED BY <1>6 DEF Queue!QueueNext, Queue!Execute

-----------------------------------------------------------------------------
\* Every step of a worker, one case for each action, is a step of the queue.
LEMMA WorkerQueueSteps ==
  ASSUME TypeInv, NEW w \in Worker, WorkerStep(w)
  PROVE  [Queue!QueueNext]_(Queue!queueVars)
<1>1. proc[w] \in ProcState /\ OpenAs(w, proc[w])
  BY ProcTypes
<1>2. proc[w].pc \in {"claimed", "grading", "scored"} => proc[w].run # None
  BY <1>1, NoneAssumption DEF OpenAs
<1>3. ASSUME NEW r \in Queued, Claim(w, r) PROVE Queue!QueueNext
  BY <1>3, QueueTakes
<1>4. CASE MarkGrading(w)
  <2> DEFINE x == [proc[w] EXCEPT !.pc = "grading", !.lock = TRUE]
  <2>1. x.run = proc[w].run /\ PhaseOf(x.pc) = PhaseOf(proc[w].pc) /\ x.stale = proc[w].stale
    BY <1>1, <1>4 DEF MarkGrading, ProcState, PhaseOf
  <2>2. proc' = [proc EXCEPT ![w] = x] /\ runs' = runs
    BY <1>4 DEF MarkGrading
  <2> HIDE DEF x
  <2> QED BY <2>1, <2>2, QueueRests
<1>5. ASSUME NEW auto \in 0..settings.auto_max, AutoGrade(w, auto) PROVE UNCHANGED Queue!queueVars
  <2>1. PICK lock, sc, grade :
          proc' = [proc EXCEPT ![w] = [proc[w] EXCEPT !.pc = "scored", !.score = sc, !.lock = lock,
                                                      !.grade = grade]]
    BY <1>5 DEF AutoGrade
  <2> DEFINE x == [proc[w] EXCEPT !.pc = "scored", !.score = sc, !.lock = lock, !.grade = grade]
  <2>2. x.run = proc[w].run /\ PhaseOf(x.pc) = "up" /\ x.stale = proc[w].stale
    BY <1>1 DEF ProcState, PhaseOf
  <2>3. runs' = runs /\ PhaseOf(proc[w].pc) = "up" /\ proc' = [proc EXCEPT ![w] = x]
    BY <1>5, <2>1 DEF AutoGrade, PhaseOf
  <2> HIDE DEF x
  <2> QED BY <2>2, <2>3, QueueRests
<1>6. CASE CommitGrade(w)
  BY <1>2, <1>6, QueueRecords DEF CommitGrade
<1>7. CASE GradeConflict(w)
  BY <1>7, QueueLoses DEF GradeConflict, Down
<1>8. CASE GradeFails(w)
  BY <1>2, <1>8, QueueRecords DEF GradeFails
<1>9. CASE FinishSnapshot(w)
  BY <1>2, <1>9, QueueRecords DEF FinishSnapshot
<1>10. CASE FinishRender(w)
  BY <1>2, <1>10, QueueRecords DEF FinishRender
<1>11. CASE PageFails(w)
  BY <1>2, <1>11, QueueRecords DEF PageFails
<1>12. CASE Survey(w)
  BY <1>12, QueueWakes
<1>13. CASE Requeue(w)
  BY <1>13, QueueReturns
<1> QED BY <1>3, <1>4, <1>5, <1>6, <1>7, <1>8, <1>9, <1>10, <1>11, <1>12, <1>13 DEF WorkerStep

\* A grader's request holds no run: the queue does not notice it.
LEMMA GraderQueueSteps ==
  ASSUME TypeInv, NEW g \in Grader,
         \/ RequestStep(g)
         \/ \E s \in Existing, manual \in {None} \cup 0..settings.manual_max, final \in BOOLEAN :
              BeginScore(g, s, manual, final)
  PROVE  UNCHANGED Queue!queueVars
<1>1. proc[g] \in ProcState /\ proc[g].run = None
  BY ProcTypes DEF OpenAs
<1>2. runs' = runs /\ PhaseOf(proc[g].pc) = "up" /\ proc[g].stale = {}
  BY UpHolds DEF RequestStep, BeginScore, RecomputeScore, CommitScore, ScoreConflict
<1>3. CASE RecomputeScore(g)
  <2>1. PICK lock, grade :
          proc' = [proc EXCEPT ![g] = [proc[g] EXCEPT !.pc = "scored", !.lock = lock, !.grade = grade]]
    BY <1>3 DEF RecomputeScore
  <2> DEFINE x == [proc[g] EXCEPT !.pc = "scored", !.lock = lock, !.grade = grade]
  <2>2. x.run = proc[g].run /\ PhaseOf(x.pc) = "up" /\ x.stale = proc[g].stale
    BY <1>1 DEF ProcState, PhaseOf
  <2>3. proc' = [proc EXCEPT ![g] = x]
    BY <2>1
  <2> HIDE DEF x
  <2> QED BY <1>2, <2>2, <2>3, QueueRests
<1>4. CASE CommitScore(g) \/ ScoreConflict(g)
  <2>1. proc' = [proc EXCEPT ![g] = Idle] /\ Idle.run = None /\ PhaseOf(Idle.pc) = "up" /\ Idle.stale = {}
    BY <1>4 DEF CommitScore, ScoreConflict, Idle, PhaseOf
  <2> QED BY <1>1, <1>2, <2>1, QueueRests
<1>5. ASSUME NEW s \in Existing, NEW manual, NEW final, BeginScore(g, s, manual, final)
      PROVE  UNCHANGED Queue!queueVars
  <2>1. PICK sc :
          proc' = [proc EXCEPT ![g] = [Idle EXCEPT !.pc = "begun", !.sub = s, !.view = Loaded(s), !.score = sc]]
    BY <1>5 DEF BeginScore
  <2> DEFINE x == [Idle EXCEPT !.pc = "begun", !.sub = s, !.view = Loaded(s), !.score = sc]
  <2>2. x.run = None /\ PhaseOf(x.pc) = "up" /\ x.stale = {}
    BY DEF Idle, PhaseOf
  <2>3. proc' = [proc EXCEPT ![g] = x]
    BY <2>1
  <2> HIDE DEF x
  <2> QED BY <1>1, <1>2, <2>2, <2>3, QueueRests
<1> QED BY <1>3, <1>4, <1>5 DEF RequestStep

\* Every step of the pipeline is a step of the queue, or leaves it as it is.
LEMMA QueueSteps ==
  ASSUME TypeInv, RunsInThePast, [Next]_vars
  PROVE  [Queue!QueueNext]_(Queue!queueVars)
<1>1. ASSUME NEW e \in Enrollment, NEW snap \in Sent, Submit(e, snap) PROVE Queue!QueueNext
  <2> DEFINE s == <<e, attempts[e] + 1>>
             kinds == {"snapshot"}
                      \cup (IF settings.autograde /\ ~Whole THEN {"autograde"} ELSE {})
                      \cup (IF settings.render THEN {"render"} ELSE {})
  <2>1. s \in Sub /\ kinds \in SUBSET Kind
    BY <1>1, BoundAssumption DEF TypeInv, TypeOK, Submit, Sub, Attempt, Kind
  <2>2. PICK new \in FlushedRuns(s, kinds) : runs' = WithRuns(new, "queued")
    BY <1>1 DEF Submit
  <2>3. proc' = proc
    BY <1>1 DEF Submit
  <2> HIDE DEF s, kinds
  <2> QED BY <2>1, <2>2, <2>3, QueueGrows
<1>2. ASSUME NEW w \in Worker, Crash(w) PROVE Queue!QueueNext
  BY <1>2, QueueLoses DEF Crash, Down
<1>3. ASSUME NEW s \in Existing, Retry(s) \/ AttachSnapshot(s) \/ AttachHtml(s) PROVE Queue!QueueNext
  <2>1. s \in Sub /\ proc' = proc
    BY <1>3 DEF Existing, Retry, AttachSnapshot, AttachHtml
  <2>2. \E kinds \in SUBSET Kind, st \in {"queued", "succeeded"} :
          \E new \in FlushedRuns(s, kinds) : runs' = WithRuns(new, st)
    BY <1>3 DEF Retry, AttachSnapshot, AttachHtml, Kind
  <2> QED BY <2>1, <2>2, QueueGrows
<1>4. ASSUME NEW policy \in Policy, PatchPolicy(policy) PROVE UNCHANGED Queue!queueVars
  BY <1>4 DEF PatchPolicy, Queue!queueVars
<1>5. CASE UNCHANGED vars
  BY <1>5 DEF vars, Queue!queueVars
<1>6. CASE StaffStep
  BY <1>3, <1>4, <1>6, GraderQueueSteps DEF StaffStep
<1> QED BY <1>1, <1>2, <1>5, <1>6, WorkerQueueSteps, GraderQueueSteps DEF Next

\* Whatever the students, workers, graders and crashes do, no run is queued twice or lost, and
\* one is reopened only if its outcome was recorded while a worker that starts again was
\* requeueing: the pipeline is the abstract queue.
THEOREM QueueRefinement == Spec => ImplementsQueue
<1> DEFINE Inv == TypeInv /\ RunsInThePast
<1>1. Init => Inv /\ Queue!QueueInit
  BY TypeInit, QueueStarts DEF Init, RunsInThePast
<1>2. Inv /\ [Next]_vars => Inv'
  BY TypeNext, RunsPastNext
<1>3. Inv /\ [Next]_vars => [Queue!QueueNext]_(Queue!queueVars)
  BY QueueSteps
<1> QED BY <1>1, <1>2, <1>3, PTL DEF Spec, ImplementsQueue, Queue!QueueSpec
-----------------------------------------------------------------------------
(* The backfill over the abstract queue.                                   *)

\* What the backfill is doing, and has tried.
Filler == [pc : {"off", "looking", "adding", "waiting"}, tried : SUBSET Paper,
           job : Job \cup {Nobody}, starts : 0..MaxStarts]

\* Renders of the backfill that are not over, and those of a paper that did not fail.
LiveRenders == LiveJobs \cap Rerender
KeptRenders(p) == {j \in Renders(p) : jobs[j] # "failed"}

\* When one executor serves the queue, the backfill adds a render only while none is live; a
\* render that is live or went well is the only such one of its paper; and what the executor
\* is at, or has found when it starts again, is running.
BackfillInv ==
  /\ DOMAIN jobs \subseteq Job /\ jobs \in [DOMAIN jobs -> {"queued", "running"} \cup Outcome]
  /\ holds \in [Executor -> DOMAIN jobs \cup {Nobody}]
  /\ seen \in [Executor -> SUBSET DOMAIN jobs]
  /\ phase \in [Executor -> {"up", "down", "starting"}]
  /\ \A w \in Executor : holds[w] # Nobody => phase[w] = "up"
  /\ old \subseteq Paper /\ filler \in Filler
  /\ Cardinality(Executor) = 1 =>
       /\ filler.pc = "adding" => LiveRenders = {}
       /\ \A i, j \in LiveRenders : i = j
       /\ \A w \in Executor : holds[w] # Nobody => jobs[holds[w]] = "running"
       /\ \A w \in Executor : phase[w] = "starting" => \A j \in seen[w] : jobs[j] = "running"
       /\ \A p \in Paper : \A i, j \in KeptRenders(p) : i = j

\* Jobs that go on, while none comes back from its outcome, keep the backfill's promises.
LEMMA BackfillRests ==
  ASSUME BackfillInv, DOMAIN jobs' = DOMAIN jobs,
         jobs' \in [DOMAIN jobs -> {"queued", "running"} \cup Outcome],
         holds' \in [Executor -> DOMAIN jobs \cup {Nobody}],
         seen' \in [Executor -> SUBSET DOMAIN jobs],
         phase' \in [Executor -> {"up", "down", "starting"}],
         \A w \in Executor : holds'[w] # Nobody => phase'[w] = "up",
         filler' = filler, old' = old,
         Cardinality(Executor) = 1 =>
           /\ \A j \in DOMAIN jobs : jobs[j] \in Outcome => jobs'[j] = jobs[j]
           /\ \A w \in Executor : holds'[w] # Nobody => jobs'[holds'[w]] = "running"
           /\ \A w \in Executor : phase'[w] = "starting" => \A j \in seen'[w] : jobs'[j] = "running"
  PROVE  BackfillInv'
<1>1. ASSUME Cardinality(Executor) = 1
      PROVE  /\ filler'.pc = "adding" => LiveRenders' = {}
             /\ \A i, j \in LiveRenders' : i = j
             /\ \A p \in Paper : \A i, j \in KeptRenders(p)' : i = j
  <2>1. LiveRenders' \subseteq LiveRenders
    BY <1>1 DEF LiveRenders, LiveJobs
  <2>2. \A p \in Paper : KeptRenders(p)' \subseteq KeptRenders(p)
    BY <1>1 DEF KeptRenders, Renders, Outcome
  <2> QED BY <1>1, <2>1, <2>2 DEF BackfillInv
<1> QED BY <1>1 DEF BackfillInv

\* An executor takes a job, says how it went, dies or starts again.
LEMMA ExecutorKeeps ==
  ASSUME BackfillInv, NEW w \in Executor, Works(w) \/ Dies(w)
  PROVE  BackfillInv'
<1> DEFINE Alone == Cardinality(Executor) = 1
<1>1. filler' = filler /\ old' = old
  BY DEF Works, Dies
<1>2. /\ jobs \in [DOMAIN jobs -> {"queued", "running"} \cup Outcome]
      /\ holds \in [Executor -> DOMAIN jobs \cup {Nobody}]
      /\ seen \in [Executor -> SUBSET DOMAIN jobs]
      /\ phase \in [Executor -> {"up", "down", "starting"}]
      /\ \A x \in Executor : holds[x] # Nobody => phase[x] = "up"
      /\ Nobody \notin DOMAIN jobs
  BY BackfillAssumption DEF BackfillInv
<1>3. Alone =>
        /\ \A x \in Executor : x = w
        /\ holds[w] # Nobody => jobs[holds[w]] = "running"
        /\ phase[w] = "starting" => \A j \in seen[w] : jobs[j] = "running"
  <2>1. Alone => \E x : Executor = {x}
    BY BackfillAssumption, FS_Singleton
  <2> QED BY <2>1 DEF BackfillInv
<1> HIDE DEF Alone
<1> SUFFICES /\ DOMAIN jobs' = DOMAIN jobs
             /\ jobs' \in [DOMAIN jobs -> {"queued", "running"} \cup Outcome]
             /\ holds' \in [Executor -> DOMAIN jobs \cup {Nobody}]
             /\ seen' \in [Executor -> SUBSET DOMAIN jobs]
             /\ phase' \in [Executor -> {"up", "down", "starting"}]
             /\ \A x \in Executor : holds'[x] # Nobody => phase'[x] = "up"
             /\ Alone =>
                  /\ \A j \in DOMAIN jobs : jobs[j] \in Outcome => jobs'[j] = jobs[j]
                  /\ holds'[w] # Nobody => jobs'[holds'[w]] = "running"
                  /\ phase'[w] = "starting" => \A j \in seen'[w] : jobs'[j] = "running"
  BY <1>1, <1>3, BackfillRests DEF Alone
<1>4. CASE \E j \in DOMAIN jobs : Take(w, j)
  <2>1. PICK j \in DOMAIN jobs : Take(w, j)
    BY <1>4
  <2>2. /\ jobs[j] = "queued" /\ phase[w] = "up" /\ phase' = phase /\ seen' = seen
        /\ jobs' = [jobs EXCEPT ![j] = "running"] /\ holds' = [holds EXCEPT ![w] = j]
    BY <2>1 DEF Take
  <2> QED BY <1>2, <1>3, <2>2 DEF Outcome
<1>5. CASE \E outcome \in Outcome : Record(w, outcome)
  <2>1. PICK outcome \in Outcome : Record(w, outcome)
    BY <1>5
  <2> DEFINE j == holds[w]
  <2>2. /\ j \in DOMAIN jobs /\ phase' = phase /\ seen' = seen /\ phase[w] = "up"
        /\ jobs' = [jobs EXCEPT ![j] = outcome] /\ holds' = [holds EXCEPT ![w] = Nobody]
    BY <1>2, <2>1 DEF Record
  <2>3. Alone => jobs[j] = "running"
    BY <1>2, <1>3, <2>2
  <2> HIDE DEF j
  <2>4. Alone => \A i \in DOMAIN jobs : jobs[i] \in Outcome => jobs'[i] = jobs[i]
    BY <2>2, <2>3 DEF Outcome
  <2> QED BY <1>2, <2>1, <2>2, <2>4
<1>6. CASE Wake(w)
  <2>1. /\ phase[w] = "down" /\ phase' = [phase EXCEPT ![w] = "starting"]
        /\ seen' = [seen EXCEPT ![w] = {j \in DOMAIN jobs : jobs[j] = "running"}]
        /\ jobs' = jobs /\ holds' = holds
    BY <1>6 DEF Wake
  <2> QED BY <1>2, <1>3, <2>1
<1>7. CASE Return(w)
  <2>1. /\ phase[w] = "starting" /\ phase' = [phase EXCEPT ![w] = "up"]
        /\ seen' = [seen EXCEPT ![w] = {}] /\ holds' = holds
        /\ jobs' = [j \in DOMAIN jobs |-> IF j \in seen[w] THEN "queued" ELSE jobs[j]]
    BY <1>7 DEF Return
  <2>2. holds[w] = Nobody
    BY <1>2, <2>1
  <2>3. Alone => \A j \in DOMAIN jobs : jobs[j] \in Outcome => jobs'[j] = jobs[j]
    BY <1>2, <1>3, <2>1 DEF Outcome
  <2> QED BY <1>2, <2>1, <2>2, <2>3
<1>8. CASE Lose(w)
  <2>1. /\ phase' = [phase EXCEPT ![w] = "down"] /\ jobs' = jobs
        /\ holds' = [holds EXCEPT ![w] = Nobody] /\ seen' = [seen EXCEPT ![w] = {}]
    BY <1>8 DEF Lose
  <2> QED BY <1>2, <2>1
<1> QED BY <1>4, <1>5, <1>6, <1>7, <1>8 DEF Works, Dies, Execute

\* One new job, of the backfill or of anybody else.
LEMMA EnqueueKeeps ==
  ASSUME BackfillInv, NEW k, Enqueue({k}, "queued"), old' = old,
         filler' \in Filler, filler'.pc # "adding" \/ filler' = filler,
         k \in Rerender /\ Cardinality(Executor) = 1 => LiveRenders = {} /\ filler'.pc # "adding",
         k \in Rerender => \A j \in Renders(k.paper) : jobs[j] # "succeeded"
  PROVE  BackfillInv'
<1>1. /\ k \in Job /\ k \notin DOMAIN jobs /\ DOMAIN jobs' = DOMAIN jobs \cup {k}
      /\ jobs'[k] = "queued" /\ \A j \in DOMAIN jobs : jobs'[j] = jobs[j]
      /\ holds' = holds /\ phase' = phase /\ seen' = seen
      /\ jobs' = [j \in DOMAIN jobs \cup {k} |-> IF j = k THEN "queued" ELSE jobs[j]]
  BY DEF Enqueue
<1>2. /\ DOMAIN jobs' \subseteq Job /\ jobs' \in [DOMAIN jobs' -> {"queued", "running"} \cup Outcome]
      /\ holds' \in [Executor -> DOMAIN jobs' \cup {Nobody}]
      /\ seen' \in [Executor -> SUBSET DOMAIN jobs'] /\ phase' \in [Executor -> {"up", "down", "starting"}]
      /\ \A w \in Executor : holds'[w] # Nobody => phase'[w] = "up"
  BY <1>1 DEF BackfillInv
<1>3. LiveRenders' = LiveRenders \cup ({k} \cap Rerender)
  BY <1>1 DEF LiveRenders, LiveJobs, Outcome
<1>4. ASSUME Cardinality(Executor) = 1
      PROVE  (filler'.pc = "adding" => LiveRenders' = {}) /\ \A i, j \in LiveRenders' : i = j
  <2>1. CASE k \in Rerender
    BY <1>3, <1>4, <2>1
  <2>2. CASE k \notin Rerender
    BY <1>3, <1>4, <2>2 DEF BackfillInv
  <2> QED BY <2>1, <2>2
<1>5. ASSUME Cardinality(Executor) = 1
      PROVE  /\ \A w \in Executor : holds'[w] # Nobody => jobs'[holds'[w]] = "running"
             /\ \A w \in Executor : phase'[w] = "starting" => \A j \in seen'[w] : jobs'[j] = "running"
             /\ \A p \in Paper : \A i, j \in KeptRenders(p)' : i = j
  <2>1. /\ \A w \in Executor : holds'[w] # Nobody => jobs'[holds'[w]] = "running"
        /\ \A w \in Executor : phase'[w] = "starting" => \A j \in seen'[w] : jobs'[j] = "running"
    BY <1>1, <1>5 DEF BackfillInv
  <2>2. ASSUME NEW p \in Paper, NEW i \in KeptRenders(p)', NEW j \in KeptRenders(p)' PROVE i = j
    <3>1. /\ i = k \/ i \in KeptRenders(p)
          /\ j = k \/ j \in KeptRenders(p)
      BY <1>1, <2>2 DEF KeptRenders, Renders
    <3>2. ASSUME k \in Rerender, k.paper = p PROVE KeptRenders(p) = {}
      <4> SUFFICES ASSUME NEW m \in KeptRenders(p) PROVE FALSE
        OBVIOUS
      <4>1. m \in Renders(p) /\ jobs[m] # "failed" /\ jobs[m] # "succeeded"
        BY <3>2 DEF KeptRenders
      <4>2. m \in LiveRenders
        BY <4>1 DEF LiveRenders, LiveJobs, Renders, Outcome
      <4> QED BY <1>5, <3>2, <4>2
    <3>3. i = k => k \in Rerender /\ k.paper = p
      BY <2>2 DEF KeptRenders, Renders
    <3>4. j = k => k \in Rerender /\ k.paper = p
      BY <2>2 DEF KeptRenders, Renders
    <3> QED BY <1>5, <3>1, <3>2, <3>3, <3>4 DEF BackfillInv
  <2> QED BY <2>1, <2>2
<1> QED BY <1>2, <1>4, <1>5 DEF BackfillInv

\* The backfill's own steps, without the queue.
LEMMA FillerKeeps ==
  ASSUME BackfillInv, UNCHANGED queueVars, old' = old, filler' \in Filler,
         Cardinality(Executor) = 1 => filler'.pc # "adding" \/ LiveRenders = {}
  PROVE  BackfillInv'
<1>1. jobs' = jobs /\ holds' = holds /\ phase' = phase /\ seen' = seen
  BY DEF queueVars
<1>2. LiveRenders' = LiveRenders /\ \A p \in Paper : KeptRenders(p)' = KeptRenders(p)
  BY <1>1 DEF LiveRenders, LiveJobs, KeptRenders, Renders
<1> QED BY <1>1, <1>2 DEF BackfillInv

\* The backfill looks, adds a render of a paper that has none, waits for it, or is stopped.
LEMMA FillerSteps ==
  ASSUME BackfillInv, Start \/ Look \/ Add \/ PollRun \/ Interrupt
  PROVE  BackfillInv'
<1>1. /\ filler \in Filler /\ Nobody \in Job \cup {Nobody} /\ {} \in SUBSET Paper
      /\ old \subseteq Paper /\ old' = old
  BY DEF BackfillInv, Start, Look, Add, PollRun, Interrupt
<1>2. CASE Start
  <2>1. filler.starts + 1 \in 0..MaxStarts
    BY <1>1, <1>2, BackfillAssumption DEF Start, Filler
  <2>2. filler' \in Filler /\ filler'.pc = "looking"
    BY <1>2, <2>1 DEF Start, Off, Filler
  <2> QED BY <1>1, <1>2, <2>2, FillerKeeps DEF Start
<1>3. CASE Look
  <2>1. filler' \in Filler
    BY <1>1, <1>3 DEF Look, Filler
  <2>2. LiveRenders = {}
    BY <1>3 DEF Look, Busy, LiveRenders
  <2> QED BY <1>1, <1>3, <2>1, <2>2, FillerKeeps DEF Look
<1>4. CASE Add
  <2>1. filler.pc = "adding" /\ (Cardinality(Executor) = 1 => LiveRenders = {})
    BY <1>4 DEF Add, BackfillInv
  <2>2. CASE Pending = {}
    <3>1. filler' = [filler EXCEPT !.pc = "off"] /\ UNCHANGED queueVars
      BY <1>4, <2>2 DEF Add
    <3>2. filler' \in Filler
      BY <1>1, <3>1 DEF Filler
    <3> QED BY <1>1, <2>1, <3>1, <3>2, FillerKeeps
  <2>3. CASE Pending # {}
    <3>1. PICK p \in Pending :
            LET j == [paper |-> p, n |-> Cardinality(Renders(p)) + 1]
            IN  /\ Enqueue({j}, "queued")
                /\ filler' = [filler EXCEPT !.pc = "waiting", !.tried = TriedToo(p), !.job = j]
      BY <1>4, <2>3 DEF Add
    <3> DEFINE j == [paper |-> p, n |-> Cardinality(Renders(p)) + 1]
    <3>2. j.paper = p /\ \A i \in Renders(p) : jobs[i] # "succeeded"
      BY DEF Pending, RenderedWithCode
    <3>3. Enqueue({j}, "queued") /\ filler' = [filler EXCEPT !.pc = "waiting", !.tried = TriedToo(p), !.job = j]
      BY <3>1
    <3> HIDE DEF j
    <3>4. filler' \in Filler /\ filler'.pc = "waiting"
      <4>1. TriedToo(p) \in SUBSET Paper
        <5>1. p \in Paper
          <6>1. p \in old
            BY DEF Pending
          <6> QED BY <1>1, <6>1
        <5> QED BY <1>1, <5>1 DEF TriedToo, Filler
      <4>2. j \in Job
        BY <3>3 DEF Enqueue
      <4> QED BY <1>1, <3>3, <4>1, <4>2 DEF Filler
    <3> QED BY <1>1, <2>1, <3>2, <3>3, <3>4, EnqueueKeeps
  <2> QED BY <2>2, <2>3
<1>5. CASE PollRun
  <2>1. filler' \in Filler /\ filler'.pc = "looking"
    BY <1>1, <1>5 DEF PollRun, Filler
  <2> QED BY <1>1, <1>5, <2>1, FillerKeeps DEF PollRun
<1>6. CASE Interrupt
  <2>1. filler' \in Filler /\ filler'.pc = "off"
    BY <1>1, <1>6 DEF Interrupt, Off, Filler
  <2> QED BY <1>1, <1>6, <2>1, FillerKeeps DEF Interrupt
<1> QED BY <1>2, <1>3, <1>4, <1>5, <1>6

\* Somebody else's run arrives.
LEMMA ArrivesKeeps ==
  ASSUME BackfillInv, NEW k \in Other, Arrives(k)
  PROVE  BackfillInv'
<1>1. k \notin Rerender /\ Enqueue({k}, "queued") /\ old' = old /\ filler' = filler /\ filler \in Filler
  BY BackfillAssumption DEF Arrives, BackfillInv
<1> QED BY <1>1, EnqueueKeeps

\* A set whose members are all equal has at most one.
LEMMA AtMostOne ==
  ASSUME NEW S, \A i, j \in S : i = j
  PROVE  Cardinality(S) <= 1
<1>1. CASE S = {}
  BY <1>1, FS_EmptySet
<1>2. CASE S # {}
  <2>1. \E i : S = {i}
    BY <1>2
  <2>2. PICK i : S = {i}
    BY <2>1
  <2>3. Cardinality({i}) = 1
    BY FS_Singleton
  <2> QED BY <2>2, <2>3
<1> QED BY <1>1, <1>2

\* Where one worker serves the queue, as it is deployed: however often the backfill is
\* interrupted and started again, and the worker dies and requeues, a run that arrives finds
\* at most one of its renders in the way, and no page is made twice.
THEOREM BackfillTakesTurns == BackfillSpec => []OneAtATime
<1>1. BackfillInit => BackfillInv
  <2> SUFFICES ASSUME BackfillInit PROVE BackfillInv
    OBVIOUS
  <2>1. /\ DOMAIN jobs = {} /\ holds = [w \in Executor |-> Nobody] /\ filler = Off
        /\ jobs = [j \in {} |-> "queued"] /\ old \subseteq Paper
        /\ phase = [w \in Executor |-> "up"] /\ seen = [w \in Executor |-> {}]
    BY DEF BackfillInit, QueueInit
  <2>2. filler \in Filler /\ filler.pc = "off"
    BY <2>1, BackfillAssumption DEF Off, Filler
  <2>3. LiveRenders = {} /\ \A p \in Paper : KeptRenders(p) = {}
    BY <2>1 DEF LiveRenders, LiveJobs, KeptRenders, Renders
  <2> QED BY <2>1, <2>2, <2>3 DEF BackfillInv
<1>2. BackfillInv /\ [BackfillNext]_backfillVars => BackfillInv'
  <2> SUFFICES ASSUME BackfillInv, [BackfillNext]_backfillVars PROVE BackfillInv'
    OBVIOUS
  <2>1. CASE \E j \in Other : Arrives(j)
    BY <2>1, ArrivesKeeps
  <2>2. CASE \E w \in Executor : Works(w) \/ Dies(w)
    BY <2>2, ExecutorKeeps
  <2>3. CASE Start \/ Look \/ Add \/ PollRun \/ Interrupt
    BY <2>3, FillerSteps
  <2>4. CASE UNCHANGED backfillVars
    BY <2>4, FillerKeeps DEF backfillVars, BackfillInv
  <2> QED BY <2>1, <2>2, <2>3, <2>4 DEF BackfillNext
<1>3. BackfillInv => OneAtATime
  <2> SUFFICES ASSUME BackfillInv PROVE OneAtATime
    OBVIOUS
  <2>1. Cardinality(Executor) = 1 => OneInTheWay
    BY AtMostOne DEF BackfillInv, LiveRenders, OneInTheWay
  <2>2. Cardinality(Executor) = 1 => NotTwice
    BY AtMostOne DEF BackfillInv, KeptRenders, NotTwice
  <2> QED BY <2>1, <2>2 DEF OneAtATime
<1> QED BY <1>1, <1>2, <1>3, PTL DEF BackfillSpec

=============================================================================
