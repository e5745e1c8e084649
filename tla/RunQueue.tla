------------------------------ MODULE RunQueue ------------------------------
(***************************************************************************)
(* What the table grader_runs promises, without attempts, scores or pages: *)
(* a job is queued once, leaves the queue when a worker takes it, and is   *)
(* over once some worker that took it has said how it went.  A worker that *)
(* starts again looks which jobs are being executed and puts those back,   *)
(* so a job may be executed twice, by two workers even.  One that is over  *)
(* stays over, unless it was recorded between that look and what follows.  *)
(***************************************************************************)
EXTENDS Naturals, FiniteSets

CONSTANTS Executor, Job, Nobody

VARIABLES
  jobs,       \* the jobs queued so far, each with its status
  holds,      \* the job each executor is at, Nobody when it is at none
  phase,      \* of each executor: it works, it is dead, it is starting again
  seen        \* the jobs an executor that starts again has found running

queueVars == <<jobs, holds, phase, seen>>

Outcome == {"succeeded", "failed"}

QueueInit ==
  /\ jobs = [j \in {} |-> "queued"]
  /\ holds = [w \in Executor |-> Nobody]
  /\ phase = [w \in Executor |-> "up"]
  /\ seen = [w \in Executor |-> {}]

\* New jobs, or a record of something that was done without the queue.
Enqueue(new, as) ==
  /\ new \subseteq Job \ DOMAIN jobs
  /\ jobs' = [j \in DOMAIN jobs \cup new |-> IF j \in new THEN as ELSE jobs[j]]
  /\ UNCHANGED <<holds, phase, seen>>

Take(w, j) ==
  /\ phase[w] = "up" /\ holds[w] = Nobody /\ jobs[j] = "queued"
  /\ jobs' = [jobs EXCEPT ![j] = "running"]
  /\ holds' = [holds EXCEPT ![w] = j]
  /\ UNCHANGED <<phase, seen>>

Record(w, outcome) ==
  /\ holds[w] # Nobody
  /\ jobs' = [jobs EXCEPT ![holds[w]] = outcome]
  /\ holds' = [holds EXCEPT ![w] = Nobody]
  /\ UNCHANGED <<phase, seen>>

\* The executor dies; its job stays "running" with nobody at it.
Lose(w) ==
  /\ phase[w] # "down"
  /\ phase' = [phase EXCEPT ![w] = "down"]
  /\ holds' = [holds EXCEPT ![w] = Nobody]
  /\ seen' = [seen EXCEPT ![w] = {}]
  /\ UNCHANGED jobs

\* An executor starts again and looks which jobs are marked running, others' included.
Wake(w) ==
  /\ phase[w] = "down"
  /\ phase' = [phase EXCEPT ![w] = "starting"]
  /\ seen' = [seen EXCEPT ![w] = {j \in DOMAIN jobs : jobs[j] = "running"}]
  /\ UNCHANGED <<jobs, holds>>

\* It puts back those it saw, whatever has become of them, and works.
Return(w) ==
  /\ phase[w] = "starting"
  /\ phase' = [phase EXCEPT ![w] = "up"]
  /\ jobs' = [j \in DOMAIN jobs |-> IF j \in seen[w] THEN "queued" ELSE jobs[j]]
  /\ seen' = [seen EXCEPT ![w] = {}]
  /\ UNCHANGED holds

Execute(w) ==
  \/ \E j \in DOMAIN jobs : Take(w, j)
  \/ \E outcome \in Outcome : Record(w, outcome)
  \/ Wake(w) \/ Return(w)

QueueNext ==
  \/ \E as \in {"queued", "succeeded"} : Enqueue(DOMAIN jobs' \ DOMAIN jobs, as)
  \/ \E w \in Executor : Execute(w) \/ Lose(w)

QueueSpec == QueueInit /\ [][QueueNext]_queueVars

\* An executor takes what there is, says how it went, and is started again when it died.
QueueFairSpec == QueueSpec /\ \A w \in Executor : WF_queueVars(Execute(w))
=============================================================================
