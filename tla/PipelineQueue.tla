---------------------------- MODULE PipelineQueue ----------------------------
(***************************************************************************)
(* The pipeline's runs as the abstract queue: a run is a job, and a worker *)
(* holds the run it executes from the claim's commit to the outcome's.     *)
(***************************************************************************)
EXTENDS Pipeline

PhaseOf(pc) == IF pc = "down" THEN "down" ELSE IF pc = "requeueing" THEN "starting" ELSE "up"

Queue == INSTANCE RunQueue WITH
  Executor <- Worker, Job <- RunId, Nobody <- None,
  jobs <- runs, holds <- [w \in Worker |-> proc[w].run],
  phase <- [w \in Worker |-> PhaseOf(proc[w].pc)], seen <- [w \in Worker |-> proc[w].stale]

-----------------------------------------------------------------------------
(* Properties.                                                             *)

\* The claims, outcomes, deaths and restarts of the workers and what students and staff
\* queue are steps of the abstract queue: nothing is queued twice or lost, and an outcome is
\* reopened only when it was recorded while a worker that starts again was requeueing.
ImplementsQueue == Queue!QueueSpec

\* With the worker loop running and its container restarting it, the queue keeps moving:
\* work that waits, that is held or that a dead worker left is taken up.
ImplementsFairQueue == Queue!QueueFairSpec
=============================================================================
