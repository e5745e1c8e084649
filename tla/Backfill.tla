------------------------------ MODULE Backfill ------------------------------
(***************************************************************************)
(* `grader rerender` (rerender.py): pages made before re-runs kept their   *)
(* code are made again, one at a time, while the queue has nothing else to *)
(* do.  The queue is the abstract one: the backfill relies on nothing but  *)
(* what RunQueue promises.                                                 *)
(***************************************************************************)
EXTENDS RunQueue

CONSTANTS
  Paper,          \* submissions that have a page
  MaxStarts,      \* bound: times the operator starts the backfill
  MaxRenders,     \* bound: renders of one paper that the backfill queues
  MaxLosses,      \* bound: deaths of a worker
  MaxNew          \* bound: runs of students and staff

\* A render the backfill queues, or a run of anybody else.
Rerender == [paper : Paper, n : 1..MaxRenders]
Other == [n : 1..MaxNew]

ASSUME BackfillAssumption ==
  /\ Nobody \notin Job /\ Job = Rerender \cup Other /\ Rerender \cap Other = {}
  /\ MaxStarts \in Nat /\ IsFiniteSet(Executor)

VARIABLES
  old,            \* papers whose page lacks the code, when this begins
  filler,         \* the backfill: what it is doing, what it has tried since it started
  losses

backfillVars == <<queueVars, old, filler, losses>>

Off == [pc |-> "off", tried |-> {}, job |-> Nobody, starts |-> 0]

BackfillInit ==
  /\ QueueInit
  /\ old \in SUBSET Paper
  /\ filler = Off /\ losses = 0

LiveJobs == {j \in DOMAIN jobs : jobs[j] \notin Outcome}
Renders(p) == {j \in DOMAIN jobs \cap Rerender : j.paper = p}

\* A submission, a retry: somebody else's run.
Arrives(j) ==
  /\ j \in Other \ DOMAIN jobs
  /\ \A k \in Other \ DOMAIN jobs : j.n <= k.n
  /\ Enqueue({j}, "queued") /\ UNCHANGED <<old, filler, losses>>

\* Mistake: a run that has been claimed is no longer in the way.
BusyIfQueued == \E j \in DOMAIN jobs : jobs[j] = "queued"

\* _busy
Busy == LiveJobs # {}

RenderedWithCode(p) == \E j \in Renders(p) : jobs[j] = "succeeded"
Pending == {p \in old \ filler.tried : ~RenderedWithCode(p)}

Start ==
  /\ filler.pc = "off" /\ filler.starts < MaxStarts
  /\ filler' = [Off EXCEPT !.pc = "looking", !.starts = filler.starts + 1]
  /\ UNCHANGED <<queueVars, old, losses>>

\* The queue was idle when it was looked at; a run may arrive before the next query.
Look ==
  /\ filler.pc = "looking" /\ ~Busy
  /\ filler' = [filler EXCEPT !.pc = "adding"]
  /\ UNCHANGED <<queueVars, old, losses>>

\* Mistake: a paper is tried until it succeeds.
UntilItSucceeds(p) == filler.tried

TriedToo(p) == filler.tried \cup {p}

Add ==
  /\ filler.pc = "adding"
  /\ IF Pending = {}
     THEN filler' = [filler EXCEPT !.pc = "off"] /\ UNCHANGED queueVars
     ELSE \E p \in Pending :
            LET j == [paper |-> p, n |-> Cardinality(Renders(p)) + 1]
            IN  /\ Enqueue({j}, "queued")
                /\ filler' = [filler EXCEPT !.pc = "waiting", !.tried = TriedToo(p), !.job = j]
  /\ UNCHANGED <<old, losses>>

\* Its own run is over, one way or the other: a failed one leaves the page as it was.
PollRun ==
  /\ filler.pc = "waiting" /\ jobs[filler.job] \in Outcome
  /\ filler' = [filler EXCEPT !.pc = "looking", !.job = Nobody]
  /\ UNCHANGED <<queueVars, old, losses>>

\* The limit is reached, the operator presses Ctrl-C, the connection to the server is gone.
Interrupt ==
  /\ filler.pc # "off"
  /\ filler' = [Off EXCEPT !.starts = filler.starts]
  /\ UNCHANGED <<queueVars, old, losses>>

Works(w) == Execute(w) /\ UNCHANGED <<old, filler, losses>>

Dies(w) ==
  /\ losses < MaxLosses /\ losses' = losses + 1
  /\ Lose(w) /\ UNCHANGED <<old, filler>>

BackfillNext ==
  \/ \E j \in Other : Arrives(j)
  \/ \E w \in Executor : Works(w) \/ Dies(w)
  \/ Start \/ Look \/ Add \/ PollRun \/ Interrupt

BackfillSpec == BackfillInit /\ [][BackfillNext]_backfillVars

\* The queue moves and the backfill's loop polls.  That it gets its turn rests on the
\* students' runs being bounded here: a queue that is never idle keeps it waiting.
BackfillFairness ==
  (\A w \in Executor : WF_backfillVars(Works(w))) /\ WF_backfillVars(Look \/ Add \/ PollRun)

-----------------------------------------------------------------------------
(* Properties.                                                             *)

\* trickle's reason to be: however often it is interrupted and started again, a run that
\* arrives finds at most one re-render in its way.
OneInTheWay == Cardinality(LiveJobs \cap Rerender) <= 1

\* "It is resumable": no page is made again once it was made with its code, whoever
\* stopped the backfill while its run was still queued or executing.
NotTwice == \A p \in Paper : Cardinality({j \in Renders(p) : jobs[j] # "failed"}) <= 1

\* The backfill makes one page at a time, and each page once, when one worker serves the
\* queue, as docker-compose.yml starts it: of two, one that starts again may put a render
\* back that the other has recorded, and of two that execute one the second may fail it.
OneAtATime == Cardinality(Executor) = 1 => OneInTheWay /\ NotTwice

\* A backfill that is started comes to an end, a render that fails every time included.
BackfillEnds == filler.pc # "off" ~> filler.pc = "off"
=============================================================================
