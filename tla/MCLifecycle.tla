----------------------------- MODULE MCLifecycle -----------------------------
(***************************************************************************)
(* The life of one attempt from its arrival to its page and its score, and *)
(* the backfill over the abstract queue.  They share no state, so a        *)
(* behaviour of this instance exercises one of the two.                    *)
(***************************************************************************)
EXTENDS MCPipeline, Backfill

VARIABLE scene

MCvars == <<vars, backfillVars, scene>>

MCJob == Rerender \cup Other

MCInit ==
  /\ Init /\ BackfillInit /\ scene \in {"pipeline", "backfill"}
  /\ scene = "pipeline" => old = {}

MCNext ==
  \/ scene = "pipeline" /\ Next /\ UNCHANGED <<backfillVars, scene>>
  \/ scene = "backfill" /\ BackfillNext /\ UNCHANGED <<vars, scene>>

\* In either scene the processes of the other have nothing to do.
MCFairSpec == MCInit /\ [][MCNext]_MCvars /\ Fairness /\ BackfillFairness
=============================================================================
