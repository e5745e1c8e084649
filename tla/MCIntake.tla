------------------------------- MODULE MCIntake -------------------------------
(* The schedules and submitters the runs of Intake start from, and two     *)
(* scenes that share the bounds: in one nobody watches the page; in the    *)
(* other somebody does, and the widget's cell is not re-run, no time       *)
(* passes and no token expires.  What a scene leaves out is nothing        *)
(* fairness asks for.                                                      *)
EXTENDS Intake

VARIABLE scene

Unwatched == Next /\ ~page'.linked
Watched ==
  Next /\ clock' = clock /\ widget'.view = widget.view /\ (token' = "expired" => token = "expired")

SceneInit == Init /\ scene \in {"widget", "page"}
SceneNext ==
  /\ UNCHANGED scene
  /\ \/ scene = "widget" /\ Unwatched
     \/ scene = "page" /\ Watched
SceneSpec == SceneInit /\ [][SceneNext]_<<vars, scene>> /\ Fairness

\* A schedule that closes while requests are on their way, and one without dates.
Undated == [release_at |-> None, due_at |-> None, close_at |-> None,
            visibility |-> "public", late_policy |-> "accept",
            attempts_allowed |-> None]
ClosingOrLimited == {[Undated EXCEPT !.close_at = 1], [Undated EXCEPT !.attempts_allowed = 1]}
Unlimited == {Undated}

StudentOnly == {[role |-> "student", preview |-> FALSE]}
=============================================================================
