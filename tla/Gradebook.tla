------------------------------- MODULE Gradebook -------------------------------
(***************************************************************************)
(* One student's history on one question as it grows: attempts are added   *)
(* and score rows are inserted, nothing is ever changed or deleted.  The   *)
(* module is the setting in which the rules of GradePolicy are compared    *)
(* with the loops they are written as in the code (one of them twice, in   *)
(* services/grades.py and in services/progress.py), and in which what the  *)
(* rules promise a student over time is stated.                            *)
(***************************************************************************)
EXTENDS GradePolicy, FiniteSets

CONSTANTS
  AutoPoints, ManualPoints,     \* the points a row may have, None for NULL
  MaxAttempts,                  \* bound: attempts
  MaxRows                       \* bound: score rows of all the attempts

ASSUME NoneIsNoScore == None \notin Nat /\ None \notin Score
ASSUME PointsAssumption == AutoPoints \subseteq PointsOrNone /\ ManualPoints \subseteq PointsOrNone
ASSUME LimitAssumption == MaxAttempts \in Nat /\ MaxRows \in Nat

VARIABLES history, count        \* the rows of each attempt; the rows inserted so far

Init == history = <<>> /\ count = 0

\* POST /submissions
NewAttempt ==
  /\ Len(history) < MaxAttempts
  /\ history' = Append(history, {})
  /\ UNCHANGED count

\* A Score row of attempt k, by the worker or by a grader.
AddScore(k, auto, manual, final) ==
  /\ count < MaxRows
  /\ history' = [history EXCEPT ![k] =
       @ \cup {[auto |-> auto, manual |-> manual, final |-> final, at |-> count + 1, by |-> "staff"]}]
  /\ count' = count + 1

Next ==
  \/ NewAttempt
  \/ \E k \in DOMAIN history, auto \in AutoPoints, manual \in ManualPoints, final \in BOOLEAN :
       AddScore(k, auto, manual, final)

Spec == Init /\ [][Next]_<<history, count>>

-----------------------------------------------------------------------------
(* The rules as the code computes them.                                    *)

\* ORDER BY graded_at: the rows as a sequence, the oldest first.
ByGradedAt(rows) ==
  CHOOSE s \in [1..Cardinality(rows) -> rows] :
    /\ \A x \in rows : \E i \in DOMAIN s : s[i] = x
    /\ \A i, j \in DOMAIN s : i < j => s[i].at < s[j].at

\* final_score(): the rows from the newest on, the first final one returned, the
\* newest when the loop ends. scan[k] is what it returns with k rows to look at.
ScanFinalScore(rows) ==
  LET s == ByGradedAt(rows)
      n == Cardinality(rows)
      scan[k \in 0..n] ==
        IF k = 0 THEN IF n = 0 THEN None ELSE s[n]
        ELSE IF s[k].final THEN s[k] ELSE scan[k - 1]
  IN  scan[n]

\* progress.compute(): two dictionaries overwritten from the oldest row on.
\* dict[k] is their entries for the attempt after k rows.
DictScore(rows) ==
  LET s == ByGradedAt(rows)
      n == Cardinality(rows)
      dict[k \in 0..n] ==
        IF k = 0 THEN [newest |-> None, newest_final |-> None]
        ELSE [newest |-> s[k],
              newest_final |-> IF s[k].final THEN s[k] ELSE dict[k - 1].newest_final]
  IN  IF dict[n].newest_final # None THEN dict[n].newest_final ELSE dict[n].newest

\* pick_attempt() under "highest": the best of the first k attempts, in order.
LoopHighest ==
  LET n == Len(history)
      best[k \in 0..n] ==
        IF k = 0 THEN [attempt |-> 0, score |-> None]
        ELSE LET sc == ScanFinalScore(history[k])
             IN  IF sc # None /\ (best[k - 1].score = None \/ Total(sc) > Total(best[k - 1].score))
                 THEN [attempt |-> k, score |-> sc] ELSE best[k - 1]
  IN  IF best[n].attempt # 0 THEN best[n] ELSE [attempt |-> n, score |-> None]

Points(policy) == OfficialPoints(PickAttempt(history, policy, 0))

-----------------------------------------------------------------------------
(* Properties.                                                             *)

\* The gradebook and the progress page read the same score of every attempt,
\* though one scans the rows from the newest and the other overwrites from the
\* oldest.
OneScorePerAttempt ==
  \A k \in DOMAIN history :
    /\ FinalScore(history[k]) = ScanFinalScore(history[k])
    /\ FinalScore(history[k]) = DictScore(history[k])

\* "highest" is the loop over the attempts: the earliest of the best attempts
\* counts, and the latest when none has a score.
HighestIsTheLoop ==
  history # <<>> => PickAttempt(history, "highest", 0) = LoopHighest

\* The sets and choices of GradePolicy compute what the loops of the code do.
RulesAreTheLoops == OneScorePerAttempt /\ HighestIsTheLoop

\* Under "highest" a student never has fewer points than under another policy.
HighestDominates ==
  \A policy \in {"latest", "first", "selected"} :
    Points(policy) # None => Points("highest") # None /\ Points("highest") >= Points(policy)

\* Handing in once more never changes the points under "highest" or "first": it
\* takes a score to do that. (Under "latest" it withdraws them.)
AnotherAttemptIsFree ==
  [][NewAttempt /\ history # <<>> =>
       /\ Points("highest")' = Points("highest")
       /\ Points("first")' = Points("first")]_<<history, count>>

=============================================================================
