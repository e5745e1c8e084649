----------------------------- MODULE GradePolicy -----------------------------
(***************************************************************************)
(* Pure rules of the gradebook: which score row of an attempt counts,      *)
(* which attempt counts for the question, and what the staff views say of  *)
(* an attempt (services/grades.py, services/progress.py, api/grading.py).  *)
(*                                                                         *)
(* The score rows of one attempt are a set of records                      *)
(*   [auto, manual, final, at, by]                                         *)
(* where `at` orders them as Score.graded_at does and is unique within an  *)
(* attempt, and `by` is "worker" or "staff" (grader_user_id unset or set). *)
(***************************************************************************)
EXTENDS Naturals, Sequences

CONSTANT None      \* the absent value: NULL points, no score row, no attempt

\* A row of the table scores.
PointsOrNone == Nat \cup {None}
Score == [auto : PointsOrNone, manual : PointsOrNone, final : BOOLEAN,
          at : Nat, by : {"worker", "staff"}]

\* Points of one part of a score; NULL counts as zero.
PointsOf(p) == IF p = None THEN 0 ELSE p

\* Score.total
Total(sc) == PointsOf(sc.auto) + PointsOf(sc.manual)

\* The row with the greatest graded_at of a nonempty set of rows.
Newest(rows) == CHOOSE x \in rows : \A y \in rows : y.at <= x.at

FinalRows(rows) == {x \in rows : x.final}

\* The newest final row, or None: what the worker carries over (worker/main.py).
LatestFinal(rows) == IF FinalRows(rows) = {} THEN None ELSE Newest(FinalRows(rows))

\* services/grades.final_score: the newest final row, else the newest of any kind.
FinalScore(rows) ==
  IF FinalRows(rows) # {} THEN Newest(FinalRows(rows))
  ELSE IF rows # {} THEN Newest(rows)
  ELSE None

-----------------------------------------------------------------------------
\* `history` is the sequence of the attempts' row sets, in attempt_no order.

Scored(history) == {k \in DOMAIN history : FinalScore(history[k]) # None}

\* Mistakes: a later attempt wins with an equal total; the hand-entered points are
\* left out of the comparison.
LastHighest(history) ==
  CHOOSE k \in Scored(history) :
    \A j \in Scored(history) :
      LET tj == Total(FinalScore(history[j]))
          tk == Total(FinalScore(history[k]))
      IN  tj < tk \/ (tj = tk /\ j <= k)
HighestAuto(history) ==
  CHOOSE k \in Scored(history) :
    \A j \in Scored(history) :
      PointsOf(FinalScore(history[j]).auto) <= PointsOf(FinalScore(history[k]).auto)

\* The policy "highest": a later attempt wins only with a strictly higher total.
HighestAttempt(history) ==
  CHOOSE k \in Scored(history) :
    \A j \in Scored(history) :
      LET tj == Total(FinalScore(history[j]))
          tk == Total(FinalScore(history[k]))
      IN  tj < tk \/ (tj = tk /\ k <= j)

\* Mistake: under "highest" an attempt without a score counts as one with no points.
CountedBeforeScored(history, policy, pinned) ==
  IF pinned # 0 THEN pinned
  ELSE IF Len(history) = 0 THEN 0
  ELSE IF policy = "first" THEN 1
  ELSE IF policy = "highest" /\ \E k \in Scored(history) : Total(FinalScore(history[k])) > 0
       THEN HighestAttempt(history)
  ELSE Len(history)

\* The attempt the policy counts (0 when there is none); `pinned` is an attempt
\* number, or 0 for a question grade that is not pinned.
CountedAttempt(history, policy, pinned) ==
  IF pinned # 0 THEN pinned
  ELSE IF Len(history) = 0 THEN 0
  ELSE IF policy = "first" THEN 1
  ELSE IF policy = "highest" /\ Scored(history) # {} THEN HighestAttempt(history)
  ELSE Len(history)

\* services/grades.pick_attempt
PickAttempt(history, policy, pinned) ==
  LET k == CountedAttempt(history, policy, pinned)
  IN  [attempt |-> k, score |-> IF k = 0 THEN None ELSE FinalScore(history[k])]

\* The official points of a pick: NULL until the counted attempt has a score.
OfficialPoints(pick) == IF pick.score = None THEN None ELSE Total(pick.score)

-----------------------------------------------------------------------------
\* What the staff views say of the latest attempt. `status` is its status, or
\* "none" when there is no attempt; `sc` is its FinalScore.

\* A cell of the class grid (services/grades.cell_state).
CellState(status, sc) ==
  IF status \in {"none", "failed"} THEN status
  ELSE IF sc = None \/ status \in {"received", "grading"} THEN "submitted"
  ELSE "graded"

\* A mark of the class progress (services/progress._state).
ProgressState(status, sc, by_hand) ==
  IF status \in {"none", "failed"} THEN status
  ELSE IF by_hand /\ (sc = None \/ ~sc.final) THEN "waiting"
  ELSE IF sc = None \/ status \in {"received", "grading"} THEN "running"
  ELSE "graded"

\* Whether the attempt is in the hand-grading queue (api/grading._needs_manual).
NeedsManual(mode, sc) == mode # "auto" /\ (sc = None \/ ~sc.final)
=============================================================================
