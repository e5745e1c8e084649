------------------------------ MODULE Classroom ------------------------------
(***************************************************************************)
(* What a class comes to: the staff pages, the student's own overview and  *)
(* the Canvas export over the attempts of several students on the          *)
(* questions of one assignment (api/grading.py, services/progress.py,      *)
(* services/canvas_export.py).  Each page reads the same tables in a way   *)
(* of its own; the properties relate what they say.                        *)
(*                                                                         *)
(* Here a handler, and a run from its start to its end, is one step: what  *)
(* overlapping ones do to one question is the subject of Pipeline.         *)
(***************************************************************************)
EXTENDS GradePolicy, FiniteSets, FiniteSetsExt

CONSTANTS
  Student, Question,
  Setup,          \* assignments: [autograde, policy, mode of each question]
  AutoMax,        \* points the grader may give a question not graded by hand alone
  HandMax,        \* points a person may give
  ListMax,        \* failed attempts triage lists (500)
  MaxTries,       \* bound: attempts on a question
  MaxActs         \* bound: submissions, scores, retries, exports, changes of roster and questions

ASSUME ClassAssumption ==
  /\ {AutoMax, HandMax, ListMax, MaxTries, MaxActs} \subseteq Nat
  /\ IsFiniteSet(Student) /\ IsFiniteSet(Question)

VARIABLES
  setup,
  tries,          \* of each student on each question: the attempts, oldest first
  official,       \* QuestionGrade.points; None also when there is no row
  enrolled,       \* the active students
  active,         \* the questions the newest version has (Question.active)
  canvas,         \* the points in the instructor's Canvas gradebook, last downloaded
  reopened,       \* attempts retried when a person had settled them already
  acts            \* events so far, and whether the last one was an export

classVars == <<setup, tries, official, enrolled, active, canvas, reopened, acts>>

ClassInit ==
  /\ setup \in Setup
  /\ tries = [e \in Student |-> [q \in Question |-> <<>>]]
  /\ official = [e \in Student |-> [q \in Question |-> None]]
  /\ enrolled = Student /\ active = Question
  /\ canvas = [e \in Student |-> None]
  /\ reopened = {}
  /\ acts = [all |-> 0, exported |-> FALSE]

Happened(n, export) == acts' = [all |-> acts.all + n, exported |-> export]
Bounded == acts.all < MaxActs /\ Happened(1, FALSE)

Attempts == {x \in Student \X Question \X (1..MaxTries) : x[3] \in DOMAIN tries[x[1]][x[2]]}

\* An attempt as it arrives, later than all there are: an autograde run is queued unless
\* autograding is off.
Arrived == [status |-> "received", rows |-> {}, queued |-> IF setup.autograde THEN 1 ELSE 0,
            running |-> 0, since |-> Cardinality(Attempts)]

Try(x) == tries[x[1]][x[2]][x[3]]
WithTry(x, new) == [tries EXCEPT ![x[1]][x[2]][x[3]] = new]
RowsOf(seq) == [k \in DOMAIN seq |-> seq[k].rows]

\* Mistake: the attempt just scored becomes the official one.
OfTheScored(x, new) == [official EXCEPT ![x[1]][x[2]] = Total(FinalScore(new[x[1]][x[2]][x[3]].rows))]

\* recompute_question_grade after attempt x got a row.
Recomputed(x, new) ==
  [official EXCEPT ![x[1]][x[2]] =
     OfficialPoints(PickAttempt(RowsOf(new[x[1]][x[2]]), setup.policy, 0))]

-----------------------------------------------------------------------------
(* What happens.                                                           *)

\* A copy opened before the question was left out may still hand in an answer to it.
ClassSubmit(e, q) ==
  /\ Bounded /\ e \in enrolled /\ Len(tries[e][q]) < MaxTries
  /\ tries' = [tries EXCEPT ![e][q] = Append(@, Arrived)]
  /\ UNCHANGED <<setup, official, enrolled, active, canvas, reopened>>

ClassClaim(x) ==
  /\ Try(x).queued > 0 /\ \A y \in Attempts : Try(y).running = 0
  /\ tries' = WithTry(x, [Try(x) EXCEPT !.queued = @ - 1, !.running = 1])
  /\ Happened(0, FALSE) /\ UNCHANGED <<setup, official, enrolled, active, canvas, reopened>>

CarriedOver(rows) ==
  LET prev == LatestFinal(rows) IN IF prev = None THEN None ELSE prev.manual

\* do_autograde succeeds.
ClassGraded(x, auto) ==
  LET t == Try(x)
      mode == setup.mode[x[2]]
      row == [auto |-> auto, manual |-> CarriedOver(t.rows),
              final |-> mode = "auto" \/ FinalRows(t.rows) # {},
              at |-> Cardinality(t.rows) + 1, by |-> "worker"]
      new == WithTry(x, [t EXCEPT !.running = 0, !.rows = @ \cup {row},
                                  !.status = IF mode = "auto" THEN "graded" ELSE @])
  IN  /\ t.running = 1 /\ Happened(0, FALSE)
      /\ auto \in 0..(IF mode = "manual" THEN 0 ELSE AutoMax)
      /\ tries' = new /\ official' = Recomputed(x, new)
      /\ UNCHANGED <<setup, enrolled, active, canvas, reopened>>

ClassGradeFails(x) ==
  /\ Try(x).running = 1 /\ Happened(0, FALSE)
  /\ tries' = WithTry(x, [Try(x) EXCEPT !.running = 0, !.status = "failed"])
  /\ UNCHANGED <<setup, official, enrolled, active, canvas, reopened>>

\* score_submission; the final score of an attempt being graded waits for its row.
ClassScore(x, manual, final) ==
  LET t == Try(x)
      prev == FinalScore(t.rows)
      row == [auto |-> IF prev = None THEN None ELSE prev.auto, manual |-> manual, final |-> final,
              at |-> Cardinality(t.rows) + 1, by |-> "staff"]
      new == WithTry(x, [t EXCEPT !.rows = @ \cup {row},
                                  !.status = IF final /\ @ # "failed" THEN "graded" ELSE @])
  IN  /\ Bounded /\ manual <= (IF setup.mode[x[2]] = "auto" THEN 0 ELSE HandMax)
      /\ final /\ t.status = "received" => t.running = 0
      /\ tries' = new /\ official' = Recomputed(x, new)
      /\ UNCHANGED <<setup, enrolled, active, canvas, reopened>>

\* _requeue: an attempt that is being graded waits for its row, unless it is already
\* what it is set to.
Requeue(xs) ==
  /\ Bounded /\ \A x \in xs : Try(x).status # "received" => Try(x).running = 0
  /\ tries' = [e \in Student |-> [q \in Question |-> [k \in DOMAIN tries[e][q] |->
       IF <<e, q, k>> \in xs
       THEN [tries[e][q][k] EXCEPT !.status = "received", !.queued = @ + 1]
       ELSE tries[e][q][k]]]]
  /\ reopened' = reopened \cup {x \in xs : setup.mode[x[2]] # "auto" /\ FinalRows(Try(x).rows) # {}}
  /\ UNCHANGED <<setup, official, enrolled, active, canvas>>

\* retry_many: of the attempts on the page, those that are still failed.
StillFailed == {x \in Attempts : Try(x).status = "failed"}
RetryMany(xs) == xs # {} /\ Requeue(xs)

\* drop_enrollment, and the roster import that brings a student back.
ClassDrop(e) ==
  /\ Bounded /\ enrolled' = IF e \in enrolled THEN enrolled \ {e} ELSE enrolled \cup {e}
  /\ UNCHANGED <<setup, tries, official, active, canvas, reopened>>

\* publish with other questions than before: what is not sent is inactive, what is sent
\* again active once more.
ClassRepublish(qs) ==
  /\ Bounded /\ qs # active /\ active' = qs
  /\ UNCHANGED <<setup, tries, official, enrolled, canvas, reopened>>

-----------------------------------------------------------------------------
(* The pages.                                                              *)

Tried(e, q) == tries[e][q] # <<>>
LatestTry(e, q) == tries[e][q][Len(tries[e][q])]
LatestStatusOf(e, q) == IF Tried(e, q) THEN LatestTry(e, q).status ELSE "none"
LatestScoreOf(e, q) == IF Tried(e, q) THEN FinalScore(LatestTry(e, q).rows) ELSE None

\* Mistake: whatever has a score has been read.
AwaitingUnscored ==
  {p \in enrolled \X active :
     Tried(p[1], p[2]) /\ setup.mode[p[2]] # "auto" /\ LatestScoreOf(p[1], p[2]) = None}

\* triage: the (student, question) pairs counted as awaiting a grade, of the active questions.
Awaiting ==
  {p \in enrolled \X active :
     Tried(p[1], p[2]) /\ NeedsManual(setup.mode[p[2]], LatestScoreOf(p[1], p[2]))}

\* triage: the failed attempts, active question or not and not the latest alone; the newest
\* ListMax of them are listed.
Failures == {x \in Attempts : x[1] \in enrolled /\ Try(x).status = "failed"}
FailedList == {x \in Failures : Cardinality({y \in Failures : Try(y).since > Try(x).since}) < ListMax}

\* grid: the points a cell shows, None when it shows a word or there is no such column.
GridPoints(e, q) ==
  IF q \in active /\ CellState(LatestStatusOf(e, q), LatestScoreOf(e, q)) = "graded"
  THEN Total(LatestScoreOf(e, q)) ELSE None

\* progress.compute: a mark, and the most pressing mark of a student.
ByHandOf(q) == setup.mode[q] # "auto" \/ ~setup.autograde
Mark(e, q) == ProgressState(LatestStatusOf(e, q), LatestScoreOf(e, q), ByHandOf(q))
Urgency == [waiting |-> 0, failed |-> 1, running |-> 2, graded |-> 3]
Marks(e) == {Mark(e, q) : q \in active} \ {"none"}
Pressing(e) == CHOOSE m \in Marks(e) : \A n \in Marks(e) : Urgency[m] <= Urgency[n]

Averaged(e) == Marks(e) # {} /\ Pressing(e) = "graded"
Earned(e) == MapThenSumSet(LAMBDA q : PointsOf(official[e][q]), active)

\* my_overview, and a cell of the export's column.
OverviewPoints(e) == IF \A q \in active : official[e][q] = None THEN None ELSE Earned(e)

\* The export fills the rows of Canvas' own download: a student without points keeps what
\* the row had.
Export ==
  /\ acts.all < MaxActs /\ ~acts.exported /\ Happened(1, TRUE)
  /\ canvas' = [e \in Student |-> IF e \in enrolled /\ OverviewPoints(e) # None
                                  THEN OverviewPoints(e) ELSE canvas[e]]
  /\ UNCHANGED <<setup, tries, official, enrolled, active, reopened>>

\* retry_status
RetryState(x) ==
  LET t == Try(x)
  IN  IF t.running > 0 THEN "running" ELSE IF t.queued > 0 THEN "queued"
      ELSE IF t.status \in {"failed", "graded"} THEN t.status ELSE "waiting_for_grade"

-----------------------------------------------------------------------------
ClassNext ==
  \/ \E e \in Student : ClassDrop(e) \/ \E q \in Question : ClassSubmit(e, q)
  \/ \E x \in Attempts :
       \/ ClassClaim(x) \/ ClassGradeFails(x) \/ Requeue({x})
       \/ \E auto \in 0..AutoMax : ClassGraded(x, auto)
       \/ \E manual \in 0..HandMax, final \in BOOLEAN : ClassScore(x, manual, final)
  \/ \E xs \in SUBSET StillFailed : RetryMany(xs)
  \/ \E qs \in SUBSET Question : ClassRepublish(qs)
  \/ Export

ClassSpec == ClassInit /\ [][ClassNext]_classVars

-----------------------------------------------------------------------------
(* Properties.                                                             *)

\* The tables hold what they may; no re-run gives more points by hand than a person may,
\* and one run executes at a time.
ClassTypeOK ==
  /\ setup \in Setup /\ enrolled \subseteq Student /\ active \subseteq Question
  /\ reopened \subseteq Attempts
  /\ official \in [Student -> [Question -> PointsOrNone]] /\ canvas \in [Student -> PointsOrNone]
  /\ Cardinality({x \in Attempts : Try(x).running > 0}) <= 1
  /\ \A x \in Attempts :
       /\ Try(x).status \in {"received", "graded", "failed"}
       /\ \A row \in Try(x).rows : row \in Score /\ row.manual \in {None} \cup 0..HandMax

\* The latest attempt of every active student on an active question is on somebody's desk or
\* done.  What retry_status calls graded shows points in the grid, what it calls failed shows
\* none and is listed under "needs attention" as long as no more attempts have failed than
\* triage lists, and what waits for a person is counted by triage; but for two cases: an
\* attempt retried after its hand grade was final, and a question of mode auto of an
\* assignment with autograding off.  An attempt on a question left out of the newest version
\* waits unseen, but a failed one is listed as any other.
NobodyForgotten ==
  /\ ClassTypeOK
  /\ \A e \in enrolled, q \in Question : Tried(e, q) =>
       LET x == <<e, q, Len(tries[e][q])>>
           state == RetryState(x)
       IN  /\ state = "graded" /\ q \in active => GridPoints(e, q) # None
           /\ state = "failed" =>
                /\ GridPoints(e, q) = None
                /\ x \in FailedList \/ Cardinality(Failures) > ListMax
           /\ state = "waiting_for_grade" /\ q \in active =>
                \/ <<e, q>> \in Awaiting
                \/ x \in reopened
                \/ setup.mode[q] = "auto" /\ ~setup.autograde

\* The points of a student the class average takes in are those of the student's own
\* overview and, in a fresh export, of Canvas; under "latest" they are the points of the
\* grid's cells and under "highest" no fewer.  Under "first" a failed first attempt leaves
\* the question without points that the average takes for zero.
AverageAgrees ==
  \A e \in enrolled : Averaged(e) /\ setup.policy # "first" =>
    /\ OverviewPoints(e) = Earned(e)
    /\ acts.exported => canvas[e] = Earned(e)
    /\ \A q \in active : Tried(e, q) =>
         /\ official[e][q] # None /\ GridPoints(e, q) # None
         /\ setup.policy = "latest" => official[e][q] = GridPoints(e, q)
         /\ official[e][q] >= GridPoints(e, q)
=============================================================================
