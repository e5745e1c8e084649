------------------------------ MODULE GradeRaces ------------------------------
(***************************************************************************)
(* What students and staff read of the pipeline's work, and the one race   *)
(* that spoils it: two transactions that have both recomputed the grade of *)
(* one student and not committed it (services/grades.py).  `raced`         *)
(* remembers whether there were ever two; it changes nothing else.         *)
(***************************************************************************)
EXTENDS Pipeline

VARIABLE raced

watched == <<vars, raced>>

\* Transaction p has read its student's history and holds the grade it will write.
Recomputed(p) == proc[p].pc = "scored" /\ proc[p].grade # None

TwoRecomputed ==
  \E p, q \in Proc : /\ p # q /\ Recomputed(p) /\ Recomputed(q)
                     /\ proc[p].sub[1] = proc[q].sub[1]

Watch == raced' = (raced \/ TwoRecomputed')

WatchedInit == Init /\ raced = FALSE
WatchedSpec == WatchedInit /\ [][Next /\ Watch]_watched

-----------------------------------------------------------------------------
(* Properties.                                                             *)

IsTotalOf(points, rows) == \E x \in rows : Total(x) = points

\* Official points are always the total of a committed score of some attempt of that
\* student, and of the attempt the grade row names unless two recomputations crossed: work
\* rolled back never reaches the gradebook, and one row never mixes two attempts.
GradeIsACommittedScore ==
  \A e \in Enrollment : grades[e] # None /\ grades[e].points # None =>
    /\ \E k \in Attempt : IsTotalOf(grades[e].points, scores[<<e, k>>])
    /\ ~raced => IsTotalOf(grades[e].points, scores[<<e, grades[e].attempt>>])

\* Once all attempts of a student are graded and nothing is in flight, the gradebook holds
\* what the grade policy says of them, if the policy stayed and no two recomputations of
\* a student's grade crossed: however many workers and graders there are, and whatever
\* attempts, retries, failures and deaths come in between.
FollowsPolicyUnlessRaced == ~raced /\ used.patches = 0 => SettledGradeFollowsPolicy

\* What students and staff read is right: the official grade follows the policy, a staff
\* attempt has none the worker gave it, and grid, progress and queue tell one story of
\* every question that is not a receipt.
GradebookIsRight ==
  FollowsPolicyUnlessRaced /\ TestGradesOnlyByHand /\ (~Receipt => ViewsAgree)
=============================================================================
