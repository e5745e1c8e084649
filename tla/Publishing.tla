---------------------------- MODULE Publishing ----------------------------
(***************************************************************************)
(* One assignment as its instructors edit it (api/offerings.py,            *)
(* services/notebook_submission.py, services/student_copy.py): it is       *)
(* created, its settings patched, rubrics put, versions previewed and      *)
(* published, by several instructors at once.                              *)
(*                                                                         *)
(* A handler loads what it needs in Begin and writes in Commit only the    *)
(* columns it changed; the database's unique constraints hold at Commit.   *)
(* Titles, orders and dates are left out; a rubric is the sum of its items *)
(* and an auto-graded question one without manual points.                  *)
(***************************************************************************)
EXTENDS Naturals, Sequences

CONSTANTS
  None,
  Qid,            \* question ids an instructor's notebook may use
  Notebook,       \* the id reserved for whole-notebook submission
  Upload,         \* what an instructor may upload: the marks it gives, and whether
                  \* its student copy would still show a solution
  Point,          \* values of notebook_points, and of a rubric
  Instructor,
  MaxRequests     \* bound: requests begun

Mark == [max : Nat, manual : Nat]

ASSUME UploadAssumption ==
  /\ \A u \in Upload :
       /\ u = [marks |-> u.marks, leaks |-> u.leaks]
       /\ u.leaks \in BOOLEAN
       /\ DOMAIN u.marks \subseteq Qid \cup {Notebook}
       /\ u.marks \in [DOMAIN u.marks -> Mark]
  /\ Notebook \notin Qid
ASSUME PointAssumption == Point \subseteq Nat /\ None \notin Point
ASSUME BoundAssumption == MaxRequests \in Nat

VARIABLES
  assignment,   \* None, or its settings, its questions, its versions in order
  request,      \* what each instructor's request in flight does and has loaded
  told,         \* the last preview shown to each instructor, while nothing changed since
  overlap,      \* a request that had loaded before another's commit has committed too
  begun         \* requests begun

vars == <<assignment, request, told, overlap, begun>>

Setting == [notebook : BOOLEAN, points : Point]
Body == [notebook : BOOLEAN \cup {None}, points : Point \cup {None}]   \* None: not sent
Question == [max : Nat, manual : Nat, active : BOOLEAN, rubric : Point \cup {None}]

Op ==
  [kind : {"create"}, body : Setting]
  \cup [kind : {"patch"}, body : Body]
  \cup [kind : {"rubric"}, q : Qid \cup {Notebook}, total : Point \cup {None}]
  \cup [kind : {"publish"}, u : Upload]

Assignment ==
  [settings : Setting, questions : [Qid \cup {Notebook} -> Question \cup {None}], versions : Seq(Upload)]

\* What a preview says, and to which upload; None when it refuses.
Answer == [unchanged : BOOLEAN, version : Nat, added : SUBSET Qid, removed : SUBSET Qid]
Told == [u : Upload, answer : Answer \cup {None}]

ASSUME NoneAssumption ==
  None \notin Question /\ None \notin Assignment /\ None \notin Op /\ None \notin Answer /\ None \notin Told

Idle == [op |-> None, seen |-> None, expect |-> None, stale |-> FALSE]

Init ==
  /\ assignment = None
  /\ request = [i \in Instructor |-> Idle]
  /\ told = [i \in Instructor |-> None]
  /\ overlap = FALSE
  /\ begun = 0

-----------------------------------------------------------------------------
(* The handlers, each as a function of the assignment `a` it has loaded    *)
(* to what it leaves; Refused when it answers 4xx.                         *)

Refused == None

\* notebook_submission.sync: the whole-notebook question follows the settings.
Sync(a) ==
  LET q == a.questions[Notebook]
      worth == [max |-> a.settings.points, manual |-> a.settings.points, active |-> TRUE,
                rubric |-> IF q = None THEN None ELSE q.rubric]
  IN  [a EXCEPT !.questions[Notebook] =
         IF a.settings.notebook THEN worth
         ELSE IF q = None THEN None ELSE [q EXCEPT !.active = FALSE]]

\* create_assignment.
Create(s) ==
  Sync([settings |-> s, questions |-> [q \in Qid \cup {Notebook} |-> None], versions |-> <<>>])

Merged(s, body) ==
  [k \in {"notebook", "points"} |-> IF body[k] = None THEN s[k] ELSE body[k]]

\* "points_set_by_rubric".
AgainstRubric(a, s) ==
  LET q == a.questions[Notebook]
  IN  q # None /\ q.rubric # None /\ s.notebook /\ s.points # q.rubric

\* patch_assignment.
Patch(a, body) ==
  LET s == Merged(a.settings, body)
  IN  IF AgainstRubric(a, s) THEN Refused ELSE Sync([a EXCEPT !.settings = s])

\* put_rubric: total None is the empty list, which removes the rubric. The notebook
\* question takes its points from it, any other must have the manual points.
PutRubric(a, q, total) ==
  IF a.questions[q] = None \/ (q # Notebook /\ total # None /\ total > a.questions[q].manual)
  THEN Refused
  ELSE LET b == [a EXCEPT !.questions[q].rubric = total]
       IN  IF q = Notebook /\ total # None THEN Sync([b EXCEPT !.settings.points = total]) ELSE b

\* generate_student and leaked_markers.
Builds(u) == ~u.leaks

\* _check_questions.
ChecksOut(a, u) ==
  /\ Notebook \notin DOMAIN u.marks
  /\ DOMAIN u.marks # {} \/ a.settings.notebook

Acceptable(a, u) == Builds(u) /\ ChecksOut(a, u)

Latest(a) == a.versions[Len(a.versions)]

\* _fingerprint: the notebook and the structure of its questions.
Unchanged(a, u) == a.versions # <<>> /\ Latest(a) = u

Deactivated(q) == [q EXCEPT !.active = FALSE]

\* The upsert by qid: what the upload marks is active with its points, the rest is not.
Upserted(a, u) ==
  [q \in Qid \cup {Notebook} |->
     LET old == a.questions[q]
     IN  IF q \in DOMAIN u.marks
         THEN [max |-> u.marks[q].max, manual |-> u.marks[q].manual, active |-> TRUE,
               rubric |-> IF old = None THEN None ELSE old.rubric]
         ELSE IF old = None THEN None ELSE Deactivated(old)]

\* Mistake: the questions are left as the upsert made them.
NoSync(a) == a

SyncAfterPublish(a) == Sync(a)

\* _publish: the version after the last one that was loaded.
Publish(a, u) ==
  IF ~Acceptable(a, u) THEN Refused
  ELSE IF Unchanged(a, u) THEN a
  ELSE SyncAfterPublish([a EXCEPT !.questions = Upserted(a, u), !.versions = Append(@, u)])

Live(a) == {q \in Qid : a.questions[q] # None /\ a.questions[q].active}

Forecast(a, u) ==
  [unchanged |-> Unchanged(a, u),
   version |-> IF Unchanged(a, u) THEN Len(a.versions) ELSE Len(a.versions) + 1,
   added |-> DOMAIN u.marks \ Live(a), removed |-> Live(a) \ DOMAIN u.marks]

\* Mistake: the preview builds the student copy, and does not check the questions.
PreviewUnchecked(a, u) == IF Builds(u) THEN Forecast(a, u) ELSE Refused

\* preview_version.
Preview(a, u) == IF Acceptable(a, u) THEN Forecast(a, u) ELSE Refused

\* What an operation makes of the assignment it has loaded.
Outcome(op, a) ==
  CASE op.kind = "create" -> Create(op.body)
    [] op.kind = "patch" -> Patch(a, op.body)
    [] op.kind = "rubric" -> PutRubric(a, op.q, op.total)
    [] op.kind = "publish" -> Publish(a, op.u)

-----------------------------------------------------------------------------
(* Writing back.                                                           *)

\* A column is written when it changed since it was loaded.
Column(seen, new, now) == IF new # seen THEN new ELSE now

\* A version that is made writes the notebook question's `active` twice, off and on again;
\* put_rubric writes the rubric's items even where their sum stays.
WrittenRow(op, makes, q, seen, new, now) ==
  IF new = None THEN now ELSE IF seen = None THEN new
  ELSE [max |-> Column(seen.max, new.max, now.max),
        manual |-> Column(seen.manual, new.manual, now.manual),
        active |-> IF makes /\ q = Notebook /\ seen.active THEN new.active
                   ELSE Column(seen.active, new.active, now.active),
        rubric |-> IF op.kind = "rubric" /\ q = op.q THEN new.rubric ELSE now.rubric]

\* Mistake: the tables have no unique constraints.
NeverConflicts(seen, new, now) == FALSE

\* uq_assignment_slug, uq_version, uq_question_qid, and a rubric that is gone.
Conflicts(seen, new, now) ==
  IF seen = None THEN now # None
  ELSE \/ Len(new.versions) > Len(seen.versions) /\ Len(now.versions) > Len(seen.versions)
       \/ \E q \in Qid \cup {Notebook} :
            LET old == seen.questions[q]
            IN  IF old = None THEN new.questions[q] # None /\ now.questions[q] # None
                ELSE /\ old.rubric # None /\ new.questions[q].rubric # None
                     /\ new.questions[q].rubric # old.rubric
                     /\ now.questions[q].rubric = None

Written(op, seen, new, now) ==
  LET makes == Len(new.versions) > Len(seen.versions)
  IN  IF seen = None THEN new
      ELSE [settings |-> Column(seen.settings, new.settings, now.settings),
            questions |-> [q \in Qid \cup {Notebook} |->
              WrittenRow(op, makes, q, seen.questions[q], new.questions[q], now.questions[q])],
            versions |-> IF makes THEN Append(now.versions, Latest(new)) ELSE now.versions]

-----------------------------------------------------------------------------
(* Actions.                                                                *)

\* A request loads the assignment. There is none to create when its slug is taken.
Begin(i, op) ==
  /\ request[i] = Idle /\ begun < MaxRequests
  /\ op.kind = "create" <=> assignment = None
  /\ request' = [request EXCEPT ![i] =
       [op |-> op, seen |-> assignment, stale |-> FALSE,
        expect |-> IF op.kind = "publish" /\ told[i] # None /\ told[i].u = op.u THEN told[i] ELSE None]]
  /\ begun' = begun + 1
  /\ UNCHANGED <<assignment, told, overlap>>

\* The instructor looks at what publishing the upload would do.
ShowPreview(i, u) ==
  /\ assignment # None /\ request[i] = Idle
  /\ told' = [told EXCEPT ![i] = [u |-> u, answer |-> Preview(assignment, u)]]
  /\ UNCHANGED <<assignment, request, overlap, begun>>

Fails(r) ==
  LET new == Outcome(r.op, r.seen)
  IN  IF new = Refused THEN TRUE ELSE Conflicts(r.seen, new, assignment)

\* The answer is a 4xx, or a 500 from a constraint; nothing is written.
Fail(i) ==
  /\ request[i] # Idle /\ Fails(request[i])
  /\ request' = [request EXCEPT ![i] = Idle]
  /\ UNCHANGED <<assignment, told, overlap, begun>>

Commit(i) ==
  LET r == request[i]
      after == Written(r.op, r.seen, Outcome(r.op, r.seen), assignment)
  IN  /\ r # Idle /\ ~Fails(r)
      /\ assignment' = after
      /\ IF after = assignment
         THEN request' = [request EXCEPT ![i] = Idle] /\ UNCHANGED told
         ELSE /\ request' = [j \in Instructor |->
                   IF j = i \/ request[j] = Idle THEN Idle
                   ELSE [request[j] EXCEPT !.expect = None, !.stale = TRUE]]
              /\ told' = [j \in Instructor |-> None]
      /\ overlap' = (overlap \/ (r.stale /\ after # assignment))
      /\ UNCHANGED begun

Next ==
  \E i \in Instructor :
    \/ \E op \in Op : Begin(i, op)
    \/ \E u \in Upload : ShowPreview(i, u)
    \/ Fail(i)
    \/ Commit(i)

Spec == Init /\ [][Next]_vars

-----------------------------------------------------------------------------
(* Properties.                                                             *)

TypeOK ==
  /\ assignment \in Assignment \cup {None}
  /\ request \in [Instructor -> [op : Op \cup {None}, seen : Assignment \cup {None},
                                 expect : Told \cup {None}, stale : BOOLEAN]]
  /\ told \in [Instructor -> Told \cup {None}]
  /\ overlap \in BOOLEAN
  /\ begun \in 0..MaxRequests

\* The live questions are those of the latest version, with its points, however the
\* publishes of several instructors interleave: the version number they compete for
\* lets one of them through.
LiveIsLatest ==
  assignment # None /\ assignment.versions # <<>> =>
    /\ Live(assignment) = DOMAIN Latest(assignment).marks
    /\ \A q \in Live(assignment) :
         [max |-> assignment.questions[q].max, manual |-> assignment.questions[q].manual]
           = Latest(assignment).marks[q]

\* "so either order of the two works" (notebook_submission.py:41): after publishes and
\* changes of settings that do not overlap, the whole-notebook question is as the settings say.
NotebookFollowsSettings ==
  assignment # None /\ ~overlap =>
    LET q == assignment.questions[Notebook]
    IN  IF assignment.settings.notebook THEN q # None /\ q.active /\ q.max = assignment.settings.points
        ELSE q # None => ~q.active

\* The whole-notebook question is worth what its rubric adds up to.
NotebookWorthItsRubric ==
  assignment # None /\ ~overlap =>
    LET q == assignment.questions[Notebook]
    IN  q # None /\ q.active /\ q.rubric # None => q.max = q.rubric

\* The whole-notebook question agrees with the settings and with its rubric, whichever
\* handler touched them last.
NotebookQuestionAgrees == TypeOK /\ NotebookFollowsSettings /\ NotebookWorthItsRubric

\* The change from `a` to `b` is the one a preview announced.
AsTold(answer, a, b) ==
  IF answer = Refused \/ answer.unchanged THEN b = a
  ELSE /\ Len(b.versions) = answer.version
       /\ Live(b) \ Live(a) = answer.added /\ Live(a) \ Live(b) = answer.removed

\* A preview "refuses exactly where publishing would" (offerings.py:502) and announces the
\* version and the questions that publishing then makes, when nothing came in between.
PublishDoesAsPreviewed ==
  [][\A i \in Instructor :
       request[i].expect # None /\ request'[i] = Idle =>
         AsTold(request[i].expect.answer, assignment, assignment')]_vars
=============================================================================
