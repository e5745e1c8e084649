--------------------------- MODULE AccessProofs ---------------------------
(***************************************************************************)
(* Who is let in and what is lent to them, for any number of people,       *)
(* assignments, kernels and instants: an offering that had an instructor   *)
(* keeps one and an import does what its plan said (Roster); nothing is    *)
(* lent past a close and a session renews itself (Opening, KernelSession); *)
(* what local_path returns was the object, and what was computed is kept   *)
(* (CourseFiles); what a click hands in is of the click, and a page shows  *)
(* each cell's own output (Payload).                                       *)
(*                                                                         *)
(* Each part has its inductive invariant, one lemma per action or group of *)
(* actions that keeps it, and the theorems that follow from it.            *)
(***************************************************************************)
EXTENDS Roster, KernelSession, CourseFiles, Payload, TLAPS, FiniteSetTheorems, WellFoundedInduction,
        SequenceTheorems

-----------------------------------------------------------------------------
(* The roster: the inductive invariant.                                    *)

\* Rows are never deleted, so what a removal read is still there when it commits.
DropsAreEnrolled == \A by \in Member : drop[by] # None => Enrolled(drop[by])

\* Removals are handled one at a time, each by an active instructor other than its target.
DropperStays ==
  \A by \in Member : drop[by] # None =>
    /\ by # drop[by] /\ OwnRole(by, "instructor") /\ Active(by)
    /\ \A other \in Member : drop[other] # None => other = by

\* Whoever was an instructor, or was dropped, leaves an active instructor behind.
SomebodyStays ==
  (\E p \in Member : OwnRole(p, "instructor") \/ (Enrolled(p) /\ ~Active(p))) => HasInstructor

\* A plan names a person once; a current one is the difference from the class as it is.
PlanIsOfItsRows ==
  plan # None =>
    /\ NamesOnce(plan.rows) /\ plan.adds \cup plan.moves \subseteq plan.rows
    /\ \A r \in plan.rows : r.netid \in Member
    /\ plan.fresh => LET d == Difference(plan.rows)
                     IN  plan.adds = d.adds /\ plan.drops = d.drops /\ plan.moves = d.moves

ImportedArePeople == imported # None => \A r \in imported : r.netid \in Member

RosterInv ==
  /\ RosterTypeOK /\ DropsAreEnrolled
  /\ excused = {} => DropperStays /\ SomebodyStays
  /\ PlanIsOfItsRows /\ ImportedArePeople /\ ImportSettles
-----------------------------------------------------------------------------
(* The roster: operators.                                                  *)

\* require_instructor passes nobody who is not an active instructor.
LEMMA InstructorsAre ==
  ASSUME RosterTypeOK, NEW by \in Member, Instructor(by)
  PROVE  OwnRole(by, "instructor") /\ Active(by) /\ enrollment[by] \in Enrollment
BY DEF RosterTypeOK, Instructor, EffectiveRole, OwnRole, Active, Enrolled

\* A row that is made is an enrollment.
LEMMA NewEnrollmentOK ==
  ASSUME NEW role \in Role, NEW section \in Section \cup {None}
  PROVE  NewEnrollment(role, section) \in Enrollment
BY DEF NewEnrollment, Enrollment

\* A row of the enrollments is one, or none.
LEMMA EnrolledOK ==
  ASSUME RosterTypeOK, NEW p \in Member
  PROVE  Enrolled(p) <=> enrollment[p] \in Enrollment
BY RosterAssumption DEF RosterTypeOK, Enrolled

\* What the parsers make of a line.
LEMMA ParsedRows ==
  ASSUME NEW file \in File, NEW source \in {"canvas_csv", "banner", "simple"}
  PROVE  /\ Parsed(file, source) \subseteq RosterRow
         /\ NamesOnce(Matched(Parsed(file, source)))
<1>1. file \subseteq Line
  BY RosterAssumption
<1>2. CanvasRows(file) \subseteq RosterRow /\ SimpleRows(file) \subseteq RosterRow
  BY <1>1 DEF CanvasRows, SimpleRows, Row, RosterRow, Line
<1>3. BannerRows(file) \subseteq RosterRow
  BY <1>1 DEF BannerRows, BannerNetid, Row, RosterRow, Line
<1> QED BY <1>2, <1>3, ClassListAssumption DEF Parsed

\* The row a plan has for somebody it names.
LEMMA RowOfNamed ==
  ASSUME NEW rows \in SUBSET RosterRow, NEW r \in rows
  PROVE  /\ RowOf(rows, r.netid) \in rows
         /\ RowOf(rows, r.netid).netid = r.netid
         /\ RowOf(rows, r.netid).section \in Section \cup {None}
<1>1. RowOf(rows, r.netid) \in rows /\ RowOf(rows, r.netid).netid = r.netid
  BY DEF RowOf
<1> QED BY <1>1 DEF RosterRow

-----------------------------------------------------------------------------
(* The roster: what each step does to the enrollments.                     *)

\* What a step that changes one enrollment leaves true of all.
LEMMA OneEnrollment ==
  ASSUME RosterTypeOK, NEW p \in Member, NEW e \in Enrollment, Enroll(p, e)
  PROVE  /\ enrollment' \in [Member -> {None} \cup Enrollment]
         /\ \A q \in Member : enrollment'[q] = IF q = p THEN e ELSE enrollment[q]
BY DEF RosterTypeOK, Enroll

\* An applied plan leaves everybody's role alone; whom it drops was a student.
LEMMA AppliedKeeps ==
  ASSUME RosterTypeOK, plan # None, NEW p \in Member
  PROVE  /\ Applied(p) \in {None} \cup Enrollment
         /\ Enrolled(p) => /\ Applied(p) \in Enrollment
                           /\ Applied(p).role = enrollment[p].role
                           /\ Active(p) /\ ~IsStudent(p) => Applied(p).status = "active"
         /\ ~Enrolled(p) /\ Applied(p) # None => Applied(p).role = "student" /\ Applied(p).status = "active"
<1>1. plan \in Plan
  BY DEF RosterTypeOK
<1>2. /\ plan.adds \in SUBSET RosterRow /\ plan.moves \in SUBSET RosterRow
  BY <1>1 DEF Plan
<1>3. Enrolled(p) <=> enrollment[p] \in Enrollment
  BY EnrolledOK
<1>4. CASE \E r \in plan.adds : r.netid = p
  <2>1. PICK r \in plan.adds : r.netid = p
    BY <1>4
  <2>2. RowOf(plan.adds, p).section \in Section \cup {None}
    BY <1>2, <2>1, RowOfNamed
  <2>3. CASE Enrolled(p)
    <3>1. Applied(p) = [enrollment[p] EXCEPT !.status = "active", !.section = RowOf(plan.adds, p).section]
      BY <1>4, <2>3 DEF Applied, Reinstated
    <3> QED BY <1>3, <2>2, <2>3, <3>1 DEF Enrollment
  <2>4. CASE ~Enrolled(p)
    <3>1. Applied(p) = NewEnrollment("student", RowOf(plan.adds, p).section)
      BY <1>4, <2>4 DEF Applied
    <3> QED BY <2>2, <2>4, <3>1, NewEnrollmentOK DEF NewEnrollment, Role
  <2> QED BY <2>3, <2>4
<1>5. CASE ~(\E r \in plan.adds : r.netid = p) /\ DroppedByPlan(p)
  <2>1. Applied(p) = [enrollment[p] EXCEPT !.status = "dropped"]
    BY <1>5 DEF Applied
  <2>2. Enrolled(p) /\ IsStudent(p)
    BY <1>5 DEF DroppedByPlan, IsStudent, OwnRole
  <2> QED BY <1>3, <2>1, <2>2 DEF Enrollment
<1>6. CASE ~(\E r \in plan.adds : r.netid = p) /\ ~DroppedByPlan(p)
           /\ Enrolled(p) /\ \E r \in plan.moves : r.netid = p
  <2>1. PICK r \in plan.moves : r.netid = p
    BY <1>6
  <2>2. RowOf(plan.moves, p).section \in Section \cup {None}
    BY <1>2, <2>1, RowOfNamed
  <2>3. Applied(p) = [enrollment[p] EXCEPT !.section = RowOf(plan.moves, p).section]
    BY <1>6 DEF Applied
  <2> QED BY <1>3, <1>6, <2>2, <2>3 DEF Enrollment, Active
<1>7. CASE ~(\E r \in plan.adds : r.netid = p) /\ ~DroppedByPlan(p)
           /\ ~(Enrolled(p) /\ \E r \in plan.moves : r.netid = p)
  <2>1. Applied(p) = enrollment[p]
    BY <1>7 DEF Applied
  <2> QED BY <1>3, <2>1 DEF RosterTypeOK, Active, Enrolled
<1> QED BY <1>4, <1>5, <1>6, <1>7

\* An active instructor; one who was, or was something and is gone.
Teaches(p) == OwnRole(p, "instructor") /\ Active(p)
TaughtOrLeft(p) == OwnRole(p, "instructor") \/ (Enrolled(p) /\ ~Active(p))

\* A step other than a removal takes no row away, no active instructor unnoticed, and
\* leaves nobody behind as a former instructor but by the hand of an active one.
ClassKept ==
  /\ enrollment' \in [Member -> {None} \cup Enrollment]
  /\ \A p \in Member : Enrolled(p) => Enrolled(p)'
  /\ excused \subseteq excused' /\ excused' \subseteq {"operator", "demoted", "crossed"}
  /\ excused' = {} =>
       \A p \in Member : /\ Teaches(p) => Teaches(p)'
                         /\ TaughtOrLeft(p)' => TaughtOrLeft(p) \/ Teaches(p)' \/ HasInstructor

\* One enrollment changes.
LEMMA OneKeeps ==
  ASSUME RosterTypeOK, NEW p \in Member, NEW e \in Enrollment, Enroll(p, e),
         excused \subseteq excused', excused' \subseteq {"operator", "demoted", "crossed"},
         excused' = {} /\ Teaches(p) => e.role = "instructor" /\ e.status = "active",
         e.role = "instructor" \/ e.status = "dropped" =>
           TaughtOrLeft(p) \/ (e.role = "instructor" /\ e.status = "active") \/ HasInstructor
  PROVE  ClassKept
<1>1. /\ enrollment' \in [Member -> {None} \cup Enrollment]
      /\ \A q \in Member : enrollment'[q] = IF q = p THEN e ELSE enrollment[q]
  BY OneEnrollment
<1>2. e # None /\ e.status \in {"active", "dropped"}
  BY RosterAssumption DEF Enrollment
<1>3. ASSUME NEW q \in Member, q # p
      PROVE  /\ Enrolled(q)' <=> Enrolled(q)
             /\ Teaches(q)' <=> Teaches(q)
             /\ TaughtOrLeft(q)' <=> TaughtOrLeft(q)
  BY <1>1, <1>3 DEF Enrolled, Teaches, TaughtOrLeft, OwnRole, Active
<1>4. /\ Enrolled(p)'
      /\ Teaches(p)' <=> e.role = "instructor" /\ e.status = "active"
      /\ TaughtOrLeft(p)' <=> e.role = "instructor" \/ e.status = "dropped"
  BY <1>1, <1>2 DEF Enrolled, Teaches, TaughtOrLeft, OwnRole, Active
<1> QED BY <1>1, <1>3, <1>4 DEF ClassKept

\* No enrollment changes.
LEMMA NoneKeeps ==
  ASSUME RosterTypeOK, enrollment' = enrollment, excused \subseteq excused',
         excused' \subseteq {"operator", "demoted", "crossed"}
  PROVE  ClassKept
BY DEF ClassKept, RosterTypeOK, Enrolled, Teaches, TaughtOrLeft, OwnRole, Active

\* add_instructor makes an active instructor of somebody.
LEMMA AddInstructorKeeps ==
  ASSUME RosterTypeOK, NEW by \in Member, NEW p \in Member, AddInstructor(by, p)
  PROVE  ClassKept
<1> DEFINE e == IF Enrolled(p) THEN [enrollment[p] EXCEPT !.role = "instructor", !.status = "active"]
                ELSE NewEnrollment("instructor", None)
<1>1. e \in Enrollment /\ e.role = "instructor" /\ e.status = "active"
  BY EnrolledOK DEF Enrollment, NewEnrollment, Role
<1>2. Enroll(p, e) /\ excused' = excused
  BY DEF AddInstructor
<1> QED BY <1>1, <1>2, OneKeeps DEF RosterTypeOK

\* operator-token gives one role; if it takes an instructor's away, that is excused.
LEMMA OperatorTokenKeeps ==
  ASSUME RosterTypeOK, NEW p \in Member, NEW role \in Role \cup {None}, NEW make_admin \in BOOLEAN,
         OperatorToken(p, role, make_admin)
  PROVE  ClassKept
<1> DEFINE e == IF Enrolled(p) THEN [enrollment[p] EXCEPT !.role = role] ELSE NewEnrollment(role, None)
<1>1. CASE role = None
  BY <1>1, NoneKeeps DEF OperatorToken, RosterTypeOK
<1>2. CASE role # None
  <2>1. role \in Role
    BY <1>2
  <2>2. /\ e \in Enrollment /\ e.role = role
        /\ Enrolled(p) => e.status = enrollment[p].status
        /\ ~Enrolled(p) => e.status = "active"
    BY <2>1, EnrolledOK DEF Enrollment, NewEnrollment
  <2>3. Enroll(p, e) /\ excused' = excused \cup (IF Demotes(p, role) THEN {"operator"} ELSE {})
    BY <1>2 DEF OperatorToken
  <2>4. Demotes(p, role) => excused' # {}
    BY <2>3
  <2>5. excused \subseteq excused' /\ excused' \subseteq {"operator", "demoted", "crossed"}
    BY <2>3 DEF RosterTypeOK
  <2>6. excused' = {} /\ Teaches(p) => e.role = "instructor" /\ e.status = "active"
    BY <2>2, <2>4 DEF Teaches, OwnRole, Active, Demotes
  <2>7. e.role = "instructor" \/ e.status = "dropped" =>
          TaughtOrLeft(p) \/ (e.role = "instructor" /\ e.status = "active")
    BY <2>2, EnrolledOK DEF TaughtOrLeft, OwnRole, Active, Enrollment
  <2> HIDE DEF e
  <2> QED BY <2>2, <2>3, <2>5, <2>6, <2>7, OneKeeps
<1> QED BY <1>1, <1>2

\* seed enrolls those who are not enrolled, and touches nobody else.
LEMMA SeedKeeps ==
  ASSUME RosterTypeOK, NEW instructor \in Member, NEW students \in SUBSET Member,
         Seed(instructor, students)
  PROVE  ClassKept
<1>1. \A p \in Member : enrollment'[p] =
        IF Enrolled(p) THEN enrollment[p]
        ELSE IF p = instructor THEN NewEnrollment("instructor", None)
        ELSE IF p \in students THEN NewEnrollment("student", None) ELSE None
  BY DEF Seed
<1>2. /\ NewEnrollment("instructor", None) \in Enrollment /\ NewEnrollment("student", None) \in Enrollment
  BY NewEnrollmentOK DEF Role
<1>3. enrollment' \in [Member -> {None} \cup Enrollment]
  BY <1>2 DEF Seed, RosterTypeOK
<1>4. ASSUME NEW p \in Member
      PROVE  /\ Enrolled(p) => Enrolled(p)'
             /\ Teaches(p) => Teaches(p)'
             /\ TaughtOrLeft(p)' => TaughtOrLeft(p) \/ Teaches(p)'
  BY <1>1, <1>2, RosterAssumption
  DEF Enrolled, Teaches, TaughtOrLeft, OwnRole, Active, NewEnrollment
<1>5. excused' = excused
  BY DEF Seed
<1> QED BY <1>3, <1>4, <1>5 DEF ClassKept, RosterTypeOK

\* A preview of the student's view leaves the role alone.
LEMMA SetPreviewKeeps ==
  ASSUME RosterTypeOK, NEW p \in Member, NEW on \in BOOLEAN, SetPreview(p, on)
  PROVE  ClassKept
<1> DEFINE e == [enrollment[p] EXCEPT !.preview = on]
<1>1. Enrolled(p)
  BY DEF SetPreview, Active
<1>2. e \in Enrollment /\ e.role = enrollment[p].role /\ e.status = enrollment[p].status
  BY <1>1, EnrolledOK DEF Enrollment
<1>3. Enroll(p, e) /\ excused' = excused /\ excused \subseteq {"operator", "demoted", "crossed"}
  BY DEF SetPreview, RosterTypeOK
<1>4. Teaches(p) => e.role = "instructor" /\ e.status = "active"
  BY <1>2 DEF Teaches, OwnRole, Active
<1>5. e.role = "instructor" \/ e.status = "dropped" => TaughtOrLeft(p)
  BY <1>1, <1>2 DEF TaughtOrLeft, OwnRole, Active
<1> HIDE DEF e
<1> QED BY <1>2, <1>3, <1>4, <1>5, OneKeeps

\* add_staff is an instructor's; if it takes an instructor's role away, that is excused.
LEMMA AddStaffKeeps ==
  ASSUME RosterTypeOK, NEW by \in Member, NEW p \in Member, NEW role \in Role, AddStaff(by, p, role)
  PROVE  ClassKept
<1> DEFINE e == IF Enrolled(p) THEN [enrollment[p] EXCEPT !.role = role, !.status = "active"]
                ELSE NewEnrollment(role, None)
<1>1. e \in Enrollment /\ e.role = role /\ e.status = "active"
  BY EnrolledOK DEF Enrollment, NewEnrollment
<1>2. Enroll(p, e) /\ excused' = excused \cup (IF Demotes(p, role) THEN {"demoted"} ELSE {})
  BY DEF AddStaff
<1>3. excused \subseteq excused' /\ excused' \subseteq {"operator", "demoted", "crossed"}
  BY <1>2 DEF RosterTypeOK
<1>4. excused' = {} /\ Teaches(p) => e.role = "instructor" /\ e.status = "active"
  BY <1>1, <1>2 DEF Teaches, OwnRole, Demotes
<1> HIDE DEF e
<1> QED BY <1>1, <1>2, <1>3, <1>4, OneKeeps

\* add_student is an instructor's, and makes no student of the staff.
LEMMA AddStudentKeeps ==
  ASSUME RosterTypeOK, NEW by \in Member, NEW p \in Member, NEW section \in Section \cup {None},
         AddStudent(by, p, section)
  PROVE  ClassKept
<1> DEFINE e == IF Enrolled(p) THEN [enrollment[p] EXCEPT !.status = "active", !.section = section]
                ELSE NewEnrollment("student", section)
<1>1. e \in Enrollment /\ e.role = "student" /\ e.status = "active"
  BY EnrolledOK DEF Enrollment, NewEnrollment, Role, AddStudent
<1>2. Enroll(p, e) /\ excused' = excused /\ excused \subseteq {"operator", "demoted", "crossed"}
  BY DEF AddStudent, RosterTypeOK
<1>3. ~Teaches(p)
  BY DEF Teaches, OwnRole, AddStudent
<1> HIDE DEF e
<1> QED BY <1>1, <1>2, <1>3, OneKeeps

\* roster_apply is an instructor's, and drops only students.
LEMMA RosterApplyKeeps ==
  ASSUME RosterTypeOK, NEW by \in Member, RosterApply(by)
  PROVE  ClassKept
<1>1. HasInstructor
  BY InstructorsAre DEF RosterApply, HasInstructor
<1>2. \A p \in Member : enrollment'[p] = Applied(p)
  BY DEF RosterApply
<1>3. \A p \in Member :
        /\ Applied(p) \in {None} \cup Enrollment
        /\ Enrolled(p) => /\ Applied(p) \in Enrollment
                          /\ Applied(p).role = enrollment[p].role
                          /\ Active(p) /\ ~IsStudent(p) => Applied(p).status = "active"
  BY AppliedKeeps DEF RosterApply
<1>4. enrollment' \in [Member -> {None} \cup Enrollment]
  BY <1>3 DEF RosterApply
<1>5. ASSUME NEW p \in Member, Enrolled(p) PROVE Enrolled(p)' /\ (Teaches(p) => Teaches(p)')
  BY <1>2, <1>3, <1>5, RosterAssumption DEF Enrolled, Teaches, OwnRole, Active, IsStudent
<1>6. excused' = excused /\ excused \subseteq {"operator", "demoted", "crossed"}
  BY DEF RosterApply, RosterTypeOK
<1> QED BY <1>1, <1>4, <1>5, <1>6 DEF ClassKept, Teaches, Active

\* POST roster/preview, of some class list.
RosterPreviewed(by) ==
  \E file \in File, source \in {"canvas_csv", "banner", "simple"} : RosterPreview(by, file, source)

\* Whatever a step does, if it is not the commit of a removal.
LEMMA OthersKeep ==
  ASSUME RosterTypeOK, RosterNext
  PROVE  ClassKept \/ \E by \in Member : DropCommit(by)
<1> USE DEF RosterTypeOK
<1>1. ASSUME NEW by \in Member, NEW p \in Member,
             CreateCourse(by) \/ CreateOffering(by) \/ (\E on \in BOOLEAN : SetAdmin(by, p, on))
             \/ RosterPreviewed(by)
      PROVE  ClassKept
  BY <1>1, NoneKeeps DEF CreateCourse, CreateOffering, SetAdmin, RosterPreviewed, RosterPreview
<1>2. ASSUME NEW by \in Member, NEW p \in Member, DropRead(by, p) PROVE ClassKept
  BY <1>2, NoneKeeps DEF DropRead
<1>3. ASSUME NEW by \in Member, NEW p \in Member,
             AddInstructor(by, p) \/ (\E role \in Role : AddStaff(by, p, role))
             \/ (\E section \in Section \cup {None} : AddStudent(by, p, section))
      PROVE  ClassKept
  BY <1>3, AddInstructorKeeps, AddStaffKeeps, AddStudentKeeps
<1>4. ASSUME NEW by \in Member, RosterApply(by) \/ \E on \in BOOLEAN : SetPreview(by, on)
      PROVE  ClassKept
  BY <1>4, RosterApplyKeeps, SetPreviewKeeps
<1>5. ASSUME NEW p \in Member, NEW make_admin \in BOOLEAN, NEW role \in Role \cup {None},
             OperatorToken(p, role, make_admin)
      PROVE  ClassKept
  BY <1>5, OperatorTokenKeeps
<1>6. ASSUME NEW instructor \in Member, NEW students \in SUBSET Member, Seed(instructor, students)
      PROVE  ClassKept
  BY <1>6, SeedKeeps
<1> QED BY <1>1, <1>2, <1>3, <1>4, <1>5, <1>6 DEF RosterNext, RosterPreviewed

\* A removal drops its target and nobody else.
LEMMA DropCommitDrops ==
  ASSUME RosterTypeOK, DropsAreEnrolled, NEW by \in Member, DropCommit(by)
  PROVE  /\ enrollment' \in [Member -> {None} \cup Enrollment]
         /\ \A p \in Member : Enrolled(p) => Enrolled(p)'
         /\ \A p \in Member : Teaches(p) /\ p # drop[by] => Teaches(p)'
         /\ drop' = [drop EXCEPT ![by] = None] /\ excused' = excused
<1> DEFINE p == drop[by]
           e == [enrollment[p] EXCEPT !.status = "dropped"]
<1>1. p \in Member /\ Enrolled(p)
  BY DEF DropCommit, RosterTypeOK, DropsAreEnrolled
<1>2. e \in Enrollment /\ e.role = enrollment[p].role
  BY <1>1, EnrolledOK DEF Enrollment
<1>3. Enroll(p, e) /\ drop' = [drop EXCEPT ![by] = None] /\ excused' = excused
  BY DEF DropCommit
<1> HIDE DEF e
<1>4. /\ enrollment' \in [Member -> {None} \cup Enrollment]
      /\ \A q \in Member : enrollment'[q] = IF q = p THEN e ELSE enrollment[q]
  BY <1>1, <1>2, <1>3, OneEnrollment
<1>5. e # None
  BY <1>2, RosterAssumption
<1> QED BY <1>1, <1>2, <1>3, <1>4, <1>5 DEF Enrolled, Teaches, OwnRole, Active, IsStudent

\* The clicks are bounded.
LEMMA ClicksStep ==
  ASSUME RosterTypeOK, RosterNext
  PROVE  clicks' \in 0..MaxClicks
<1>1. Click \/ UNCHANGED clicks
  BY DEF RosterNext, CreateCourse, CreateOffering, AddInstructor, SetAdmin, AddStaff, AddStudent,
         DropRead, DropCommit, RosterApply, SetPreview, RosterPreview, OperatorToken, Seed
<1>2. clicks \in 0..MaxClicks /\ MaxClicks \in Nat
  BY RosterAssumption DEF RosterTypeOK
<1> QED BY <1>1, <1>2 DEF Click

\* The offering exists whenever anybody is enrolled.
StageOK ==
  /\ stage \in {"none", "course", "offering"} /\ admin \subseteq Member
  /\ stage # "offering" => \A p \in Member : ~Enrolled(p)

\* Nobody is enrolled before there is an offering.
LEMMA StageStep ==
  ASSUME RosterTypeOK, DropsAreEnrolled, RosterNext
  PROVE  StageOK'
<1> USE DEF StageOK
<1>1. StageOK
  BY DEF RosterTypeOK
<1>2. ASSUME NEW by \in Member, NEW p \in Member,
             CreateCourse(by) \/ CreateOffering(by) \/ (\E on \in BOOLEAN : SetAdmin(by, p, on))
             \/ RosterPreviewed(by) \/ DropRead(by, p)
      PROVE  StageOK'
  <2>1. CASE CreateCourse(by) \/ CreateOffering(by)
    BY <1>1, <2>1 DEF CreateCourse, CreateOffering, Enrolled
  <2>2. CASE \E on \in BOOLEAN : SetAdmin(by, p, on)
    BY <1>1, <2>2 DEF SetAdmin, Enrolled
  <2>3. CASE RosterPreviewed(by) \/ DropRead(by, p)
    BY <1>1, <2>3 DEF RosterPreviewed, RosterPreview, DropRead, Enrolled
  <2> QED BY <1>2, <2>1, <2>2, <2>3
<1>3. ASSUME NEW by \in Member, NEW p \in Member,
             AddInstructor(by, p) \/ (\E role \in Role : AddStaff(by, p, role))
             \/ (\E section \in Section \cup {None} : AddStudent(by, p, section))
             \/ RosterApply(by) \/ (\E on \in BOOLEAN : SetPreview(by, on)) \/ DropCommit(by)
      PROVE  StageOK'
  <2>1. stage = "offering"
    BY <1>1, <1>3, EnrolledOK DEF AddInstructor, AddStaff, AddStudent, RosterApply, SetPreview, Instructor, Active,
                      DropCommit, DropsAreEnrolled, RosterTypeOK
  <2>2. stage' = stage /\ admin' = admin
    BY <1>3 DEF AddInstructor, AddStaff, AddStudent, RosterApply, SetPreview, DropCommit
  <2> QED BY <1>1, <2>1, <2>2
<1>4. ASSUME NEW p \in Member, NEW make_admin \in BOOLEAN, NEW role \in Role \cup {None},
             OperatorToken(p, role, make_admin)
      PROVE  StageOK'
  BY <1>1, <1>4 DEF OperatorToken, OfferingFound, Enrolled
<1>5. ASSUME NEW instructor \in Member, NEW students \in SUBSET Member, Seed(instructor, students)
      PROVE  StageOK'
  BY <1>1, <1>5 DEF Seed
<1> QED BY <1>2, <1>3, <1>4, <1>5 DEF RosterNext, RosterPreviewed

\* As far as an import looks at it, the class stays what it is.
SameClass ==
  \A p \in Member : /\ (IsStudent(p) /\ Active(p))' <=> IsStudent(p) /\ Active(p)
                    /\ Active(p)' <=> Active(p)
                    /\ Enrolled(p) => enrollment'[p].section = enrollment[p].section

\* The class changes and every plan is of yesterday, or it stays what it is, or an
\* instructor asks for a plan, or applies one.
LEMMA ClassChanges ==
  ASSUME RosterTypeOK, RosterNext
  PROVE  \/ Disturbed
         \/ SameClass /\ UNCHANGED <<plan, imported>>
         \/ \E by \in Member : RosterPreviewed(by) \/ RosterApply(by)
<1>1. ASSUME NEW by \in Member, NEW p \in Member,
             CreateCourse(by) \/ CreateOffering(by) \/ (\E on \in BOOLEAN : SetAdmin(by, p, on))
             \/ DropRead(by, p)
      PROVE  SameClass /\ UNCHANGED <<plan, imported>>
  BY <1>1 DEF CreateCourse, CreateOffering, SetAdmin, DropRead, SameClass, IsStudent, OwnRole,
              Active, Enrolled
<1>2. ASSUME NEW p \in Member, NEW on \in BOOLEAN, SetPreview(p, on)
      PROVE  SameClass /\ UNCHANGED <<plan, imported>>
  <2>1. Enrolled(p) /\ enrollment[p] \in Enrollment
    BY <1>2, EnrolledOK DEF SetPreview, Active
  <2>2. [enrollment[p] EXCEPT !.preview = on] \in Enrollment
    BY <2>1 DEF Enrollment
  <2>3. \A q \in Member : enrollment'[q] = IF q = p THEN [enrollment[p] EXCEPT !.preview = on]
                                           ELSE enrollment[q]
    BY <1>2 DEF SetPreview, Enroll, RosterTypeOK
  <2>4. /\ [enrollment[p] EXCEPT !.preview = on].role = enrollment[p].role
        /\ [enrollment[p] EXCEPT !.preview = on].status = enrollment[p].status
        /\ [enrollment[p] EXCEPT !.preview = on].section = enrollment[p].section
    BY <2>1 DEF Enrollment
  <2>5. [enrollment[p] EXCEPT !.preview = on] # None
    BY <2>2, RosterAssumption
  <2>6. UNCHANGED <<plan, imported>>
    BY <1>2 DEF SetPreview
  <2> QED BY <2>1, <2>3, <2>4, <2>5, <2>6 DEF SameClass, IsStudent, OwnRole, Active, Enrolled
<1>3. ASSUME NEW p \in Member, NEW make_admin \in BOOLEAN, NEW role \in Role \cup {None},
             OperatorToken(p, role, make_admin)
      PROVE  Disturbed \/ (SameClass /\ UNCHANGED <<plan, imported>>)
  BY <1>3 DEF OperatorToken, SameClass, IsStudent, OwnRole, Active, Enrolled
<1>4. ASSUME NEW by \in Member, NEW p \in Member,
             AddInstructor(by, p) \/ (\E role \in Role : AddStaff(by, p, role))
             \/ (\E section \in Section \cup {None} : AddStudent(by, p, section)) \/ DropCommit(by)
      PROVE  Disturbed
  BY <1>4 DEF AddInstructor, AddStaff, AddStudent, DropCommit
<1>5. ASSUME NEW instructor \in Member, NEW students \in SUBSET Member, Seed(instructor, students)
      PROVE  Disturbed
  BY <1>5 DEF Seed
<1> QED BY <1>1, <1>2, <1>3, <1>4, <1>5 DEF RosterNext, RosterPreviewed

\* The difference of a plan's rows from the class.
LEMMA DifferenceIs ==
  ASSUME RosterTypeOK, NEW rows \in SUBSET RosterRow
  PROVE  LET d == Difference(rows)
         IN  /\ d.adds \in SUBSET Matched(rows) /\ d.moves \in SUBSET Matched(rows)
             /\ d.drops \in SUBSET Member
BY DEF Difference, Matched

\* A class that stays the same keeps its difference from any rows.
LEMMA SameDifference ==
  ASSUME SameClass, NEW rows, \A r \in rows : r.netid \in Member
  PROVE  Difference(rows)' = Difference(rows)
<1> DEFINE here == {p \in Member : IsStudent(p) /\ Active(p)}
<1>1. here' = here
  BY DEF SameClass
<1>2. Matched(rows)' = Matched(rows)
  BY DEF Matched
<1>3. {r \in Matched(rows) : r.netid \notin here}' = {r \in Matched(rows) : r.netid \notin here}
  BY <1>1, <1>2
<1>4. ASSUME NEW r \in Matched(rows), r.netid \in here
      PROVE  enrollment'[r.netid].section = enrollment[r.netid].section
  BY <1>4 DEF SameClass, Matched, Active
<1>5. {r \in Matched(rows) : r.netid \in here /\ enrollment[r.netid].section # r.section}'
        = {r \in Matched(rows) : r.netid \in here /\ enrollment[r.netid].section # r.section}
  BY <1>1, <1>2, <1>4
<1>6. (here \ {r.netid : r \in Matched(rows)})' = here \ {r.netid : r \in Matched(rows)}
  BY <1>1, <1>2
<1> HIDE DEF here
<1> QED BY <1>3, <1>5, <1>6 DEF Difference, here

\* A plan stays the difference it was made of, or is not current any more.
LEMMA PlanIsOfItsRowsStep ==
  ASSUME RosterTypeOK, PlanIsOfItsRows, RosterNext
  PROVE  PlanIsOfItsRows' /\ plan' \in {None} \cup Plan
<1>1. CASE Disturbed
  <2>1. CASE plan = None
    BY <1>1, <2>1 DEF Disturbed, PlanIsOfItsRows
  <2>2. CASE plan # None
    <3>1. plan \in Plan /\ plan' = [plan EXCEPT !.fresh = FALSE]
      BY <1>1, <2>2 DEF Disturbed, RosterTypeOK
    <3>2. /\ plan' \in Plan /\ plan'.fresh = FALSE /\ plan'.rows = plan.rows
          /\ plan'.adds = plan.adds /\ plan'.moves = plan.moves
      BY <3>1 DEF Plan
    <3> QED BY <2>2, <3>2 DEF PlanIsOfItsRows, NamesOnce
  <2> QED BY <2>1, <2>2
<1>2. CASE SameClass /\ UNCHANGED <<plan, imported>>
  <2>1. plan # None => Difference(plan.rows)' = Difference(plan.rows)
    BY <1>2, SameDifference DEF PlanIsOfItsRows
  <2> QED BY <1>2, <2>1 DEF PlanIsOfItsRows, NamesOnce, RosterTypeOK
<1>3. ASSUME NEW by \in Member, RosterPreviewed(by)
      PROVE  PlanIsOfItsRows' /\ plan' \in {None} \cup Plan
  <2>1. PICK file \in File, source \in {"canvas_csv", "banner", "simple"} : RosterPreview(by, file, source)
    BY <1>3 DEF RosterPreviewed
  <2> DEFINE parsed == Parsed(file, source)
             d == Difference(parsed)
  <2>2. parsed \in SUBSET RosterRow /\ NamesOnce(Matched(parsed))
    BY ParsedRows
  <2>3. /\ d.adds \in SUBSET Matched(parsed) /\ d.moves \in SUBSET Matched(parsed)
        /\ d.drops \in SUBSET Member
    BY <2>2, DifferenceIs
  <2>4. /\ plan' = [adds |-> d.adds, drops |-> d.drops, moves |-> d.moves,
                    rows |-> Matched(parsed), fresh |-> TRUE]
        /\ enrollment' = enrollment
    BY <2>1 DEF RosterPreview
  <2>5. /\ Matched(parsed) \in SUBSET RosterRow /\ Matched(Matched(parsed)) = Matched(parsed)
        /\ \A r \in Matched(parsed) : r.netid \in Member
    BY <2>2 DEF Matched, RosterRow
  <2>6. Difference(Matched(parsed)) = d
    BY <2>5 DEF Difference
  <2>7. Difference(Matched(parsed))' = Difference(Matched(parsed))
    BY <2>4, <2>5, SameDifference DEF SameClass, IsStudent, OwnRole, Active, Enrolled
  <2> HIDE DEF d, parsed
  <2>8. plan' \in Plan
    BY <2>3, <2>4, <2>5 DEF Plan
  <2> QED BY <2>2, <2>3, <2>4, <2>5, <2>6, <2>7, <2>8 DEF PlanIsOfItsRows, NamesOnce
<1>4. ASSUME NEW by \in Member, RosterApply(by) PROVE PlanIsOfItsRows' /\ plan' \in {None} \cup Plan
  BY <1>4 DEF RosterApply, PlanIsOfItsRows
<1> QED BY <1>1, <1>2, <1>3, <1>4, ClassChanges

\* Removals begin and end; nothing else touches them.
LEMMA DropChanges ==
  ASSUME RosterNext
  PROVE  \/ UNCHANGED drop
         \/ \E by, p \in Member : DropRead(by, p)
         \/ \E by \in Member : DropCommit(by)
BY DEF RosterNext, CreateCourse, CreateOffering, AddInstructor, SetAdmin, AddStaff, AddStudent,
       RosterApply, SetPreview, RosterPreview, OperatorToken, Seed

\* Rows stay, under a removal and under everything else.
LEMMA RowsStay ==
  ASSUME RosterTypeOK, DropsAreEnrolled, RosterNext
  PROVE  /\ enrollment' \in [Member -> {None} \cup Enrollment]
         /\ \A p \in Member : Enrolled(p) => Enrolled(p)'
         /\ excused \subseteq excused' /\ excused' \subseteq {"operator", "demoted", "crossed"}
<1>1. CASE ClassKept
  BY <1>1 DEF ClassKept
<1>2. ASSUME NEW by \in Member, DropCommit(by)
      PROVE  /\ enrollment' \in [Member -> {None} \cup Enrollment]
             /\ \A p \in Member : Enrolled(p) => Enrolled(p)'
             /\ excused \subseteq excused' /\ excused' \subseteq {"operator", "demoted", "crossed"}
  BY <1>2, DropCommitDrops DEF RosterTypeOK
<1> QED BY <1>1, <1>2, OthersKeep

\* Who is being removed stays enrolled until the removal commits.
LEMMA DropsStep ==
  ASSUME RosterTypeOK, DropsAreEnrolled, RosterNext
  PROVE  DropsAreEnrolled' /\ drop' \in [Member -> Member \cup {None}]
<1>1. \A p \in Member : Enrolled(p) => Enrolled(p)'
  BY RowsStay
<1>2. CASE UNCHANGED drop
  BY <1>1, <1>2, RosterAssumption DEF DropsAreEnrolled, RosterTypeOK
<1>3. ASSUME NEW by \in Member, NEW p \in Member, DropRead(by, p)
      PROVE  DropsAreEnrolled' /\ drop' \in [Member -> Member \cup {None}]
  BY <1>1, <1>3 DEF DropRead, DropsAreEnrolled, RosterTypeOK
<1>4. ASSUME NEW by \in Member, DropCommit(by)
      PROVE  DropsAreEnrolled' /\ drop' \in [Member -> Member \cup {None}]
  BY <1>1, <1>4 DEF DropCommit, DropsAreEnrolled, RosterTypeOK
<1> QED BY <1>2, <1>3, <1>4, DropChanges

\* An active instructor stays, unless a removal of theirs commits.
LEMMA InstructorsStay ==
  ASSUME RosterTypeOK, DropsAreEnrolled, RosterNext, excused' = {}, NEW p \in Member, Teaches(p)
  PROVE  Teaches(p)' \/ \E by \in Member : DropCommit(by) /\ drop[by] = p
<1>1. CASE ClassKept
  BY <1>1 DEF ClassKept
<1>2. ASSUME NEW by \in Member, DropCommit(by) PROVE Teaches(p)' \/ drop[by] = p
  BY <1>2, DropCommitDrops
<1> QED BY <1>1, <1>2, OthersKeep

\* Who removes somebody is an active instructor until the removal commits.
LEMMA DropperStaysStep ==
  ASSUME RosterInv, RosterNext, excused' = {}
  PROVE  DropperStays'
<1>1. excused = {} /\ DropperStays /\ RosterTypeOK /\ DropsAreEnrolled
  BY RowsStay DEF RosterInv
<1>2. ASSUME NEW by \in Member, drop[by] # None
      PROVE  Teaches(by)'
  <2>1. Teaches(by)
    BY <1>1, <1>2 DEF DropperStays, Teaches
  <2>2. \A other \in Member : DropCommit(other) => drop[other] # by
    BY <1>1, <1>2 DEF DropperStays, DropCommit
  <2> QED BY <1>1, <2>1, <2>2, InstructorsStay
<1>3. CASE UNCHANGED drop
  BY <1>1, <1>2, <1>3 DEF DropperStays, Teaches
<1>4. ASSUME NEW by \in Member, NEW p \in Member, DropRead(by, p) PROVE DropperStays'
  <2>1. by # p /\ drop' = [drop EXCEPT ![by] = p] /\ enrollment' = enrollment /\ Instructor(by)
    BY <1>4 DEF DropRead, MayDrop
  <2>2. \A q \in Member : drop[q] = None
    BY <1>1, <1>4 DEF DropRead
  <2>3. Teaches(by)'
    BY <1>1, <2>1, InstructorsAre DEF Teaches, OwnRole, Active, Enrolled
  <2> QED BY <1>1, <2>1, <2>2, <2>3 DEF DropperStays, RosterTypeOK, Teaches
<1>5. ASSUME NEW by \in Member, DropCommit(by) PROVE DropperStays'
  <2>1. drop' = [drop EXCEPT ![by] = None] /\ drop[by] # None
    BY <1>5 DEF DropCommit
  <2> QED BY <1>1, <2>1 DEF DropperStays, RosterTypeOK
<1> QED BY <1>3, <1>4, <1>5, DropChanges

\* An instructor stays for whoever was one.
LEMMA SomebodyStaysStep ==
  ASSUME RosterInv, RosterNext, excused' = {}
  PROVE  SomebodyStays'
<1>1. excused = {} /\ DropperStays /\ SomebodyStays /\ RosterTypeOK /\ DropsAreEnrolled
  BY RowsStay DEF RosterInv
<1>2. HasInstructor <=> \E p \in Member : Teaches(p)
  BY DEF HasInstructor, Teaches
<1>3. HasInstructor' <=> \E p \in Member : Teaches(p)'
  BY DEF HasInstructor, Teaches
<1>4. SomebodyStays <=> ((\E p \in Member : TaughtOrLeft(p)) => HasInstructor)
  BY DEF SomebodyStays, TaughtOrLeft
<1>5. SomebodyStays' <=> ((\E p \in Member : TaughtOrLeft(p)') => HasInstructor')
  BY DEF SomebodyStays, TaughtOrLeft
<1>6. CASE ClassKept
  BY <1>1, <1>2, <1>3, <1>4, <1>5, <1>6 DEF ClassKept
<1>7. ASSUME NEW by \in Member, DropCommit(by) PROVE SomebodyStays'
  <2>1. Teaches(by) /\ by # drop[by]
    BY <1>1, <1>7 DEF DropCommit, DropperStays, Teaches
  <2>2. Teaches(by)'
    BY <1>1, <1>7, <2>1, DropCommitDrops
  <2> QED BY <1>3, <1>5, <2>2
<1> QED BY <1>1, <1>6, <1>7, OthersKeep

\* The staff under an import, and the class after it.
LEMMA ImportSettlesStep ==
  ASSUME RosterInv, RosterNext
  PROVE  /\ ImportSettles' /\ ImportLeavesStaff /\ ImportedArePeople'
         /\ imported' \in {None} \cup SUBSET RosterRow
<1>0. RosterTypeOK /\ PlanIsOfItsRows /\ ImportedArePeople /\ ImportSettles
  BY DEF RosterInv
<1>1. CASE Disturbed
  <2>1. imported' = None
    BY <1>1 DEF Disturbed
  <2>2. plan # None => plan' \in Plan
    <3>1. plan # None => plan \in Plan /\ plan' = [plan EXCEPT !.fresh = FALSE]
      BY <1>0, <1>1 DEF Disturbed, RosterTypeOK
    <3> QED BY <3>1 DEF Plan
  <2> QED BY <2>1, <2>2, RosterAssumption DEF ImportSettles, ImportLeavesStaff, ImportedArePeople
<1>2. CASE SameClass /\ UNCHANGED <<plan, imported>>
  <2>1. ASSUME imported # None, NEW r \in imported
        PROVE  (Active(r.netid) /\ enrollment[r.netid].section = r.section)'
    <3>1. r.netid \in Member /\ Active(r.netid) /\ enrollment[r.netid].section = r.section
      BY <1>0, <2>1 DEF ImportedArePeople, ImportSettles
    <3> QED BY <1>2, <3>1 DEF SameClass, Active
  <2>2. ASSUME imported # None, NEW p \in Member, (IsStudent(p) /\ Active(p))'
        PROVE  \E r \in imported : r.netid = p
    BY <1>0, <1>2, <2>2 DEF SameClass, ImportSettles
  <2>3. ImportSettles'
    BY <1>2, <2>1, <2>2 DEF ImportSettles
  <2> QED BY <1>0, <1>2, <2>3 DEF ImportLeavesStaff, ImportedArePeople, RosterTypeOK
<1>3. ASSUME NEW by \in Member, RosterPreviewed(by)
      PROVE  /\ ImportSettles' /\ ImportLeavesStaff /\ ImportedArePeople'
             /\ imported' \in {None} \cup SUBSET RosterRow
  <2>1. UNCHANGED <<enrollment, imported>>
    BY <1>3 DEF RosterPreviewed, RosterPreview
  <2>2. ImportSettles'
    BY <1>0, <2>1 DEF ImportSettles, Active, Enrolled, IsStudent, OwnRole
  <2>3. plan' # None
    <3>1. PICK file \in File, source \in {"canvas_csv", "banner", "simple"} : RosterPreview(by, file, source)
      BY <1>3 DEF RosterPreviewed
    <3>2. Parsed(file, source) \in SUBSET RosterRow
      BY ParsedRows
    <3> DEFINE d == Difference(Parsed(file, source))
    <3>3. d.adds \in SUBSET RosterRow /\ d.moves \in SUBSET RosterRow /\ d.drops \in SUBSET Member
      BY <1>0, <3>2, DifferenceIs DEF Matched
    <3>4. Matched(Parsed(file, source)) \in SUBSET RosterRow
      BY <3>2 DEF Matched
    <3>5. plan' = [adds |-> d.adds, drops |-> d.drops, moves |-> d.moves,
                   rows |-> Matched(Parsed(file, source)), fresh |-> TRUE]
      BY <3>1 DEF RosterPreview
    <3> HIDE DEF d
    <3>6. plan' \in Plan
      BY <3>3, <3>4, <3>5 DEF Plan
    <3> QED BY <3>6, RosterAssumption
  <2> QED BY <1>0, <2>1, <2>2, <2>3 DEF ImportLeavesStaff, ImportedArePeople, RosterTypeOK
<1>4. ASSUME NEW by \in Member, RosterApply(by)
      PROVE  /\ ImportSettles' /\ ImportLeavesStaff /\ ImportedArePeople'
             /\ imported' \in {None} \cup SUBSET RosterRow
  <2>1. /\ plan # None /\ plan \in Plan
        /\ \A p \in Member : enrollment'[p] = Applied(p)
        /\ imported' = IF plan.fresh THEN plan.rows ELSE None
    BY <1>0, <1>4 DEF RosterApply, RosterTypeOK
  <2>2. \A p \in Member :
          /\ Applied(p) \in {None} \cup Enrollment
          /\ Enrolled(p) => /\ Applied(p) \in Enrollment
                            /\ Applied(p).role = enrollment[p].role
                            /\ Active(p) /\ ~IsStudent(p) => Applied(p).status = "active"
    BY <1>0, <2>1, AppliedKeeps
  <2>3. ImportLeavesStaff
    BY <2>1, <2>2 DEF ImportLeavesStaff, Active
  <2>4. ImportedArePeople' /\ imported' \in {None} \cup SUBSET RosterRow
    BY <1>0, <2>1 DEF Plan, PlanIsOfItsRows, ImportedArePeople
  <2>5. ASSUME plan.fresh PROVE ImportSettles'
    <3> DEFINE here == {p \in Member : IsStudent(p) /\ Active(p)}
    <3>1. /\ plan.rows \in SUBSET RosterRow /\ plan.adds \subseteq plan.rows /\ plan.moves \subseteq plan.rows
          /\ NamesOnce(plan.rows) /\ \A r \in plan.rows : r.netid \in Member
      BY <1>0, <2>1 DEF Plan, PlanIsOfItsRows
    <3>2. Matched(plan.rows) = plan.rows
      BY <3>1, RosterAssumption DEF Matched
    <3>3. /\ plan.adds = {r \in plan.rows : r.netid \notin here}
          /\ plan.moves = {r \in plan.rows : r.netid \in here /\ enrollment[r.netid].section # r.section}
          /\ plan.drops = here \ {r.netid : r \in plan.rows}
      BY <1>0, <2>1, <2>5, <3>2 DEF PlanIsOfItsRows, Difference
    <3>4. ASSUME NEW r \in plan.rows
          PROVE  Applied(r.netid) \in Enrollment /\ Applied(r.netid).status = "active"
                 /\ Applied(r.netid).section = r.section
      <4> DEFINE p == r.netid
      <4>1. p \in Member /\ r.section \in Section \cup {None}
        BY <3>1, <3>4 DEF RosterRow
      <4>2. CASE p \notin here
        <5>1. r \in plan.adds
          BY <3>3, <4>2
        <5>2. RowOf(plan.adds, p) = r
          BY <3>1, <5>1, RowOfNamed DEF NamesOnce
        <5>3. Applied(p) = IF Enrolled(p) THEN [enrollment[p] EXCEPT !.status = "active", !.section = r.section]
                           ELSE NewEnrollment("student", r.section)
          BY <5>1, <5>2 DEF Applied, Reinstated
        <5>4. CASE Enrolled(p)
          <6>1. enrollment[p] \in Enrollment
            BY <1>0, <4>1, <5>4, EnrolledOK
          <6> HIDE DEF p
          <6> QED BY <4>1, <5>3, <5>4, <6>1 DEF Enrollment, p
        <5>5. CASE ~Enrolled(p)
          <6>1. Applied(p) = NewEnrollment("student", r.section)
            BY <5>3, <5>5
          <6> QED BY <4>1, <6>1, NewEnrollmentOK DEF NewEnrollment, Role
        <5> QED BY <5>4, <5>5
      <4>3. CASE p \in here
        <5>1. ~(\E q \in plan.adds : q.netid = p) /\ p \notin plan.drops
          BY <3>3, <3>4, <4>3
        <5>2. Enrolled(p) /\ enrollment[p] \in Enrollment /\ enrollment[p].status = "active"
          BY <1>0, <4>3, EnrolledOK DEF Active
        <5>3. CASE enrollment[p].section = r.section
          <6>1. ~\E q \in plan.moves : q.netid = p
            BY <3>1, <3>3, <3>4, <5>3 DEF NamesOnce
          <6>2. Applied(p) = enrollment[p]
            BY <5>1, <6>1 DEF Applied, DroppedByPlan
          <6> QED BY <5>2, <5>3, <6>2
        <5>4. CASE enrollment[p].section # r.section
          <6>1. r \in plan.moves
            BY <3>3, <3>4, <4>3, <5>4
          <6>2. RowOf(plan.moves, p) = r
            BY <3>1, <6>1, RowOfNamed DEF NamesOnce
          <6>3. Applied(p) = [enrollment[p] EXCEPT !.section = r.section]
            BY <5>1, <5>2, <6>1, <6>2 DEF Applied, DroppedByPlan
          <6> QED BY <4>1, <5>2, <6>3 DEF Enrollment
        <5> QED BY <5>3, <5>4
      <4> QED BY <4>2, <4>3
    <3>5. ASSUME NEW p \in Member, (IsStudent(p) /\ Active(p))' PROVE \E r \in plan.rows : r.netid = p
      <4>1. CASE \E r \in plan.adds : r.netid = p
        BY <3>1, <4>1
      <4>2. CASE ~(\E r \in plan.adds : r.netid = p) /\ DroppedByPlan(p)
        <5>1. Applied(p) = [enrollment[p] EXCEPT !.status = "dropped"] /\ Enrolled(p)
          BY <4>2 DEF Applied, DroppedByPlan, IsStudent, OwnRole
        <5>2. Applied(p).status = "dropped"
          BY <1>0, <5>1, EnrolledOK DEF Enrollment
        <5> QED BY <2>1, <3>5, <5>2 DEF Active
      <4>3. CASE ~(\E r \in plan.adds : r.netid = p) /\ ~DroppedByPlan(p)
        <5>1. CASE Enrolled(p) /\ \E r \in plan.moves : r.netid = p
          BY <3>1, <5>1
        <5>2. CASE ~(Enrolled(p) /\ \E r \in plan.moves : r.netid = p)
          <6>1. Applied(p) = enrollment[p]
            BY <4>3, <5>2 DEF Applied
          <6>2. p \in here
            BY <2>1, <3>5, <6>1 DEF IsStudent, OwnRole, Active, Enrolled
          <6>3. p \notin plan.drops
            BY <4>3, <6>2 DEF DroppedByPlan
          <6> QED BY <3>3, <6>2, <6>3
        <5> QED BY <5>1, <5>2
      <4> QED BY <4>1, <4>2, <4>3
    <3>6. imported' = plan.rows
      BY <2>1, <2>5
    <3>7. ASSUME NEW r \in plan.rows PROVE (Active(r.netid) /\ enrollment[r.netid].section = r.section)'
      <4>1. enrollment'[r.netid] = Applied(r.netid) /\ Applied(r.netid) # None
        BY <2>1, <3>1, <3>4, <3>7, RosterAssumption
      <4> QED BY <3>4, <3>7, <4>1 DEF Active, Enrolled
    <3> QED BY <3>5, <3>6, <3>7 DEF ImportSettles
  <2>6. ASSUME ~plan.fresh PROVE ImportSettles'
    BY <2>1, <2>6 DEF ImportSettles
  <2> QED BY <2>3, <2>4, <2>5, <2>6, <2>1 DEF Plan
<1> QED BY <1>1, <1>2, <1>3, <1>4, ClassChanges, <1>0

\* An offering that does not exist yet has nobody enrolled, and nothing is being removed.
LEMMA RosterInitInv ==
  ASSUME RosterInit
  PROVE  RosterInv
<1> USE DEF RosterInit, Enrolled, Active, OwnRole
<1>1. RosterTypeOK
  BY RosterAssumption DEF RosterTypeOK
<1>2. DropsAreEnrolled /\ DropperStays /\ SomebodyStays
  BY DEF DropsAreEnrolled, DropperStays, SomebodyStays
<1>3. PlanIsOfItsRows /\ ImportedArePeople /\ ImportSettles
  BY DEF PlanIsOfItsRows, ImportedArePeople, ImportSettles
<1> QED BY <1>1, <1>2, <1>3 DEF RosterInv

\* Every step keeps the invariant.
LEMMA RosterStep ==
  ASSUME RosterInv, RosterNext
  PROVE  RosterInv'
<1>1. RosterTypeOK /\ DropsAreEnrolled /\ PlanIsOfItsRows
  BY DEF RosterInv
<1>2. RosterTypeOK'
  BY <1>1, RowsStay, PlanIsOfItsRowsStep, ImportSettlesStep, DropsStep, ClicksStep, StageStep
  DEF RosterTypeOK, StageOK
<1>3. DropsAreEnrolled' /\ PlanIsOfItsRows'
  BY <1>1, DropsStep, PlanIsOfItsRowsStep
<1>4. excused' = {} => DropperStays' /\ SomebodyStays'
  BY DropperStaysStep, SomebodyStaysStep
<1>5. ImportedArePeople' /\ ImportSettles'
  BY ImportSettlesStep
<1> QED BY <1>2, <1>3, <1>4, <1>5 DEF RosterInv

\* A step of nothing the roster keeps leaves the invariant.
LEMMA RosterStutter ==
  ASSUME RosterInv, UNCHANGED rosterVars
  PROVE  RosterInv' /\ ImportLeavesStaff
<1> USE DEF rosterVars, Enrolled, Active, OwnRole
<1>1. RosterTypeOK' /\ DropsAreEnrolled'
  BY DEF RosterInv, RosterTypeOK, DropsAreEnrolled
<1>2. excused' = {} => DropperStays' /\ SomebodyStays'
  BY DEF RosterInv, DropperStays, SomebodyStays, HasInstructor
<1>3. PlanIsOfItsRows' /\ ImportedArePeople' /\ ImportSettles'
  BY DEF RosterInv, PlanIsOfItsRows, NamesOnce, Difference, Matched, IsStudent, ImportedArePeople,
         ImportSettles
<1> QED BY <1>1, <1>2, <1>3 DEF RosterInv, ImportLeavesStaff

\* drop_enrollment's checks (api/roster.py:219): nothing the roster's routes do takes the last
\* instructor, unless two removals cross or somebody is demoted.
THEOREM AnInstructorIsKept == RosterSpec => []KeepsAnInstructor
<1>1. RosterInit => RosterInv
  BY RosterInitInv
<1>2. RosterInv /\ [RosterNext]_rosterVars => RosterInv'
  BY RosterStep, RosterStutter
<1>3. RosterInv => KeepsAnInstructor
  BY DEF RosterInv, KeepsAnInstructor, SomebodyStays, HadInstructor
<1> QED BY <1>1, <1>2, <1>3, PTL DEF RosterSpec

\* services/roster.apply: whatever happened to the class between a plan and its application,
\* the staff stays, and a plan that was still current leaves the class of the file.
THEOREM ImportsKeepTheirWord == RosterSpec => ImportsAreFaithful
<1>1. RosterInit => RosterInv
  BY RosterInitInv
<1>2. RosterInv /\ [RosterNext]_rosterVars => RosterInv'
  BY RosterStep, RosterStutter
<1>3. RosterInv /\ [RosterNext]_rosterVars => [ImportLeavesStaff /\ ImportSettles']_rosterVars
  BY ImportSettlesStep
<1> QED BY <1>1, <1>2, <1>3, PTL DEF RosterSpec, ImportsAreFaithful

-----------------------------------------------------------------------------
(* Storage: the inductive invariant.                                       *)

\* An assignment has been released, if anybody but its staff may open it.
Begun(a) == IsStaff(member) \/ Previewing(member) \/ ~Unreleased(setting[a], now)

\* A session nobody disturbed: its mounts have been released, the credential of a student
\* ends by the close of each assignment it covers, and covers every mount still granted.
SessionCovers ==
  session # None /\ ~session.disturbed =>
    LET c == session.credential
    IN  /\ member # None
        /\ \A a \in session.specs : Begun(a) /\ (a \in Granted => a \in c.covers)
        /\ ~IsStaff(member) =>
             \A a \in c.covers : setting[a].close_at # None => c.ends <= setting[a].close_at

\* Without a session nothing is used; what is used is an assignment.
OutcomeIsOfSession ==
  /\ session = None => outcome = NoOutcome
  /\ outcome.is # "none" => outcome.of \in Assignment

StorageInv ==
  /\ KernelTypeOK /\ SessionCovers /\ OutcomeIsOfSession
  /\ CredentialEndsByClose /\ RenewsItself /\ NothingReadAfterClose

-----------------------------------------------------------------------------
(* Storage: the broker.                                                    *)

\* A set of numbers has a least one.
LEMMA LeastIs ==
  ASSUME NEW S \in SUBSET Nat, S # {}
  PROVE  Least(S) \in S /\ \A y \in S : Least(S) <= y
<1> DEFINE R == OpToRel(<, Nat)
<1>1. IsWellFoundedOn(R, Nat)
  BY NatLessThanWellFounded, Zenon
<1>2. \A x, y \in Nat : <<x, y>> \in R <=> x < y
  BY DEF OpToRel
<1> HIDE DEF R
<1>3. PICK x \in S : \A y \in S : <<y, x>> \notin R
  BY <1>1, WFMin, Zenon
<1>4. ASSUME NEW y \in S PROVE x <= y
  <2>1. x \in Nat /\ y \in Nat /\ ~(y < x)
    BY <1>2, <1>3
  <2> QED BY <2>1
<1> QED BY <1>3, <1>4 DEF Least

\* The dates of an assignment.
LEMMA WindowDates ==
  ASSUME OpeningTypeOK, NEW a \in Assignment
  PROVE  /\ setting[a].close_at \in Nat \cup {None}
         /\ setting[a].release_at \in Nat \cup {None}
BY OpeningAssumption DEF OpeningTypeOK, Setting, Instant

\* A student's credential ends by the close of everything released to them.
LEMMA LastingIs ==
  ASSUME OpeningTypeOK, NEW wanted \in Nat \ {0}
  PROVE  /\ Lasting(wanted) \in Nat \ {0}
         /\ ~IsStaff(member) =>
              \A a \in Assignment : Released(a) /\ setting[a].close_at # None =>
                now + Lasting(wanted) <= setting[a].close_at
<1>1. now \in Nat /\ MinCredential \in Nat \ {0}
  BY OpeningAssumption DEF OpeningTypeOK
<1>2. Closes \in SUBSET Nat
  BY WindowDates DEF Closes
<1>3. \A x \in Closes : x - now >= MinCredential
  BY DEF Closes, Released
<1>4. CASE IsStaff(member) \/ Closes = {}
  <2>1. Lasting(wanted) = wanted
    BY <1>4 DEF Lasting
  <2> QED BY <1>4, <2>1 DEF Closes
<1>5. CASE ~(IsStaff(member) \/ Closes = {})
  <2>1. Least(Closes) \in Closes /\ \A y \in Closes : Least(Closes) <= y
    BY <1>2, <1>5, LeastIs
  <2> DEFINE least == Least(Closes)
  <2>2. Lasting(wanted) = Greater(MinCredential, Lesser(wanted, least - now))
    BY <1>5 DEF Lasting
  <2>3. least \in Nat /\ least - now >= MinCredential
    BY <1>2, <1>3, <2>1
  <2> HIDE DEF least
  <2>4. Lasting(wanted) \in Nat \ {0} /\ now + Lasting(wanted) <= least
    BY <1>1, <2>2, <2>3 DEF Greater, Lesser
  <2>5. ASSUME NEW a \in Assignment, Released(a), setting[a].close_at # None
        PROVE  now + Lasting(wanted) <= setting[a].close_at
    <3>1. setting[a].close_at \in Closes
      BY <2>5 DEF Closes
    <3>2. least <= setting[a].close_at /\ setting[a].close_at \in Nat
      BY <1>2, <2>1, <3>1 DEF least
    <3> QED BY <1>1, <2>3, <2>4, <3>2
  <2> QED BY <2>4, <2>5
<1> QED BY <1>4, <1>5

\* What the broker lends, for some of what it grants.
LEMMA CredentialIs ==
  ASSUME OpeningTypeOK, NEW covers \in SUBSET Granted, NEW wanted \in Nat \ {0}
  PROVE  LET c == Credential(covers, Lasting(wanted))
         IN  /\ c \in Credentials /\ c.ends > now /\ c.covers = covers
             /\ c.staff = IsStaff(member)
             /\ ~c.staff => \A a \in covers : setting[a].close_at # None => c.ends <= setting[a].close_at
<1>1. now \in Nat /\ covers \in SUBSET Assignment
  BY DEF OpeningTypeOK, Granted
<1>2. /\ Lasting(wanted) \in Nat \ {0}
      /\ ~IsStaff(member) =>
           \A a \in Assignment : Released(a) /\ setting[a].close_at # None =>
             now + Lasting(wanted) <= setting[a].close_at
  BY LastingIs
<1>3. ~IsStaff(member) => \A a \in covers : a \in Assignment /\ Released(a)
  BY DEF Granted
<1> DEFINE lasting == Lasting(wanted)
<1> HIDE DEF lasting
<1>4. /\ lasting \in Nat \ {0}
      /\ ~IsStaff(member) =>
           \A a \in covers : setting[a].close_at # None => now + lasting <= setting[a].close_at
  BY <1>2, <1>3 DEF lasting
<1>5. IsStaff(member) \in BOOLEAN
  BY DEF IsStaff
<1>6. Credential(covers, lasting) =
        [covers |-> covers, ends |-> now + lasting, staff |-> IsStaff(member), moved |-> {}]
  BY DEF Credential
<1>7. /\ Credential(covers, lasting) \in Credentials /\ Credential(covers, lasting).ends > now
      /\ Credential(covers, lasting).covers = covers
      /\ Credential(covers, lasting).staff = IsStaff(member)
      /\ Credential(covers, lasting).ends = now + lasting
  BY <1>1, <1>4, <1>5, <1>6 DEF Credentials
<1> QED BY <1>4, <1>7 DEF lasting

\* Lending leaves every credential good.
LEMMA LendingKeeps ==
  ASSUME OpeningTypeOK, CredentialEndsByClose,
         NEW covers \in SUBSET Granted, NEW wanted \in Nat \ {0},
         held' \in {held, held \cup {Credential(covers, Lasting(wanted))}},
         UNCHANGED <<now, setting, published, member, changes>>
  PROVE  OpeningTypeOK' /\ CredentialEndsByClose'
<1> DEFINE c == Credential(covers, Lasting(wanted))
<1>1. /\ c \in Credentials /\ c.ends > now /\ c.covers = covers
      /\ ~c.staff => \A a \in covers : setting[a].close_at # None => c.ends <= setting[a].close_at
  BY CredentialIs
<1> HIDE DEF c
<1>2. held' = held \/ held' = held \cup {c}
  BY DEF c
<1> QED BY <1>1, <1>2 DEF OpeningTypeOK, CredentialEndsByClose

\* Neither time nor anybody's change to a window or an enrollment leaves a credential that
\* outlives a close it was lent under.
LEMMA OpeningStep ==
  ASSUME OpeningTypeOK, CredentialEndsByClose, OpeningNext
  PROVE  OpeningTypeOK' /\ CredentialEndsByClose'
<1>1. CASE Tick
  <2>1. now \in Nat /\ now' = now + 1 /\ now' \in 0..MaxNow
    BY <1>1, OpeningAssumption DEF Tick, OpeningTypeOK
  <2>2. held' = {c \in held : c.ends > now'} /\ UNCHANGED <<setting, published, member, changes>>
    BY <1>1, <2>1 DEF Tick
  <2> QED BY <2>1, <2>2 DEF OpeningTypeOK, CredentialEndsByClose
<1>2. CASE \E a \in Assignment : PublishOne(a)
  BY <1>2, OpeningAssumption DEF PublishOne, Change, OpeningTypeOK, CredentialEndsByClose
<1>3. ASSUME NEW a \in Assignment, NEW s \in Offered, PatchWindow(a, s)
      PROVE  OpeningTypeOK' /\ CredentialEndsByClose'
  <2>1. \A c \in held : /\ [c EXCEPT !.moved = @ \cup {a}] \in Credentials
                        /\ [c EXCEPT !.moved = @ \cup {a}].ends = c.ends
                        /\ [c EXCEPT !.moved = @ \cup {a}].covers = c.covers
                        /\ [c EXCEPT !.moved = @ \cup {a}].staff = c.staff
                        /\ [c EXCEPT !.moved = @ \cup {a}].moved = c.moved \cup {a}
    BY DEF OpeningTypeOK, Credentials
  <2>2. /\ held' = {[c EXCEPT !.moved = @ \cup {a}] : c \in held}
        /\ setting' = [setting EXCEPT ![a] = s]
        /\ UNCHANGED <<now, published, member>> /\ Change
    BY <1>3 DEF PatchWindow
  <2>3. OpeningTypeOK'
    <3>1. setting' \in [Assignment -> Offered] /\ changes' \in 0..MaxChanges
      BY <2>2, OpeningAssumption DEF OpeningTypeOK, Change
    <3>2. held' \subseteq Credentials /\ \A c \in held' : c.ends > now
      BY <2>1, <2>2 DEF OpeningTypeOK
    <3> QED BY <2>2, <3>1, <3>2 DEF OpeningTypeOK
  <2>4. ASSUME NEW c \in held', NEW b \in c.covers \ c.moved, ~c.staff, setting'[b].close_at # None
        PROVE  c.ends <= setting'[b].close_at
    <3>1. PICK old \in held : /\ c.ends = old.ends /\ c.covers = old.covers /\ c.staff = old.staff
                              /\ c.moved = old.moved \cup {a}
      <4>1. PICK old \in held : c = [old EXCEPT !.moved = @ \cup {a}]
        BY <2>2
      <4> QED BY <2>1, <4>1
    <3>2. b \in old.covers \ old.moved /\ b # a /\ b \in Assignment
      BY <2>4, <3>1 DEF OpeningTypeOK, Credentials
    <3>3. setting'[b] = setting[b]
      BY <2>2, <3>2 DEF OpeningTypeOK
    <3> QED BY <2>4, <3>1, <3>2, <3>3 DEF CredentialEndsByClose
  <2> QED BY <2>3, <2>4 DEF CredentialEndsByClose
<1>4. CASE TogglePreview \/ DropMember
  <2>1. member' \in {None} \cup [role : Role, preview : BOOLEAN]
    BY <1>4 DEF TogglePreview, DropMember, OpeningTypeOK
  <2>2. Change /\ UNCHANGED <<now, setting, published, held>>
    BY <1>4 DEF TogglePreview, DropMember
  <2> QED BY <2>1, <2>2, OpeningAssumption DEF OpeningTypeOK, CredentialEndsByClose, Change
<1>5. CASE OpenSession
  <2>1. CredentialTTL \in Nat \ {0} /\ Granted \in SUBSET Granted
    BY OpeningAssumption
  <2>2. /\ held' = held \cup {Credential(Granted, Lasting(CredentialTTL))}
        /\ UNCHANGED <<now, setting, published, member, changes>>
    BY <1>5 DEF OpenSession
  <2> QED BY <2>1, <2>2, LendingKeeps
<1>6. ASSUME NEW a \in Assignment, NEW wanted \in {MinCredential, PresignMax + 1}, Presign(a, wanted)
      PROVE  OpeningTypeOK' /\ CredentialEndsByClose'
  <2>1. Lesser(wanted, PresignMax) \in Nat \ {0}
    BY OpeningAssumption DEF Lesser
  <2>2. {a} \in SUBSET Granted
    BY <1>6 DEF Presign
  <2> QED BY <1>6, <2>1, <2>2, LendingKeeps DEF Presign
<1> QED BY <1>1, <1>2, <1>3, <1>4, <1>5, <1>6 DEF OpeningNext

\* What storage grants can be downloaded; what can be downloaded is listed, and handed in.
LEMMA GatesDo ==
  ASSUME OpeningTypeOK
  PROVE  GatesAgree
<1> SUFFICES ASSUME member # None, NEW a \in Assignment, IsPrivate(setting[a])
             PROVE  /\ a \in Granted => Fetchable(a)
                    /\ Fetchable(a) => Listed(a) /\ TakesAttempt(a)
  BY DEF GatesAgree
<1> DEFINE state == WindowState(setting[a], now, Previewing(member))
<1>1. Fetchable(a) <=> IsStaff(member) \/ state = "open"
  <2>1. state # None
    BY OpeningAssumption DEF WindowState
  <2> HIDE DEF state
  <2>2. FetchRefusal(setting[a], TRUE, member, now) = IF IsStaff(member) \/ state = "open" THEN None ELSE state
    BY DEF FetchRefusal, state
  <2> QED BY <2>1, <2>2 DEF Fetchable
<1>2. a \in Granted => IsStaff(member) \/ state = "open"
  BY DEF Granted, Released
<1>3. state = "open" => Listed(a) /\ TakesAttempt(a)
  BY DEF Listed, TakesAttempt, SubmissionRefusal
<1> HIDE DEF state
<1>4. IsStaff(member) => Listed(a) /\ TakesAttempt(a)
  BY DEF Listed, TakesAttempt
<1> QED BY <1>1, <1>2, <1>3, <1>4

\* No public door tells a private assignment from a missing one.
LEMMA PrivateLooks ==
  ASSUME OpeningTypeOK
  PROVE  PrivateLooksMissing
<1> SUFFICES ASSUME NEW a \in Assignment, IsPrivate(setting[a])
             PROVE  /\ a \notin PubliclyListed
                    /\ \A caller \in {"signed_out", "outsider"}
                                     \cup (IF member = None THEN {"member"} ELSE {}) :
                         /\ PublicAnswer(a, caller) = PublicAnswer(Missing, caller)
                         /\ LaunchAnswer(a, caller) = LaunchAnswer(Missing, caller)
  BY DEF PrivateLooksMissing
<1>1. a \notin PubliclyListed
  BY DEF PubliclyListed
<1>2. Missing \notin published
  BY OpeningAssumption DEF OpeningTypeOK
<1>3. ASSUME NEW caller \in {"signed_out", "outsider"} \cup (IF member = None THEN {"member"} ELSE {})
      PROVE  /\ PublicAnswer(a, caller) = PublicAnswer(Missing, caller)
             /\ LaunchAnswer(a, caller) = LaunchAnswer(Missing, caller)
  <2>1. caller # "signed_out" => (IF caller = "member" THEN member ELSE None) = None
    BY <1>3
  <2>2. FetchRefusal(setting[a], caller # "signed_out", IF caller = "member" THEN member ELSE None, now)
          = IF caller = "signed_out" THEN "sign_in" ELSE "not_found"
    BY <2>1 DEF FetchRefusal
  <2>3. Gate(a, caller) = "not_found" /\ "not_found" # None
    BY <2>2, OpeningAssumption DEF Gate
  <2>4. caller # "signed_out" =>
          FetchRefusal(setting[a], TRUE, IF caller = "member" THEN member ELSE None, now) = "not_found"
    BY <2>1 DEF FetchRefusal
  <2> QED BY <1>2, <2>3, <2>4 DEF PublicAnswer, LaunchAnswer
<1> QED BY <1>1, <1>3

-----------------------------------------------------------------------------
(* Storage: the kernel's session.                                          *)

\* Once released, an assignment that is not granted any more is never granted again.
LEMMA GrantsEnd ==
  ASSUME OpeningTypeOK, NEW a \in Assignment, Begun(a), UNCHANGED <<setting, member>>,
         now' \in Nat, now <= now'
  PROVE  Begun(a)' /\ (a \in Granted' => a \in Granted)
<1>1. now \in Nat /\ setting[a].close_at \in Nat \cup {None} /\ setting[a].release_at \in Nat \cup {None}
  BY WindowDates DEF OpeningTypeOK
<1> DEFINE s == setting[a]
<1>2. s' = s /\ member' = member
  OBVIOUS
<1>3. ~Unreleased(s, now) => ~Unreleased(s, now')
  BY <1>1 DEF Unreleased
<1>4. Closed(s, now) => Closed(s, now')
  BY <1>1 DEF Closed
<1>5. s.close_at # None /\ s.close_at - now' >= MinCredential => s.close_at - now >= MinCredential
  BY <1>1, OpeningAssumption
<1> HIDE DEF s
<1>6. Begun(a)' <=> IsStaff(member) \/ Previewing(member) \/ ~Unreleased(s, now')
  BY <1>2 DEF Begun, s
<1>7. a \in Granted' <=>
        IsStaff(member) \/ ( (WindowState(s, now', Previewing(member)) = "open")
                            /\ (s.close_at # None => s.close_at - now' >= MinCredential) )
  BY <1>2 DEF Granted, Released, s
<1>8. a \in Granted <=>
        IsStaff(member) \/ ( (WindowState(s, now, Previewing(member)) = "open")
                            /\ (s.close_at # None => s.close_at - now >= MinCredential) )
  BY DEF Granted, Released, s
<1>9. Begun(a) <=> IsStaff(member) \/ Previewing(member) \/ ~Unreleased(s, now)
  BY DEF Begun, s
<1>10. /\ Previewing(member) \/ ~Unreleased(s, now)
       /\ WindowState(s, now', Previewing(member)) = "open"
       => WindowState(s, now, Previewing(member)) = "open"
  BY <1>4 DEF WindowState
<1> QED BY <1>3, <1>5, <1>6, <1>7, <1>8, <1>9, <1>10

\* What is granted has been released.
LEMMA GrantedHasBegun ==
  ASSUME NEW a \in Granted
  PROVE  a \in Assignment /\ Begun(a)
BY DEF Granted, Released, Begun, WindowState

\* Connecting opens a session that covers its mounts.
LEMMA ConnectStep ==
  ASSUME StorageInv, Connect
  PROVE  StorageInv'
<1> DEFINE c == Credential(Granted, Lasting(CredentialTTL))
<1>1. OpeningTypeOK /\ CredentialEndsByClose /\ token = "valid" /\ outcome = NoOutcome
  BY DEF StorageInv, KernelTypeOK, Connect, OutcomeIsOfSession, TokenWillDo
<1>2. /\ c \in Credentials /\ c.covers = Granted
      /\ ~IsStaff(member) => \A a \in Granted : setting[a].close_at # None => c.ends <= setting[a].close_at
  BY <1>1, CredentialIs, OpeningAssumption
<1>3. OpeningNext
  BY DEF Connect, OpeningNext
<1>4. OpeningTypeOK' /\ CredentialEndsByClose'
  BY <1>1, <1>3, OpeningStep
<1>5. /\ session' = [specs |-> Granted, credential |-> c, disturbed |-> FALSE]
      /\ UNCHANGED <<now, setting, published, member, changes, token, outcome>> /\ member # None
  BY DEF Connect, OpenSession
<1>6. Granted' = Granted /\ Granted \subseteq Assignment
  BY <1>5 DEF Granted, Released
<1> HIDE DEF c
<1>7. session' \in Session
  BY <1>2, <1>5, <1>6 DEF Session
<1>8. \A a \in Granted : Begun(a)'
  BY <1>5, GrantedHasBegun DEF Begun
<1>9. SessionCovers'
  BY <1>2, <1>5, <1>6, <1>8 DEF SessionCovers
<1>10. KernelTypeOK' /\ OutcomeIsOfSession'
  BY <1>1, <1>4, <1>5, <1>7, SessionAssumption DEF KernelTypeOK, OutcomeIsOfSession, NoOutcome
<1>11. RenewsItself' /\ NothingReadAfterClose'
  BY <1>1, <1>5 DEF RenewsItself, NothingReadAfterClose, NoOutcome
<1> QED BY <1>4, <1>9, <1>10, <1>11 DEF StorageInv

\* Whatever the server or time does, a session knows whether it was disturbed.
LEMMA ServerStep ==
  ASSUME StorageInv, Server
  PROVE  StorageInv'
<1>1. OpeningTypeOK /\ CredentialEndsByClose /\ SessionCovers /\ KernelTypeOK
  BY DEF StorageInv, KernelTypeOK
<1>2. OpeningTypeOK' /\ CredentialEndsByClose'
  BY <1>1, OpeningStep DEF Server
<1>3. /\ session' = IF session = None THEN None
                    ELSE [session EXCEPT !.disturbed = @ \/ setting' # setting \/ member' # member]
      /\ outcome' = NoOutcome /\ token' = token
  BY DEF Server
<1>4. now' \in Nat /\ now <= now'
  <2>1. now \in Nat /\ (now' = now \/ now' = now + 1)
    <3>1. now \in Nat /\ OpeningNext
      BY <1>1 DEF Server, OpeningTypeOK
    <3>2. CASE Tick
      BY <3>1, <3>2 DEF Tick
    <3>3. ASSUME NEW a \in Assignment,
                 PublishOne(a) \/ (\E s \in Offered : PatchWindow(a, s))
                 \/ (\E wanted \in {MinCredential, PresignMax + 1} : Presign(a, wanted))
          PROVE  now' = now
      BY <3>3 DEF PublishOne, PatchWindow, Presign
    <3>4. TogglePreview \/ DropMember \/ OpenSession => now' = now
      BY DEF TogglePreview, DropMember, OpenSession
    <3> QED BY <3>1, <3>2, <3>3, <3>4 DEF OpeningNext
  <2> QED BY <2>1
<1>5. session # None =>
        /\ session \in Session /\ session' \in Session
        /\ session'.specs = session.specs /\ session'.credential = session.credential
        /\ ~session'.disturbed => ~session.disturbed /\ setting' = setting /\ member' = member
  BY <1>1, <1>3 DEF KernelTypeOK, Session
<1>6. session = None => session' = None
  BY <1>3
<1>7. SessionCovers'
  <2> SUFFICES ASSUME session' # None, ~session'.disturbed
               PROVE  LET c == session'.credential
                      IN  /\ member' # None
                          /\ \A a \in session'.specs : Begun(a)' /\ (a \in Granted' => a \in c.covers)
                          /\ ~IsStaff(member') => \A a \in c.covers :
                               setting'[a].close_at # None => c.ends <= setting'[a].close_at
    BY DEF SessionCovers
  <2>1. /\ session # None /\ ~session.disturbed /\ setting' = setting /\ member' = member
        /\ session'.specs = session.specs /\ session'.credential = session.credential
        /\ session.specs \subseteq Assignment
    BY <1>5, <1>6 DEF Session
  <2>2. \A a \in session.specs : Begun(a) /\ (a \in Granted => a \in session.credential.covers)
    BY <1>1, <2>1 DEF SessionCovers
  <2>3. \A a \in session.specs : Begun(a)' /\ (a \in Granted' => a \in Granted)
    BY <1>1, <1>4, <2>1, <2>2, GrantsEnd
  <2> QED BY <1>1, <2>1, <2>2, <2>3 DEF SessionCovers
<1>8. KernelTypeOK' /\ OutcomeIsOfSession'
  BY <1>1, <1>2, <1>3, <1>5, <1>6 DEF KernelTypeOK, OutcomeIsOfSession, NoOutcome
<1>9. RenewsItself' /\ NothingReadAfterClose'
  BY <1>3 DEF RenewsItself, NothingReadAfterClose, NoOutcome
<1> QED BY <1>2, <1>7, <1>8, <1>9 DEF StorageInv

\* A mount the session does not have, and a broker that has to be asked and refuses.
LEMMA UseMountFails ==
  ASSUME StorageInv, NEW a \in Assignment, NEW what \in {"not_released", "refused"}, session # None,
         outcome' = [of |-> a, is |-> what], UNCHANGED <<openVars, token, session>>
  PROVE  StorageInv'
<1> USE DEF openVars
<1>1. SessionCovers' /\ CredentialEndsByClose'
  BY DEF StorageInv, SessionCovers, CredentialEndsByClose, Begun, Granted, Released
<1>2. KernelTypeOK' /\ OutcomeIsOfSession'
  BY DEF StorageInv, KernelTypeOK, OpeningTypeOK, OutcomeIsOfSession
<1>3. RenewsItself' /\ NothingReadAfterClose'
  BY DEF RenewsItself, NothingReadAfterClose
<1> QED BY <1>1, <1>2, <1>3 DEF StorageInv

\* A mount that is used, under a credential renewed when it nears its end.
LEMMA UseMountStep ==
  ASSUME StorageInv, NEW a \in Assignment, UseMount(a)
  PROVE  StorageInv'
<1>1. /\ OpeningTypeOK /\ CredentialEndsByClose /\ SessionCovers /\ session \in Session /\ session # None
      /\ token # "none" /\ token \in {"valid", "expired"}
      /\ UNCHANGED <<now, setting, published, member, changes, token>>
  BY DEF StorageInv, KernelTypeOK, UseMount
<1>2. CASE a \notin session.specs \/ Refused
  BY <1>1, <1>2, UseMountFails DEF UseMount, openVars
<1>3. CASE a \in session.specs /\ ~Refused
  <2> DEFINE c == Provided
             lent == Credential(Granted, Lasting(CredentialTTL))
  <2>1. /\ session' = [session EXCEPT !.credential = c]
        /\ held' = IF NearEnd THEN held \cup {c} ELSE held
        /\ outcome' = [of |-> a, is |-> Honoured(c, a)]
    BY <1>3 DEF UseMount
  <2>2. c = IF NearEnd THEN lent ELSE session.credential
    BY DEF Provided
  <2>3. /\ lent \in Credentials /\ lent.ends > now /\ lent.covers = Granted
        /\ ~IsStaff(member) => \A b \in Granted : setting[b].close_at # None => lent.ends <= setting[b].close_at
    BY <1>1, CredentialIs, OpeningAssumption
  <2>4. CredentialTTL \in Nat \ {0} /\ Granted \in SUBSET Granted
    BY OpeningAssumption
  <2>5. held' \in {held, held \cup {lent}}
    BY <2>1, <2>2
  <2>6. OpeningTypeOK' /\ CredentialEndsByClose'
    BY <1>1, <2>4, <2>5, LendingKeeps
  <2> HIDE DEF lent, c
  <2>7. c \in Credentials /\ c.ends > now
    <3>1. CASE NearEnd
      BY <2>2, <2>3, <3>1
    <3>2. CASE ~NearEnd
      <4>1. session.credential.ends \in Nat /\ now \in Nat /\ ~(session.credential.ends < now + Margin)
        BY <1>1, <3>2 DEF Session, Credentials, OpeningTypeOK, NearEnd
      <4> QED BY <1>1, <2>2, <3>2, <4>1, SessionAssumption DEF Session
    <3> QED BY <3>1, <3>2
  <2>8. /\ session' \in Session /\ session'.specs = session.specs
        /\ session'.credential = c /\ session'.disturbed = session.disturbed
    BY <1>1, <2>1, <2>7 DEF Session
  <2>9. Granted' = Granted
    BY <1>1 DEF Granted, Released
  <2>10. SessionCovers'
    <3> SUFFICES ASSUME ~session.disturbed
                 PROVE  /\ member # None
                        /\ \A b \in session.specs : Begun(b)' /\ (b \in Granted => b \in c.covers)
                        /\ ~IsStaff(member) => \A b \in c.covers :
                             setting[b].close_at # None => c.ends <= setting[b].close_at
      BY <1>1, <2>8, <2>9 DEF SessionCovers
    <3>1. member # None /\ \A b \in session.specs : Begun(b)'
      BY <1>1 DEF SessionCovers, Begun
    <3>2. CASE NearEnd
      BY <2>2, <2>3, <3>1, <3>2
    <3>3. CASE ~NearEnd
      BY <1>1, <2>2, <3>1, <3>3 DEF SessionCovers
    <3> QED BY <3>2, <3>3
  <2>11. KernelTypeOK' /\ OutcomeIsOfSession'
    <3>1. session' # None /\ outcome'.of = a /\ outcome'.is \in {"read", "denied"}
      BY <2>1, <2>8, SessionAssumption DEF Honoured
    <3> QED BY <1>1, <2>6, <2>8, <3>1 DEF KernelTypeOK, OutcomeIsOfSession
  <2>12. outcome'.of = a /\ outcome'.is = Honoured(c, a) /\ session' # None
    BY <2>1, <2>8, SessionAssumption
  <2>13. RenewsItself'
    <3> SUFFICES ASSUME Honoured(c, a) = "denied", ~session.disturbed PROVE a \notin Granted
      BY <2>8, <2>9, <2>12 DEF RenewsItself
    <3>1. a \notin c.covers
      BY <2>7 DEF Honoured
    <3> QED BY <1>3, <2>8, <2>9, <2>10, <2>12, <3>1 DEF SessionCovers
  <2>14. NothingReadAfterClose'
    <3> SUFFICES ASSUME Honoured(c, a) = "read", ~session.disturbed, ~IsStaff(member)
                 PROVE  ~Closed(setting[a], now)
      BY <1>1, <2>8, <2>12 DEF NothingReadAfterClose
    <3>1. a \in c.covers
      BY DEF Honoured
    <3>2. setting[a].close_at # None => c.ends <= setting[a].close_at
      BY <1>1, <2>8, <2>10, <2>12, <3>1 DEF SessionCovers
    <3>3. setting[a].close_at \in Nat \cup {None} /\ now \in Nat /\ c.ends \in Nat
      BY <1>1, <2>7, WindowDates DEF OpeningTypeOK, Credentials
    <3> QED BY <2>7, <3>2, <3>3 DEF Closed
  <2> QED BY <2>6, <2>10, <2>11, <2>13, <2>14 DEF StorageInv
<1> QED BY <1>2, <1>3

\* Signing in, a token that ends and a kernel that restarts.
LEMMA TokenStep ==
  ASSUME StorageInv, Adopt \/ TokenExpires \/ KernelRestart \/ UNCHANGED kernelVars
  PROVE  StorageInv'
<1> USE DEF Adopt, TokenExpires, KernelRestart, kernelVars, sessionVars, openVars, NoOutcome
<1>1. SessionCovers' /\ CredentialEndsByClose'
  BY DEF StorageInv, SessionCovers, CredentialEndsByClose, Begun, Granted, Released
<1>2. KernelTypeOK'
  BY DEF StorageInv, KernelTypeOK, OpeningTypeOK
<1>3. OutcomeIsOfSession'
  BY DEF StorageInv, OutcomeIsOfSession
<1>4. RenewsItself' /\ NothingReadAfterClose'
  BY DEF StorageInv, RenewsItself, NothingReadAfterClose, Granted, Released
<1> QED BY <1>1, <1>2, <1>3, <1>4 DEF StorageInv

\* Every step keeps the invariant.
LEMMA StorageStep ==
  ASSUME StorageInv, [KernelNext]_kernelVars
  PROVE  StorageInv'
BY TokenStep, ConnectStep, ServerStep, UseMountStep DEF KernelNext

\* Nothing is lent and nothing used before anybody signs in.
LEMMA StorageInit ==
  ASSUME KernelInit
  PROVE  StorageInv
<1> USE DEF KernelInit, OpeningInit, NoOutcome
<1>1. OpeningTypeOK
  <2>1. now \in 0..MaxNow /\ changes \in 0..MaxChanges
    BY OpeningAssumption
  <2> QED BY <2>1 DEF OpeningTypeOK, Role
<1>2. KernelTypeOK /\ SessionCovers /\ OutcomeIsOfSession
  BY <1>1 DEF KernelTypeOK, SessionCovers, OutcomeIsOfSession
<1>3. CredentialEndsByClose /\ RenewsItself /\ NothingReadAfterClose
  BY DEF CredentialEndsByClose, RenewsItself, NothingReadAfterClose
<1> QED BY <1>2, <1>3 DEF StorageInv

\* services/storage.py's clamp of a credential, and the kernel's renewal of it: nothing is
\* lent, and nothing read, past the close of a window nobody moved.
THEOREM StorageStopsAtTheClose == KernelSpec => []NothingOutlivesTheClose
<1>1. StorageInv => NothingOutlivesTheClose
  BY DEF StorageInv, NothingOutlivesTheClose
<1> QED BY <1>1, StorageInit, StorageStep, PTL DEF KernelSpec

\* client storage/_session.py's renewal: a mount is denied only when the server grants it
\* no longer, unless its grants were disturbed.
THEOREM SessionsRenewThemselves == KernelSpec => []RenewsItself
<1>1. StorageInv => RenewsItself
  BY DEF StorageInv
<1> QED BY <1>1, StorageInit, StorageStep, PTL DEF KernelSpec

\* The portal's list, the download, the hand-in, the storage broker and the public doors
\* give one answer about a private assignment, at every instant and whatever its window.
THEOREM DoorsAgreeAlways == KernelSpec => []DoorsAgree
<1>1. StorageInv => DoorsAgree
  BY GatesDo, PrivateLooks DEF StorageInv, KernelTypeOK, DoorsAgree
<1> QED BY <1>1, StorageInit, StorageStep, PTL DEF KernelSpec

-----------------------------------------------------------------------------
(* The files on a disk: the inductive invariant.                           *)

\* What is kept of a call of local_path, and of one of a memoised function.
PathCall == [at : {"idle", "compare", "get", "write", "replace", "record", "returned"},
             entry : Content \cup {Absent}, got : Content \cup {Absent, "torn"}, seen : SUBSET Content]
MemoCall == [at : {"idle", "store", "storing", "keep", "returned", "failed"},
             from : {"local", "shared", "private", "nowhere"}]
Tier == {"no", "torn", "whole"}

\* A call of local_path has its object's entry, and has seen what the object holds.
CallSees(k) ==
  /\ ~At(k, "idle") => path[k].entry \in Content /\ object \in path[k].seen
  /\ At(k, "record") => copy # Absent
  /\ Downloading(k) => path[k].got \in Content

\* What a call downloads it has seen; it is what the object still holds, if the object is
\* still what the call began with, or what the copy's record says.  Another call that is
\* about to compare has seen it too, if either is what that call began with.
DownloadIsSeen(k) ==
  Downloading(k) =>
    LET got == path[k].got
    IN  /\ got \in path[k].seen
        /\ object \in {path[k].entry, meta} => got = object
        /\ At(k, "replace") => part = got
        /\ At(k, "record") => copy = got
        /\ \A j \in Kernel : Downloading(j) => j = k
        /\ \A j \in Kernel : At(j, "compare") /\ path[j].entry \in {path[k].entry, meta} =>
             got \in path[j].seen

\* A call that may reuse the copy has seen it; one that returned has seen what it returned.
CopyIsSeen(k) ==
  /\ At(k, "compare") /\ copy # Absent /\ path[k].entry = meta => copy \in path[k].seen
  /\ At(k, "returned") => path[k].got \in path[k].seen

\* The object, the copy and the calls of local_path.
PathInv ==
  /\ object \in Content
  /\ copy \in Content \cup {Absent, "torn"} /\ part \in Content \cup {Absent, "torn"}
  /\ meta \in Content \cup {Absent} /\ (meta # Absent => copy # Absent)
  /\ path \in [Kernel -> PathCall]
  /\ \A k \in Kernel : CallSees(k)
  /\ ~crossed => /\ \A k \in Kernel : DownloadIsSeen(k) /\ CopyIsSeen(k)
                 /\ meta = object => copy = object

\* The memoised result and its calls: one that was computed is kept for good.
MemoInv ==
  /\ call \in [Kernel -> MemoCall] /\ memo \in [local : Tier, shared : Tier, private : Tier]
  /\ events \in 0..MaxEvents
  /\ computed => memo.private # "no"

FilesInv == PathInv /\ MemoInv

-----------------------------------------------------------------------------
(* The files on a disk: the steps.                                         *)

\* One call of local_path goes on: how it stands afterwards.
PathGoes(k, at, entry, got, saw) ==
  /\ path' \in [Kernel -> PathCall]
  /\ \A j \in Kernel : j # k => path'[j] = path[j]
  /\ path'[k].at = at /\ path'[k].entry = entry /\ path'[k].got = got /\ path'[k].seen = saw

\* A call that goes on is replaced in one place.
LEMMA PathSet ==
  ASSUME path \in [Kernel -> PathCall], NEW k \in Kernel, NEW q \in PathCall,
         path' = [path EXCEPT ![k] = q]
  PROVE  PathGoes(k, q.at, q.entry, q.got, q.seen)
BY DEF PathGoes

\* A call that only goes on to its next step.
LEMMA PathGoto ==
  ASSUME path \in [Kernel -> PathCall], NEW k \in Kernel,
         NEW at \in {"idle", "compare", "get", "write", "replace", "record", "returned"},
         Goto(k, at)
  PROVE  PathGoes(k, at, path[k].entry, path[k].got, path[k].seen)
BY DEF Goto, PathGoes, PathCall

\* A call that goes on with something it got.
LEMMA PathGets ==
  ASSUME path \in [Kernel -> PathCall], NEW k \in Kernel,
         NEW at \in {"idle", "compare", "get", "write", "replace", "record", "returned"},
         NEW got \in Content \cup {Absent, "torn"},
         path' = [path EXCEPT ![k].at = at, ![k].got = got]
  PROVE  PathGoes(k, at, path[k].entry, got, path[k].seen)
BY DEF PathGoes, PathCall

\* The object's entry is asked for: what is downloaded or recorded under it is the object.
LEMMA HeadRequestStep ==
  ASSUME PathInv, NEW k \in Kernel, HeadRequest(k)
  PROVE  PathInv'
<1> USE DEF PathInv, At, Downloading
<1> DEFINE q == [NoPath EXCEPT !.at = "compare", !.entry = object, !.seen = {object}]
<1>1. q \in PathCall /\ q.at = "compare" /\ q.entry = object /\ q.got = Absent /\ q.seen = {object}
  BY DEF NoPath, PathCall
<1>2. path' = [path EXCEPT ![k] = q] /\ UNCHANGED <<object, copy, part, meta, crossed>> /\ path[k].at = "idle"
  BY DEF HeadRequest
<1> HIDE DEF q
<1>3. PathGoes(k, "compare", object, Absent, {object})
  BY <1>1, <1>2, PathSet
<1>4. \A j \in Kernel : CallSees(j)'
  BY <1>2, <1>3 DEF PathGoes, CallSees
<1>5. ASSUME ~crossed, NEW j \in Kernel PROVE DownloadIsSeen(j)' /\ CopyIsSeen(j)'
  <2>1. CopyIsSeen(j)'
    BY <1>2, <1>3, <1>5 DEF PathGoes, CopyIsSeen
  <2>2. DownloadIsSeen(j)'
    BY <1>2, <1>3, <1>5 DEF PathGoes, DownloadIsSeen
  <2> QED BY <2>1, <2>2
<1> QED BY <1>2, <1>3, <1>4, <1>5 DEF PathGoes

\* The copy is reused, or not.
LEMMA ReuseStep ==
  ASSUME PathInv, NEW k \in Kernel, Reuse(k)
  PROVE  PathInv'
<1> USE DEF PathInv, At, Downloading
<1>1. UNCHANGED <<object, copy, part, meta, crossed>> /\ path[k].at = "compare"
  BY DEF Reuse
<1>2. \/ PathGoes(k, "returned", path[k].entry, copy, path[k].seen) /\ copy # Absent /\ path[k].entry = meta
      \/ PathGoes(k, "get", path[k].entry, path[k].got, path[k].seen)
  BY PathGoto, PathGets DEF Reuse, SameEntry
<1>3. \A j \in Kernel : CallSees(j)'
  BY <1>1, <1>2 DEF PathGoes, CallSees
<1>4. ASSUME ~crossed, NEW j \in Kernel PROVE DownloadIsSeen(j)' /\ CopyIsSeen(j)'
  <2>1. CopyIsSeen(j)'
    BY <1>1, <1>2, <1>4 DEF PathGoes, CopyIsSeen
  <2>2. DownloadIsSeen(j)'
    BY <1>1, <1>2, <1>4 DEF PathGoes, DownloadIsSeen
  <2> QED BY <2>1, <2>2
<1> QED BY <1>1, <1>2, <1>3, <1>4 DEF PathGoes

\* The object is asked for, as it is now.
LEMMA GetStep ==
  ASSUME PathInv, NEW k \in Kernel, Get(k)
  PROVE  PathInv'
<1> USE DEF PathInv, At, Downloading
<1>1. /\ UNCHANGED <<object, copy, meta>> /\ path[k].at = "get" /\ part' = "torn"
      /\ crossed' = (crossed \/ \E j \in Kernel : Downloading(j))
  BY DEF Get, NotedAfter
<1>2. PathGoes(k, "write", path[k].entry, object, path[k].seen)
  BY PathGets DEF Get
<1>3. \A j \in Kernel : CallSees(j)'
  BY <1>1, <1>2 DEF PathGoes, CallSees
<1>4. ASSUME ~crossed', NEW j \in Kernel PROVE DownloadIsSeen(j)' /\ CopyIsSeen(j)'
  <2>1. CopyIsSeen(j)'
    BY <1>1, <1>2, <1>4 DEF PathGoes, CopyIsSeen
  <2>2. DownloadIsSeen(j)'
    BY <1>1, <1>2, <1>4 DEF PathGoes, DownloadIsSeen, CallSees
  <2> QED BY <2>1, <2>2
<1> QED BY <1>1, <1>2, <1>3, <1>4 DEF PathGoes

\* The partial file is filled, renamed and recorded.
LEMMA FillStep ==
  ASSUME PathInv, NEW k \in Kernel, Fill(k)
  PROVE  PathInv'
<1> USE DEF PathInv, At, Downloading
<1>1. UNCHANGED <<object, copy, meta, crossed>> /\ path[k].at = "write" /\ part' = path[k].got
  BY DEF Fill
<1>2. PathGoes(k, "replace", path[k].entry, path[k].got, path[k].seen)
  BY PathGoto DEF Fill
<1>3. \A j \in Kernel : CallSees(j)'
  BY <1>1, <1>2 DEF PathGoes, CallSees
<1>4. ASSUME ~crossed, NEW j \in Kernel PROVE DownloadIsSeen(j)' /\ CopyIsSeen(j)'
  <2>1. CopyIsSeen(j)'
    BY <1>1, <1>2, <1>4 DEF PathGoes, CopyIsSeen
  <2>2. DownloadIsSeen(j)'
    BY <1>1, <1>2, <1>4 DEF PathGoes, DownloadIsSeen
  <2> QED BY <2>1, <2>2
<1> QED BY <1>1, <1>2, <1>3, <1>4 DEF PathGoes, CallSees

\* A call that ends, by itself or with its kernel.
LEMMA PathEnds ==
  ASSUME PathInv, NEW k \in Kernel, path' = [path EXCEPT ![k] = NoPath],
         UNCHANGED <<object, copy, part, meta, crossed>>
  PROVE  PathInv'
<1> USE DEF PathInv, At, Downloading
<1>1. NoPath \in PathCall /\ NoPath.at = "idle"
  BY DEF NoPath, PathCall
<1>2. PathGoes(k, "idle", NoPath.entry, NoPath.got, NoPath.seen)
  BY <1>1, PathSet
<1>3. \A j \in Kernel : CallSees(j)'
  BY <1>2 DEF PathGoes, CallSees
<1>4. ASSUME ~crossed, NEW j \in Kernel PROVE DownloadIsSeen(j)' /\ CopyIsSeen(j)'
  <2>1. CopyIsSeen(j)'
    BY <1>2, <1>4 DEF PathGoes, CopyIsSeen
  <2>2. DownloadIsSeen(j)'
    BY <1>2, <1>4 DEF PathGoes, DownloadIsSeen
  <2> QED BY <2>1, <2>2
<1> QED BY <1>2, <1>3, <1>4 DEF PathGoes

\* The partial file becomes the copy: what was downloaded, if nobody else downloads.
LEMMA ReplaceStep ==
  ASSUME PathInv, NEW k \in Kernel, Replace(k)
  PROVE  PathInv'
<1> USE DEF PathInv, At, Downloading
<1>1. UNCHANGED <<object, meta, crossed>> /\ path[k].at = "replace"
  BY DEF Replace
<1>2. CASE part = Absent
  BY <1>1, <1>2, PathEnds DEF Replace
<1>3. CASE part # Absent
  <2>1. copy' = part /\ part' = Absent
    BY <1>3 DEF Replace
  <2>2. PathGoes(k, "record", path[k].entry, path[k].got, path[k].seen)
    BY <1>3, PathGoto DEF Replace
  <2>3. \A j \in Kernel : CallSees(j)'
    BY <1>1, <1>3, <2>1, <2>2 DEF PathGoes, CallSees
  <2>4. ASSUME ~crossed
        PROVE  /\ part = path[k].got /\ (meta = object => part = object)
               /\ \A j \in Kernel : Downloading(j) => j = k
               /\ \A j \in Kernel : At(j, "compare") /\ path[j].entry = meta => part \in path[j].seen
    BY <1>1, <2>4 DEF DownloadIsSeen
  <2>5. ASSUME ~crossed, NEW j \in Kernel PROVE DownloadIsSeen(j)' /\ CopyIsSeen(j)'
    <3>1. CopyIsSeen(j)'
      BY <1>1, <2>1, <2>2, <2>4, <2>5 DEF PathGoes, CopyIsSeen
    <3>2. DownloadIsSeen(j)'
      BY <1>1, <2>1, <2>2, <2>4, <2>5 DEF PathGoes, DownloadIsSeen
    <3> QED BY <3>1, <3>2
  <2> QED BY <1>1, <1>3, <2>1, <2>2, <2>3, <2>4, <2>5 DEF PathGoes
<1> QED BY <1>2, <1>3

\* The copy is recorded under the entry the call began with.
LEMMA RecordStep ==
  ASSUME PathInv, NEW k \in Kernel, Record(k)
  PROVE  PathInv'
<1> USE DEF PathInv, At, Downloading
<1>1. UNCHANGED <<object, copy, part, crossed>> /\ path[k].at = "record" /\ meta' = path[k].entry
  BY DEF Record, EntryRead
<1>2. PathGoes(k, "returned", path[k].entry, copy, path[k].seen)
  BY PathGets DEF Record
<1>3. copy # Absent /\ path[k].entry \in Content
  BY <1>1 DEF CallSees
<1>4. \A j \in Kernel : CallSees(j)'
  BY <1>1, <1>2 DEF PathGoes, CallSees
<1>5. ASSUME ~crossed
      PROVE  /\ copy = path[k].got /\ copy \in path[k].seen
             /\ path[k].entry = object => copy = object
             /\ \A j \in Kernel : Downloading(j) => j = k
             /\ \A j \in Kernel : At(j, "compare") /\ path[j].entry = path[k].entry => copy \in path[j].seen
  BY <1>1, <1>5 DEF DownloadIsSeen
<1>6. ASSUME ~crossed, NEW j \in Kernel PROVE DownloadIsSeen(j)' /\ CopyIsSeen(j)'
  <2>1. CopyIsSeen(j)'
    BY <1>1, <1>2, <1>5, <1>6 DEF PathGoes, CopyIsSeen
  <2>2. DownloadIsSeen(j)'
    BY <1>1, <1>2, <1>5, <1>6 DEF PathGoes, DownloadIsSeen
  <2> QED BY <2>1, <2>2
<1> QED BY <1>1, <1>2, <1>3, <1>4, <1>5, <1>6 DEF PathGoes

\* The object is written: a content nothing on the machine knows, or else crossed.
LEMMA WriteStep ==
  ASSUME PathInv, NEW v \in Content, Write(v)
  PROVE  PathInv'
<1> USE DEF PathInv, At, Downloading
<1>1. /\ object' = v /\ UNCHANGED <<copy, part, meta>>
      /\ crossed' = (crossed \/ v \in Known)
      /\ path' = [k \in Kernel |-> IF At(k, "idle") THEN path[k] ELSE [path[k] EXCEPT !.seen = @ \cup {v}]]
  BY DEF Write
<1>2. \A k \in Kernel :
        /\ path'[k] \in PathCall /\ path'[k].at = path[k].at /\ path'[k].entry = path[k].entry
        /\ path'[k].got = path[k].got /\ path[k].seen \subseteq path'[k].seen
        /\ ~At(k, "idle") => v \in path'[k].seen
  BY <1>1 DEF PathCall
<1>3. path' \in [Kernel -> PathCall]
  BY <1>1, <1>2
<1>4. \A k \in Kernel : CallSees(k)'
  BY <1>1, <1>2 DEF CallSees
<1>5. ~crossed' => ~crossed /\ v # meta /\ \A k \in Kernel : v # path[k].entry
  BY <1>1 DEF Known
<1>6. ASSUME ~crossed', NEW k \in Kernel PROVE DownloadIsSeen(k)' /\ CopyIsSeen(k)'
  <2>1. CopyIsSeen(k)'
    BY <1>1, <1>2, <1>5, <1>6 DEF CopyIsSeen
  <2>2. DownloadIsSeen(k)'
    BY <1>1, <1>2, <1>5, <1>6 DEF DownloadIsSeen
  <2> QED BY <2>1, <2>2
<1> QED BY <1>1, <1>3, <1>4, <1>5, <1>6

\* The disk is lost, with no call under way.
LEMMA DiskLostStep ==
  ASSUME PathInv, DiskLost
  PROVE  PathInv'
BY FilesAssumption
DEF DiskLost, PathInv, At, Downloading, CallSees, DownloadIsSeen, CopyIsSeen

\* What the file steps leave alone.
LEMMA MemoRests ==
  ASSUME MemoInv, UNCHANGED <<memo, call, computed>>, events' \in {events, events + 1}, events' # events => Event
  PROVE  MemoInv'
BY FilesAssumption DEF MemoInv, Event

\* The steps of the files, and the memo's own.
PathMove ==
  \/ \E v \in Content : PutObject(v) \/ SyncObject(v)
  \/ \E k \in Kernel : HeadRequest(k) \/ Reuse(k) \/ Get(k) \/ Fill(k) \/ Replace(k) \/ Record(k) \/ PathUsed(k)
MemoMove ==
  WarmShared \/ \E k \in Kernel : LookUp(k) \/ StoreBegin(k) \/ StoreEnd(k) \/ Keep(k) \/ CallUsed(k)

\* Calls of local_path and writes of the object.
LEMMA PathMoveStep ==
  ASSUME FilesInv, PathMove
  PROVE  FilesInv' /\ UNCHANGED <<memo, call, computed>>
<1>1. ASSUME NEW v \in Content, PutObject(v) \/ SyncObject(v)
      PROVE  /\ PathInv' /\ UNCHANGED <<memo, call, computed>>
             /\ events' \in {events, events + 1} /\ Event
  <2>1. PICK w \in Content : Write(w)
    BY <1>1 DEF PutObject, SyncObject, Synced, FilesInv, PathInv
  <2> QED BY <2>1, WriteStep DEF FilesInv, Write, Event, UNCHANGED_memo
<1>2. ASSUME NEW k \in Kernel,
             HeadRequest(k) \/ Reuse(k) \/ Get(k) \/ Fill(k) \/ Replace(k) \/ Record(k) \/ PathUsed(k)
      PROVE  /\ PathInv' /\ UNCHANGED <<memo, call, computed>>
             /\ (events' = events \/ (events' = events + 1 /\ Event))
  <2>1. PathInv'
    BY <1>2, HeadRequestStep, ReuseStep, GetStep, FillStep, ReplaceStep, RecordStep, PathEnds
    DEF FilesInv, PathUsed
  <2> QED BY <1>2, <2>1 DEF HeadRequest, Reuse, Get, Fill, Replace, Record, PathUsed, UNCHANGED_memo, Event
<1> QED BY <1>1, <1>2, MemoRests DEF PathMove, FilesInv

\* A memo step of one call, and what becomes of the result.
LEMMA MemoMoveStep ==
  ASSUME FilesInv, MemoMove
  PROVE  FilesInv'
<1>1. UNCHANGED_path => PathInv'
  BY DEF UNCHANGED_path, FilesInv, PathInv, CallSees, DownloadIsSeen, CopyIsSeen, At, Downloading
<1>2. UNCHANGED_path
  BY DEF MemoMove, WarmShared, LookUp, StoreBegin, StoreEnd, Keep, CallUsed
<1>3. ASSUME NEW k \in Kernel, NEW c \in MemoCall, call' = [call EXCEPT ![k] = c]
      PROVE  call' \in [Kernel -> MemoCall]
  BY <1>3 DEF FilesInv, MemoInv
<1>4. memo.private \in Tier /\ memo.local \in Tier /\ memo.shared \in Tier
  BY DEF FilesInv, MemoInv
<1>5. ASSUME NEW k \in Kernel, NEW at \in {"idle", "store", "storing", "keep", "returned", "failed"},
             NEW from \in {"local", "shared", "private", "nowhere"}, Called(k, at, from)
      PROVE  call' \in [Kernel -> MemoCall]
  BY <1>5 DEF FilesInv, MemoInv, MemoCall, Called
<1>6. CASE WarmShared
  BY <1>1, <1>2, <1>6, FilesAssumption DEF WarmShared, FilesInv, MemoInv, Event, Tier
<1>7. ASSUME NEW k \in Kernel, LookUp(k) PROVE MemoInv'
  <2>1. call' \in [Kernel -> MemoCall]
    BY <1>5, <1>7 DEF LookUp, FirstHit
  <2> QED BY <1>7, <2>1, FilesAssumption DEF LookUp, FilesInv, MemoInv, Event
<1>8. ASSUME NEW k \in Kernel, StoreBegin(k) \/ StoreEnd(k) \/ Keep(k) PROVE MemoInv'
  <2>1. call[k].from \in {"local", "shared", "private", "nowhere"}
    BY DEF FilesInv, MemoInv, MemoCall
  <2>2. call' \in [Kernel -> MemoCall]
    BY <1>5, <1>8, <2>1 DEF StoreBegin, StoreEnd, Keep
  <2> QED BY <1>8, <2>2 DEF StoreBegin, StoreEnd, Keep, KeptPrivately, FilesInv, MemoInv, Tier
<1>9. ASSUME NEW k \in Kernel, CallUsed(k) PROVE MemoInv'
  <2>1. NoCall \in MemoCall
    BY DEF NoCall, MemoCall
  <2> QED BY <1>3, <1>9, <2>1 DEF CallUsed, FilesInv, MemoInv
<1> QED BY <1>1, <1>2, <1>6, <1>7, <1>8, <1>9 DEF MemoMove, FilesInv

\* A kernel dies, or the disk is lost: what was computed is kept with the server.
LEMMA LossStep ==
  ASSUME FilesInv, DiskLost \/ \E k \in Kernel : KernelDies(k)
  PROVE  FilesInv'
<1>1. CASE DiskLost
  <2>1. PathInv'
    BY <1>1, DiskLostStep DEF FilesInv
  <2> QED BY <1>1, <2>1, FilesAssumption DEF DiskLost, FilesInv, MemoInv, Event, Tier
<1>2. ASSUME NEW k \in Kernel, KernelDies(k) PROVE FilesInv'
  <2>1. PathInv'
    BY <1>2, PathEnds DEF FilesInv, KernelDies
  <2>2. NoCall \in MemoCall
    BY DEF NoCall, MemoCall
  <2> QED BY <1>2, <2>1, <2>2, FilesAssumption DEF KernelDies, FilesInv, MemoInv, Event
<1> QED BY <1>1, <1>2

\* Every step keeps the invariant.
LEMMA FilesStep ==
  ASSUME FilesInv, [FilesNext]_fileVars
  PROVE  FilesInv'
<1>1. CASE UNCHANGED fileVars
  BY <1>1 DEF fileVars, FilesInv, PathInv, MemoInv, CallSees, DownloadIsSeen, CopyIsSeen, At, Downloading
<1>2. CASE FilesNext
  BY <1>2, PathMoveStep, MemoMoveStep, LossStep DEF FilesNext, PathMove, MemoMove
<1> QED BY <1>1, <1>2

\* A machine starts with neither files nor calls.
LEMMA FilesInitInv ==
  ASSUME FilesInit
  PROVE  FilesInv
<1> USE DEF FilesInit, NoPath, NoCall, Nowhere
<1>1. PathInv
  BY FilesAssumption DEF PathInv, PathCall, CallSees, DownloadIsSeen, CopyIsSeen, At, Downloading
<1>2. MemoInv
  BY FilesAssumption DEF MemoInv, MemoCall, Tier
<1> QED BY <1>1, <1>2 DEF FilesInv

\* Mount.local_path: a file it returns held the object at some moment of the call, whoever
\* else downloads it, writes it or dies, unless two downloads overlap.
THEOREM PathsAreTheObject == FilesSpec => []PathIsTheObject
<1>1. FilesInv => PathIsTheObject
  BY DEF FilesInv, PathInv, MemoInv, PathIsTheObject, FilesTypeOK, PathCall, MemoCall, Tier, CopyIsSeen
<1> QED BY <1>1, FilesInitInv, FilesStep, PTL DEF FilesSpec

\* @storage.cache: once a call has computed the result and returned, none computes it again,
\* on this disk or the next.
THEOREM ComputedAtMostOnce == FilesSpec => ComputedOnce
<1> DEFINE Again(k) == call[k].at = "idle" /\ call'[k] = [at |-> "store", from |-> "nowhere"] => ~computed
<1>1. ASSUME FilesInv, FilesNext, NEW k \in Kernel PROVE Again(k)
  <2> SUFFICES ASSUME call[k].at = "idle", call'[k] = [at |-> "store", from |-> "nowhere"]
               PROVE  memo.private = "no"
    BY <1>1 DEF FilesInv, MemoInv
  <2>1. call \in [Kernel -> MemoCall] /\ call'[k].at = "store" /\ call'[k].from = "nowhere"
    BY <1>1 DEF FilesInv, MemoInv
  <2>2. ~UNCHANGED call
    BY <2>1
  <2>3. ~PathMove
    BY <1>1, <2>2, PathMoveStep
  <2>4. ~(WarmShared \/ DiskLost)
    BY <2>2 DEF WarmShared, DiskLost
  <2>5. ASSUME NEW j \in Kernel, StoreBegin(j) \/ StoreEnd(j) \/ Keep(j) \/ CallUsed(j) \/ KernelDies(j) PROVE FALSE
    BY <2>1, <2>5 DEF StoreBegin, StoreEnd, Keep, CallUsed, KernelDies, Called, NoCall
  <2>6. ASSUME NEW j \in Kernel, LookUp(j) PROVE memo.private = "no"
    <3>1. j = k
      BY <2>1, <2>6 DEF LookUp, Called
    <3>2. FirstHit = "nowhere"
      BY <2>1, <2>6, <3>1 DEF LookUp, Called
    <3> QED BY <3>2 DEF FirstHit
  <2> QED BY <1>1, <2>3, <2>4, <2>5, <2>6 DEF FilesNext, PathMove
<1>2. FilesInv /\ [FilesNext]_fileVars => [\A k \in Kernel : Again(k)]_fileVars
  BY <1>1
<1> QED BY <1>2, FilesInitInv, FilesStep, PTL DEF FilesSpec, ComputedOnce


-----------------------------------------------------------------------------
(* The payload: the inductive invariant.                                   *)

Output == [cell : Cell, code : Code]

\* A session file lists each cell at most once, in document order.
Shots ==
  {<<>>} \cup {<<o>> : o \in Output}
    \cup {<<p[1], p[2]>> : p \in {r \in Output \X Output : r[1].cell = 1 /\ r[2].cell = 2}}

Version == [text : Notebook, saves : Nat]
Source == {Nothing} \cup Version
Extra == [cells : Shots, state : {"whole"}, write : Nat]
Moment == [saves : Nat, writes : Nat]
Request == [click : Moment, read : BOOLEAN]
Trait == [type : {"trait"}, source : Source]
Sent == [type : {"payload"}, extra : {Nothing} \cup Extra, request : Request]

\* A moment of the past, and a source and outputs new enough for one.
IsPast(click, d, file) == click.saves <= d.saves /\ click.writes <= file.writes
IsFresh(source, click) == source \in Version /\ source.saves >= click.saves
IsNew(extra, click) == extra # Nothing => extra.write >= click.writes

\* The source read for a request is the last thing the page was told before place i of
\* what is on its way.
Heard(payload, page, i, request) ==
  request.read =>
    \/ i = 1 /\ IsFresh(payload, request.click)
    \/ i > 1 /\ page[i - 1] \in Trait /\ IsFresh(page[i - 1].source, request.click)

PageInOrder ==
  /\ \A i \in 1..Len(to_page) : to_page[i] \in Sent =>
       /\ IsPast(to_page[i].request.click, disk, snapshot)
       /\ Heard(widget.payload, to_page, i, to_page[i].request)
       /\ IsNew(to_page[i].extra, to_page[i].request.click)
  /\ runtime.at \in {"waiting", "reading"} => 
       Heard(widget.payload, to_page, Len(to_page) + 1, runtime.request)

\* A click with no answers outstanding is the only one asked for.
OneClick ==
  widget.at = "asking" /\ ~widget.late =>
    /\ \A i \in 1..Len(to_kernel) : to_kernel[i] = widget.click
    /\ runtime.at \in {"waiting", "reading"} => runtime.request.click = widget.click
    /\ \A i \in 1..Len(to_page) : to_page[i] \in Sent => to_page[i].request.click = widget.click

FilesAreTyped ==
  /\ disk \in Version /\ disk.saves <= MaxSaves
  /\ outputs \in [Cell -> {NoOutput} \cup Output]
  /\ \A c \in Cell : outputs[c] # NoOutput => outputs[c].cell = c
  /\ snapshot \in [state : {"none", "torn", "whole"}, cells : Shots, writes : Nat]

Runtime == [at : {"idle", "running", "waiting", "reading"}, runs : Nat, cell : {0, 1, 2}, request : Request]

KernelIsTyped ==
  /\ seen \in Source /\ (seen # Nothing => seen.saves <= disk.saves)
  /\ runtime \in Runtime /\ IsPast(runtime.request.click, disk, snapshot)
  /\ runtime.at = "running" => runtime.cell \in Cell
  /\ to_kernel \in Seq(Moment) /\ \A i \in 1..Len(to_kernel) : IsPast(to_kernel[i], disk, snapshot)
  /\ to_page \in Seq(Trait \cup Sent)
  /\ \A i \in 1..Len(to_page) : to_page[i] \in Trait /\ to_page[i].source # Nothing =>
       to_page[i].source.saves <= disk.saves

Widget == [at : {"ready", "asking"}, click : Moment, late : BOOLEAN, payload : Source, submits : Nat]

WidgetIsTyped ==
  /\ widget \in Widget
  /\ widget.payload # Nothing => widget.payload.saves <= disk.saves

BodyIsTyped ==
  body # Nothing =>
    /\ body \in [source : Version, outputs : {Nothing} \cup Extra, click : Moment, late : BOOLEAN,
                 request : {Nothing} \cup Request]
    /\ body.source # Nothing
    /\ body.request # Nothing =>
         /\ body.request.read => IsFresh(body.source, body.request.click)
         /\ IsNew(body.outputs, body.request.click)
         /\ ~body.late => body.request.click = body.click

PayloadInv ==
  FilesAreTyped /\ KernelIsTyped /\ WidgetIsTyped /\ BodyIsTyped /\ PageInOrder /\ OneClick

-----------------------------------------------------------------------------
(* The payload: the steps.                                                 *)

\* The first message, and the others.
LEMMA FirstMessage ==
  ASSUME NEW S, NEW s \in Seq(S), s # <<>>
  PROVE  /\ Head(s) = s[1] /\ Head(s) \in S /\ 1 \in 1..Len(s) /\ Len(s) \in Nat
         /\ Tail(s) \in Seq(S) /\ Len(Tail(s)) = Len(s) - 1
         /\ \A i \in 1..Len(Tail(s)) : Tail(s)[i] = s[i + 1] /\ i + 1 \in 1..Len(s)
<1>1. /\ Head(s) = s[1] /\ Tail(s) \in Seq(S) /\ Len(Tail(s)) = Len(s) - 1
      /\ \A i \in 1..Len(Tail(s)) : Tail(s)[i] = s[i + 1]
  BY HeadTailProperties
<1>2. Len(s) \in Nat /\ Len(s) # 0
  BY LenProperties, EmptySeq
<1>3. \A i \in 1..Len(s) : s[i] \in S
  BY ElementOfSeq
<1> QED BY <1>1, <1>2, <1>3

\* A message goes to the end.
LEMMA LastMessage ==
  ASSUME NEW S, NEW s \in Seq(S), NEW m \in S
  PROVE  /\ Append(s, m) \in Seq(S) /\ s \o <<m>> = Append(s, m)
         /\ Len(s) \in Nat /\ Len(Append(s, m)) = Len(s) + 1 /\ Append(s, m)[Len(s) + 1] = m
         /\ \A i \in 1..Len(s) : Append(s, m)[i] = s[i]
  BY AppendProperties, LenProperties

\* What the server saves lists each cell once, in order.
LEMMA SavedIsAShot ==
  ASSUME FilesAreTyped
  PROVE  Saved \in Shots
<1>1. /\ outputs[1] \in {NoOutput} \cup Output /\ outputs[2] \in {NoOutput} \cup Output
      /\ outputs[1] # NoOutput => outputs[1] \in Output /\ outputs[1].cell = 1
      /\ outputs[2] # NoOutput => outputs[2] \in Output /\ outputs[2].cell = 2
  BY DEF FilesAreTyped, Cell
<1> HIDE DEF NoOutput
<1>2. CASE outputs[1] = NoOutput /\ outputs[2] = NoOutput
  <2>1. Saved = <<>>
    BY <1>2 DEF Saved, Kept
  <2> QED BY <2>1 DEF Shots
<1>3. CASE outputs[1] # NoOutput /\ outputs[2] = NoOutput
  <2>1. Saved = <<outputs[1]>>
    BY <1>3 DEF Saved, Kept
  <2> QED BY <1>1, <1>3, <2>1 DEF Shots
<1>4. CASE outputs[1] = NoOutput /\ outputs[2] # NoOutput
  <2>1. Saved = <<outputs[2]>>
    BY <1>4 DEF Saved, Kept
  <2> QED BY <1>1, <1>4, <2>1 DEF Shots
<1>5. CASE outputs[1] # NoOutput /\ outputs[2] # NoOutput
  <2>1. Saved = <<outputs[1], outputs[2]>>
    <3>1. ASSUME NEW a \in Output, NEW b \in Output PROVE <<a>> \o <<b>> = <<a, b>>
      <4>1. <<a>> \in Seq(Output) /\ <<a>> \o <<b>> = Append(<<a>>, b)
        BY LastMessage
      <4> DEFINE s == Append(<<a>>, b)
                 t == <<a, b>>
      <4>2. s \in Seq(Output) /\ Len(s) = 2 /\ s[1] = a /\ s[2] = b
        BY <4>1, LastMessage
      <4>3. t \in Seq(Output) /\ Len(t) = 2 /\ t[1] = a /\ t[2] = b
        OBVIOUS
      <4> HIDE DEF s, t
      <4>4. \A k \in 1..Len(s) : s[k] = t[k]
        BY <4>2, <4>3
      <4>5. s = t
        BY <4>2, <4>3, <4>4, SeqEqual
      <4> QED BY <4>1, <4>5 DEF s, t
    <3>2. Saved = <<outputs[1]>> \o <<outputs[2]>>
      BY <1>5 DEF Saved, Kept
    <3> QED BY <1>1, <1>5, <3>1, <3>2
  <2>2. \E p \in Output \X Output : p[1].cell = 1 /\ p[2].cell = 2 /\ Saved = <<p[1], p[2]>>
    <3> DEFINE p == <<outputs[1], outputs[2]>>
    <3>1. p \in Output \X Output /\ p[1].cell = 1 /\ p[2].cell = 2 /\ Saved = <<p[1], p[2]>>
      BY <1>1, <1>5, <2>1
    <3> HIDE DEF p
    <3> QED BY <3>1
  <2> QED BY <2>2 DEF Shots
<1> QED BY <1>2, <1>3, <1>4, <1>5

\* The files only grow: what was of the past stays so.
LEMMA StaysTyped ==
  ASSUME PayloadInv, FilesAreTyped', disk'.saves >= disk.saves, snapshot'.writes >= snapshot.writes,
         UNCHANGED <<seen, runtime, to_kernel, to_page, widget, body>>
  PROVE  PayloadInv'
<1>1. /\ disk.saves \in Nat /\ disk'.saves \in Nat /\ snapshot.writes \in Nat /\ snapshot'.writes \in Nat
      /\ FilesAreTyped /\ KernelIsTyped /\ WidgetIsTyped /\ BodyIsTyped /\ PageInOrder /\ OneClick
  BY DEF PayloadInv, FilesAreTyped, Version
<1>2. \A m \in Moment : IsPast(m, disk, snapshot) => IsPast(m, disk', snapshot')
  BY <1>1 DEF IsPast, Moment
<1>3. ASSUME NEW t \in Source, t # Nothing, t.saves <= disk.saves PROVE t.saves <= disk'.saves
  BY <1>1, <1>3 DEF Source, Version
<1>4. KernelIsTyped'
  <2>1. runtime.request.click \in Moment /\ \A i \in 1..Len(to_kernel) : to_kernel[i] \in Moment
    BY <1>1, ElementOfSeq DEF KernelIsTyped, Runtime, Request
  <2>2. \A i \in 1..Len(to_page) : to_page[i] \in Trait => to_page[i].source \in Source
    BY DEF Trait
  <2> QED BY <1>1, <1>2, <1>3, <2>1, <2>2 DEF KernelIsTyped
<1>5. WidgetIsTyped'
  BY <1>1, <1>3 DEF WidgetIsTyped, Widget
<1>6. PageInOrder'
  <2>1. \A i \in 1..Len(to_page) : to_page[i] \in Sent => to_page[i].request.click \in Moment
    BY DEF Sent, Request
  <2> QED BY <1>1, <1>2, <2>1 DEF PageInOrder
<1>7. BodyIsTyped' /\ OneClick'
  BY <1>1 DEF BodyIsTyped, OneClick
<1> QED BY <1>1, <1>4, <1>5, <1>6, <1>7 DEF PayloadInv

\* The kernel runs a cell or rests.
LEMMA RestsTyped ==
  ASSUME PayloadInv, FilesAreTyped', runtime' \in Runtime, runtime'.request = runtime.request,
         \/ runtime'.at = "idle"
         \/ runtime'.at = "running" /\ runtime'.cell \in Cell,
         UNCHANGED <<disk, snapshot, seen, to_kernel, to_page, widget, body>>
  PROVE  PayloadInv'
<1>1. FilesAreTyped /\ KernelIsTyped /\ WidgetIsTyped /\ BodyIsTyped /\ PageInOrder /\ OneClick
  BY DEF PayloadInv
<1>2. KernelIsTyped'
  BY <1>1 DEF KernelIsTyped
<1>3. WidgetIsTyped' /\ BodyIsTyped'
  BY <1>1 DEF WidgetIsTyped, BodyIsTyped
<1>4. PageInOrder' /\ OneClick'
  BY <1>1 DEF PageInOrder, OneClick
<1> QED BY <1>2, <1>3, <1>4 DEF PayloadInv

\* The student edits and runs cells, and the server saves.
LEMMA FilesMoveStep ==
  ASSUME PayloadInv,
         \/ \E c \in Cell, code \in Code : Save(c, code)
         \/ \E c \in Cell : RunCell(c)
         \/ CellDone \/ WriteBegins \/ WriteEnds
  PROVE  PayloadInv'
<1>0. /\ FilesAreTyped /\ KernelIsTyped /\ WidgetIsTyped /\ BodyIsTyped /\ PageInOrder /\ OneClick
      /\ runtime \in Runtime
  BY DEF PayloadInv, KernelIsTyped
<1>1. ASSUME NEW c \in Cell, NEW code \in Code, Save(c, code) PROVE PayloadInv'
  <2>1. /\ disk' = [text |-> [disk.text EXCEPT ![c] = code], saves |-> disk.saves + 1]
        /\ disk.saves < MaxSaves /\ disk \in Version /\ MaxSaves \in Nat
        /\ UNCHANGED <<outputs, snapshot, seen, runtime, to_kernel, to_page, widget, body>>
    BY <1>0, <1>1, PayloadAssumption DEF Save, FilesAreTyped
  <2>2. disk' \in Version /\ disk'.saves = disk.saves + 1 /\ disk.saves \in Nat
    BY <2>1 DEF Version, Notebook
  <2>3. FilesAreTyped'
    BY <1>0, <2>1, <2>2 DEF FilesAreTyped
  <2>4. disk'.saves >= disk.saves /\ snapshot'.writes >= snapshot.writes
    BY <1>0, <2>1, <2>2 DEF FilesAreTyped
  <2> QED BY <2>1, <2>3, <2>4, StaysTyped
<1>2. ASSUME NEW c \in Cell, RunCell(c) PROVE PayloadInv'
  <2>1. /\ runtime' = [runtime EXCEPT !.at = "running", !.runs = @ + 1, !.cell = c] /\ runtime.at = "idle"
        /\ UNCHANGED <<disk, outputs, snapshot, seen, to_kernel, to_page, widget, body>>
    BY <1>2 DEF RunCell, files
  <2>2. /\ runtime' \in Runtime /\ runtime'.request = runtime.request
        /\ runtime'.at = "running" /\ runtime'.cell = c
    <3>1. runtime.runs + 1 \in Nat
      BY <1>0 DEF Runtime
    <3> QED BY <1>0, <2>1, <3>1 DEF Runtime, Cell
  <2>3. FilesAreTyped'
    BY <1>0, <2>1 DEF FilesAreTyped
  <2> QED BY <2>1, <2>2, <2>3, RestsTyped
<1>3. CASE CellDone
  <2> DEFINE c == runtime.cell
             o == [cell |-> c, code |-> disk.text[c]]
  <2>1. /\ outputs' = [outputs EXCEPT ![c] = o] /\ runtime.at = "running"
        /\ runtime' = [runtime EXCEPT !.at = "idle", !.cell = 0]
        /\ UNCHANGED <<disk, snapshot, seen, to_kernel, to_page, widget, body>>
    BY <1>3 DEF CellDone
  <2>2. runtime' \in Runtime /\ runtime'.request = runtime.request /\ runtime'.at = "idle"
    BY <1>0, <2>1 DEF Runtime
  <2>3. c \in Cell /\ o \in Output /\ o.cell = c
    BY <1>0, <2>1 DEF KernelIsTyped, FilesAreTyped, Version, Notebook, Output
  <2> HIDE DEF o
  <2>4. FilesAreTyped'
    BY <1>0, <2>1, <2>3 DEF FilesAreTyped
  <2> QED BY <1>0, <2>1, <2>2, <2>4, RestsTyped
<1>4. CASE WriteBegins \/ WriteEnds
  <2>1. UNCHANGED <<disk, outputs, seen, runtime, to_kernel, to_page, widget, body>>
    BY <1>4 DEF WriteBegins, WriteEnds
  <2>2. /\ snapshot' \in [state : {"none", "torn", "whole"}, cells : Shots, writes : Nat]
        /\ snapshot.writes <= snapshot'.writes /\ snapshot.writes \in Nat
    <3>1. snapshot \in [state : {"none", "torn", "whole"}, cells : Shots, writes : Nat]
          /\ snapshot.writes + 1 \in Nat /\ snapshot.writes \in Nat
      BY <1>0 DEF FilesAreTyped
    <3>2. CASE WriteBegins
      <4>1. snapshot' = [snapshot EXCEPT !.state = "torn", !.writes = @ + 1]
        BY <3>2 DEF WriteBegins
      <4>2. /\ snapshot'.writes = snapshot.writes + 1
            /\ snapshot' \in [state : {"none", "torn", "whole"}, cells : Shots, writes : Nat]
        BY <3>1, <4>1
      <4> QED BY <3>1, <4>2
    <3>3. CASE WriteEnds
      <4>1. snapshot' = [snapshot EXCEPT !.state = "whole", !.cells = Saved] /\ Saved \in Shots
        BY <1>0, <3>3, SavedIsAShot DEF WriteEnds
      <4>2. /\ snapshot'.writes = snapshot.writes
            /\ snapshot' \in [state : {"none", "torn", "whole"}, cells : Shots, writes : Nat]
        BY <3>1, <4>1
      <4> QED BY <3>1, <4>2
    <3> QED BY <1>4, <3>2, <3>3
  <2>3. FilesAreTyped'
    BY <1>0, <2>1, <2>2 DEF FilesAreTyped
  <2>4. disk'.saves >= disk.saves /\ snapshot'.writes >= snapshot.writes
    BY <1>0, <2>1, <2>2, <2>3 DEF FilesAreTyped, Version
  <2> QED BY <1>0, <2>1, <2>3, <2>4, StaysTyped
<1> QED BY <1>1, <1>2, <1>3, <1>4

\* What is on its way is a source or a session, and not both.
LEMMA MessageIs ==
  ASSUME PayloadInv, to_page # <<>>
  PROVE  LET m == Head(to_page)
         IN  /\ m = to_page[1] /\ 1 \in 1..Len(to_page) /\ Len(to_page) \in Nat
             /\ m \in Trait \/ m \in Sent
             /\ Tail(to_page) \in Seq(Trait \cup Sent) /\ Len(Tail(to_page)) = Len(to_page) - 1
             /\ \A i \in 1..Len(Tail(to_page)) :
                  Tail(to_page)[i] = to_page[i + 1] /\ i + 1 \in 1..Len(to_page)
<1>1. to_page \in Seq(Trait \cup Sent)
  BY DEF PayloadInv, KernelIsTyped
<1> QED BY <1>1, FirstMessage

\* A message has one type.
LEMMA OneType ==
  /\ \A m \in Trait : m.type = "trait" /\ m.source \in Source /\ m \notin Sent
  /\ \A m \in Sent : /\ m.type = "payload" /\ m \notin Trait
                     /\ m.extra \in {Nothing} \cup Extra /\ m.request \in Request
<1>1. \A m \in Trait : m.type = "trait" /\ m.source \in Source
  BY DEF Trait
<1>2. \A m \in Sent : m.type = "payload" /\ m.extra \in {Nothing} \cup Extra /\ m.request \in Request
  BY DEF Sent
<1> QED BY <1>1, <1>2

\* The student clicks Submit.
LEMMA PressStep == ASSUME PayloadInv, PressSubmit PROVE PayloadInv'
<1>1. /\ widget.at = "ready" /\ body' = Nothing /\ to_kernel' = Append(to_kernel, Now)
      /\ widget' = [widget EXCEPT !.at = "asking", !.click = Now, !.late = Outstanding, !.submits = @ + 1]
      /\ UNCHANGED <<disk, outputs, snapshot, seen, runtime, to_page>>
  BY DEF PressSubmit, files
<1>2. /\ FilesAreTyped /\ KernelIsTyped /\ WidgetIsTyped /\ PageInOrder
      /\ disk.saves \in Nat /\ snapshot.writes \in Nat /\ widget.submits + 1 \in Nat
  BY DEF PayloadInv, FilesAreTyped, WidgetIsTyped, Widget, Version
<1>3. Now \in Moment /\ IsPast(Now, disk, snapshot)
  <2>1. /\ Now.saves = disk.saves /\ Now.writes \in Nat /\ Now.writes <= snapshot.writes
        /\ Now = [saves |-> disk.saves, writes |-> Now.writes]
    BY <1>2 DEF Now
  <2> HIDE DEF Now
  <2> QED BY <1>2, <2>1 DEF Moment, IsPast
<1>4. Outstanding \in BOOLEAN
  BY DEF Outstanding
<1> HIDE DEF Now, Outstanding
<1>5. /\ to_kernel' \in Seq(Moment) /\ \A i \in 1..Len(to_kernel') : IsPast(to_kernel'[i], disk, snapshot)
      /\ to_kernel = <<>> => \A i \in 1..Len(to_kernel') : to_kernel'[i] = Now
  <2>1. /\ Append(to_kernel, Now) \in Seq(Moment) /\ Len(to_kernel) \in Nat
        /\ Len(Append(to_kernel, Now)) = Len(to_kernel) + 1
        /\ Append(to_kernel, Now)[Len(to_kernel) + 1] = Now
        /\ \A i \in 1..Len(to_kernel) : Append(to_kernel, Now)[i] = to_kernel[i]
    BY <1>2, <1>3, LastMessage DEF KernelIsTyped
  <2>2. \A i \in 1..Len(to_kernel') : i \in 1..Len(to_kernel) \/ i = Len(to_kernel) + 1
    BY <1>1, <2>1
  <2>3. to_kernel = <<>> => Len(to_kernel) = 0
    OBVIOUS
  <2>4. \A i \in 1..Len(to_kernel) : IsPast(to_kernel[i], disk, snapshot)
    BY <1>2 DEF KernelIsTyped
  <2> QED BY <1>1, <1>3, <2>1, <2>2, <2>3, <2>4
<1>6. /\ widget' \in Widget /\ widget'.payload = widget.payload /\ widget'.click = Now
      /\ widget'.late <=> Outstanding
  BY <1>1, <1>2, <1>3, <1>4 DEF WidgetIsTyped, Widget
<1>7. FilesAreTyped' /\ KernelIsTyped' /\ WidgetIsTyped' /\ BodyIsTyped' /\ PageInOrder'
  <2>1. FilesAreTyped' /\ WidgetIsTyped' /\ BodyIsTyped'
    BY <1>1, <1>2, <1>6 DEF FilesAreTyped, WidgetIsTyped, BodyIsTyped
  <2>2. KernelIsTyped'
    BY <1>1, <1>2, <1>5 DEF KernelIsTyped
  <2>3. PageInOrder'
    BY <1>1, <1>2, <1>6 DEF PageInOrder
  <2> QED BY <2>1, <2>2, <2>3
<1>8. OneClick'
  <2> SUFFICES ASSUME ~widget'.late PROVE OneClick'
    BY DEF OneClick
  <2>1. /\ to_kernel = <<>> /\ runtime.at \notin {"waiting", "reading"}
        /\ \A i \in 1..Len(to_page) : to_page[i] \notin Sent
    BY <1>6, OneType DEF Outstanding
  <2> QED BY <1>1, <1>5, <1>6, <2>1 DEF OneClick
<1> QED BY <1>7, <1>8 DEF PayloadInv

\* The page ends a click, with what the kernel sent alongside or without.
LEMMA FinishedStep ==
  ASSUME PayloadInv, NEW extra \in {Nothing} \cup Extra, NEW request \in {Nothing} \cup Request,
         Finished(extra, request), UNCHANGED disk, widget.at = "asking",
         request # Nothing => /\ request.read => IsFresh(widget.payload, request.click)
                              /\ IsNew(extra, request.click)
                              /\ ~widget.late => request.click = widget.click
  PROVE  /\ WidgetIsTyped' /\ BodyIsTyped' /\ widget'.at = "ready" /\ widget'.payload = widget.payload
<1>1. /\ widget \in Widget /\ WidgetIsTyped
  BY DEF PayloadInv, WidgetIsTyped
<1>2. widget' \in Widget /\ widget'.at = "ready" /\ widget'.payload = widget.payload
  <2>1. NoClick \in Moment
    BY DEF NoClick, Moment
  <2>2. widget' = [widget EXCEPT !.at = "ready", !.click = NoClick, !.late = FALSE]
    BY DEF Finished
  <2> HIDE DEF NoClick
  <2> QED BY <1>1, <2>1, <2>2 DEF Widget
<1>3. WidgetIsTyped'
  BY <1>1, <1>2 DEF WidgetIsTyped
<1>4. BodyIsTyped'
  <2> SUFFICES ASSUME body' # Nothing PROVE BodyIsTyped'
    BY DEF BodyIsTyped
  <2> DEFINE b == [source |-> widget.payload, outputs |-> extra, click |-> widget.click,
                   late |-> widget.late, request |-> request]
  <2>1. widget.payload # Nothing /\ body' = b
    BY DEF Finished
  <2>2. /\ widget.payload \in Version /\ widget.click \in Moment /\ widget.late \in BOOLEAN
    BY <1>1, <2>1 DEF Widget, Source
  <2>3. b \in [source : Version, outputs : {Nothing} \cup Extra, click : Moment, late : BOOLEAN,
               request : {Nothing} \cup Request]
    BY <2>2
  <2>4. b.source = widget.payload /\ b.outputs = extra /\ b.click = widget.click
        /\ b.late = widget.late /\ b.request = request
    OBVIOUS
  <2> HIDE DEF b
  <2> QED BY <2>1, <2>3, <2>4 DEF BodyIsTyped, IsFresh, IsNew
<1> QED BY <1>2, <1>3, <1>4

\* The page's patience ends.
LEMMA TimeoutStep == ASSUME PayloadInv, Timeout PROVE PayloadInv'
<1>1. /\ Finished(Nothing, Nothing) /\ UNCHANGED <<disk, outputs, snapshot, seen, runtime, to_kernel, to_page>>
      /\ widget.at = "asking"
  BY DEF Timeout, GivesUp, files
<1>2. WidgetIsTyped' /\ BodyIsTyped' /\ widget'.at = "ready" /\ widget'.payload = widget.payload
  BY <1>1, FinishedStep
<1>3. FilesAreTyped' /\ KernelIsTyped' /\ PageInOrder' /\ OneClick'
  BY <1>1, <1>2 DEF PayloadInv, FilesAreTyped, KernelIsTyped, PageInOrder, OneClick
<1> QED BY <1>2, <1>3 DEF PayloadInv

\* The page reads its next message.
LEMMA ReceiveStep == ASSUME PayloadInv, Receive PROVE PayloadInv'
<1> DEFINE m == Head(to_page)
           rest == Tail(to_page)
<1>1. /\ to_page # <<>> /\ to_page' = rest
      /\ UNCHANGED <<disk, outputs, snapshot, seen, runtime, to_kernel>>
  BY DEF Receive, files
<1>2. /\ m = to_page[1] /\ 1 \in 1..Len(to_page) /\ Len(to_page) \in Nat
      /\ m \in Trait \/ m \in Sent
      /\ rest \in Seq(Trait \cup Sent) /\ Len(rest) = Len(to_page) - 1
      /\ \A i \in 1..Len(rest) : rest[i] = to_page[i + 1] /\ i + 1 \in 1..Len(to_page)
  BY <1>1, MessageIs
<1>3. /\ FilesAreTyped /\ KernelIsTyped /\ WidgetIsTyped /\ BodyIsTyped /\ PageInOrder /\ OneClick
      /\ widget \in Widget
  BY DEF PayloadInv, WidgetIsTyped
<1>4. /\ m.type = "trait" => widget' = [widget EXCEPT !.payload = m.source] /\ body' = body
      /\ m.type = "payload" /\ widget.at = "asking" => Finished(m.extra, m.request)
      /\ m.type = "payload" /\ widget.at # "asking" => UNCHANGED <<widget, body>>
  BY DEF Receive
<1> HIDE DEF m, rest
<1>5. FilesAreTyped' /\ KernelIsTyped'
  <2>1. FilesAreTyped'
    BY <1>1, <1>3 DEF FilesAreTyped
  <2>2. KernelIsTyped'
    BY <1>1, <1>2, <1>3 DEF KernelIsTyped
  <2> QED BY <2>1, <2>2
<1>6. ASSUME WidgetIsTyped', BodyIsTyped',
             \/ /\ widget'.at = widget.at /\ widget'.click = widget.click
                /\ widget'.late = widget.late
             \/ widget'.at = "ready",
             m \in Trait => widget'.payload = m.source,
             m \in Sent => widget'.payload = widget.payload
      PROVE  PayloadInv'
  <2>1. ASSUME NEW i \in 1..(Len(rest) + 1), NEW r, Heard(widget.payload, to_page, i + 1, r)
        PROVE  Heard(widget'.payload, to_page', i, r)
    <3> SUFFICES ASSUME r.read PROVE Heard(widget'.payload, to_page', i, r)
      BY DEF Heard
    <3>1. to_page[i] \in Trait /\ IsFresh(to_page[i].source, r.click) /\ i \in Nat
      <4>1. i \in Nat /\ i + 1 # 1 /\ i + 1 - 1 = i
        BY <1>2
      <4> QED BY <2>1, <4>1 DEF Heard
    <3>2. CASE i = 1
      BY <1>2, <1>6, <3>1, <3>2 DEF Heard
    <3>3. CASE i # 1
      <4>1. i > 1 /\ i - 1 \in 1..Len(rest) /\ i - 1 + 1 = i
        BY <1>2, <3>1, <3>3
      <4>2. to_page'[i - 1] = to_page[i]
        BY <1>1, <1>2, <4>1
      <4> QED BY <3>1, <4>1, <4>2 DEF Heard
    <3> QED BY <3>2, <3>3
  <2>2. PageInOrder'
    <3>1. ASSUME NEW i \in 1..Len(to_page'), to_page'[i] \in Sent
          PROVE  /\ IsPast(to_page'[i].request.click, disk', snapshot')
                 /\ Heard(widget'.payload, to_page', i, to_page'[i].request)
                 /\ IsNew(to_page'[i].extra, to_page'[i].request.click)
      <4>1. to_page'[i] = to_page[i + 1] /\ i + 1 \in 1..Len(to_page) /\ i \in 1..(Len(rest) + 1)
        BY <1>1, <1>2
      <4>2. /\ IsPast(to_page[i + 1].request.click, disk, snapshot)
            /\ Heard(widget.payload, to_page, i + 1, to_page[i + 1].request)
            /\ IsNew(to_page[i + 1].extra, to_page[i + 1].request.click)
        BY <1>3, <3>1, <4>1 DEF PageInOrder
      <4>3. Heard(widget'.payload, to_page', i, to_page[i + 1].request)
        BY <2>1, <4>1, <4>2
      <4> QED BY <1>1, <4>1, <4>2, <4>3
    <3>2. ASSUME runtime'.at \in {"waiting", "reading"}
          PROVE  Heard(widget'.payload, to_page', Len(to_page') + 1, runtime'.request)
      <4>1. /\ Heard(widget.payload, to_page, Len(to_page) + 1, runtime.request)
            /\ Len(to_page) + 1 = Len(rest) + 1 + 1 /\ Len(rest) + 1 \in 1..(Len(rest) + 1)
        BY <1>1, <1>2, <1>3, <3>2 DEF PageInOrder
      <4>2. Heard(widget'.payload, to_page', Len(rest) + 1, runtime.request)
        BY <2>1, <4>1
      <4> QED BY <1>1, <4>2
    <3> QED BY <3>1, <3>2 DEF PageInOrder
  <2>3. OneClick'
    <3>1. \A i \in 1..Len(to_page') : to_page'[i] = to_page[i + 1] /\ i + 1 \in 1..Len(to_page)
      BY <1>1, <1>2
    <3> QED BY <1>1, <1>3, <1>6, <3>1 DEF OneClick
  <2> QED BY <1>5, <1>6, <2>2, <2>3 DEF PayloadInv
<1>7. CASE m \in Trait
  <2>1. widget' = [widget EXCEPT !.payload = m.source] /\ body' = body /\ m.source \in Source
    BY <1>4, <1>7, OneType
  <2>2. m.source # Nothing => m.source.saves <= disk.saves
    BY <1>2, <1>3, <1>7 DEF KernelIsTyped
  <2>3. /\ widget' \in Widget /\ widget'.payload = m.source
        /\ widget'.at = widget.at /\ widget'.click = widget.click /\ widget'.late = widget.late
    BY <1>3, <2>1 DEF Widget
  <2>4. WidgetIsTyped' /\ BodyIsTyped'
    BY <1>1, <1>3, <2>1, <2>2, <2>3 DEF WidgetIsTyped, BodyIsTyped
  <2> QED BY <1>6, <1>7, <2>3, <2>4, OneType
<1>8. CASE m \in Sent /\ widget.at = "asking"
  <2>1. /\ Finished(m.extra, m.request) /\ m.extra \in {Nothing} \cup Extra /\ m.request \in Request
        /\ m \notin Trait
    BY <1>4, <1>8, OneType
  <2>2. /\ Heard(widget.payload, to_page, 1, m.request) /\ IsNew(m.extra, m.request.click)
        /\ ~widget.late => m.request.click = widget.click
    BY <1>2, <1>3, <1>8 DEF PageInOrder, OneClick
  <2>3. m.request.read => IsFresh(widget.payload, m.request.click)
    BY <2>2 DEF Heard
  <2>4. WidgetIsTyped' /\ BodyIsTyped' /\ widget'.at = "ready" /\ widget'.payload = widget.payload
    BY <1>1, <1>8, <2>1, <2>2, <2>3, FinishedStep
  <2> QED BY <1>6, <2>1, <2>4
<1>9. CASE m \in Sent /\ widget.at # "asking"
  <2>1. UNCHANGED <<widget, body>> /\ m \notin Trait
    BY <1>4, <1>9, OneType
  <2>2. WidgetIsTyped' /\ BodyIsTyped'
    BY <1>1, <1>3, <2>1 DEF WidgetIsTyped, BodyIsTyped
  <2> QED BY <1>6, <2>1, <2>2
<1> QED BY <1>2, <1>7, <1>8, <1>9

\* The kernel reads the notebook, waits, and answers with the session file.
LEMMA KernelStep == ASSUME PayloadInv, Refresh \/ Waited \/ ReadSession PROVE PayloadInv'
<1>1. /\ FilesAreTyped /\ KernelIsTyped /\ WidgetIsTyped /\ BodyIsTyped /\ PageInOrder /\ OneClick
      /\ to_kernel \in Seq(Moment) /\ to_page \in Seq(Trait \cup Sent) /\ disk \in Version
      /\ runtime \in Runtime /\ runtime.request \in Request /\ runtime.request.click \in Moment
  BY DEF PayloadInv, KernelIsTyped, FilesAreTyped, Runtime, Request
<1>2. UNCHANGED <<disk, outputs, snapshot, widget, body>>
  BY DEF Refresh, Waited, ReadSession, files
<1>3. FilesAreTyped' /\ WidgetIsTyped' /\ BodyIsTyped'
  BY <1>1, <1>2 DEF FilesAreTyped, WidgetIsTyped, BodyIsTyped
<1>4. ASSUME NEW m \in Trait \cup Sent, to_page' = Append(to_page, m)
      PROVE  /\ to_page' \in Seq(Trait \cup Sent) /\ Len(to_page) \in Nat /\ Len(to_page') = Len(to_page) + 1
             /\ to_page'[Len(to_page) + 1] = m /\ \A i \in 1..Len(to_page) : to_page'[i] = to_page[i]
             /\ \A i \in 1..Len(to_page') : i \in 1..Len(to_page) \/ i = Len(to_page) + 1
             /\ \A r : \A i \in 1..Len(to_page) + 1 :
                  Heard(widget.payload, to_page, i, r) => Heard(widget.payload, to_page', i, r)
  <2>1. /\ to_page' \in Seq(Trait \cup Sent) /\ Len(to_page) \in Nat /\ Len(to_page') = Len(to_page) + 1
        /\ to_page'[Len(to_page) + 1] = m /\ \A i \in 1..Len(to_page) : to_page'[i] = to_page[i]
    BY <1>1, <1>4, LastMessage
  <2>2. \A i \in 1..Len(to_page') : i \in 1..Len(to_page) \/ i = Len(to_page) + 1
    BY <2>1
  <2>3. ASSUME NEW i \in 1..Len(to_page) + 1, NEW r, Heard(widget.payload, to_page, i, r)
        PROVE  Heard(widget.payload, to_page', i, r)
    <3>1. i > 1 => to_page'[i - 1] = to_page[i - 1]
      BY <2>1
    <3> QED BY <2>3, <3>1 DEF Heard
  <2> QED BY <2>1, <2>2, <2>3
<1>5. CASE Refresh
  <2>1. PICK fresh \in SourceRead, built \in BOOLEAN :
          /\ runtime.at = "idle" /\ to_kernel # <<>> /\ to_kernel' = Tail(to_kernel)
          /\ seen' = IF fresh = Nothing THEN seen ELSE fresh
          /\ to_page' = IF built THEN Append(to_page, [type |-> "trait", source |-> seen']) ELSE to_page
          /\ runtime' = [runtime EXCEPT !.at = "waiting",
                           !.request = [click |-> Head(to_kernel), read |-> built /\ fresh # Nothing]]
    BY <1>5 DEF Refresh
  <2> DEFINE m == [type |-> "trait", source |-> seen']
             q == [click |-> Head(to_kernel), read |-> built /\ fresh # Nothing]
  <2>2. /\ seen' \in Source /\ (seen' # Nothing => seen'.saves <= disk.saves)
        /\ fresh # Nothing => seen' = disk
    BY <1>1, <2>1 DEF SourceRead, KernelIsTyped, Source, Version
  <2>3. m \in Trait /\ m.source = seen' /\ m \notin Sent
    BY <2>2, OneType DEF Trait
  <2>4. /\ to_kernel' \in Seq(Moment) /\ Head(to_kernel) \in Moment /\ IsPast(Head(to_kernel), disk, snapshot)
        /\ Head(to_kernel) = to_kernel[1] /\ 1 \in 1..Len(to_kernel)
        /\ \A i \in 1..Len(to_kernel') : to_kernel'[i] = to_kernel[i + 1] /\ i + 1 \in 1..Len(to_kernel)
    BY <1>1, <2>1, FirstMessage DEF KernelIsTyped
  <2>5. q \in Request /\ q.click = Head(to_kernel) /\ (q.read <=> built /\ fresh # Nothing)
    BY <2>1, <2>4 DEF Request
  <2>6. built => to_page' = Append(to_page, m)
    BY <2>1
  <2>7. ~built => to_page' = to_page
    BY <2>1
  <2>8. runtime' = [runtime EXCEPT !.at = "waiting", !.request = q]
    BY <2>1
  <2> HIDE DEF m, q
  <2>9. runtime' \in Runtime /\ runtime'.at = "waiting" /\ runtime'.request = q
    BY <1>1, <2>5, <2>8 DEF Runtime
  <2>10. built => /\ to_page' \in Seq(Trait \cup Sent) /\ Len(to_page) \in Nat /\ Len(to_page') = Len(to_page) + 1
                  /\ to_page'[Len(to_page) + 1] = m /\ \A i \in 1..Len(to_page) : to_page'[i] = to_page[i]
                  /\ \A i \in 1..Len(to_page') : i \in 1..Len(to_page) \/ i = Len(to_page) + 1
                  /\ \A r : \A i \in 1..Len(to_page) + 1 :
                       Heard(widget.payload, to_page, i, r) => Heard(widget.payload, to_page', i, r)
    BY <1>4, <2>3, <2>6
  <2>11. KernelIsTyped'
    <3>1. \A i \in 1..Len(to_page') : to_page'[i] \in Trait /\ to_page'[i].source # Nothing =>
            to_page'[i].source.saves <= disk.saves
      <4>1. \A i \in 1..Len(to_page) : to_page[i] \in Trait /\ to_page[i].source # Nothing =>
              to_page[i].source.saves <= disk.saves
        BY <1>1 DEF KernelIsTyped
      <4>2. CASE built
        BY <2>2, <2>3, <2>10, <4>1, <4>2
      <4>3. CASE ~built
        BY <2>7, <4>1, <4>3
      <4> QED BY <2>1, <4>2, <4>3
    <3>2. to_page' \in Seq(Trait \cup Sent)
      BY <1>1, <2>7, <2>10
    <3> QED BY <1>1, <1>2, <2>2, <2>4, <2>5, <2>9, <3>1, <3>2 DEF KernelIsTyped
  <2>12. PageInOrder'
    <3>1. CASE built
      <4>1. ASSUME NEW i \in 1..Len(to_page'), to_page'[i] \in Sent
            PROVE  /\ IsPast(to_page'[i].request.click, disk, snapshot)
                   /\ Heard(widget.payload, to_page', i, to_page'[i].request)
                   /\ IsNew(to_page'[i].extra, to_page'[i].request.click)
        <5>1. i \in 1..Len(to_page) /\ i \in 1..Len(to_page) + 1 /\ to_page'[i] = to_page[i]
          BY <2>3, <2>10, <3>1, <4>1
        <5> QED BY <1>1, <2>10, <3>1, <4>1, <5>1 DEF PageInOrder
      <4>2. Heard(widget.payload, to_page', Len(to_page') + 1, q)
        <5> SUFFICES ASSUME q.read PROVE Heard(widget.payload, to_page', Len(to_page') + 1, q)
          BY DEF Heard
        <5>1. seen' = disk /\ IsFresh(m.source, q.click)
          <6>1. seen' = disk
            BY <2>2, <2>5
          <6>2. disk.saves >= q.click.saves
            BY <1>1, <2>4, <2>5 DEF IsPast, Version, Moment
          <6> QED BY <1>1, <2>3, <6>1, <6>2 DEF IsFresh
        <5>2. Len(to_page') + 1 > 1 /\ Len(to_page') + 1 - 1 = Len(to_page) + 1
          BY <2>10, <3>1
        <5> QED BY <2>3, <2>10, <3>1, <5>1, <5>2 DEF Heard
      <4> QED BY <1>2, <2>9, <4>1, <4>2 DEF PageInOrder
    <3>2. CASE ~built
      <4>1. Heard(widget.payload, to_page, Len(to_page) + 1, q)
        BY <2>5, <3>2 DEF Heard
      <4> QED BY <1>1, <1>2, <2>7, <2>9, <3>2, <4>1 DEF PageInOrder
    <3> QED BY <2>1, <3>1, <3>2
  <2>13. OneClick'
    <3>1. \A i \in 1..Len(to_page') : to_page'[i] \in Sent => i \in 1..Len(to_page) /\ to_page'[i] = to_page[i]
      BY <2>3, <2>7, <2>10
    <3> QED BY <1>1, <1>2, <2>4, <2>5, <2>9, <3>1 DEF OneClick
  <2> QED BY <1>3, <2>11, <2>12, <2>13 DEF PayloadInv
<1>6. CASE Waited
  <2>1. /\ runtime.at = "waiting" /\ runtime' = [runtime EXCEPT !.at = "reading"]
        /\ UNCHANGED <<seen, to_kernel, to_page>>
    BY <1>6 DEF Waited
  <2>2. runtime' \in Runtime /\ runtime'.at = "reading" /\ runtime'.request = runtime.request
    BY <1>1, <2>1 DEF Runtime
  <2>3. KernelIsTyped' /\ PageInOrder' /\ OneClick'
    BY <1>1, <1>2, <2>1, <2>2 DEF KernelIsTyped, PageInOrder, OneClick
  <2> QED BY <1>3, <2>3 DEF PayloadInv
<1>7. CASE ReadSession
  <2>1. PICK extra \in {Nothing} \cup Extra :
          /\ extra # Nothing => extra.write = snapshot.writes
          /\ Answer(extra)
    <3>1. CASE Answer(Nothing)
      BY <3>1
    <3>2. CASE /\ snapshot.state # "none" /\ Parses
               /\ Answer([cells |-> snapshot.cells, state |-> snapshot.state, write |-> snapshot.writes])
      <4> DEFINE x == [cells |-> snapshot.cells, state |-> snapshot.state, write |-> snapshot.writes]
      <4>1. x \in Extra /\ x.write = snapshot.writes
        BY <1>1, <3>2 DEF FilesAreTyped, Parses, Extra
      <4>2. Answer(x)
        BY <3>2
      <4> HIDE DEF x
      <4> QED BY <4>1, <4>2
    <3> QED BY <1>7, <3>1, <3>2 DEF ReadSession
  <2> DEFINE m == [type |-> "payload", extra |-> extra, request |-> runtime.request]
  <2>2. /\ to_page' = Append(to_page, m) /\ runtime' = [runtime EXCEPT !.at = "idle", !.request = NoRequest]
        /\ runtime.at = "reading" /\ UNCHANGED <<seen, to_kernel>>
    BY <1>7, <2>1 DEF Answer, ReadSession
  <2>3. m \in Sent /\ m \notin Trait /\ m.extra = extra /\ m.request = runtime.request
    BY <1>1, <2>1, OneType DEF Sent
  <2> HIDE DEF m
  <2>4. /\ to_page' \in Seq(Trait \cup Sent) /\ Len(to_page) \in Nat /\ Len(to_page') = Len(to_page) + 1
        /\ to_page'[Len(to_page) + 1] = m /\ \A i \in 1..Len(to_page) : to_page'[i] = to_page[i]
        /\ \A i \in 1..Len(to_page') : i \in 1..Len(to_page) \/ i = Len(to_page) + 1
        /\ \A r : \A i \in 1..Len(to_page) + 1 :
             Heard(widget.payload, to_page, i, r) => Heard(widget.payload, to_page', i, r)
    BY <1>4, <2>2, <2>3
  <2>5. runtime' \in Runtime /\ runtime'.at = "idle" /\ IsPast(runtime'.request.click, disk, snapshot)
    <3>1. NoRequest \in Request /\ NoRequest.click = [saves |-> 0, writes |-> 0]
      BY DEF NoRequest, NoClick, Request, Moment
    <3>2. IsPast(NoRequest.click, disk, snapshot)
      BY <1>1, <3>1 DEF IsPast, FilesAreTyped, Version
    <3> HIDE DEF NoRequest
    <3> QED BY <1>1, <2>2, <3>1, <3>2 DEF Runtime
  <2>6. KernelIsTyped'
    BY <1>1, <1>2, <2>2, <2>3, <2>4, <2>5 DEF KernelIsTyped
  <2>7. PageInOrder'
    <3>1. ASSUME NEW i \in 1..Len(to_page'), to_page'[i] \in Sent
          PROVE  /\ IsPast(to_page'[i].request.click, disk, snapshot)
                 /\ Heard(widget.payload, to_page', i, to_page'[i].request)
                 /\ IsNew(to_page'[i].extra, to_page'[i].request.click)
      <4>1. CASE i \in 1..Len(to_page)
        <5>1. to_page'[i] = to_page[i] /\ i \in 1..Len(to_page) + 1
          BY <2>4, <4>1
        <5> QED BY <1>1, <2>4, <3>1, <4>1, <5>1 DEF PageInOrder
      <4>2. CASE i = Len(to_page) + 1
        <5>1. to_page'[i] = m /\ i \in 1..Len(to_page) + 1
          BY <2>4, <4>2
        <5>2. IsPast(runtime.request.click, disk, snapshot) /\ Heard(widget.payload, to_page, i, runtime.request)
          BY <1>1, <2>2, <4>2 DEF KernelIsTyped, PageInOrder
        <5>3. IsNew(extra, runtime.request.click)
          BY <1>1, <2>1, <5>2 DEF IsNew, IsPast, Extra, Moment
        <5> QED BY <2>3, <2>4, <5>1, <5>2, <5>3
      <4> QED BY <2>4, <3>1, <4>1, <4>2
    <3> QED BY <1>2, <2>5, <3>1 DEF PageInOrder
  <2>8. OneClick'
    BY <1>1, <1>2, <2>2, <2>3, <2>4, <2>5 DEF OneClick
  <2> QED BY <1>3, <2>6, <2>7, <2>8 DEF PayloadInv
<1> QED BY <1>5, <1>6, <1>7

\* A notebook is opened with nothing under way.
LEMMA PayloadStarts == PayloadInit => PayloadInv
<1> SUFFICES ASSUME PayloadInit PROVE PayloadInv
  OBVIOUS
<1>1. /\ disk \in Version /\ disk.saves = 0 /\ MaxSaves \in Nat
      /\ outputs = [c \in Cell |-> NoOutput] /\ snapshot = NoSession
      /\ seen \in SourceRead /\ body = Nothing /\ to_kernel = <<>> /\ to_page = <<>>
  BY PayloadAssumption DEF PayloadInit, Version
<1>2. FilesAreTyped /\ snapshot.writes = 0
  BY <1>1 DEF FilesAreTyped, NoSession, Shots
<1>3. /\ NoClick \in Moment /\ NoClick.saves = 0 /\ NoClick.writes = 0
      /\ NoRequest \in Request /\ NoRequest.click = NoClick
  BY DEF NoClick, NoRequest, Moment, Request
<1>4. /\ runtime = [at |-> "idle", runs |-> 0, cell |-> 0, request |-> NoRequest]
      /\ widget = [at |-> "ready", click |-> NoClick, late |-> FALSE, payload |-> seen, submits |-> 0]
  BY DEF PayloadInit
<1>5. seen \in Source /\ (seen # Nothing => seen.saves <= disk.saves)
  BY <1>1 DEF SourceRead, Source
<1> HIDE DEF NoClick, NoRequest
<1>6. /\ runtime \in Runtime /\ runtime.at = "idle" /\ runtime.request = NoRequest
  BY <1>3, <1>4 DEF Runtime
<1>7. widget \in Widget /\ widget.at = "ready" /\ widget.payload = seen
  BY <1>3, <1>4, <1>5 DEF Widget
<1>8. KernelIsTyped
  <2>1. IsPast(NoClick, disk, snapshot)
    BY <1>1, <1>2, <1>3 DEF IsPast
  <2> QED BY <1>1, <1>3, <1>5, <1>6, <2>1 DEF KernelIsTyped
<1>9. WidgetIsTyped /\ BodyIsTyped /\ PageInOrder /\ OneClick
  BY <1>1, <1>5, <1>6, <1>7 DEF WidgetIsTyped, BodyIsTyped, PageInOrder, OneClick
<1> QED BY <1>2, <1>8, <1>9 DEF PayloadInv

\* Every step keeps the invariant.
LEMMA PayloadStep == PayloadInv /\ [PayloadNext]_payloadVars => PayloadInv'
<1> SUFFICES ASSUME PayloadInv, [PayloadNext]_payloadVars PROVE PayloadInv'
  OBVIOUS
<1>1. CASE PayloadNext
  BY <1>1, FilesMoveStep, PressStep, ReceiveStep, TimeoutStep, KernelStep DEF PayloadNext
<1>2. CASE UNCHANGED payloadVars
  BY <1>2 DEF payloadVars, PayloadInv, FilesAreTyped, KernelIsTyped, WidgetIsTyped, BodyIsTyped,
              PageInOrder, OneClick
<1> QED BY <1>1, <1>2

\* Whatever the student, the server and the kernel do, the invariant holds.
LEMMA PayloadHolds == PayloadSpec => []PayloadInv
<1> QED BY PayloadStarts, PayloadStep, PTL DEF PayloadSpec

\* What an answer of the kernel hands in is at least as new as the notebook and the session
\* file of the click it answers, which is the click it ends unless answers to earlier ones
\* were outstanding (the safety half of Grader.submit_button's promise).
THEOREM BodiesAreOfTheClick == PayloadSpec => []BodyIsOfTheClick
<1>1. PayloadInv => BodyIsOfTheClick
  <2> SUFFICES ASSUME PayloadInv PROVE BodyIsOfTheClick
    OBVIOUS
  <2> USE DEF PayloadInv
  <2>1. /\ disk.text \in Notebook /\ disk.saves \in 0..MaxSaves
        /\ snapshot.state \in {"none", "torn", "whole"}
        /\ \A source \in {seen, widget.payload} \ {Nothing} : source.saves <= disk.saves
    BY PayloadAssumption DEF FilesAreTyped, KernelIsTyped, WidgetIsTyped, Version
  <2>2. /\ runtime.at \in {"idle", "running", "waiting", "reading"}
        /\ widget.at \in {"ready", "asking"}
    BY DEF KernelIsTyped, WidgetIsTyped, Runtime, Widget
  <2>3. body # Nothing => /\ body.source # Nothing
                          /\ body.outputs # Nothing => body.outputs.state = "whole"
    BY DEF BodyIsTyped, Extra
  <2>4. PayloadTypeOK
    BY <2>1, <2>2, <2>3 DEF PayloadTypeOK
  <2> QED BY <2>4 DEF BodyIsOfTheClick, BodyIsTyped, IsFresh, IsNew
<1> QED BY <1>1, PayloadHolds, PTL

-----------------------------------------------------------------------------
(* The page: whose output is shown.                                        *)

\* Of two entries of one code the later has the higher number.
LEMMA NumbersGrow ==
  ASSUME NEW n \in Nat, NEW codes, NEW i \in 1..n, NEW j \in 1..n, codes[i] = codes[j],
         Nth(codes, i) = Nth(codes, j)
  PROVE  i = j
<1>1. ASSUME NEW a \in 1..n, NEW b \in 1..n, codes[a] = codes[b], a < b
      PROVE  Nth(codes, a) < Nth(codes, b)
  <2> DEFINE A == {k \in 1..(a - 1) : codes[k] = codes[a]}
             B == {k \in 1..(b - 1) : codes[k] = codes[b]}
  <2>1. IsFiniteSet(A) /\ IsFiniteSet(B)
    <3>1. IsFiniteSet(1..(a - 1)) /\ IsFiniteSet(1..(b - 1))
      BY FS_Interval
    <3>2. A \subseteq 1..(a - 1) /\ B \subseteq 1..(b - 1)
      OBVIOUS
    <3> QED BY <3>1, <3>2, FS_Subset
  <2>2. A \cup {a} \subseteq B /\ a \notin A
    BY <1>1
  <2> HIDE DEF A, B
  <2>3. IsFiniteSet(A \cup {a}) /\ Cardinality(A \cup {a}) = Cardinality(A) + 1
    BY <2>1, <2>2, FS_AddElement
  <2>4. Cardinality(A \cup {a}) <= Cardinality(B)
    BY <2>1, <2>2, FS_Subset
  <2>5. Cardinality(A) \in Nat /\ Cardinality(B) \in Nat
    BY <2>1, FS_CardinalityType
  <2>6. Cardinality(A) < Cardinality(B)
    BY <2>3, <2>4, <2>5
  <2> QED BY <2>6 DEF Nth, A, B
<1>2. \A a \in 1..n : Nth(codes, a) \in Nat
  <2> SUFFICES ASSUME NEW a \in 1..n PROVE Nth(codes, a) \in Nat
    OBVIOUS
  <2>1. IsFiniteSet({k \in 1..(a - 1) : codes[k] = codes[a]})
    <3>1. IsFiniteSet(1..(a - 1))
      BY FS_Interval
    <3> QED BY <3>1, FS_Subset
  <2> QED BY <2>1, FS_CardinalityType DEF Nth
<1>3. ~(i < j) /\ ~(j < i)
  BY <1>1, <1>2
<1> QED BY <1>3

\* Numbers of the first two entries.
LEMMA FirstTwo ==
  ASSUME NEW codes
  PROVE  /\ Nth(codes, 1) = 0
         /\ Nth(codes, 2) = IF codes[1] = codes[2] THEN 1 ELSE 0
<1>1. 1..(1 - 1) = {} /\ 1..(2 - 1) = {1}
  OBVIOUS
<1>2. {j \in 1..(1 - 1) : codes[j] = codes[1]} = {}
  BY <1>1
<1>3. {j \in 1..(2 - 1) : codes[j] = codes[2]} = IF codes[1] = codes[2] THEN {1} ELSE {}
  BY <1>1
<1>4. Cardinality({}) = 0 /\ Cardinality({1}) = 1
  BY FS_EmptySet, FS_Singleton
<1> QED BY <1>2, <1>3, <1>4 DEF Nth

\* A session file has entries 1 to n, of typed outputs.
LEMMA ShotIs ==
  ASSUME NEW cells \in Shots
  PROVE  \E n \in 0..2 :
           /\ DOMAIN cells = 1..n /\ \A i \in 1..n : cells[i] \in Output
           /\ n = 2 => cells[1].cell = 1 /\ cells[2].cell = 2
<1>1. CASE cells = <<>>
  <2>1. DOMAIN cells = 1..0
    BY <1>1
  <2> QED BY <2>1
<1>2. CASE \E o \in Output : cells = <<o>>
  <2>1. DOMAIN cells = 1..1 /\ \A i \in 1..1 : cells[i] \in Output
    BY <1>2
  <2> QED BY <2>1
<1>3. CASE \E p \in Output \X Output : p[1].cell = 1 /\ p[2].cell = 2 /\ cells = <<p[1], p[2]>>
  <2>1. PICK p \in Output \X Output : p[1].cell = 1 /\ p[2].cell = 2 /\ cells = <<p[1], p[2]>>
    BY <1>3
  <2>2. DOMAIN cells = 1..2 /\ cells[1] = p[1] /\ cells[2] = p[2] /\ p[1] \in Output /\ p[2] \in Output
    BY <2>1
  <2>3. \A i \in 1..2 : i = 1 \/ i = 2
    OBVIOUS
  <2> QED BY <2>1, <2>2, <2>3
<1> QED BY <1>1, <1>2, <1>3 DEF Shots

\* The page shows under a cell outputs of its code alone, at most one, and its own when
\* nothing was edited between the runs and the click (worker/snapshot_render.py).
THEOREM PagesShowTheirOwn == PayloadSpec => []PageShowsItsOwn
<1>1. ASSUME NEW text, NEW cells \in Shots, NEW c \in Cell
      PROVE  /\ \A o \in ShownUnder(c, text, cells) : o.code = text[c]
             /\ Cardinality(ShownUnder(c, text, cells)) <= 1
             /\ (\A d \in Cell : \E i \in DOMAIN cells : cells[i].cell = d /\ cells[i].code = text[d])
                  => \A o \in ShownUnder(c, text, cells) : o.cell = c
  <2> DEFINE codes == [i \in DOMAIN cells |-> cells[i].code]
             k == Nth(<<text[1], text[2]>>, c)
             shown == {i \in DOMAIN cells : cells[i].code = text[c] /\ Nth(codes, i) = k}
             S == ShownUnder(c, text, cells)
  <2>1. S = {cells[i] : i \in shown}
    BY DEF ShownUnder, Occurrence
  <2>2. PICK n \in 0..2 :
          /\ DOMAIN cells = 1..n /\ \A i \in 1..n : cells[i] \in Output
          /\ n = 2 => cells[1].cell = 1 /\ cells[2].cell = 2
    BY ShotIs
  <2>3. \A i \in 1..n : codes[i] = cells[i].code
    BY <2>2
  <2>4. \A i, j \in shown : i = j
    <3> SUFFICES ASSUME NEW i \in shown, NEW j \in shown PROVE i = j
      OBVIOUS
    <3>1. i \in 1..n /\ j \in 1..n /\ codes[i] = codes[j] /\ Nth(codes, i) = Nth(codes, j)
      BY <2>2, <2>3
    <3> HIDE DEF codes
    <3> QED BY <3>1, NumbersGrow
  <2>5. \A o \in S : o.code = text[c]
    BY <2>1
  <2>6. \A o, other \in S : o = other
    BY <2>1, <2>4
  <2>7. Cardinality(S) <= 1
    <3> HIDE DEF S
    <3>1. S = {} \/ \E o : S = {o}
      BY <2>6
    <3>2. Cardinality(S) = 0 \/ Cardinality(S) = 1
      BY <3>1, FS_EmptySet, FS_Singleton
    <3> QED BY <3>2
  <2>8. ASSUME \A d \in Cell : \E i \in DOMAIN cells : cells[i].cell = d /\ cells[i].code = text[d],
               NEW i \in shown
        PROVE  cells[i].cell = c
    <3>1. n = 2 /\ c \in {1, 2} /\ i \in {1, 2}
      BY <2>2, <2>8 DEF Cell
    <3>2. cells[1].cell = 1 /\ cells[2].cell = 2 /\ cells[1].code = text[1] /\ cells[2].code = text[2]
      BY <2>2, <2>8, <3>1 DEF Cell
    <3>3. codes[1] = text[1] /\ codes[2] = text[2]
      BY <2>3, <3>1, <3>2
    <3>4. /\ Nth(codes, 1) = 0 /\ Nth(codes, 2) = IF text[1] = text[2] THEN 1 ELSE 0
      <4> HIDE DEF codes
      <4> QED BY <3>3, FirstTwo
    <3>5. /\ Nth(<<text[1], text[2]>>, 1) = 0
          /\ Nth(<<text[1], text[2]>>, 2) = IF text[1] = text[2] THEN 1 ELSE 0
      BY FirstTwo
    <3>6. cells[i].code = text[c] /\ Nth(codes, i) = Nth(<<text[1], text[2]>>, c)
      OBVIOUS
    <3> HIDE DEF codes, k, shown, S
    <3>7. i = c
      <4>1. CASE text[1] = text[2]
        BY <3>1, <3>4, <3>5, <3>6, <4>1
      <4>2. CASE text[1] # text[2]
        BY <3>1, <3>2, <3>6, <4>2
      <4> QED BY <4>1, <4>2
    <3> QED BY <3>1, <3>2, <3>7
  <2>9. ASSUME \A d \in Cell : \E i \in DOMAIN cells : cells[i].cell = d /\ cells[i].code = text[d]
        PROVE  \A o \in S : o.cell = c
    <3>1. \A i \in shown : cells[i].cell = c
      BY <2>8, <2>9
    <3> HIDE DEF shown, S
    <3> QED BY <2>1, <3>1
  <2> QED BY <2>5, <2>7, <2>9
<1>2. PayloadInv => PageShowsItsOwn
  <2> SUFFICES ASSUME PayloadInv PROVE PageShowsItsOwn
    OBVIOUS
  <2>1. ASSUME body # Nothing, body.outputs # Nothing PROVE body.outputs.cells \in Shots
    BY <2>1 DEF PayloadInv, BodyIsTyped, Extra
  <2>2. ASSUME body # Nothing, body.outputs # Nothing, NEW c \in Cell
        PROVE  LET text == body.source.text
                   cells == body.outputs.cells
               IN  /\ \A o \in ShownUnder(c, text, cells) : o.code = text[c]
                   /\ Cardinality(ShownUnder(c, text, cells)) <= 1
                   /\ (\A d \in Cell : \E i \in DOMAIN cells : cells[i].cell = d /\ cells[i].code = text[d])
                        => \A o \in ShownUnder(c, text, cells) : o.cell = c
    BY <1>1, <2>1, <2>2
  <2> QED BY <2>2, Zenon DEF PageShowsItsOwn
<1> QED BY <1>2, PayloadHolds, PTL
=============================================================================
