------------------------------- MODULE Roster -------------------------------
(***************************************************************************)
(* Who is enrolled in one offering, and as what: the platform admin's      *)
(* routes (api/admin.py), the roster page (api/roster.py), the importers   *)
(* (services/roster.py), student preview (api/offerings.py) and the        *)
(* operator's commands (cli.py).                                           *)
(*                                                                         *)
(* Every route but one is a single step.  Dropping someone is split        *)
(* between what it reads and its commit: it is the route that has to leave *)
(* the offering an instructor.  An import is split by design, between the  *)
(* plan shown and the plan applied, and anything may happen between them.  *)
(***************************************************************************)
EXTENDS Availability, FiniteSets

CONSTANTS
  Member,          \* people
  Section,
  File,            \* class lists, each a set of lines
  MaxClicks        \* bound: requests and commands

\* A line of a class list, as far as the parsers tell lines apart: the login column,
\* which may hold an address, the e-mail column, the section and the kind of line.
Line == [login : Member \cup {None}, email : Member \cup {None}, section : Section \cup {None},
         named : BOOLEAN, test : BOOLEAN]

\* An enrollment; what an import reads of a line; what an instructor has on screen.
Enrollment == [role : Role, status : {"active", "dropped"}, section : Section \cup {None},
               preview : BOOLEAN]
RosterRow == [netid : Member \cup {None}, section : Section \cup {None}]
Plan == [adds : SUBSET RosterRow, drops : SUBSET Member, moves : SUBSET RosterRow,
         rows : SUBSET RosterRow, fresh : BOOLEAN]

ASSUME RosterAssumption ==
  /\ None \notin Member \cup Section \cup Enrollment \cup Plan
  /\ File \subseteq SUBSET Line /\ MaxClicks \in Nat

VARIABLES
  enrollment,      \* enrollments by user; None when there is no row
  admin,           \* users with platform_admin
  stage,           \* what exists of the offering: "none", "course", "offering"
  drop,            \* removals being handled, by the instructor who asked
  plan,            \* the import an instructor has on screen
  clicks,
  imported,        \* rows of the last import, until something else changes the class
  excused          \* how the offering may have lost an instructor unwatched by any check

rosterVars == <<enrollment, admin, stage, drop, plan, clicks, imported, excused>>

NewEnrollment(role, section) == [role |-> role, status |-> "active", section |-> section,
                                 preview |-> FALSE]

RosterInit ==
  /\ enrollment = [p \in Member |-> None]
  /\ admin = {} /\ stage = "none" /\ clicks = 0
  /\ drop = [p \in Member |-> None]
  /\ plan = None /\ imported = None /\ excused = {}

Enrolled(p) == enrollment[p] # None
Active(p) == Enrolled(p) /\ enrollment[p].status = "active"
OwnRole(p, role) == Enrolled(p) /\ enrollment[p].role = role

\* require_instructor, require_staff: an active enrollment, in its effective role.
Instructor(p) == Active(p) /\ EffectiveRole(enrollment[p]) = "instructor"
Staff(p) == Active(p) /\ IsStaff(enrollment[p])

Click == clicks < MaxClicks /\ clicks' = clicks + 1

\* Something other than an import changed the class.
Disturbed == imported' = None /\ plan' = IF plan = None THEN None ELSE [plan EXCEPT !.fresh = FALSE]

Enroll(p, e) == enrollment' = [enrollment EXCEPT ![p] = e]

Demotes(p, role) == OwnRole(p, "instructor") /\ role # "instructor"

-----------------------------------------------------------------------------
(* The platform admin and the operator.                                    *)

\* POST /admin/courses and /admin/courses/{id}/offerings.
CreateCourse(by) ==
  /\ Click /\ by \in admin /\ stage = "none"
  /\ stage' = "course"
  /\ UNCHANGED <<enrollment, admin, drop, plan, imported, excused>>

CreateOffering(by) ==
  /\ Click /\ by \in admin /\ stage = "course"
  /\ stage' = "offering"
  /\ UNCHANGED <<enrollment, admin, drop, plan, imported, excused>>

AddInstructor(by, p) ==
  /\ Click /\ by \in admin /\ stage = "offering"
  /\ Enroll(p, IF Enrolled(p) THEN [enrollment[p] EXCEPT !.role = "instructor", !.status = "active"]
               ELSE NewEnrollment("instructor", None))
  /\ Disturbed
  /\ UNCHANGED <<admin, stage, drop, excused>>

SetAdmin(by, p, on) ==
  /\ Click /\ by \in admin
  /\ admin' = IF on THEN admin \cup {p} ELSE admin \ {p}
  /\ UNCHANGED <<enrollment, stage, drop, plan, imported, excused>>

OfferingFound(role) == role = None \/ stage = "offering"

\* `grader token`: a role for an enrollment that exists leaves its status as it is.
OperatorToken(p, role, make_admin) ==
  /\ Click /\ OfferingFound(role)
  /\ admin' = IF make_admin THEN admin \cup {p} ELSE admin
  /\ IF role = None THEN UNCHANGED <<enrollment, plan, imported, excused>>
     ELSE /\ Enroll(p, IF Enrolled(p) THEN [enrollment[p] EXCEPT !.role = role]
                       ELSE NewEnrollment(role, None))
          /\ excused' = excused \cup (IF Demotes(p, role) THEN {"operator"} ELSE {})
          /\ Disturbed
  /\ UNCHANGED <<stage, drop>>

\* `grader seed`: whoever is enrolled already stays as they are.
Seed(instructor, students) ==
  /\ Click /\ instructor \notin students
  /\ stage' = "offering"
  /\ admin' = admin \cup {instructor}
  /\ enrollment' = [p \in Member |->
       IF Enrolled(p) THEN enrollment[p]
       ELSE IF p = instructor THEN NewEnrollment("instructor", None)
       ELSE IF p \in students THEN NewEnrollment("student", None) ELSE None]
  /\ Disturbed
  /\ UNCHANGED <<drop, excused>>

-----------------------------------------------------------------------------
(* One enrollment at a time.                                               *)

\* PUT /offerings/{id}/preview, checked against the member's own role.
SetPreview(p, on) ==
  /\ Click /\ Active(p) /\ enrollment[p].role # "student"
  /\ Enroll(p, [enrollment[p] EXCEPT !.preview = on])
  /\ UNCHANGED <<admin, stage, drop, plan, imported, excused>>

\* POST roster/staff. An instructor may be made a teaching assistant, oneself included.
AddStaff(by, p, role) ==
  /\ Click /\ Instructor(by) /\ role # "student"
  /\ Enroll(p, IF Enrolled(p) THEN [enrollment[p] EXCEPT !.role = role, !.status = "active"]
               ELSE NewEnrollment(role, None))
  /\ excused' = excused \cup (IF Demotes(p, role) THEN {"demoted"} ELSE {})
  /\ Disturbed
  /\ UNCHANGED <<admin, stage, drop>>

\* POST roster/students.
AddStudent(by, p, section) ==
  /\ Click /\ Instructor(by)
  /\ Enrolled(p) => enrollment[p].role = "student"
  /\ Enroll(p, IF Enrolled(p)
               THEN [enrollment[p] EXCEPT !.status = "active", !.section = section]
               ELSE NewEnrollment("student", section))
  /\ Disturbed
  /\ UNCHANGED <<admin, stage, drop, excused>>

\* DELETE roster/{netid}: not oneself, not the last instructor.
MayDrop(by, p) ==
  /\ by # p
  /\ OwnRole(p, "instructor") => \E q \in Member \ {p} : OwnRole(q, "instructor") /\ Active(q)

DropRead(by, p) ==
  /\ Click /\ Instructor(by) /\ drop[by] = None
  /\ Enrolled(p) /\ MayDrop(by, p)
  /\ drop' = [drop EXCEPT ![by] = p]
  /\ excused' = excused \cup (IF \E q \in Member : drop[q] # None THEN {"crossed"} ELSE {})
  /\ UNCHANGED <<enrollment, admin, stage, plan, imported>>

DropCommit(by) ==
  /\ drop[by] # None
  /\ Enroll(drop[by], [enrollment[drop[by]] EXCEPT !.status = "dropped"])
  /\ drop' = [drop EXCEPT ![by] = None]
  /\ Disturbed
  /\ UNCHANGED <<admin, stage, clicks, excused>>

-----------------------------------------------------------------------------
(* The import.                                                             *)

Row(netid, section) == [netid |-> netid, section |-> section]

\* parse_canvas_csv: the test student and the points line are not people.
CanvasRows(file) == {Row(l.login, l.section) : l \in {k \in file : k.named /\ ~k.test}}

\* parse_banner: the address stands in for a missing NetID.
BannerNetid(l) == IF l.login # None THEN l.login ELSE l.email
BannerRows(file) ==
  {Row(BannerNetid(l), l.section) : l \in {k \in file : BannerNetid(k) # None \/ k.named}}

\* parse_simple: a line with an empty first column is skipped.
SimpleRows(file) == {Row(l.login, l.section) : l \in {k \in file : k.login # None}}

Parsed(file, source) ==
  CASE source = "canvas_csv" -> CanvasRows(file)
    [] source = "banner" -> BannerRows(file)
    [] source = "simple" -> SimpleRows(file)

Matched(rows) == {r \in rows : r.netid # None}

\* A class list names a person once.
NamesOnce(rows) == \A r, q \in rows : r.netid = q.netid => r = q

ASSUME ClassListAssumption ==
  \A file \in File, source \in {"canvas_csv", "banner", "simple"} :
    NamesOnce(Matched(Parsed(file, source)))

\* services/roster.preview: the rows against the students; rows without a NetID match nobody.
IsStudent(p) == OwnRole(p, "student")
Difference(rows) ==
  LET here == {p \in Member : IsStudent(p) /\ Active(p)}
  IN  [adds |-> {r \in Matched(rows) : r.netid \notin here},
       moves |-> {r \in Matched(rows) : r.netid \in here /\ enrollment[r.netid].section # r.section},
       drops |-> here \ {r.netid : r \in Matched(rows)}]

\* POST roster/preview. The page keeps the plan; the server keeps only the file.
RosterPreview(by, file, source) ==
  /\ Click /\ Instructor(by)
  /\ LET d == Difference(Parsed(file, source))
     IN  plan' = [adds |-> d.adds, drops |-> d.drops, moves |-> d.moves,
                  rows |-> Matched(Parsed(file, source)), fresh |-> TRUE]
  /\ UNCHANGED <<enrollment, admin, stage, drop, imported, excused>>

\* The row of a plan for somebody.
RowOf(rows, p) == CHOOSE r \in rows : r.netid = p

\* Mistake: an enrollment that exists is moved but not reinstated.
ReinstatedNot(p, r) == [enrollment[p] EXCEPT !.section = r.section]

\* apply: an enrollment that exists is reinstated, in the role it has.
Reinstated(p, r) == [enrollment[p] EXCEPT !.status = "active", !.section = r.section]

\* Mistake: whoever the plan drops is dropped.
DroppedByAnyPlan(p) == p \in plan.drops

\* apply: only students are dropped, whatever they were when the plan was drawn up.
DroppedByPlan(p) == p \in plan.drops /\ IsStudent(p)

Applied(p) ==
  IF \E r \in plan.adds : r.netid = p
  THEN LET r == RowOf(plan.adds, p)
       IN  IF Enrolled(p) THEN Reinstated(p, r) ELSE NewEnrollment("student", r.section)
  ELSE IF DroppedByPlan(p) THEN [enrollment[p] EXCEPT !.status = "dropped"]
  ELSE IF Enrolled(p) /\ \E r \in plan.moves : r.netid = p
  THEN [enrollment[p] EXCEPT !.section = RowOf(plan.moves, p).section]
  ELSE enrollment[p]

\* POST roster/apply.
RosterApply(by) ==
  /\ Click /\ Instructor(by) /\ plan # None
  /\ enrollment' = [p \in Member |-> Applied(p)]
  /\ imported' = IF plan.fresh THEN plan.rows ELSE None
  /\ plan' = None
  /\ UNCHANGED <<admin, stage, drop, excused>>

RosterNext ==
  \/ \E by, p \in Member :
       \/ CreateCourse(by) \/ CreateOffering(by) \/ AddInstructor(by, p)
       \/ \E on \in BOOLEAN : SetAdmin(by, p, on)
       \/ \E role \in Role : AddStaff(by, p, role)
       \/ \E section \in Section \cup {None} : AddStudent(by, p, section)
       \/ DropRead(by, p)
  \/ \E by \in Member :
       \/ DropCommit(by) \/ RosterApply(by)
       \/ \E on \in BOOLEAN : SetPreview(by, on)
       \/ \E file \in File, source \in {"canvas_csv", "banner", "simple"} :
            RosterPreview(by, file, source)
  \/ \E p \in Member, make_admin \in BOOLEAN, role \in Role \cup {None} :
       OperatorToken(p, role, make_admin)
  \/ \E instructor \in Member, students \in SUBSET Member : Seed(instructor, students)

RosterSpec == RosterInit /\ [][RosterNext]_rosterVars

-----------------------------------------------------------------------------
(* Properties.                                                             *)

RosterTypeOK ==
  /\ enrollment \in [Member -> {None} \cup Enrollment]
  /\ plan \in {None} \cup Plan /\ imported \in {None} \cup SUBSET RosterRow
  /\ admin \subseteq Member
  /\ stage \in {"none", "course", "offering"}
  /\ drop \in [Member -> Member \cup {None}]
  /\ clicks \in 0..MaxClicks /\ excused \subseteq {"operator", "demoted", "crossed"}
  /\ stage # "offering" => \A p \in Member : ~Enrolled(p)

HasInstructor == \E p \in Member : OwnRole(p, "instructor") /\ Active(p)
HadInstructor == \E p \in Member : OwnRole(p, "instructor")

\* drop_enrollment's last two checks (api/roster.py:219): removing people, imports included,
\* never takes an offering's last instructor, unless two removals cross or somebody was
\* demoted, which no check watches.
KeepsAnInstructor ==
  /\ RosterTypeOK
  /\ HadInstructor /\ excused = {} => HasInstructor

\* What drop_enrollment's comment says of the roster page (api/roster.py:232): an instructor
\* cannot lock everyone out of the offering with it.
NobodyLockedOut ==
  (HadInstructor \/ "demoted" \in excused) /\ excused \subseteq {"demoted"} => HasInstructor

\* services/roster.apply: an import, however old its plan, takes nobody off the staff and
\* changes nobody's role.
ImportLeavesStaff ==
  plan # None /\ plan' = None =>
    \A p \in Member : Active(p) /\ ~IsStudent(p) =>
      enrollment'[p].role = enrollment[p].role /\ enrollment'[p].status = "active"

\* "Import stays the ... source of truth" (api/roster.py:161): once a plan that was still
\* current is applied, the class is the file, people dropped before it included.
ImportSettles ==
  imported # None =>
    /\ \A r \in imported : Active(r.netid) /\ enrollment[r.netid].section = r.section
    /\ \A p \in Member : IsStudent(p) /\ Active(p) => \E r \in imported : r.netid = p

\* An import does what the file says to the students, and nothing to the staff: no step
\* takes staff away with a plan, and none leads to a class that is not the file's.
ImportsAreFaithful == [][ImportLeavesStaff /\ ImportSettles']_rosterVars
=============================================================================
