--------------------------- MODULE PublishingProofs ---------------------------
(***************************************************************************)
(* What the instructors of an assignment may rely on, for any number of    *)
(* them, of questions and of uploads: the live questions are those of the  *)
(* latest version, the whole-notebook question is as the settings and its  *)
(* rubric say unless two requests overlapped, and publishing does what its *)
(* preview announced.                                                      *)
(*                                                                         *)
(* First what a handler makes of the assignment it has loaded, then what   *)
(* the columns it writes make of the assignment others left meanwhile.     *)
(***************************************************************************)
EXTENDS Publishing, TLAPS

AllQid == Qid \cup {Notebook}
Row == Question \cup {None}

\* Two rows are alike in all that a publish writes.
Alike(x, y) ==
  /\ x = None <=> y = None
  /\ x # None => x.max = y.max /\ x.manual = y.manual /\ x.active = y.active

\* The whole-notebook question is as the settings and its rubric say.
Agrees(a) ==
  LET q == a.questions[Notebook]
  IN  /\ IF a.settings.notebook THEN q # None /\ q.active /\ q.max = a.settings.points
         ELSE q # None => ~q.active
      /\ q # None /\ q.active /\ q.rubric # None => q.max = q.rubric

\* The live questions are those of the latest version, with its points.
LatestLive(a) ==
  a.versions # <<>> =>
    /\ Live(a) = DOMAIN Latest(a).marks
    /\ \A q \in Live(a) :
         [max |-> a.questions[q].max, manual |-> a.questions[q].manual] = Latest(a).marks[q]

\* What was loaded, `s`, is an earlier state of the assignment: rows are not deleted, and
\* only a new version changes what a publish writes.
Earlier(s, a) ==
  s # None =>
    /\ a # None /\ Len(s.versions) <= Len(a.versions)
    /\ \A q \in AllQid : s.questions[q] # None => a.questions[q] # None
    /\ Len(s.versions) = Len(a.versions) =>
         s.versions = a.versions /\ \A q \in Qid : Alike(s.questions[q], a.questions[q])

-----------------------------------------------------------------------------
(* The inductive invariant.                                                *)

\* What a request in flight has loaded of the assignment `a`, and the preview it goes by.
Loaded(r, a) ==
  /\ r.op = None => r = Idle
  /\ r.op # None =>
       /\ r.op.kind = "create" <=> r.seen = None
       /\ Earlier(r.seen, a)
       /\ ~r.stale => r.seen = a
  /\ r.expect # None =>
       /\ r.op # None /\ r.op.kind = "publish" /\ ~r.stale
       /\ r.expect.u = r.op.u /\ r.expect.answer = Preview(r.seen, r.op.u)

\* A preview on the screen is what publishing would do now.
ToldInv ==
  \A i \in Instructor : told[i] # None =>
    assignment # None /\ told[i].answer = Preview(assignment, told[i].u)

PublishingInv ==
  /\ TypeOK
  /\ assignment # None => LatestLive(assignment) /\ (overlap \/ Agrees(assignment))
  /\ \A i \in Instructor : Loaded(request[i], assignment)
  /\ ToldInv

-----------------------------------------------------------------------------
(* What a handler makes of an assignment.                                  *)

\* The outcome of an operation: rows stay, rubrics change only by put_rubric, and the live
\* questions change only with a new version.
Follows(op, a, b) ==
  /\ b \in Assignment
  /\ \A q \in AllQid :
       a.questions[q] # None =>
         /\ b.questions[q] # None
         /\ op.kind # "rubric" \/ q # op.q => b.questions[q].rubric = a.questions[q].rubric
  /\ \/ b.versions = a.versions /\ \A q \in Qid : Alike(a.questions[q], b.questions[q])
     \/ b.versions = Append(a.versions, Latest(b)) /\ LatestLive(b)
  /\ Agrees(a) => Agrees(b)

\* An assignment is one, with its columns.
LEMMA AssignmentIs ==
  ASSUME NEW a \in Assignment
  PROVE  /\ a # None /\ a = [settings |-> a.settings, questions |-> a.questions, versions |-> a.versions]
         /\ a.settings \in Setting /\ a.questions \in [AllQid -> Row] /\ a.versions \in Seq(Upload)
         /\ Notebook \in AllQid /\ Qid \subseteq AllQid
         /\ \A q \in AllQid : a.questions[q] # None => a.questions[q] \in Question
BY NoneAssumption DEF Assignment, AllQid, Row

\* The whole-notebook question after sync(): as the settings say, with the rubric it had.
LEMMA SyncIs ==
  ASSUME NEW a \in Assignment
  PROVE  LET b == Sync(a)
             x == a.questions[Notebook]
             y == b.questions[Notebook]
         IN  /\ b \in Assignment /\ b.settings = a.settings /\ b.versions = a.versions
             /\ \A q \in Qid : b.questions[q] = a.questions[q]
             /\ IF a.settings.notebook
                THEN y # None /\ y.active /\ y.max = a.settings.points
                ELSE (y = None <=> x = None) /\ (y # None => ~y.active)
             /\ x # None => y # None /\ y.rubric = x.rubric
             /\ x = None /\ y # None => y.rubric = None
<1> DEFINE x == a.questions[Notebook]
           worth == [max |-> a.settings.points, manual |-> a.settings.points, active |-> TRUE,
                     rubric |-> IF x = None THEN None ELSE x.rubric]
           y == IF a.settings.notebook THEN worth ELSE IF x = None THEN None ELSE [x EXCEPT !.active = FALSE]
           f == [a.questions EXCEPT ![Notebook] = y]
<1>1. /\ a = [settings |-> a.settings, questions |-> a.questions, versions |-> a.versions]
      /\ a.settings \in Setting /\ a.questions \in [AllQid -> Row] /\ a.versions \in Seq(Upload)
      /\ Notebook \in AllQid /\ Qid \subseteq AllQid /\ (x # None => x \in Question)
      /\ Notebook \notin Qid
  BY AssignmentIs, UploadAssumption
<1>2. Sync(a) = [a EXCEPT !.questions = f]
  BY DEF Sync
<1>3. worth \in Question /\ worth # None /\ worth.active /\ worth.max = a.settings.points
      /\ worth.rubric = (IF x = None THEN None ELSE x.rubric)
  <2>1. a.settings.points \in Nat
    BY <1>1, PointAssumption DEF Setting
  <2>2. (IF x = None THEN None ELSE x.rubric) \in Point \cup {None}
    BY <1>1 DEF Question
  <2>3. worth \in Question
    BY <2>1, <2>2 DEF Question
  <2> QED BY <2>3, NoneAssumption
<1>4. x # None => /\ [x EXCEPT !.active = FALSE] \in Question /\ [x EXCEPT !.active = FALSE] # None
                  /\ ~[x EXCEPT !.active = FALSE].active /\ [x EXCEPT !.active = FALSE].rubric = x.rubric
  BY <1>1, NoneAssumption DEF Question
<1> HIDE DEF worth
<1>5. y \in Row
  BY <1>3, <1>4 DEF Row
<1>6. /\ IF a.settings.notebook
         THEN y # None /\ y.active /\ y.max = a.settings.points
         ELSE (y = None <=> x = None) /\ (y # None => ~y.active)
      /\ x # None => y # None /\ y.rubric = x.rubric
      /\ x = None /\ y # None => y.rubric = None
  BY <1>3, <1>4
<1> HIDE DEF y
<1>7. f \in [AllQid -> Row] /\ f[Notebook] = y /\ \A q \in Qid : f[q] = a.questions[q]
  BY <1>1, <1>5
<1> HIDE DEF f
<1>8. /\ Sync(a) = [settings |-> a.settings, questions |-> f, versions |-> a.versions]
      /\ Sync(a).questions = f /\ Sync(a).settings = a.settings /\ Sync(a).versions = a.versions
  BY <1>1, <1>2
<1>9. Sync(a) \in Assignment
  BY <1>1, <1>7, <1>8 DEF Assignment, AllQid, Row
<1> QED BY <1>6, <1>7, <1>8, <1>9 DEF x

\* A row that is as it was.
LEMMA AlikeIs ==
  ASSUME NEW x
  PROVE  Alike(x, x)
BY DEF Alike

\* create_assignment: no version, no question but the whole-notebook one.
LEMMA CreateIs ==
  ASSUME NEW s \in Setting
  PROVE  LET b == Create(s)
         IN  /\ b \in Assignment /\ b.versions = <<>> /\ \A q \in Qid : b.questions[q] = None
             /\ Agrees(b)
<1> DEFINE a == [settings |-> s, questions |-> [q \in Qid \cup {Notebook} |-> None], versions |-> <<>>]
<1>1. /\ a \in Assignment /\ a.settings = s /\ a.versions = <<>>
      /\ \A q \in AllQid : a.questions[q] = None
  BY DEF Assignment, AllQid
<1>2. Create(s) = Sync(a)
  BY DEF Create
<1> HIDE DEF a
<1>3. Notebook \in AllQid /\ Qid \subseteq AllQid
  BY DEF AllQid
<1> QED BY <1>1, <1>2, <1>3, SyncIs DEF Agrees

\* patch_assignment: the settings, and the whole-notebook question with them.
LEMMA PatchIs ==
  ASSUME NEW a \in Assignment, NEW op \in Op, op.kind = "patch", NEW body \in Body, Patch(a, body) # Refused
  PROVE  Follows(op, a, Patch(a, body))
<1> DEFINE s == Merged(a.settings, body)
           c == [a EXCEPT !.settings = s]
<1>1. s \in Setting
  <2>1. a.settings \in Setting
    BY AssignmentIs
  <2>2. /\ s = [k \in {"notebook", "points"} |-> s[k]]
        /\ s.notebook = (IF body.notebook = None THEN a.settings.notebook ELSE body.notebook)
        /\ s.points = (IF body.points = None THEN a.settings.points ELSE body.points)
    BY DEF Merged
  <2>3. s.notebook \in BOOLEAN /\ s.points \in Point
    BY <2>1, <2>2 DEF Setting, Body
  <2> QED BY <2>2, <2>3 DEF Setting
<1>2. ~AgainstRubric(a, s) /\ Patch(a, body) = Sync(c)
  BY DEF Patch, Refused
<1> HIDE DEF s
<1>3. /\ c = [settings |-> s, questions |-> a.questions, versions |-> a.versions]
      /\ c.settings = s /\ c.questions = a.questions /\ c.versions = a.versions /\ c \in Assignment
  BY <1>1, AssignmentIs DEF Assignment
<1> HIDE DEF c
<1> DEFINE b == Sync(c)
           x == a.questions[Notebook]
           y == b.questions[Notebook]
<1>4. /\ b \in Assignment /\ b.settings = s /\ b.versions = a.versions
      /\ \A q \in Qid : b.questions[q] = a.questions[q]
      /\ IF s.notebook
         THEN y # None /\ y.active /\ y.max = s.points
         ELSE (y = None <=> x = None) /\ (y # None => ~y.active)
      /\ x # None => y # None /\ y.rubric = x.rubric
      /\ x = None /\ y # None => y.rubric = None
  BY <1>3, SyncIs
<1> HIDE DEF b
<1>5. Agrees(b)
  BY <1>2, <1>4 DEF Agrees, AgainstRubric
<1>6. \A q \in AllQid : q \in Qid \/ q = Notebook
  BY DEF AllQid
<1>7. \A q \in Qid : Alike(a.questions[q], b.questions[q])
  BY <1>4, AlikeIs
<1>8. Patch(a, body) = b
  BY <1>2 DEF b
<1> QED BY <1>4, <1>5, <1>6, <1>7, <1>8 DEF Follows

\* put_rubric: one rubric, and the points of the whole-notebook question with its own.
LEMMA PutRubricIs ==
  ASSUME NEW a \in Assignment, NEW op \in Op, op.kind = "rubric",
         NEW p \in AllQid, NEW total \in Point \cup {None}, op.q = p, PutRubric(a, p, total) # Refused
  PROVE  Follows(op, a, PutRubric(a, p, total))
<1> DEFINE x == a.questions[p]
           y == [x EXCEPT !.rubric = total]
           f == [a.questions EXCEPT ![p] = y]
           c == [a EXCEPT !.questions[p].rubric = total]
<1>1. /\ a = [settings |-> a.settings, questions |-> a.questions, versions |-> a.versions]
      /\ a.settings \in Setting /\ a.questions \in [AllQid -> Row] /\ a.versions \in Seq(Upload)
      /\ Notebook \in AllQid /\ Qid \subseteq AllQid /\ Notebook \notin Qid
      /\ \A q \in AllQid : a.questions[q] # None => a.questions[q] \in Question
      /\ \A q \in AllQid : q \in Qid \/ q = Notebook
  BY AssignmentIs, UploadAssumption DEF AllQid
<1>2. x \in Question /\ x # None
  BY <1>1 DEF PutRubric, Refused
<1>3. /\ y \in Question /\ y # None /\ y.rubric = total /\ y.max = x.max /\ y.manual = x.manual
      /\ y.active = x.active
  BY <1>2, NoneAssumption DEF Question
<1>4. c = [a EXCEPT !.questions = f]
  OBVIOUS
<1> HIDE DEF y
<1>5. f \in [AllQid -> Row] /\ f[p] = y /\ \A q \in AllQid : q # p => f[q] = a.questions[q]
  BY <1>1, <1>3 DEF Row
<1> HIDE DEF f
<1>6. /\ c = [settings |-> a.settings, questions |-> f, versions |-> a.versions]
      /\ c.settings = a.settings /\ c.questions = f /\ c.versions = a.versions /\ c \in Assignment
  <2>1. c = [settings |-> a.settings, questions |-> f, versions |-> a.versions]
    BY <1>1, <1>4
  <2> QED BY <1>1, <1>5, <2>1 DEF Assignment, AllQid, Row
<1>7. \A q \in Qid : Alike(a.questions[q], f[q])
  BY <1>1, <1>2, <1>3, <1>5 DEF Alike
<1>8. CASE ~(p = Notebook /\ total # None)
  <2>1. PutRubric(a, p, total) = c
    BY <1>8 DEF PutRubric, Refused
  <2>2. Agrees(a) => Agrees(c)
    <3>1. CASE p = Notebook
      BY <1>2, <1>3, <1>5, <1>6, <1>8, <3>1 DEF Agrees
    <3>2. CASE p # Notebook
      BY <1>1, <1>5, <1>6, <3>2 DEF Agrees
    <3> QED BY <3>1, <3>2
  <2>3. \A q \in AllQid :
          a.questions[q] # None => f[q] # None /\ (q # p => f[q].rubric = a.questions[q].rubric)
    BY <1>3, <1>5
  <2> HIDE DEF c
  <2> QED BY <1>6, <1>7, <2>1, <2>2, <2>3 DEF Follows
<1>9. CASE p = Notebook /\ total # None
  <2> DEFINE d == [c EXCEPT !.settings.points = total]
  <2>1. PutRubric(a, p, total) = Sync(d)
    BY <1>9 DEF PutRubric, Refused
  <2> HIDE DEF c
  <2>2. /\ d \in Assignment /\ d.questions = f /\ d.versions = a.versions
        /\ d.settings.points = total /\ d.settings.notebook = a.settings.notebook
    <3>1. [a.settings EXCEPT !.points = total] \in Setting
      BY <1>1, <1>9 DEF Setting
    <3>2. d = [settings |-> [a.settings EXCEPT !.points = total], questions |-> f, versions |-> a.versions]
      BY <1>6
    <3>3. [a.settings EXCEPT !.points = total].points = total
          /\ [a.settings EXCEPT !.points = total].notebook = a.settings.notebook
      BY <1>1 DEF Setting
    <3> QED BY <1>1, <1>5, <3>1, <3>2, <3>3 DEF Assignment, AllQid, Row
  <2> HIDE DEF d
  <2> DEFINE b == Sync(d)
             z == b.questions[Notebook]
  <2>3. /\ b \in Assignment /\ b.settings = d.settings /\ b.versions = a.versions
        /\ \A q \in Qid : b.questions[q] = f[q]
        /\ IF d.settings.notebook
           THEN z # None /\ z.active /\ z.max = d.settings.points
           ELSE (z = None <=> y = None) /\ (z # None => ~z.active)
        /\ z # None /\ z.rubric = y.rubric
    BY <1>3, <1>5, <1>9, <2>2, SyncIs
  <2> HIDE DEF b
  <2>4. Agrees(b)
    BY <1>3, <2>2, <2>3 DEF Agrees
  <2>5. PutRubric(a, p, total) = b
    BY <2>1 DEF b
  <2>6. \A q \in AllQid :
          a.questions[q] # None => b.questions[q] # None /\ (q # p => b.questions[q].rubric = a.questions[q].rubric)
    <3>1. \A q \in Qid : q # p
      BY <1>1, <1>9
    <3> QED BY <1>1, <1>5, <1>9, <2>3, <3>1
  <2>7. \A q \in Qid : Alike(a.questions[q], b.questions[q])
    BY <1>7, <2>3
  <2> QED BY <2>3, <2>4, <2>5, <2>6, <2>7 DEF Follows
<1> QED BY <1>8, <1>9

\* The rows of a publish: what the upload marks is active with its points, the rest is not.
LEMMA UpsertedIs ==
  ASSUME NEW a \in Assignment, NEW u \in Upload, Notebook \notin DOMAIN u.marks
  PROVE  LET f == Upserted(a, u)
         IN  /\ f \in [AllQid -> Row] /\ DOMAIN u.marks \subseteq Qid
             /\ \A q \in DOMAIN u.marks :
                  f[q] # None /\ f[q].active /\ [max |-> f[q].max, manual |-> f[q].manual] = u.marks[q]
             /\ \A q \in AllQid \ DOMAIN u.marks : f[q] # None => ~f[q].active
             /\ \A q \in AllQid :
                  /\ a.questions[q] # None => f[q] # None /\ f[q].rubric = a.questions[q].rubric
                  /\ a.questions[q] = None => f[q] = None \/ q \in DOMAIN u.marks
<1> DEFINE f == Upserted(a, u)
           new(q) == [max |-> u.marks[q].max, manual |-> u.marks[q].manual, active |-> TRUE,
                      rubric |-> IF a.questions[q] = None THEN None ELSE a.questions[q].rubric]
           kept(q) == IF a.questions[q] = None THEN None ELSE [a.questions[q] EXCEPT !.active = FALSE]
<1>1. /\ \A q \in AllQid : a.questions[q] # None => a.questions[q] \in Question
      /\ \A q \in AllQid : q \in Qid \/ q = Notebook
      /\ DOMAIN u.marks \subseteq Qid /\ Qid \subseteq AllQid
      /\ \A q \in DOMAIN u.marks : u.marks[q] \in Mark
  BY AssignmentIs, UploadAssumption DEF AllQid
<1>2. ASSUME NEW q \in DOMAIN u.marks
      PROVE  /\ f[q] \in Row /\ f[q] # None /\ f[q].active /\ [max |-> f[q].max, manual |-> f[q].manual] = u.marks[q]
             /\ f[q].rubric = IF a.questions[q] = None THEN None ELSE a.questions[q].rubric
  <2>1. f[q] = new(q)
    BY <1>1 DEF Upserted, AllQid
  <2>2. u.marks[q] = [max |-> u.marks[q].max, manual |-> u.marks[q].manual]
        /\ u.marks[q].max \in Nat /\ u.marks[q].manual \in Nat
    BY <1>1 DEF Mark
  <2>3. (IF a.questions[q] = None THEN None ELSE a.questions[q].rubric) \in Point \cup {None}
    BY <1>1 DEF Question
  <2>4. new(q) \in Question
    BY <2>2, <2>3 DEF Question
  <2>5. new(q).active /\ new(q).max = u.marks[q].max /\ new(q).manual = u.marks[q].manual
        /\ new(q).rubric = IF a.questions[q] = None THEN None ELSE a.questions[q].rubric
    OBVIOUS
  <2> HIDE DEF new
  <2> QED BY <2>1, <2>2, <2>4, <2>5, NoneAssumption DEF Row
<1>3. ASSUME NEW q \in AllQid \ DOMAIN u.marks
      PROVE  /\ f[q] \in Row /\ (f[q] = None <=> a.questions[q] = None)
             /\ f[q] # None => ~f[q].active /\ f[q].rubric = a.questions[q].rubric
  <2>1. f[q] = kept(q)
    BY <1>1 DEF Upserted, Deactivated, AllQid
  <2>2. a.questions[q] # None =>
          /\ [a.questions[q] EXCEPT !.active = FALSE] \in Question
          /\ ~[a.questions[q] EXCEPT !.active = FALSE].active
          /\ [a.questions[q] EXCEPT !.active = FALSE].rubric = a.questions[q].rubric
    BY <1>1 DEF Question
  <2> QED BY <2>1, <2>2, NoneAssumption DEF Row
<1>4. f \in [AllQid -> Row]
  <2>1. f = [q \in AllQid |-> f[q]]
    BY DEF Upserted, AllQid
  <2> HIDE DEF f
  <2> QED BY <1>2, <1>3, <2>1
<1> QED BY <1>1, <1>2, <1>3, <1>4

\* _publish: nothing, or a new version, its questions and the whole-notebook question.
LEMMA PublishIs ==
  ASSUME NEW a \in Assignment, NEW op \in Op, op.kind = "publish", NEW u \in Upload, Acceptable(a, u)
  PROVE  /\ Follows(op, a, Publish(a, u))
         /\ IF Unchanged(a, u) THEN Publish(a, u) = a
            ELSE /\ Live(Publish(a, u)) = DOMAIN u.marks
                 /\ Len(Publish(a, u).versions) = Len(a.versions) + 1
<1>1. /\ a = [settings |-> a.settings, questions |-> a.questions, versions |-> a.versions]
      /\ a.settings \in Setting /\ a.questions \in [AllQid -> Row] /\ a.versions \in Seq(Upload)
      /\ Notebook \in AllQid /\ Qid \subseteq AllQid /\ Notebook \notin Qid
      /\ \A q \in AllQid : q \in Qid \/ q = Notebook
  BY AssignmentIs, UploadAssumption DEF AllQid
<1>2. Acceptable(a, u)
  OBVIOUS
<1>3. CASE Unchanged(a, u)
  <2>1. Publish(a, u) = a
    BY <1>2, <1>3 DEF Publish
  <2>2. \A q \in Qid : Alike(a.questions[q], a.questions[q])
    BY AlikeIs
  <2> QED BY <1>3, <2>1, <2>2 DEF Follows
<1>4. CASE ~Unchanged(a, u)
  <2>0. PICK f, v : f = Upserted(a, u) /\ v = Append(a.versions, u)
    OBVIOUS
  <2> DEFINE c == [a EXCEPT !.questions = f, !.versions = v]
  <2>1. Publish(a, u) = Sync(c)
    BY <1>2, <1>4, <2>0 DEF Publish, SyncAfterPublish
  <2>2. Notebook \notin DOMAIN u.marks
    BY <1>2 DEF Acceptable, ChecksOut
  <2>3. /\ f \in [AllQid -> Row] /\ DOMAIN u.marks \subseteq Qid
        /\ \A q \in DOMAIN u.marks :
             f[q] # None /\ f[q].active /\ [max |-> f[q].max, manual |-> f[q].manual] = u.marks[q]
        /\ \A q \in AllQid \ DOMAIN u.marks : f[q] # None => ~f[q].active
        /\ \A q \in AllQid :
             /\ a.questions[q] # None => f[q] # None /\ f[q].rubric = a.questions[q].rubric
             /\ a.questions[q] = None => f[q] = None \/ q \in DOMAIN u.marks
    BY <2>0, <2>2, UpsertedIs
  <2>4. v \in Seq(Upload) /\ Len(v) = Len(a.versions) + 1 /\ v[Len(v)] = u
    BY <1>1, <2>0
  <2>5. /\ c \in Assignment /\ c.settings = a.settings /\ c.questions = f /\ c.versions = v
    <3>1. f \in [AllQid -> Row] /\ v \in Seq(Upload)
      BY <2>3, <2>4
    <3> QED BY <3>1 DEF Assignment, AllQid, Row
  <2> HIDE DEF c
  <2> DEFINE b == Sync(c)
             x == a.questions[Notebook]
             y == b.questions[Notebook]
  <2>6. /\ b \in Assignment /\ b.settings = a.settings /\ b.versions = v
        /\ \A q \in Qid : b.questions[q] = f[q]
        /\ IF a.settings.notebook
           THEN y # None /\ y.active /\ y.max = a.settings.points
           ELSE (y = None <=> f[Notebook] = None) /\ (y # None => ~y.active)
        /\ f[Notebook] # None => y # None /\ y.rubric = f[Notebook].rubric
        /\ f[Notebook] = None /\ y # None => y.rubric = None
    BY <2>5, SyncIs
  <2> HIDE DEF b
  <2>7. Agrees(a) => Agrees(b)
    <3> SUFFICES ASSUME Agrees(a) PROVE Agrees(b)
      OBVIOUS
    <3>1. x # None => y # None /\ y.rubric = x.rubric
      BY <1>1, <2>3, <2>6
    <3>2. CASE a.settings.notebook
      BY <2>6, <3>1, <3>2 DEF Agrees
    <3>3. CASE ~a.settings.notebook
      BY <2>6, <3>3 DEF Agrees
    <3> QED BY <3>2, <3>3
  <2>8. Live(b) = DOMAIN u.marks
    <3>1. ASSUME NEW q \in Qid PROVE b.questions[q] # None /\ b.questions[q].active <=> q \in DOMAIN u.marks
      BY <1>1, <2>3, <2>6, <3>1
    <3> QED BY <2>3, <3>1 DEF Live
  <2>9. LatestLive(b) /\ b.versions = Append(a.versions, Latest(b))
    <3>1. Latest(b) = u
      BY <2>4, <2>6 DEF Latest
    <3>2. \A q \in Live(b) : [max |-> b.questions[q].max, manual |-> b.questions[q].manual] = u.marks[q]
      BY <2>3, <2>6, <2>8
    <3> QED BY <2>0, <2>6, <2>8, <3>1, <3>2 DEF LatestLive
  <2>10. \A q \in AllQid : a.questions[q] # None =>
           b.questions[q] # None /\ b.questions[q].rubric = a.questions[q].rubric
    BY <1>1, <2>3, <2>6
  <2>11. Publish(a, u) = b
    BY <2>1 DEF b
  <2> QED BY <1>4, <2>4, <2>6, <2>7, <2>8, <2>9, <2>10, <2>11 DEF Follows
<1> QED BY <1>3, <1>4

\* An operation is one of four, with what it was sent.
LEMMA OpIs ==
  ASSUME NEW op \in Op
  PROVE  /\ op # None /\ op.kind \in {"create", "patch", "rubric", "publish"}
         /\ op.kind = "create" => op.body \in Setting
         /\ op.kind = "patch" => op.body \in Body
         /\ op.kind = "rubric" => op.q \in AllQid /\ op.total \in Point \cup {None}
         /\ op.kind = "publish" => op.u \in Upload
BY NoneAssumption DEF Op, AllQid

\* What an operation makes of the assignment it has loaded.
LEMMA OutcomeIs ==
  ASSUME NEW a \in Assignment, NEW op \in Op, op.kind # "create", Outcome(op, a) # Refused
  PROVE  Follows(op, a, Outcome(op, a))
<1>1. CASE op.kind = "patch"
  <2>1. Outcome(op, a) = Patch(a, op.body)
    BY <1>1 DEF Outcome
  <2> QED BY <1>1, <2>1, OpIs, PatchIs
<1>2. CASE op.kind = "rubric"
  <2>1. Outcome(op, a) = PutRubric(a, op.q, op.total)
    BY <1>2 DEF Outcome
  <2> QED BY <1>2, <2>1, OpIs, PutRubricIs
<1>3. CASE op.kind = "publish"
  <2>1. Outcome(op, a) = Publish(a, op.u)
    BY <1>3 DEF Outcome
  <2>2. Acceptable(a, op.u)
    BY <2>1 DEF Publish
  <2> QED BY <1>3, <2>1, <2>2, OpIs, PublishIs
<1> QED BY <1>1, <1>2, <1>3, OpIs

\* A preview says what the types of an answer allow.
LEMMA PreviewIs ==
  ASSUME NEW a \in Assignment, NEW u \in Upload
  PROVE  /\ Preview(a, u) \in Answer \cup {None}
         /\ Acceptable(a, u) => Forecast(a, u) \in Answer
<1>1. a.versions \in Seq(Upload) /\ Len(a.versions) \in Nat
  BY AssignmentIs
<1>2. Live(a) \subseteq Qid
  BY DEF Live
<1>3. CASE Acceptable(a, u)
  <2>1. DOMAIN u.marks \subseteq Qid
    BY <1>3, UploadAssumption DEF Acceptable, ChecksOut
  <2>2. Unchanged(a, u) \in BOOLEAN
    BY DEF Unchanged
  <2>3. Forecast(a, u) \in Answer
    BY <1>1, <1>2, <2>1, <2>2 DEF Forecast, Answer
  <2> QED BY <1>3, <2>3 DEF Preview
<1>4. CASE ~Acceptable(a, u)
  BY <1>4 DEF Preview, Refused
<1> QED BY <1>3, <1>4

-----------------------------------------------------------------------------
(* What the written columns make of the assignment others left meanwhile.  *)

\* A row that is written is a row.
LEMMA WrittenRowIs ==
  ASSUME NEW op \in Op, NEW makes \in BOOLEAN, NEW q \in AllQid,
         NEW seen \in Row, NEW new \in Row, NEW now \in Row,
         seen # None => now # None /\ new # None,
         seen # None /\ (op.kind # "rubric" \/ q # op.q) => new.rubric = seen.rubric
  PROVE  LET w == WrittenRow(op, makes, q, seen, new, now)
         IN  /\ w \in Row /\ (now # None => w # None)
             /\ seen = now => w = new
             /\ (Alike(seen, new) /\ q # Notebook) => Alike(w, now)
             /\ Alike(seen, now) => Alike(w, new)
<1> DEFINE w == WrittenRow(op, makes, q, seen, new, now)
<1>1. CASE new = None
  BY <1>1 DEF WrittenRow, Alike
<1>2. CASE new # None /\ seen = None
  BY <1>2 DEF WrittenRow, Alike
<1>3. CASE new # None /\ seen # None
  <2> DEFINE r == [max |-> Column(seen.max, new.max, now.max),
                   manual |-> Column(seen.manual, new.manual, now.manual),
                   active |-> IF makes /\ q = Notebook /\ seen.active THEN new.active
                              ELSE Column(seen.active, new.active, now.active),
                   rubric |-> IF op.kind = "rubric" /\ q = op.q THEN new.rubric ELSE now.rubric]
  <2>1. w = r
    BY <1>3 DEF WrittenRow
  <2>2. seen \in Question /\ new \in Question /\ now \in Question
    BY <1>3 DEF Row
  <2>3. /\ r.max \in Nat /\ r.manual \in Nat /\ r.active \in BOOLEAN /\ r.rubric \in Point \cup {None}
    BY <2>2 DEF Question, Column
  <2>4. r \in Question
    BY <2>3 DEF Question
  <2>5. seen = now => r = new
    <3> SUFFICES ASSUME seen = now PROVE r = new
      OBVIOUS
    <3>1. new = [max |-> new.max, manual |-> new.manual, active |-> new.active, rubric |-> new.rubric]
      BY <2>2 DEF Question
    <3>2. r.max = new.max /\ r.manual = new.manual /\ r.active = new.active /\ r.rubric = new.rubric
      BY <1>3 DEF Column
    <3> QED BY <3>1, <3>2
  <2>6. Alike(seen, new) /\ q # Notebook => Alike(r, now)
    BY <1>3, <2>4, NoneAssumption DEF Alike, Column
  <2>7. Alike(seen, now) => Alike(r, new)
    BY <1>3, <2>4, NoneAssumption DEF Alike, Column
  <2> HIDE DEF r
  <2> QED BY <1>3, <2>1, <2>4, <2>5, <2>6, <2>7, NoneAssumption DEF Row
<1> QED BY <1>1, <1>2, <1>3

\* The live questions of an assignment with the same latest version and alike rows.
LEMMA LiveMoves ==
  ASSUME NEW a, NEW b, LatestLive(a), a.versions # <<>>, Latest(b) = Latest(a),
         \A q \in Qid : Alike(b.questions[q], a.questions[q])
  PROVE  LatestLive(b)
<1>1. Live(b) = Live(a)
  BY DEF Live, Alike
<1>2. \A q \in Live(b) : b.questions[q].max = a.questions[q].max /\ b.questions[q].manual = a.questions[q].manual
  BY DEF Live, Alike
<1> QED BY <1>1, <1>2 DEF LatestLive

\* Two assignments with the same columns are one.
LEMMA SameAssignment ==
  ASSUME NEW a \in Assignment, NEW b \in Assignment, a.settings = b.settings, a.versions = b.versions,
         \A q \in AllQid : a.questions[q] = b.questions[q]
  PROVE  a = b
<1>1. a.questions = b.questions
  BY AssignmentIs
<1> QED BY <1>1 DEF Assignment

\* What is written back, when no constraint rejects it.
LEMMA WrittenIs ==
  ASSUME NEW op \in Op, NEW seen \in Assignment, NEW new \in Assignment, NEW now \in Assignment,
         Follows(op, seen, new), Earlier(seen, now), ~Conflicts(seen, new, now), LatestLive(now)
  PROVE  LET w == Written(op, seen, new, now)
         IN  w \in Assignment /\ LatestLive(w) /\ Earlier(now, w) /\ (seen = now => w = new)
<1> DEFINE makes == Len(new.versions) > Len(seen.versions)
           row(q) == WrittenRow(op, makes, q, seen.questions[q], new.questions[q], now.questions[q])
<1>1. /\ seen # None /\ seen.versions \in Seq(Upload) /\ new.versions \in Seq(Upload) /\ now.versions \in Seq(Upload)
      /\ seen.questions \in [AllQid -> Row] /\ new.questions \in [AllQid -> Row] /\ now.questions \in [AllQid -> Row]
      /\ seen.settings \in Setting /\ new.settings \in Setting /\ now.settings \in Setting
      /\ Qid \subseteq AllQid /\ Notebook \notin Qid /\ now # None
  BY AssignmentIs, UploadAssumption
<1>2. ASSUME NEW q \in AllQid
      PROVE  /\ row(q) \in Row /\ (now.questions[q] # None => row(q) # None)
             /\ seen = now => row(q) = new.questions[q]
             /\ Alike(seen.questions[q], new.questions[q]) /\ q # Notebook => Alike(row(q), now.questions[q])
             /\ Alike(seen.questions[q], now.questions[q]) => Alike(row(q), new.questions[q])
  <2>1. seen.questions[q] \in Row /\ new.questions[q] \in Row /\ now.questions[q] \in Row
    BY <1>1
  <2>2. seen.questions[q] # None => now.questions[q] # None /\ new.questions[q] # None
    BY <1>1 DEF Follows, Earlier
  <2>3. seen.questions[q] # None /\ (op.kind # "rubric" \/ q # op.q) => new.questions[q].rubric = seen.questions[q].rubric
    BY DEF Follows
  <2>4. makes \in BOOLEAN
    OBVIOUS
  <2> HIDE DEF makes
  <2> QED BY <2>1, <2>2, <2>3, <2>4, WrittenRowIs
<1> HIDE DEF row
<1>3. PICK w : w = Written(op, seen, new, now)
  OBVIOUS
<1>4. /\ w = [settings |-> Column(seen.settings, new.settings, now.settings),
              questions |-> [q \in AllQid |-> row(q)],
              versions |-> IF makes THEN Append(now.versions, Latest(new)) ELSE now.versions]
  BY <1>1, <1>3 DEF Written, AllQid, row
<1>5. /\ w.settings = (IF new.settings # seen.settings THEN new.settings ELSE now.settings)
      /\ w.questions \in [AllQid -> Row] /\ \A q \in AllQid : w.questions[q] = row(q)
      /\ w.versions = (IF makes THEN Append(now.versions, Latest(new)) ELSE now.versions)
  BY <1>2, <1>4 DEF Column
<1>6. makes => /\ new.versions = Append(seen.versions, Latest(new)) /\ LatestLive(new)
               /\ seen.versions = now.versions /\ Latest(new) \in Upload /\ new.versions # <<>>
               /\ \A q \in Qid : Alike(seen.questions[q], now.questions[q])
  <2> SUFFICES ASSUME makes PROVE /\ new.versions = Append(seen.versions, Latest(new)) /\ LatestLive(new)
                                  /\ seen.versions = now.versions /\ Latest(new) \in Upload /\ new.versions # <<>>
                                  /\ \A q \in Qid : Alike(seen.questions[q], now.questions[q])
    OBVIOUS
  <2>1. new.versions = Append(seen.versions, Latest(new)) /\ LatestLive(new)
    BY DEF Follows
  <2>2. Len(new.versions) \in Nat /\ Len(seen.versions) \in Nat /\ Len(now.versions) \in Nat
    BY <1>1
  <2>3. Len(now.versions) = Len(seen.versions)
    <3>1. ~(Len(now.versions) > Len(seen.versions))
      BY <1>1 DEF Conflicts
    <3>2. Len(seen.versions) <= Len(now.versions)
      BY <1>1 DEF Earlier
    <3> QED BY <2>2, <3>1, <3>2
  <2>4. Latest(new) \in Upload /\ new.versions # <<>>
    BY <1>1, <2>2 DEF Latest
  <2> QED BY <1>1, <2>1, <2>3, <2>4 DEF Earlier
<1>7. ~makes => new.versions = seen.versions /\ \A q \in Qid : Alike(seen.questions[q], new.questions[q])
  <2> SUFFICES ASSUME ~makes PROVE new.versions # Append(seen.versions, Latest(new))
    BY DEF Follows
  <2>1. Len(seen.versions) \in Nat
    BY <1>1
  <2>2. new.versions = Append(seen.versions, Latest(new)) => Len(new.versions) = Len(seen.versions) + 1
    BY <1>1
  <2> QED BY <2>1, <2>2
<1> HIDE DEF makes
<1>8. w \in Assignment
  <2>1. w.versions \in Seq(Upload) /\ w.settings \in Setting
    BY <1>1, <1>5, <1>6
  <2>2. w = [settings |-> w.settings, questions |-> w.questions, versions |-> w.versions]
    BY <1>4
  <2> QED BY <1>5, <2>1, <2>2 DEF Assignment, AllQid, Row
<1>9. LatestLive(w) /\ Earlier(now, w)
  <2>1. CASE makes
    <3>1. \A q \in Qid : Alike(w.questions[q], new.questions[q])
      BY <1>1, <1>2, <1>5, <1>6, <2>1
    <3>2. Latest(w) = Latest(new) /\ Len(w.versions) = Len(now.versions) + 1 /\ Len(now.versions) \in Nat
      BY <1>1, <1>5, <1>6, <2>1 DEF Latest
    <3>3. LatestLive(w)
      BY <1>6, <2>1, <3>1, <3>2, LiveMoves
    <3>4. w # None
      BY <1>8, AssignmentIs
    <3> QED BY <1>2, <1>5, <3>2, <3>3, <3>4 DEF Earlier
  <2>2. CASE ~makes
    <3>1. \A q \in Qid : Alike(w.questions[q], now.questions[q])
      BY <1>1, <1>2, <1>5, <1>7, <2>2
    <3>2. w.versions = now.versions /\ Latest(w) = Latest(now)
      BY <1>5, <2>2 DEF Latest
    <3>3. LatestLive(w)
      <4>1. CASE now.versions # <<>>
        BY <3>1, <3>2, <4>1, LiveMoves
      <4>2. CASE now.versions = <<>>
        BY <3>2, <4>2 DEF LatestLive
      <4> QED BY <4>1, <4>2
    <3>4. \A q \in Qid : Alike(now.questions[q], w.questions[q])
      BY <3>1 DEF Alike
    <3>5. w # None /\ Len(now.versions) <= Len(w.versions)
      BY <1>1, <1>8, <3>2, AssignmentIs
    <3> QED BY <1>2, <1>5, <3>2, <3>3, <3>4, <3>5 DEF Earlier
  <2> QED BY <2>1, <2>2
<1>10. seen = now => w = new
  <2> SUFFICES ASSUME seen = now PROVE w = new
    OBVIOUS
  <2>1. w.settings = new.settings
    BY <1>5
  <2>2. w.versions = new.versions
    BY <1>5, <1>6, <1>7
  <2>3. \A q \in AllQid : w.questions[q] = new.questions[q]
    BY <1>2, <1>5
  <2> QED BY <1>8, <2>1, <2>2, <2>3, SameAssignment
<1> QED BY <1>3, <1>8, <1>9, <1>10

\* What is earlier than an earlier state is earlier.
LEMMA EarlierStill ==
  ASSUME NEW s \in Assignment \cup {None}, NEW a \in Assignment, NEW b \in Assignment, Earlier(s, a), Earlier(a, b)
  PROVE  Earlier(s, b)
<1> SUFFICES ASSUME s # None PROVE Earlier(s, b)
  BY DEF Earlier
<1>1. /\ Len(s.versions) \in Nat /\ Len(a.versions) \in Nat /\ Len(b.versions) \in Nat /\ a # None
      /\ Qid \subseteq AllQid
  BY AssignmentIs
<1>2. /\ b # None /\ Len(s.versions) <= Len(b.versions)
      /\ \A q \in AllQid : s.questions[q] # None => b.questions[q] # None
  BY <1>1 DEF Earlier
<1>3. ASSUME Len(s.versions) = Len(b.versions)
      PROVE  s.versions = b.versions /\ \A q \in Qid : Alike(s.questions[q], b.questions[q])
  <2>1. Len(s.versions) = Len(a.versions) /\ Len(a.versions) = Len(b.versions)
    BY <1>1, <1>3 DEF Earlier
  <2>2. /\ s.versions = a.versions /\ a.versions = b.versions
        /\ \A q \in Qid : Alike(s.questions[q], a.questions[q]) /\ Alike(a.questions[q], b.questions[q])
    BY <1>1, <2>1 DEF Earlier
  <2> QED BY <2>2 DEF Alike
<1> QED BY <1>2, <1>3 DEF Earlier

-----------------------------------------------------------------------------
(* The actions.                                                            *)

\* A request that is under way, or not.
RequestType == [op : Op \cup {None}, seen : Assignment \cup {None}, expect : Told \cup {None}, stale : BOOLEAN]

\* Nothing is under way: no operation, nothing loaded.
LEMMA IdleIs ==
  /\ Idle \in RequestType /\ Idle.op = None /\ Idle.expect = None /\ (\A a : Loaded(Idle, a))
  /\ \A r : r.stale => r # Idle
BY DEF Idle, RequestType, Loaded

\* What is there now was so a moment ago.
LEMMA EarlierNow ==
  ASSUME NEW a \in Assignment \cup {None}
  PROVE  Earlier(a, a)
<1>1. \A q \in Qid : Alike(a.questions[q], a.questions[q])
  BY AlikeIs
<1>2. a # None => Len(a.versions) \in Nat
  BY AssignmentIs
<1> QED BY <1>1, <1>2 DEF Earlier

\* A request begins, or the instructor looks at a preview.
LEMMA BeginKeeps ==
  ASSUME PublishingInv, NEW i \in Instructor,
         (\E op \in Op : Begin(i, op)) \/ (\E u \in Upload : ShowPreview(i, u))
  PROVE  PublishingInv'
<1>1. /\ assignment \in Assignment \cup {None} /\ request \in [Instructor -> RequestType]
      /\ told \in [Instructor -> Told \cup {None}] /\ begun \in 0..MaxRequests
  BY DEF PublishingInv, TypeOK, RequestType
<1>2. CASE \E op \in Op : Begin(i, op)
  <2>1. PICK op \in Op : Begin(i, op)
    BY <1>2
  <2> DEFINE expected == IF op.kind = "publish" /\ told[i] # None /\ told[i].u = op.u THEN told[i] ELSE None
             r == [op |-> op, seen |-> assignment, stale |-> FALSE, expect |-> expected]
  <2>2. /\ request' = [request EXCEPT ![i] = r] /\ begun < MaxRequests /\ begun' = begun + 1
        /\ op.kind = "create" <=> assignment = None
        /\ assignment' = assignment /\ told' = told /\ overlap' = overlap
    BY <2>1 DEF Begin
  <2>3. expected \in Told \cup {None}
    BY <1>1
  <2>4. expected # None => op.kind = "publish" /\ expected.u = op.u /\ expected.answer = Preview(assignment, op.u)
    BY DEF PublishingInv, ToldInv
  <2> HIDE DEF expected
  <2>5. /\ r \in RequestType /\ r.op = op /\ r.seen = assignment /\ ~r.stale /\ r.expect = expected
    BY <1>1, <2>3 DEF RequestType
  <2> HIDE DEF r
  <2>6. Loaded(r, assignment')
    <3>1. Earlier(assignment, assignment)
      BY <1>1, EarlierNow
    <3>2. Loaded(r, assignment)
      BY <2>2, <2>4, <2>5, <3>1, OpIs DEF Loaded
    <3> QED BY <2>2, <3>2
  <2>7. \A j \in Instructor : Loaded(request'[j], assignment')
    <3> SUFFICES ASSUME NEW j \in Instructor PROVE Loaded(request'[j], assignment')
      OBVIOUS
    <3>1. request'[j] = IF j = i THEN r ELSE request[j]
      BY <1>1, <2>2
    <3>2. Loaded(request[j], assignment')
      BY <2>2 DEF PublishingInv, Loaded
    <3> QED BY <2>6, <3>1, <3>2 DEF Loaded
  <2>8. TypeOK'
    <3>1. begun' \in 0..MaxRequests
      BY <1>1, <2>2, BoundAssumption
    <3>2. request' \in [Instructor -> RequestType]
      BY <1>1, <2>2, <2>5
    <3> QED BY <2>2, <3>1, <3>2 DEF PublishingInv, TypeOK, RequestType
  <2>9. ToldInv' /\ (assignment' # None => LatestLive(assignment') /\ (overlap' \/ Agrees(assignment')))
    BY <2>2 DEF PublishingInv, ToldInv
  <2> QED BY <2>7, <2>8, <2>9 DEF PublishingInv
<1>3. CASE \E u \in Upload : ShowPreview(i, u)
  <2>1. PICK u \in Upload : ShowPreview(i, u)
    BY <1>3
  <2> DEFINE t == [u |-> u, answer |-> Preview(assignment, u)]
  <2>2. /\ assignment # None /\ told' = [told EXCEPT ![i] = t]
        /\ assignment' = assignment /\ request' = request /\ overlap' = overlap /\ begun' = begun
    BY <2>1 DEF ShowPreview
  <2>3. t \in Told /\ t.u = u /\ t.answer = Preview(assignment, u)
    BY <1>1, <2>2, PreviewIs DEF Told
  <2> HIDE DEF t
  <2>4. told' \in [Instructor -> Told \cup {None}] /\ \A j \in Instructor : told'[j] = IF j = i THEN t ELSE told[j]
    BY <1>1, <2>2, <2>3
  <2>5. TypeOK'
    BY <2>2, <2>4 DEF PublishingInv, TypeOK
  <2>6. ToldInv'
    <3> SUFFICES ASSUME NEW j \in Instructor, told'[j] # None
                 PROVE  told'[j].answer = Preview(assignment, told'[j].u)
      BY <2>2 DEF ToldInv
    <3> QED BY <2>3, <2>4 DEF PublishingInv, ToldInv
  <2>7. \A j \in Instructor : Loaded(request'[j], assignment')
    BY <2>2 DEF PublishingInv
  <2> QED BY <2>2, <2>5, <2>6, <2>7 DEF PublishingInv
<1> QED BY <1>2, <1>3

\* A request that fails leaves all as it is.
LEMMA FailKeeps ==
  ASSUME PublishingInv, NEW i \in Instructor, Fail(i)
  PROVE  PublishingInv'
<1>1. /\ request' = [request EXCEPT ![i] = Idle]
      /\ assignment' = assignment /\ told' = told /\ overlap' = overlap /\ begun' = begun
  BY DEF Fail
<1>2. request \in [Instructor -> RequestType]
  BY DEF PublishingInv, TypeOK, RequestType
<1>3. TypeOK'
  <2>1. request' \in [Instructor -> RequestType]
    BY <1>1, <1>2, IdleIs
  <2> QED BY <1>1, <2>1 DEF PublishingInv, TypeOK, RequestType
<1>4. \A j \in Instructor : Loaded(request'[j], assignment')
  <2> SUFFICES ASSUME NEW j \in Instructor PROVE Loaded(request'[j], assignment')
    OBVIOUS
  <2>1. request'[j] = IF j = i THEN Idle ELSE request[j]
    BY <1>1, <1>2
  <2>2. Loaded(request[j], assignment')
    BY <1>1 DEF PublishingInv, Loaded
  <2>3. Loaded(Idle, assignment')
    BY DEF Loaded, Idle
  <2> QED BY <2>1, <2>2, <2>3 DEF Loaded
<1>5. ToldInv' /\ (assignment' # None => LatestLive(assignment') /\ (overlap' \/ Agrees(assignment')))
  BY <1>1 DEF PublishingInv, ToldInv
<1> QED BY <1>3, <1>4, <1>5 DEF PublishingInv

\* What a commit leaves.
LEMMA CommitMakes ==
  ASSUME PublishingInv, NEW i \in Instructor, Commit(i)
  PROVE  LET r == request[i]
         IN  /\ assignment' \in Assignment /\ LatestLive(assignment') /\ (overlap' \/ Agrees(assignment'))
             /\ \A s \in Assignment \cup {None} : Earlier(s, assignment) => Earlier(s, assignment')
             /\ ~r.stale => assignment' = Outcome(r.op, r.seen)
             /\ Outcome(r.op, r.seen) # Refused /\ r.op \in Op
<1> DEFINE r == request[i]
           new == Outcome(r.op, r.seen)
<1>1. /\ r \in RequestType /\ Loaded(r, assignment) /\ assignment \in Assignment \cup {None} /\ r.op # None
  BY DEF PublishingInv, TypeOK, RequestType, Commit, Loaded
<1>2. /\ r.op \in Op /\ r.seen \in Assignment \cup {None}
      /\ r.op.kind = "create" <=> r.seen = None
      /\ Earlier(r.seen, assignment) /\ (~r.stale => r.seen = assignment)
  BY <1>1 DEF RequestType, Loaded
<1>3. /\ new # Refused /\ ~Conflicts(r.seen, new, assignment)
      /\ assignment' = Written(r.op, r.seen, new, assignment)
      /\ overlap' = (overlap \/ (r.stale /\ assignment' # assignment))
  BY DEF Commit, Fails
<1>4. CASE r.op.kind = "create"
  <2>1. r.op.body \in Setting
    BY <1>2, <1>4, OpIs
  <2>2. new = Create(r.op.body)
    BY <1>4 DEF Outcome
  <2>3. assignment = None /\ assignment' = new
    BY <1>2, <1>3, <1>4 DEF Conflicts, Written
  <2>4. /\ new \in Assignment /\ new.versions = <<>> /\ Agrees(new)
    BY <2>1, <2>2, CreateIs
  <2>5. LatestLive(new)
    BY <2>4 DEF LatestLive
  <2>6. \A s : Earlier(s, None) => s = None
    BY DEF Earlier
  <2>7. \A x : Earlier(None, x)
    BY DEF Earlier
  <2> HIDE DEF new
  <2> QED BY <1>2, <1>3, <2>3, <2>4, <2>5, <2>6, <2>7 DEF new
<1>5. CASE r.op.kind # "create"
  <2>1. r.seen \in Assignment /\ assignment \in Assignment
    BY <1>1, <1>2, <1>5 DEF Earlier
  <2>2. Follows(r.op, r.seen, new)
    BY <1>2, <1>3, <1>5, <2>1, OutcomeIs
  <2>3. new \in Assignment /\ (Agrees(r.seen) => Agrees(new))
    BY <2>2 DEF Follows
  <2>4. LatestLive(assignment) /\ (overlap \/ Agrees(assignment))
    BY <2>1, AssignmentIs DEF PublishingInv
  <2> HIDE DEF new, r
  <2>5. /\ assignment' \in Assignment /\ LatestLive(assignment') /\ Earlier(assignment, assignment')
        /\ r.seen = assignment => assignment' = new
    BY <1>2, <1>3, <2>1, <2>2, <2>3, <2>4, WrittenIs
  <2>6. overlap' \/ Agrees(assignment')
    BY <1>2, <1>3, <2>3, <2>4, <2>5
  <2>7. \A s \in Assignment \cup {None} : Earlier(s, assignment) => Earlier(s, assignment')
    BY <2>1, <2>5, EarlierStill
  <2> QED BY <1>2, <1>3, <2>5, <2>6, <2>7 DEF new, r
<1> QED BY <1>4, <1>5

\* A request commits: who loaded the assignment before has loaded an earlier one.
LEMMA CommitKeeps ==
  ASSUME PublishingInv, NEW i \in Instructor, Commit(i)
  PROVE  PublishingInv'
<1>1. /\ assignment' \in Assignment /\ LatestLive(assignment') /\ (overlap' \/ Agrees(assignment'))
      /\ \A s \in Assignment \cup {None} : Earlier(s, assignment) => Earlier(s, assignment')
  BY CommitMakes
<1>2. /\ request \in [Instructor -> RequestType] /\ told \in [Instructor -> Told \cup {None}]
      /\ overlap' \in BOOLEAN /\ begun' = begun
      /\ \A j \in Instructor : Loaded(request[j], assignment) /\ (request[j].op = None => request[j] = Idle)
  BY DEF PublishingInv, TypeOK, RequestType, Commit, Loaded
<1>3. CASE assignment' = assignment
  <2>1. request' = [request EXCEPT ![i] = Idle] /\ told' = told
    BY <1>3 DEF Commit
  <2>2. TypeOK'
    <3>1. request' \in [Instructor -> RequestType]
      BY <1>2, <2>1, IdleIs
    <3> QED BY <1>1, <1>2, <2>1, <3>1 DEF PublishingInv, TypeOK, RequestType
  <2>3. \A j \in Instructor : Loaded(request'[j], assignment')
    <3> SUFFICES ASSUME NEW j \in Instructor PROVE Loaded(request'[j], assignment')
      OBVIOUS
    <3>1. request'[j] = IF j = i THEN Idle ELSE request[j]
      BY <1>2, <2>1
    <3>2. Loaded(request[j], assignment')
      BY <1>2, <1>3 DEF Loaded
    <3>3. Loaded(Idle, assignment')
      BY DEF Loaded, Idle
    <3> QED BY <3>1, <3>2, <3>3 DEF Loaded
  <2>4. ToldInv'
    BY <1>3, <2>1 DEF PublishingInv, ToldInv
  <2> QED BY <1>1, <2>2, <2>3, <2>4 DEF PublishingInv
<1>4. CASE assignment' # assignment
  <2>1. /\ request' = [j \in Instructor |-> IF j = i \/ request[j] = Idle THEN Idle
                                            ELSE [request[j] EXCEPT !.expect = None, !.stale = TRUE]]
        /\ told' = [j \in Instructor |-> None]
    BY <1>4 DEF Commit
  <2>2. ASSUME NEW j \in Instructor
        PROVE  /\ request'[j] \in RequestType
               /\ \/ request'[j] = Idle
                  \/ /\ request'[j].op = request[j].op /\ request'[j].op # None
                     /\ request'[j].seen = request[j].seen
                     /\ request'[j].expect = None /\ request'[j].stale
    <3>1. CASE j = i \/ request[j] = Idle
      BY <2>1, <3>1, IdleIs
    <3>2. CASE ~(j = i \/ request[j] = Idle)
      <4>1. request'[j] = [request[j] EXCEPT !.expect = None, !.stale = TRUE]
        BY <2>1, <3>2
      <4>2. request[j] \in RequestType /\ request[j].op # None
        BY <1>2, <3>2
      <4> QED BY <4>1, <4>2 DEF RequestType
    <3> QED BY <3>1, <3>2
  <2>3. TypeOK'
    <3>1. request' \in [Instructor -> RequestType]
      BY <2>1, <2>2
    <3> QED BY <1>1, <1>2, <2>1, <3>1 DEF PublishingInv, TypeOK, RequestType
  <2>4. \A j \in Instructor : Loaded(request'[j], assignment')
    <3> SUFFICES ASSUME NEW j \in Instructor PROVE Loaded(request'[j], assignment')
      OBVIOUS
    <3>1. CASE request'[j] = Idle
      BY <3>1 DEF Loaded, Idle
    <3>2. CASE request'[j] # Idle
      <4>1. request[j].op # None /\ request[j].seen \in Assignment \cup {None}
        BY <1>2, <2>2, <3>2 DEF RequestType
      <4>2. /\ request[j].op.kind = "create" <=> request[j].seen = None
            /\ Earlier(request[j].seen, assignment')
        BY <1>1, <1>2, <4>1 DEF Loaded
      <4> QED BY <2>2, <3>2, <4>1, <4>2 DEF Loaded
    <3> QED BY <3>1, <3>2
  <2>5. ToldInv'
    BY <2>1 DEF ToldInv
  <2> QED BY <1>1, <2>3, <2>4, <2>5 DEF PublishingInv
<1> QED BY <1>3, <1>4

\* Nothing is there at first, and nothing is under way.
LEMMA PublishingStarts == Init => PublishingInv
<1> SUFFICES ASSUME Init PROVE PublishingInv
  OBVIOUS
<1>1. TypeOK
  <2>1. request \in [Instructor -> RequestType]
    BY IdleIs DEF Init
  <2>2. 0 \in 0..MaxRequests
    BY BoundAssumption
  <2> QED BY <2>1, <2>2 DEF Init, TypeOK, RequestType
<1>2. \A i \in Instructor : Loaded(request[i], assignment)
  BY IdleIs DEF Init
<1> QED BY <1>1, <1>2 DEF Init, PublishingInv, ToldInv

\* Every step keeps the invariant.
LEMMA PublishingInductive == PublishingInv /\ [Next]_vars => PublishingInv'
<1> SUFFICES ASSUME PublishingInv, [Next]_vars PROVE PublishingInv'
  OBVIOUS
<1>1. ASSUME NEW i \in Instructor, (\E op \in Op : Begin(i, op)) \/ (\E u \in Upload : ShowPreview(i, u))
      PROVE  PublishingInv'
  BY <1>1, BeginKeeps
<1>2. ASSUME NEW i \in Instructor, Fail(i) PROVE PublishingInv'
  BY <1>2, FailKeeps
<1>3. ASSUME NEW i \in Instructor, Commit(i) PROVE PublishingInv'
  BY <1>3, CommitKeeps
<1>4. CASE UNCHANGED vars
  BY <1>4 DEF vars, PublishingInv, TypeOK, ToldInv
<1> QED BY <1>1, <1>2, <1>3, <1>4 DEF Next

\* The live questions are those of the latest version, with its points, however many
\* instructors publish at once: the number they compete for lets one of them through.
THEOREM LiveIsTheLatest == Spec => []LiveIsLatest
<1>1. PublishingInv => LiveIsLatest
  BY DEF PublishingInv, LatestLive, LiveIsLatest
<1> QED BY <1>1, PublishingStarts, PublishingInductive, PTL DEF Spec

\* The whole-notebook question is as the settings and its rubric say, whichever of create,
\* patch, put_rubric and publish touched them last, unless two requests overlapped.
THEOREM NotebookAgrees == Spec => []NotebookQuestionAgrees
<1>1. PublishingInv => NotebookQuestionAgrees
  BY DEF PublishingInv, Agrees, NotebookQuestionAgrees, NotebookFollowsSettings, NotebookWorthItsRubric
<1> QED BY <1>1, PublishingStarts, PublishingInductive, PTL DEF Spec

-----------------------------------------------------------------------------
(* What a preview announces.                                               *)

\* A request that goes by a preview ends by doing what the preview said.
LEMMA EndsAsTold ==
  ASSUME PublishingInv, NEW i \in Instructor, request[i].expect # None, request'[i] = Idle, [Next]_vars
  PROVE  AsTold(request[i].expect.answer, assignment, assignment')
<1> DEFINE r == request[i]
           u == r.op.u
           answer == r.expect.answer
<1>1. /\ request \in [Instructor -> RequestType] /\ r \in RequestType /\ Loaded(r, assignment)
      /\ assignment \in Assignment \cup {None}
  BY DEF PublishingInv, TypeOK, RequestType
<1>2. /\ r.op \in Op /\ r.op # None /\ r.op.kind = "publish" /\ u \in Upload /\ ~r.stale
      /\ r.seen = assignment /\ answer = Preview(assignment, u)
  <2>1. r.op \in Op /\ r.op.kind = "publish" /\ ~r.stale /\ answer = Preview(r.seen, u) /\ r.op # None
    BY <1>1 DEF Loaded, RequestType
  <2> QED BY <1>1, <2>1, OpIs DEF Loaded
<1>3. assignment \in Assignment
  BY <1>1, <1>2 DEF Loaded
<1>4. Outcome(r.op, r.seen) = Publish(assignment, u)
  BY <1>2 DEF Outcome
<1>5. ASSUME Acceptable(assignment, u)
      PROVE  /\ Publish(assignment, u) \in Assignment /\ answer = Forecast(assignment, u) /\ answer # None
             /\ IF Unchanged(assignment, u) THEN Publish(assignment, u) = assignment
                ELSE /\ Live(Publish(assignment, u)) = DOMAIN u.marks
                     /\ Len(Publish(assignment, u).versions) = Len(assignment.versions) + 1
  <2>1. Follows(r.op, assignment, Publish(assignment, u))
    BY <1>2, <1>3, <1>5, PublishIs
  <2>2. Forecast(assignment, u) \in Answer
    BY <1>2, <1>3, <1>5, PreviewIs
  <2> QED BY <1>2, <1>3, <1>5, <2>1, <2>2, PublishIs, NoneAssumption DEF Follows, Preview
<1>6. ~Acceptable(assignment, u) => answer = Refused /\ Publish(assignment, u) = Refused
  BY <1>2 DEF Preview, Publish
<1>7. r # Idle
  BY IdleIs
<1>8. ASSUME NEW j \in Instructor, NEW op \in Op, Begin(j, op) PROVE FALSE
  <2>1. j # i
    BY <1>7, <1>8 DEF Begin
  <2>2. request'[i] = r
    BY <1>1, <1>8, <2>1 DEF Begin
  <2> QED BY <1>7, <2>2
<1>9. ASSUME NEW j \in Instructor, NEW v \in Upload, ShowPreview(j, v) PROVE FALSE
  BY <1>7, <1>9 DEF ShowPreview
<1>10. ASSUME NEW j \in Instructor, Fail(j) PROVE AsTold(answer, assignment, assignment')
  <2>1. assignment' = assignment /\ request' = [request EXCEPT ![j] = Idle] /\ Fails(request[j])
    BY <1>10 DEF Fail
  <2>2. j = i
    BY <1>1, <1>7, <2>1
  <2>3. CASE Acceptable(assignment, u)
    <3>1. Conflicts(assignment, Publish(assignment, u), assignment) /\ Publish(assignment, u) # Refused
      BY <1>2, <1>3, <1>4, <1>5, <2>1, <2>2, <2>3, NoneAssumption DEF Fails, Refused
    <3>2. Len(assignment.versions) \in Nat
      BY <1>3, AssignmentIs
    <3>3. FALSE
      <4>1. assignment # None
        BY <1>3, AssignmentIs
      <4> QED BY <3>1, <3>2, <4>1 DEF Conflicts
    <3> QED BY <3>3
  <2>4. CASE ~Acceptable(assignment, u)
    BY <1>6, <2>1, <2>4 DEF AsTold
  <2> QED BY <2>3, <2>4
<1>11. ASSUME NEW j \in Instructor, Commit(j) PROVE AsTold(answer, assignment, assignment')
  <2>1. j = i
    <3> SUFFICES ASSUME j # i PROVE FALSE
      OBVIOUS
    <3>1. CASE request' = [request EXCEPT ![j] = Idle]
      BY <1>1, <1>7, <3>1
    <3>2. CASE request' = [k \in Instructor |->
                             IF k = j \/ request[k] = Idle THEN Idle
                             ELSE [request[k] EXCEPT !.expect = None, !.stale = TRUE]]
      <4>1. request'[i] = [request[i] EXCEPT !.expect = None, !.stale = TRUE]
        BY <1>7, <3>2
      <4>2. request'[i].stale
        BY <1>1, <4>1 DEF RequestType
      <4> QED BY <4>2, IdleIs
    <3> QED BY <1>11, <3>1, <3>2 DEF Commit
  <2>2. assignment' = Publish(assignment, u) /\ Publish(assignment, u) # Refused
    BY <1>2, <1>4, <1>11, <2>1, CommitMakes
  <2>3. Acceptable(assignment, u)
    BY <1>6, <2>2
  <2>4. CASE Unchanged(assignment, u)
    <3>1. assignment' = assignment /\ answer.unchanged /\ answer # Refused
      BY <1>5, <2>2, <2>3, <2>4 DEF Forecast, Refused
    <3> QED BY <3>1 DEF AsTold
  <2>5. CASE ~Unchanged(assignment, u)
    <3>1. /\ answer.version = Len(assignment.versions) + 1
          /\ answer.added = DOMAIN u.marks \ Live(assignment)
          /\ answer.removed = Live(assignment) \ DOMAIN u.marks
          /\ ~answer.unchanged /\ answer # Refused
      BY <1>5, <2>3, <2>5 DEF Forecast, Refused
    <3>2. Live(assignment') = DOMAIN u.marks /\ Len(assignment'.versions) = Len(assignment.versions) + 1
      BY <1>5, <2>2, <2>3, <2>5
    <3> QED BY <3>1, <3>2 DEF AsTold
  <2> QED BY <2>4, <2>5
<1>12. CASE UNCHANGED vars
  BY <1>7, <1>12 DEF vars
<1> QED BY <1>8, <1>9, <1>10, <1>11, <1>12 DEF Next

\* A preview refuses where publishing would, and announces the version and the questions
\* publishing then makes, when nothing came in between.
THEOREM PublishesAsPreviewed == Spec => PublishDoesAsPreviewed
<1>1. PublishingInv /\ [Next]_vars =>
        [\A i \in Instructor :
           request[i].expect # None /\ request'[i] = Idle =>
             AsTold(request[i].expect.answer, assignment, assignment')]_vars
  BY EndsAsTold
<1> QED BY <1>1, PublishingStarts, PublishingInductive, PTL DEF Spec, PublishDoesAsPreviewed

=============================================================================
