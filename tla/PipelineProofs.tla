---------------------------- MODULE PipelineProofs ----------------------------
(***************************************************************************)
(* Safety of the grading pipeline for any number of students, staff,       *)
(* workers and graders, and for every value of the bounds; and that the    *)
(* gradebook follows the grade policy unless two recomputes raced.         *)
(***************************************************************************)
EXTENDS GradeRaces, GradePolicyProofs

\* A process outside any transaction.
AtRest == {"idle", "down", "requeueing"}
Resting(x) == x \in ProcState /\ x.pc \in AtRest /\ x.run = None
              /\ (x.pc # "requeueing" => x.stale = {})

\* What an open transaction p holds, in the record x: a worker a run of the table
\* and the attempt it is for, a grader a score row to insert.
OpenAs(p, x) ==
  /\ x.pc \in AtRest => x.run = None
  /\ x.pc \notin AtRest => x.sub \in Sub /\ x.view \in View
  /\ x.pc \in {"begun", "scored"} => x.score \in Score
  /\ x.pc \in {"claimed", "grading"} => p \in Worker
  /\ x.pc = "begun" => p \in Grader
  /\ p \in Worker /\ x.pc \notin AtRest => x.run \in RunId /\ x.run.sub = x.sub
  /\ p \in Worker /\ x.pc \in {"grading", "scored"} => x.run.kind = "autograde"
  /\ p \in Grader => x.run = None
  /\ x.pc # "requeueing" => x.stale = {}

OpenTransactions == \A p \in Proc : OpenAs(p, proc[p])

\* The runs that are executed are rows of the table.
ExecutedRunsExist == \A p \in Proc : proc[p].run # None => proc[p].run \in DOMAIN runs

FiniteRows == \A s \in Sub : IsFiniteSet(scores[s])

TypeInv == TypeOK /\ FiniteRows /\ OpenTransactions /\ ExecutedRunsExist

USE DEF Proc, AtRest

\* The empty tables and the idle processes are typed.
LEMMA TypeInit == Init => TypeInv
<1> SUFFICES ASSUME Init PROVE TypeInv
  OBVIOUS
<1> USE DEF Init
<1>1. TypeOK
  BY NoneAssumption, SettingsAssumption, BoundAssumption
     DEF TypeOK, Status, Snapshot, Render, Score, Grade, ProcState, Idle
<1>2. FiniteRows
  BY FS_EmptySet DEF FiniteRows
<1>3. OpenTransactions /\ ExecutedRunsExist
  BY DEF OpenTransactions, ExecutedRunsExist, OpenAs, Idle
<1> QED BY <1>1, <1>2, <1>3 DEF TypeInv

-----------------------------------------------------------------------------
(* The pieces the actions share.                                           *)

\* A step of one process keeps the others as they are.
LEMMA OneProcess ==
  ASSUME TypeInv, NEW p \in Proc, NEW x, proc' = [proc EXCEPT ![p] = x],
         x \in ProcState, OpenAs(p, x), DOMAIN runs \subseteq DOMAIN runs',
         x.run # None => x.run \in DOMAIN runs'
  PROVE  /\ proc' \in [Proc -> ProcState]
         /\ OpenTransactions'
         /\ ExecutedRunsExist'
<1>1. proc \in [Proc -> ProcState]
  BY DEF TypeInv, TypeOK
<1>2. proc' \in [Proc -> ProcState] /\ \A q \in Proc : proc'[q] = IF q = p THEN x ELSE proc[q]
  BY <1>1
<1>3. OpenTransactions'
  BY <1>2 DEF TypeInv, OpenTransactions, OpenAs
<1>4. ExecutedRunsExist'
  BY <1>2 DEF TypeInv, ExecutedRunsExist
<1> QED BY <1>2, <1>3, <1>4

\* A process at rest holds nothing.
LEMMA RestingIsOpen ==
  ASSUME NEW p \in Worker \cup Grader, NEW x, Resting(x)
  PROVE  x \in ProcState /\ OpenAs(p, x) /\ x.run = None /\ x.pc \in AtRest
BY DEF Resting, OpenAs

\* An idle process, and one that went down, are at rest.
LEMMA IdleRests ==
  /\ Resting(Idle) /\ Resting([Idle EXCEPT !.pc = "down"])
  /\ \A stale \in SUBSET RunId : Resting([Idle EXCEPT !.pc = "requeueing", !.stale = stale])
BY DEF Resting, Idle, ProcState

\* The rows of one flush are new rows of the attempt, one of each kind.
LEMMA FlushedRows ==
  ASSUME TypeOK, NEW s \in Sub, NEW kinds \in SUBSET Kind, NEW new \in FlushedRuns(s, kinds)
  PROVE  /\ new \subseteq RunId
         /\ \A r \in new : r.sub = s /\ now < r.at /\ r.at <= now + 1 + MaxSkew
         /\ \A k \in kinds : \E r \in new : r.kind = k
<1>1. PICK cut \in 1..3 : new = {[sub |-> s, kind |-> k, at |-> IF InsertOrder[k] > cut THEN now + 1 + MaxSkew ELSE now + 1] : k \in kinds}
  BY DEF FlushedRuns
<1>2. now \in Nat /\ MaxSkew \in Nat
  BY BoundAssumption DEF TypeOK
<1>3. \A r \in new : \E k \in kinds :
        /\ r = [sub |-> s, kind |-> k, at |-> r.at]
        /\ r.at = now + 1 \/ r.at = now + 1 + MaxSkew
  BY <1>1
<1>4. \A r \in new : r \in RunId /\ r.sub = s
  BY <1>2, <1>3 DEF RunId
<1>5. ASSUME NEW r \in new PROVE now < r.at /\ r.at <= now + 1 + MaxSkew
  <2>1. r.at = now + 1 \/ r.at = now + 1 + MaxSkew
    BY <1>3
  <2> QED BY <1>2, <2>1
<1>6. ASSUME NEW k \in kinds PROVE \E r \in new : r.kind = k
  <2> DEFINE r == [sub |-> s, kind |-> k,
                   at |-> IF InsertOrder[k] > cut THEN now + 1 + MaxSkew ELSE now + 1]
  <2>1. r \in new
    BY <1>1
  <2>2. r.kind = k
    OBVIOUS
  <2> QED BY <2>1, <2>2
<1> QED BY <1>4, <1>5, <1>6

\* Inserting rows keeps the others.
LEMMA InsertedRows ==
  ASSUME TypeOK, NEW new \in SUBSET RunId, NEW st \in {"queued", "succeeded"},
         runs' = WithRuns(new, st)
  PROVE  /\ DOMAIN runs' = DOMAIN runs \cup new
         /\ DOMAIN runs' \subseteq RunId
         /\ runs' \in [DOMAIN runs' -> {"queued", "running", "succeeded", "failed"}]
BY DEF TypeOK, WithRuns

-----------------------------------------------------------------------------
(* Type correctness.                                                       *)

\* Submit: the new attempt and its runs.
LEMMA SubmitTypes ==
  ASSUME TypeInv, NEW e \in Enrollment, NEW snap \in Sent, Submit(e, snap)
  PROVE  TypeInv'
<1> DEFINE s == <<e, attempts[e] + 1>>
           kinds == {"snapshot"}
                    \cup (IF settings.autograde /\ ~Whole THEN {"autograde"} ELSE {})
                    \cup (IF settings.render THEN {"render"} ELSE {})
<1>1. s \in Sub
  BY BoundAssumption DEF TypeInv, TypeOK, Submit, Sub, Attempt
<1>2. PICK new \in FlushedRuns(s, kinds) : runs' = WithRuns(new, "queued")
  BY DEF Submit
<1>3. new \subseteq RunId
  BY <1>1, FlushedRows DEF TypeInv, Kind
<1>4. /\ DOMAIN runs' = DOMAIN runs \cup new
      /\ DOMAIN runs' \subseteq RunId
      /\ runs' \in [DOMAIN runs' -> {"queued", "running", "succeeded", "failed"}]
  BY <1>2, <1>3, InsertedRows DEF TypeInv
<1>5. attempts' \in [Enrollment -> 0..MaxAttempts]
  BY BoundAssumption DEF TypeInv, TypeOK, Submit
<1>6. status' \in [Sub -> Status] /\ snapshot' \in [Sub -> Snapshot]
  BY SettingsAssumption DEF TypeInv, TypeOK, Submit, Status, Snapshot
<1>7. now' \in Nat
  BY BoundAssumption DEF TypeInv, TypeOK, Submit
<1>8. TypeOK'
  BY <1>4, <1>5, <1>6, <1>7 DEF TypeInv, TypeOK, Submit
<1>9. FiniteRows' /\ OpenTransactions'
  BY DEF TypeInv, FiniteRows, OpenTransactions, OpenAs, Submit
<1>10. ExecutedRunsExist'
  BY <1>4 DEF TypeInv, ExecutedRunsExist, Submit
<1> QED BY <1>8, <1>9, <1>10 DEF TypeInv

\* What a process has read is typed.
LEMMA ProcTypes ==
  ASSUME TypeInv, NEW p \in Worker \cup Grader
  PROVE  proc[p] \in ProcState /\ OpenAs(p, proc[p])
BY DEF TypeInv, TypeOK, OpenTransactions

\* The row as loaded is typed.
LEMMA LoadedTypes == ASSUME TypeOK, NEW s \in Sub PROVE Loaded(s) \in View
BY DEF TypeOK, Loaded, View

\* A worker's run ends: it keeps nothing.
LEMMA FinishTypes ==
  ASSUME TypeInv, NEW w \in Worker, proc[w].run # None,
         NEW outcome \in {"succeeded", "failed"}, Finish(w, outcome)
  PROVE  /\ DOMAIN runs' = DOMAIN runs
         /\ runs' \in [DOMAIN runs' -> {"queued", "running", "succeeded", "failed"}]
         /\ proc' \in [Proc -> ProcState]
         /\ OpenTransactions'
         /\ ExecutedRunsExist'
<1>1. /\ DOMAIN runs' = DOMAIN runs
      /\ runs' \in [DOMAIN runs' -> {"queued", "running", "succeeded", "failed"}]
  BY DEF TypeInv, TypeOK, Finish
<1>2. Idle \in ProcState /\ OpenAs(w, Idle) /\ Idle.run = None
  BY IdleRests, RestingIsOpen
<1>3. proc' = [proc EXCEPT ![w] = Idle]
  BY DEF Finish
<1> QED BY <1>1, <1>2, <1>3, OneProcess

\* Claim: the run becomes the worker's.
LEMMA ClaimTypes ==
  ASSUME TypeInv, NEW w \in Worker, NEW r \in Queued, Claim(w, r)
  PROVE  TypeInv'
<1> DEFINE x == [Idle EXCEPT !.run = r, !.sub = r.sub, !.view = Loaded(r.sub),
                             !.pc = IF r.kind = "autograde" /\ status[r.sub] # "received"
                                    THEN "grading" ELSE "claimed"]
<1>1. r \in DOMAIN runs /\ r \in RunId /\ r.sub \in Sub
  BY DEF TypeInv, TypeOK, Queued, RunId
<1>2. Loaded(r.sub) \in View
  BY <1>1, LoadedTypes DEF TypeInv
<1>3. x \in ProcState
  BY <1>1, <1>2 DEF Idle, ProcState
<1>4. OpenAs(w, x)
  BY <1>1, <1>2, ProcAssumption DEF Idle, OpenAs
<1>5. /\ DOMAIN runs' = DOMAIN runs
      /\ runs' \in [DOMAIN runs' -> {"queued", "running", "succeeded", "failed"}]
  BY <1>1 DEF TypeInv, TypeOK, Claim
<1>6. x.run \in DOMAIN runs'
  BY <1>1, <1>5 DEF Idle
<1>7. proc' = [proc EXCEPT ![w] = x]
  BY DEF Claim
<1>8. proc' \in [Proc -> ProcState] /\ OpenTransactions' /\ ExecutedRunsExist'
  <2> HIDE DEF x
  <2> QED BY <1>3, <1>4, <1>5, <1>6, <1>7, OneProcess
<1>9. TypeOK'
  BY <1>5, <1>8 DEF TypeInv, TypeOK, Claim, tables
<1>10. FiniteRows'
  BY DEF TypeInv, FiniteRows, Claim, tables
<1> QED BY <1>8, <1>9, <1>10 DEF TypeInv

\* MarkGrading: only the worker's own record changes.
LEMMA MarkGradingTypes ==
  ASSUME TypeInv, NEW w \in Worker, MarkGrading(w)
  PROVE  TypeInv'
<1> DEFINE x == [proc[w] EXCEPT !.pc = "grading", !.lock = TRUE]
<1>1. proc[w] \in ProcState /\ OpenAs(w, proc[w])
  BY ProcTypes
<1>2. x \in ProcState
  BY <1>1 DEF ProcState
<1>3. OpenAs(w, x)
  BY <1>1, ProcAssumption DEF OpenAs, MarkGrading, ProcState
<1>4. x.run \in DOMAIN runs /\ runs' = runs
  BY <1>1, NoneAssumption DEF OpenAs, TypeInv, ExecutedRunsExist, MarkGrading, ProcState
<1>5. proc' \in [Proc -> ProcState] /\ OpenTransactions' /\ ExecutedRunsExist'
  <2>1. proc' = [proc EXCEPT ![w] = x]
    BY DEF MarkGrading
  <2> HIDE DEF x
  <2> QED BY <1>2, <1>3, <1>4, <2>1, OneProcess
<1>6. TypeOK' /\ FiniteRows'
  BY <1>5 DEF TypeInv, TypeOK, FiniteRows, MarkGrading, tables
<1> QED BY <1>5, <1>6 DEF TypeInv

\* The history a recomputation sees: the committed rows and its own.
LEMMA HistoryTypes ==
  ASSUME TypeInv, NEW s \in Sub, NEW sc \in Score
  PROVE  /\ HistoryWith(s, sc) \in Histories
         /\ Len(HistoryWith(s, sc)) = attempts[s[1]]
         /\ \A k \in 1..attempts[s[1]] :
              HistoryWith(s, sc)[k] = scores[<<s[1], k>>] \cup (IF k = s[2] THEN {sc} ELSE {})
<1> DEFINE h == HistoryWith(s, sc)
           len == attempts[s[1]]
<1>1. s[1] \in Enrollment /\ len \in 0..MaxAttempts /\ len \in Nat
  BY BoundAssumption DEF TypeInv, TypeOK, Sub
<1>2. ASSUME NEW k \in 1..len
      PROVE  scores[<<s[1], k>>] \cup (IF k = s[2] THEN {sc} ELSE {}) \in Rows
  <2>1. k \in Attempt /\ <<s[1], k>> \in Sub
    BY <1>1, BoundAssumption DEF Sub, Attempt
  <2>2. scores[<<s[1], k>>] \subseteq Score /\ IsFiniteSet(scores[<<s[1], k>>])
    BY <2>1 DEF TypeInv, TypeOK, FiniteRows
  <2>3. IsFiniteSet(scores[<<s[1], k>>] \cup {sc})
    BY <2>2, FS_AddElement
  <2> QED BY <2>2, <2>3 DEF Rows
<1>3. h \in [1..len -> Rows] /\ DOMAIN h = 1..len
  BY <1>2 DEF HistoryWith
<1>4. h \in Seq(Rows)
  <2> HIDE DEF h, len
  <2> QED BY <1>1, <1>3, SeqDef
<1>5. Len(h) \in Nat /\ DOMAIN h = 1..Len(h)
  <2> HIDE DEF h
  <2> QED BY <1>4, LenProperties
<1>6. Len(h) = len
  <2> HIDE DEF h, len
  <2> QED BY <1>1, <1>3, <1>5
<1>7. \A k \in 1..len : h[k] = scores[<<s[1], k>>] \cup (IF k = s[2] THEN {sc} ELSE {})
  BY DEF HistoryWith
<1> QED BY <1>4, <1>6, <1>7 DEF Histories

\* What it writes is a grade: the total of a row it sees, or NULL.
LEMMA RecomputedTypes ==
  ASSUME TypeInv, NEW s \in Sub, NEW sc \in Score
  PROVE  /\ RecomputedGrade(s, sc) \in Grade
         /\ RecomputedGrade(s, sc).attempt \in 0..attempts[s[1]]
         /\ RecomputedGrade(s, sc).points # None
              => /\ RecomputedGrade(s, sc).attempt # 0
                 /\ \E x \in scores[<<s[1], RecomputedGrade(s, sc).attempt>>]
                             \cup (IF RecomputedGrade(s, sc).attempt = s[2] THEN {sc} ELSE {}) :
                      RecomputedGrade(s, sc).points = Total(x)
<1> DEFINE h == HistoryWith(s, sc)
           pick == PickAttempt(h, settings.policy, 0)
<1>1. /\ h \in Histories /\ Len(h) = attempts[s[1]]
      /\ \A k \in 1..attempts[s[1]] :
           h[k] = scores[<<s[1], k>>] \cup (IF k = s[2] THEN {sc} ELSE {})
  BY HistoryTypes
<1>2. None \notin Score
  BY NoneAssumption
<1>3. /\ pick.attempt \in 0..Len(h)
      /\ \/ OfficialPoints(pick) = None
         \/ pick.attempt # 0 /\ \E x \in h[pick.attempt] : OfficialPoints(pick) = Total(x)
      /\ OfficialPoints(pick) \in Nat \cup {None}
  <2> HIDE DEF h
  <2> QED BY <1>1, <1>2, PickIsARow
<1>4. RecomputedGrade(s, sc) = [attempt |-> pick.attempt, points |-> OfficialPoints(pick)]
  BY DEF RecomputedGrade
<1>5. attempts[s[1]] \in Nat
  BY BoundAssumption DEF TypeInv, TypeOK, Sub
<1> HIDE DEF h, pick
<1>6. RecomputedGrade(s, sc) \in Grade /\ RecomputedGrade(s, sc).attempt \in 0..attempts[s[1]]
  BY <1>1, <1>3, <1>4, <1>5 DEF Grade, PointsOrNone
<1>7. ASSUME RecomputedGrade(s, sc).points # None
      PROVE  /\ RecomputedGrade(s, sc).attempt # 0
             /\ \E x \in h[RecomputedGrade(s, sc).attempt] : RecomputedGrade(s, sc).points = Total(x)
  BY <1>3, <1>4, <1>7
<1>8. RecomputedGrade(s, sc).attempt # 0
        => h[RecomputedGrade(s, sc).attempt]
             = scores[<<s[1], RecomputedGrade(s, sc).attempt>>]
                 \cup (IF RecomputedGrade(s, sc).attempt = s[2] THEN {sc} ELSE {})
  BY <1>1, <1>5, <1>6
<1> QED BY <1>6, <1>7, <1>8

\* PendingGrade: the row to write and the row it found.
LEMMA PendingTypes ==
  ASSUME TypeInv, NEW s \in Sub, NEW sc \in Score
  PROVE  PendingGrade(s, sc) \in PendingRow
<1>1. grades[s[1]] \in Grade \cup {None}
  BY DEF TypeInv, TypeOK, Sub
<1> QED BY <1>1, RecomputedTypes DEF PendingGrade, PendingRow

\* The row a worker writes is a row: the points it carries over are typed.
LEMMA AutoScoreTypes ==
  ASSUME TypeInv, NEW s \in Sub, NEW auto \in Nat
  PROVE  AutoScore(s, auto) \in Score
<1>1. scores[s] \in Rows /\ ticks[s] \in Nat
  BY DEF TypeInv, TypeOK, FiniteRows, Rows
<1>2. LatestFinal(scores[s]) = None \/ LatestFinal(scores[s]) \in Score
  BY <1>1, ChosenRows DEF Rows, FinalRows
<1>3. Carried(s) # None => Carried(s).manual \in PointsOrNone
  BY <1>2 DEF Carried, Score
<1> QED BY <1>1, <1>3 DEF AutoScore, Score, PointsOrNone

\* AutoGrade: the worker's record gets the new row and the grade to write.
LEMMA AutoGradeTypes ==
  ASSUME TypeInv, NEW w \in Worker, NEW auto \in 0..settings.auto_max, AutoGrade(w, auto)
  PROVE  TypeInv'
<1> DEFINE s == proc[w].sub
           sc == AutoScore(s, auto)
           pending == IF RollsUp(s) THEN PendingGrade(s, sc) ELSE None
           x == [proc[w] EXCEPT !.pc = "scored", !.score = sc, !.lock = proc[w].lock \/ WritesGraded(w),
                                !.grade = pending]
<1>1. proc[w] \in ProcState /\ OpenAs(w, proc[w]) /\ proc[w].pc = "grading"
  BY ProcTypes DEF AutoGrade
<1>2. s \in Sub /\ auto \in Nat
  BY <1>1 DEF OpenAs, TypeInv, TypeOK, Setting
<1>3. sc \in Score
  BY <1>2, AutoScoreTypes
<1>4. pending \in PendingRow \cup {None}
  <2> HIDE DEF s, sc
  <2> QED BY <1>2, <1>3, PendingTypes
<1>5. proc[w].lock \/ WritesGraded(w) \in BOOLEAN
  BY DEF WritesGraded
<1>6. x \in ProcState
  <2> HIDE DEF s, sc, pending
  <2> QED BY <1>1, <1>3, <1>4, <1>5 DEF ProcState
<1>7. /\ x.pc = "scored" /\ x.run = proc[w].run /\ x.sub = proc[w].sub
      /\ x.view = proc[w].view /\ x.score = sc /\ x.stale = proc[w].stale
  <2> HIDE DEF s, sc, pending
  <2> QED BY <1>1 DEF ProcState
<1>8. OpenAs(w, x)
  <2> HIDE DEF s, sc, x
  <2> QED BY <1>1, <1>3, <1>7, ProcAssumption DEF OpenAs
<1>9. runs' = runs /\ x.run \in DOMAIN runs
  <2> HIDE DEF s, sc, x
  <2>1. x.run # None
    BY <1>1, <1>7, NoneAssumption DEF OpenAs
  <2> QED BY <2>1, <1>7 DEF TypeInv, ExecutedRunsExist, AutoGrade
<1>10. proc' \in [Proc -> ProcState] /\ OpenTransactions' /\ ExecutedRunsExist'
  <2>1. proc' = [proc EXCEPT ![w] = x]
    BY DEF AutoGrade
  <2> HIDE DEF x
  <2> QED BY <1>6, <1>8, <1>9, <2>1, OneProcess
<1>11. ticks' \in [Sub -> Nat]
  BY <1>2 DEF TypeInv, TypeOK, AutoGrade
<1>12. TypeOK' /\ FiniteRows'
  BY <1>9, <1>10, <1>11 DEF TypeInv, TypeOK, FiniteRows, AutoGrade, tables
<1> QED BY <1>10, <1>12 DEF TypeInv

\* What is written of a grade is a grade: each of its columns is the transaction's own, or
\* the committed one.
LEMMA WrittenTypes ==
  ASSUME TypeInv, NEW p \in Worker \cup Grader, proc[p].grade # None, proc[p].sub \in Sub
  PROVE  /\ proc[p].grade \in PendingRow
         /\ GradeWritten(p) \in Grade
         /\ \/ GradeWritten(p).points = proc[p].grade.row.points
            \/ /\ grades[proc[p].sub[1]] # None
               /\ GradeWritten(p).points = grades[proc[p].sub[1]].points
<1>1. proc[p].grade \in PendingRow
  BY ProcTypes DEF ProcState
<1>2. proc[p].grade.row \in Grade /\ grades[proc[p].sub[1]] \in Grade \cup {None}
  BY <1>1 DEF PendingRow, TypeInv, TypeOK, Sub
<1> QED BY <1>1, <1>2 DEF GradeWritten, ColumnWritten, Grade

\* Who found the row as it is committed writes the whole of its own.
LEMMA WrittenIsRow ==
  ASSUME TypeInv, NEW p \in Worker \cup Grader, proc[p].grade # None, proc[p].sub \in Sub,
         proc[p].grade.seen = grades[proc[p].sub[1]]
  PROVE  GradeWritten(p) = proc[p].grade.row
<1>1. proc[p].grade.row \in Grade
  BY WrittenTypes DEF PendingRow
<1> QED BY <1>1 DEF GradeWritten, ColumnWritten, Grade

\* Committing a score adds one typed row and writes one typed grade.
LEMMA CommitTypes ==
  ASSUME TypeInv, NEW p \in Worker \cup Grader, proc[p].pc = "scored", ~Conflicts(p), CommitScoreOf(p)
  PROVE  /\ scores' = [scores EXCEPT ![proc[p].sub] = @ \cup {proc[p].score}]
         /\ scores' \in [Sub -> SUBSET Score]
         /\ FiniteRows'
         /\ grades' \in [Enrollment -> Grade \cup {None}]
<1>1. proc[p] \in ProcState /\ OpenAs(p, proc[p])
  BY ProcTypes
<1>2. proc[p].sub \in Sub /\ proc[p].score \in Score
  BY <1>1 DEF OpenAs
<1>3. scores' = [scores EXCEPT ![proc[p].sub] = @ \cup {proc[p].score}]
  BY <1>2 DEF CommitScoreOf, RowsWith, TypeInv, TypeOK
<1>4. scores' \in [Sub -> SUBSET Score]
  BY <1>2, <1>3 DEF TypeInv, TypeOK
<1>5. FiniteRows'
  <2>1. IsFiniteSet(scores[proc[p].sub] \cup {proc[p].score})
    BY <1>2, FS_AddElement DEF TypeInv, FiniteRows
  <2> QED BY <1>2, <1>3, <2>1 DEF TypeInv, TypeOK, FiniteRows
<1>6. proc[p].grade # None => GradeWritten(p) \in Grade
  BY <1>1, <1>2, WrittenTypes
<1>7. grades' \in [Enrollment -> Grade \cup {None}]
  BY <1>2, <1>6 DEF CommitScoreOf, TypeInv, TypeOK, Sub
<1> QED BY <1>3, <1>4, <1>5, <1>7

\* CommitGrade: the row, the grade and the status become the tables'.
LEMMA CommitGradeTypes ==
  ASSUME TypeInv, NEW w \in Worker, CommitGrade(w)
  PROVE  TypeInv'
<1>1. OpenAs(w, proc[w]) /\ proc[w].pc = "scored"
  BY ProcTypes DEF CommitGrade
<1>2. proc[w].run # None /\ proc[w].sub \in Sub
  BY <1>1, NoneAssumption DEF OpenAs
<1>3. /\ runs' \in [DOMAIN runs' -> {"queued", "running", "succeeded", "failed"}]
      /\ DOMAIN runs' = DOMAIN runs /\ proc' \in [Proc -> ProcState]
      /\ OpenTransactions' /\ ExecutedRunsExist'
  BY <1>2, FinishTypes DEF CommitGrade
<1>4. /\ scores' \in [Sub -> SUBSET Score] /\ FiniteRows'
      /\ grades' \in [Enrollment -> Grade \cup {None}]
  BY <1>1, CommitTypes DEF CommitGrade
<1>5. status' \in [Sub -> Status]
  BY <1>2 DEF TypeInv, TypeOK, CommitGrade, StatusAfterGrade, Status
<1>6. TypeOK'
  BY <1>3, <1>4, <1>5 DEF TypeInv, TypeOK, CommitGrade
<1> QED BY <1>3, <1>4, <1>6 DEF TypeInv

\* GradeConflict and Crash: the process goes down with nothing.
LEMMA DownTypes ==
  ASSUME TypeInv, NEW w \in Worker, proc' = [proc EXCEPT ![w] = [Idle EXCEPT !.pc = "down"]],
         UNCHANGED <<tables, ticks, runs>>, used' \in [scores : Nat, crashes : Nat, attached : Nat, patches : Nat]
  PROVE  TypeInv'
<1> DEFINE x == [Idle EXCEPT !.pc = "down"]
<1>1. x \in ProcState /\ OpenAs(w, x) /\ x.run = None
  BY IdleRests, RestingIsOpen
<1>2. proc' \in [Proc -> ProcState] /\ OpenTransactions' /\ ExecutedRunsExist'
  <2>1. proc' = [proc EXCEPT ![w] = x] /\ runs' = runs
    OBVIOUS
  <2> HIDE DEF x
  <2> QED BY <1>1, <2>1, OneProcess
<1>3. TypeOK' /\ FiniteRows'
  BY <1>2 DEF TypeInv, TypeOK, FiniteRows, tables
<1> QED BY <1>2, <1>3 DEF TypeInv

\* GradeFails: the attempt fails and its run ends.
LEMMA GradeFailsTypes ==
  ASSUME TypeInv, NEW w \in Worker, GradeFails(w)
  PROVE  TypeInv'
<1>1. OpenAs(w, proc[w]) /\ proc[w].pc = "grading"
  BY ProcTypes DEF GradeFails
<1>2. proc[w].run # None /\ proc[w].sub \in Sub
  BY <1>1, NoneAssumption DEF OpenAs
<1>3. /\ runs' \in [DOMAIN runs' -> {"queued", "running", "succeeded", "failed"}]
      /\ DOMAIN runs' = DOMAIN runs /\ proc' \in [Proc -> ProcState]
      /\ OpenTransactions' /\ ExecutedRunsExist'
  BY <1>2, FinishTypes DEF GradeFails
<1>4. status' \in [Sub -> Status]
  BY <1>2 DEF TypeInv, TypeOK, GradeFails, Status
<1>5. TypeOK' /\ FiniteRows'
  BY <1>3, <1>4 DEF TypeInv, TypeOK, FiniteRows, GradeFails
<1> QED BY <1>3, <1>5 DEF TypeInv

\* FinishSnapshot, FinishRender and PageFails: at most the render changes.
LEMMA PageTypes ==
  ASSUME TypeInv, NEW w \in Worker, FinishSnapshot(w) \/ FinishRender(w) \/ PageFails(w)
  PROVE  TypeInv'
<1>1. OpenAs(w, proc[w]) /\ proc[w].pc = "claimed"
  BY ProcTypes DEF FinishSnapshot, FinishRender, PageFails
<1>2. proc[w].run # None /\ proc[w].sub \in Sub
  BY <1>1, NoneAssumption DEF OpenAs
<1>3. /\ runs' \in [DOMAIN runs' -> {"queued", "running", "succeeded", "failed"}]
      /\ DOMAIN runs' = DOMAIN runs /\ proc' \in [Proc -> ProcState]
      /\ OpenTransactions' /\ ExecutedRunsExist'
  BY <1>2, FinishTypes DEF FinishSnapshot, FinishRender, PageFails
<1>4. render' \in [Sub -> Render]
  BY <1>2 DEF TypeInv, TypeOK, FinishSnapshot, FinishRender, PageFails, tables, Render
<1>5. /\ UNCHANGED <<settings, attempts, status, snapshot, scores, ticks, grades, now, used>>
  BY DEF FinishSnapshot, FinishRender, PageFails, tables
<1>6. TypeOK' /\ FiniteRows'
  BY <1>3, <1>4, <1>5 DEF TypeInv, TypeOK, FiniteRows
<1> QED BY <1>3, <1>6 DEF TypeInv

\* Survey: a worker that starts again holds the running rows it read.
LEMMA SurveyTypes ==
  ASSUME TypeInv, NEW w \in Worker, Survey(w)
  PROVE  TypeInv'
<1> DEFINE x == [Idle EXCEPT !.pc = "requeueing", !.stale = Running]
<1>1. Running \in SUBSET RunId
  BY DEF TypeInv, TypeOK, Running
<1>2. Resting(x)
  BY <1>1, IdleRests
<1>3. proc' = [proc EXCEPT ![w] = x] /\ runs' = runs
  BY DEF Survey
<1> HIDE DEF x
<1>4. proc' \in [Proc -> ProcState] /\ OpenTransactions' /\ ExecutedRunsExist'
  BY <1>2, <1>3, RestingIsOpen, OneProcess
<1>5. TypeOK' /\ FiniteRows'
  BY <1>3, <1>4 DEF TypeInv, TypeOK, FiniteRows, Survey, tables
<1> QED BY <1>4, <1>5 DEF TypeInv

\* Requeue: the rows it read are queued again, none is added.
LEMMA RequeueTypes ==
  ASSUME TypeInv, NEW w \in Worker, Requeue(w)
  PROVE  TypeInv'
<1>1. /\ DOMAIN runs' = DOMAIN runs
      /\ runs' \in [DOMAIN runs' -> {"queued", "running", "succeeded", "failed"}]
  BY DEF TypeInv, TypeOK, Requeue
<1>2. Idle \in ProcState /\ OpenAs(w, Idle) /\ Idle.run = None
  BY IdleRests, RestingIsOpen
<1>3. proc' \in [Proc -> ProcState] /\ OpenTransactions' /\ ExecutedRunsExist'
  BY <1>1, <1>2, OneProcess DEF Requeue
<1>4. TypeOK' /\ FiniteRows'
  BY <1>1, <1>3 DEF TypeInv, TypeOK, FiniteRows, Requeue, tables
<1> QED BY <1>3, <1>4 DEF TypeInv

\* The staff's requests.
LEMMA BeginScoreTypes ==
  ASSUME TypeInv, NEW g \in Grader, NEW s \in Sub, NEW manual \in {None} \cup 0..settings.manual_max,
         NEW final \in BOOLEAN, BeginScore(g, s, manual, final)
  PROVE  TypeInv'
<1> DEFINE prev == FinalScore(scores[s])
           sc == [auto |-> IF prev = None THEN None ELSE prev.auto, manual |-> manual,
                  final |-> final, at |-> ticks[s] + 1, by |-> "staff"]
           x == [Idle EXCEPT !.pc = "begun", !.sub = s, !.view = Loaded(s), !.score = sc]
<1>1. scores[s] \in Rows /\ ticks[s] \in Nat /\ manual \in PointsOrNone
  BY DEF TypeInv, TypeOK, FiniteRows, Rows, Setting, PointsOrNone
<1>2. prev = None \/ prev \in Score
  BY <1>1, ChosenRows DEF Rows
<1>3. sc \in Score
  <2>1. prev # None => prev.auto \in PointsOrNone
    BY <1>2 DEF Score
  <2> HIDE DEF prev
  <2> QED BY <1>1, <2>1 DEF Score, PointsOrNone
<1>4. Loaded(s) \in View
  BY LoadedTypes DEF TypeInv
<1>5. x \in ProcState /\ x.run = None
  <2> HIDE DEF sc
  <2> QED BY <1>3, <1>4 DEF Idle, ProcState
<1>6. OpenAs(g, x)
  <2> HIDE DEF sc
  <2> QED BY <1>3, <1>4, ProcAssumption DEF Idle, OpenAs
<1>7. proc' \in [Proc -> ProcState] /\ OpenTransactions' /\ ExecutedRunsExist'
  <2>1. proc' = [proc EXCEPT ![g] = x] /\ runs' = runs
    BY DEF BeginScore
  <2> HIDE DEF x
  <2> QED BY <1>5, <1>6, <2>1, OneProcess
<1>8. TypeOK' /\ FiniteRows'
  BY <1>1, <1>7 DEF TypeInv, TypeOK, FiniteRows, BeginScore, tables
<1> QED BY <1>7, <1>8 DEF TypeInv

\* RecomputeScore: the grader's record gets the lock and the grade to write.
LEMMA RecomputeScoreTypes ==
  ASSUME TypeInv, NEW g \in Grader, RecomputeScore(g)
  PROVE  TypeInv'
<1> DEFINE pending == PendingGrade(proc[g].sub, proc[g].score)
           x == [proc[g] EXCEPT !.pc = "scored", !.lock = MarksGraded(g), !.grade = pending]
<1>1. proc[g] \in ProcState /\ OpenAs(g, proc[g]) /\ proc[g].pc = "begun"
  BY ProcTypes DEF RecomputeScore
<1>2. pending \in PendingRow
  BY <1>1, PendingTypes DEF OpenAs
<1>3. MarksGraded(g) \in BOOLEAN
  BY <1>1 DEF MarksGraded, OpenAs, Score
<1>4. x \in ProcState
  <2> HIDE DEF pending
  <2> QED BY <1>1, <1>2, <1>3 DEF ProcState
<1>5. /\ x.pc = "scored" /\ x.run = proc[g].run /\ x.sub = proc[g].sub
      /\ x.view = proc[g].view /\ x.score = proc[g].score /\ x.stale = proc[g].stale
  <2> HIDE DEF pending
  <2> QED BY <1>1 DEF ProcState
<1>6. OpenAs(g, x) /\ x.run = None
  <2> HIDE DEF x
  <2> QED BY <1>1, <1>5, ProcAssumption DEF OpenAs
<1>7. proc' \in [Proc -> ProcState] /\ OpenTransactions' /\ ExecutedRunsExist'
  <2>1. proc' = [proc EXCEPT ![g] = x] /\ runs' = runs
    BY DEF RecomputeScore
  <2> HIDE DEF x
  <2> QED BY <1>4, <1>6, <2>1, OneProcess
<1>8. TypeOK' /\ FiniteRows'
  BY <1>7 DEF TypeInv, TypeOK, FiniteRows, RecomputeScore, tables
<1> QED BY <1>7, <1>8 DEF TypeInv

\* CommitScore and ScoreConflict: the request ends.
LEMMA EndScoreTypes ==
  ASSUME TypeInv, NEW g \in Grader, CommitScore(g) \/ ScoreConflict(g)
  PROVE  TypeInv'
<1>1. OpenAs(g, proc[g]) /\ proc[g].pc = "scored" /\ proc[g].sub \in Sub
  BY ProcTypes DEF CommitScore, ScoreConflict, OpenAs
<1>2. Idle \in ProcState /\ OpenAs(g, Idle) /\ Idle.run = None
  BY IdleRests, RestingIsOpen
<1>3. proc' = [proc EXCEPT ![g] = Idle] /\ runs' = runs
  BY DEF CommitScore, ScoreConflict
<1>4. proc' \in [Proc -> ProcState] /\ OpenTransactions' /\ ExecutedRunsExist'
  BY <1>2, <1>3, OneProcess
<1>5. CASE CommitScore(g)
  <2>1. /\ scores' \in [Sub -> SUBSET Score] /\ FiniteRows'
        /\ grades' \in [Enrollment -> Grade \cup {None}]
    BY <1>1, <1>5, CommitTypes DEF CommitScore
  <2>2. status' \in [Sub -> Status]
    BY <1>1, <1>5 DEF TypeInv, TypeOK, CommitScore, Status
  <2>3. TypeOK'
    BY <1>4, <1>5, <2>1, <2>2 DEF TypeInv, TypeOK, CommitScore
  <2> QED BY <1>4, <2>1, <2>3 DEF TypeInv
<1>6. CASE ScoreConflict(g)
  BY <1>4, <1>6 DEF TypeInv, TypeOK, FiniteRows, ScoreConflict, tables
<1> QED BY <1>5, <1>6

\* Retry, AttachSnapshot and AttachHtml: the attempt changes and rows are queued.
LEMMA QueueingTypes ==
  ASSUME TypeInv, NEW s \in Sub, NEW kinds \in SUBSET Kind, NEW new \in FlushedRuns(s, kinds),
         NEW st \in {"queued", "succeeded"}, runs' = WithRuns(new, st), now' = now + 1 + MaxSkew,
         status' \in [Sub -> Status], snapshot' \in [Sub -> Snapshot], render' \in [Sub -> Render],
         used' \in [scores : Nat, crashes : Nat, attached : Nat, patches : Nat],
         UNCHANGED <<settings, attempts, scores, ticks, grades, proc>>
  PROVE  TypeInv'
<1>1. new \subseteq RunId
  BY FlushedRows DEF TypeInv
<1>2. /\ DOMAIN runs' = DOMAIN runs \cup new
      /\ DOMAIN runs' \subseteq RunId
      /\ runs' \in [DOMAIN runs' -> {"queued", "running", "succeeded", "failed"}]
  BY <1>1, InsertedRows DEF TypeInv
<1>3. now' \in Nat
  BY BoundAssumption DEF TypeInv, TypeOK
<1>4. TypeOK'
  BY <1>2, <1>3 DEF TypeInv, TypeOK
<1>5. FiniteRows' /\ OpenTransactions' /\ ExecutedRunsExist'
  BY <1>2 DEF TypeInv, FiniteRows, OpenTransactions, OpenAs, ExecutedRunsExist
<1> QED BY <1>4, <1>5 DEF TypeInv

\* Retry: a received attempt and the rows it queues.
LEMMA RetryTypes == ASSUME TypeInv, NEW s \in Sub, Retry(s) PROVE TypeInv'
<1> DEFINE kinds == {"autograde"} \cup (IF render[s] = "none" THEN {"render"} ELSE {})
<1>1. PICK new \in FlushedRuns(s, kinds) : runs' = WithRuns(new, "queued")
  BY DEF Retry
<1>2. kinds \in SUBSET Kind
  BY DEF Kind
<1>3. status' \in [Sub -> Status]
  BY DEF TypeInv, TypeOK, Retry, Status
<1>4. /\ now' = now + 1 + MaxSkew
      /\ UNCHANGED <<settings, attempts, snapshot, render, scores, ticks, grades, proc, used>>
  BY DEF Retry
<1>5. /\ snapshot' \in [Sub -> Snapshot] /\ render' \in [Sub -> Render]
      /\ used' \in [scores : Nat, crashes : Nat, attached : Nat, patches : Nat]
  BY <1>4 DEF TypeInv, TypeOK
<1> HIDE DEF kinds
<1> QED BY <1>1, <1>2, <1>3, <1>4, <1>5, QueueingTypes

\* AttachSnapshot and AttachHtml: a new artifact and the row that records it.
LEMMA AttachTypes ==
  ASSUME TypeInv, NEW s \in Sub, AttachSnapshot(s) \/ AttachHtml(s)
  PROVE  TypeInv'
<1>1. PICK new \in FlushedRuns(s, {"snapshot"}), st \in {"queued", "succeeded"} : runs' = WithRuns(new, st)
  BY DEF AttachSnapshot, AttachHtml
<1>2. {"snapshot"} \in SUBSET Kind
  BY DEF Kind
<1>3. /\ now' = now + 1 + MaxSkew
      /\ UNCHANGED <<settings, attempts, status, scores, ticks, grades, proc>>
  BY DEF AttachSnapshot, AttachHtml
<1>4. /\ status' \in [Sub -> Status] /\ snapshot' \in [Sub -> Snapshot] /\ render' \in [Sub -> Render]
      /\ used' \in [scores : Nat, crashes : Nat, attached : Nat, patches : Nat]
  BY DEF TypeInv, TypeOK, AttachSnapshot, AttachHtml, Snapshot, Render
<1> QED BY <1>1, <1>2, <1>3, <1>4, QueueingTypes

\* PatchPolicy: only the settings change, to others of the type.
LEMMA PatchTypes == ASSUME TypeInv, NEW policy \in Policy, PatchPolicy(policy) PROVE TypeInv'
<1>1. settings' \in Setting
  BY SettingsAssumption DEF TypeInv, TypeOK, PatchPolicy, Setting
<1>2. used' \in [scores : Nat, crashes : Nat, attached : Nat, patches : Nat]
  BY DEF TypeInv, TypeOK, PatchPolicy
<1> QED BY <1>1, <1>2 DEF TypeInv, TypeOK, FiniteRows, OpenTransactions, ExecutedRunsExist, PatchPolicy

\* Every step, one case for each action, keeps the tables and the processes typed.
LEMMA TypeNext == TypeInv /\ [Next]_vars => TypeInv'
<1> SUFFICES ASSUME TypeInv, [Next]_vars PROVE TypeInv'
  OBVIOUS
<1>1. ASSUME NEW e \in Enrollment, NEW snap \in Sent, Submit(e, snap) PROVE TypeInv'
  BY <1>1, SubmitTypes
<1>2. ASSUME NEW w \in Worker, WorkerStep(w) PROVE TypeInv'
  <2>1. ASSUME NEW r \in Queued, Claim(w, r) PROVE TypeInv'
    BY <2>1, ClaimTypes
  <2>2. ASSUME NEW auto \in 0..settings.auto_max, AutoGrade(w, auto) PROVE TypeInv'
    BY <2>2, AutoGradeTypes
  <2>3. CASE GradeConflict(w)
    <3>1. used' \in [scores : Nat, crashes : Nat, attached : Nat, patches : Nat]
      BY <2>3 DEF TypeInv, TypeOK, GradeConflict
    <3> QED BY <2>3, <3>1, DownTypes DEF GradeConflict
  <2> QED BY <1>2, <2>1, <2>2, <2>3, MarkGradingTypes, CommitGradeTypes, GradeFailsTypes,
             PageTypes, SurveyTypes, RequeueTypes DEF WorkerStep
<1>3. ASSUME NEW w \in Worker, Crash(w) PROVE TypeInv'
  <2>1. used' \in [scores : Nat, crashes : Nat, attached : Nat, patches : Nat]
    BY <1>3 DEF TypeInv, TypeOK, Crash
  <2> QED BY <1>3, <2>1, DownTypes DEF Crash
<1>4. ASSUME NEW g \in Grader, RequestStep(g) PROVE TypeInv'
  BY <1>4, RecomputeScoreTypes, EndScoreTypes DEF RequestStep
<1>5. CASE StaffStep
  <2>1. Existing \subseteq Sub
    BY DEF Existing
  <2>2. ASSUME NEW s \in Existing, NEW g \in Grader, NEW manual \in {None} \cup 0..settings.manual_max,
               NEW final \in BOOLEAN, BeginScore(g, s, manual, final)
        PROVE  TypeInv'
    BY <2>1, <2>2, BeginScoreTypes
  <2>3. ASSUME NEW s \in Existing, Retry(s) \/ AttachSnapshot(s) \/ AttachHtml(s) PROVE TypeInv'
    BY <2>1, <2>3, RetryTypes, AttachTypes
  <2> QED BY <1>5, <2>2, <2>3, PatchTypes DEF StaffStep
<1>6. CASE UNCHANGED vars
  BY <1>6 DEF vars, TypeInv, TypeOK, FiniteRows, OpenTransactions, ExecutedRunsExist, OpenAs
<1> QED BY <1>1, <1>2, <1>3, <1>4, <1>5, <1>6 DEF Next

\* Every reachable state is typed: the tables hold what their columns allow.
THEOREM Typing == Spec => []TypeInv
<1>1. Init => TypeInv
  BY TypeInit
<1>2. TypeInv /\ [Next]_vars => TypeInv'
  BY TypeNext
<1> QED BY <1>1, <1>2, PTL DEF Spec

\* The type invariant the runs check holds for every value of the constants.
THEOREM TypeCorrect == Spec => []TypeOK
<1>1. TypeInv => TypeOK
  BY DEF TypeInv
<1> QED BY <1>1, Typing, PTL

-----------------------------------------------------------------------------
(* What a step may change.                                                 *)

\* Only the policy of a question changes while attempts are graded.
LEMMA SettingsKept ==
  ASSUME TypeInv, [Next]_vars
  PROVE  /\ settings'.mode = settings.mode
         /\ Receipt' = Receipt
         /\ AutoGraded' = AutoGraded
<1>1. settings \in Setting
  BY DEF TypeInv, TypeOK
<1>2. settings' = settings \/ \E policy \in Policy : settings' = [settings EXCEPT !.policy = policy]
  BY DEF Next, WorkerStep, RequestStep, StaffStep, Submit, Claim, MarkGrading, AutoGrade, CommitGrade,
         GradeConflict, GradeFails, FinishSnapshot, FinishRender, PageFails, Crash, Survey, Requeue,
         BeginScore, RecomputeScore, CommitScore, ScoreConflict, Retry, AttachSnapshot, AttachHtml,
         PatchPolicy, vars, tables
<1>3. /\ settings'.mode = settings.mode /\ settings'.autograde = settings.autograde
      /\ settings'.whole = settings.whole /\ settings'.auto_max = settings.auto_max
      /\ settings'.manual_max = settings.manual_max
  BY <1>1, <1>2 DEF Setting
<1> QED BY <1>3 DEF Receipt, AutoGraded, Whole

\* Score rows are inserted, never changed or deleted; only the commits of a
\* worker and of a grader insert one.
LEMMA RowsGrow ==
  ASSUME TypeInv, [Next]_vars, NEW s \in Sub
  PROVE  \/ scores'[s] = scores[s]
         \/ \E p \in Worker \cup Grader :
              /\ (p \in Worker /\ CommitGrade(p)) \/ (p \in Grader /\ CommitScore(p))
              /\ proc[p].sub = s
              /\ scores'[s] = scores[s] \cup {proc[p].score}
<1>1. ASSUME NEW p \in Worker \cup Grader,
             (p \in Worker /\ CommitGrade(p)) \/ (p \in Grader /\ CommitScore(p))
      PROVE  scores'[s] = IF proc[p].sub = s THEN scores[s] \cup {proc[p].score} ELSE scores[s]
  <2>1. proc[p].pc = "scored" /\ ~Conflicts(p) /\ CommitScoreOf(p)
    BY <1>1 DEF CommitGrade, CommitScore
  <2>2. scores' = [scores EXCEPT ![proc[p].sub] = @ \cup {proc[p].score}]
    BY <2>1, CommitTypes
  <2> QED BY <2>2 DEF TypeInv, TypeOK
<1>2. \/ \E p \in Worker \cup Grader : (p \in Worker /\ CommitGrade(p)) \/ (p \in Grader /\ CommitScore(p))
      \/ scores' = scores
  BY DEF Next, WorkerStep, RequestStep, StaffStep, Submit, Claim, MarkGrading, AutoGrade,
         GradeConflict, GradeFails, FinishSnapshot, FinishRender, PageFails, Crash, Survey, Requeue,
         BeginScore, RecomputeScore, ScoreConflict, Retry, AttachSnapshot, AttachHtml,
         PatchPolicy, vars, tables
<1> QED BY <1>1, <1>2

\* The attempts that a step makes "graded", and how.
LEMMA BecomesGraded ==
  ASSUME TypeInv, [Next]_vars, NEW s \in Sub, status'[s] = "graded", status[s] # "graded"
  PROVE  \/ Receipt
         \/ \E w \in Worker : CommitGrade(w) /\ proc[w].sub = s /\ WritesGraded(w)
         \/ \E g \in Grader : CommitScore(g) /\ proc[g].sub = s /\ MarksGraded(g)
<1>1. status \in [Sub -> Status]
  BY DEF TypeInv, TypeOK
<1>2. ASSUME NEW e \in Enrollment, NEW snap \in Sent, Submit(e, snap) PROVE Receipt
  BY <1>1, <1>2 DEF Submit
<1>3. ASSUME NEW w \in Worker, CommitGrade(w) PROVE proc[w].sub = s /\ WritesGraded(w)
  BY <1>1, <1>3 DEF CommitGrade, StatusAfterGrade
<1>4. ASSUME NEW g \in Grader, CommitScore(g) PROVE proc[g].sub = s /\ MarksGraded(g)
  BY <1>1, <1>4 DEF CommitScore
<1>5. ASSUME NEW w \in Worker, GradeFails(w) PROVE FALSE
  BY <1>1, <1>5 DEF GradeFails
<1>6. ASSUME NEW x \in Existing, Retry(x) PROVE FALSE
  BY <1>1, <1>6 DEF Retry
<1> QED BY <1>2, <1>3, <1>4, <1>5, <1>6
        DEF Next, WorkerStep, RequestStep, StaffStep, Claim, MarkGrading, AutoGrade,
            GradeConflict, FinishSnapshot, FinishRender, PageFails, Crash, Survey, Requeue,
            BeginScore, RecomputeScore, ScoreConflict, AttachSnapshot, AttachHtml,
            PatchPolicy, vars, tables

\* AutoGrade, seen from the record of the worker that takes the step.
LEMMA AutoGradeRecord ==
  ASSUME TypeInv, NEW w \in Worker, NEW auto \in 0..settings.auto_max, AutoGrade(w, auto)
  PROVE  /\ proc'[w].pc = "scored"
         /\ proc'[w].sub = proc[w].sub /\ proc'[w].run = proc[w].run
         /\ proc'[w].view = proc[w].view
         /\ proc'[w].score = AutoScore(proc[w].sub, auto)
         /\ proc'[w].grade = IF RollsUp(proc[w].sub)
                             THEN PendingGrade(proc[w].sub, AutoScore(proc[w].sub, auto)) ELSE None
         /\ \A q \in Proc \ {w} : proc'[q] = proc[q]
<1> DEFINE sc == AutoScore(proc[w].sub, auto)
           pending == IF RollsUp(proc[w].sub) THEN PendingGrade(proc[w].sub, sc) ELSE None
           lock == proc[w].lock \/ WritesGraded(w)
           x == [proc[w] EXCEPT !.pc = "scored", !.score = sc, !.lock = lock, !.grade = pending]
<1>1. proc[w] \in ProcState /\ proc \in [Proc -> ProcState]
  BY DEF TypeInv, TypeOK
<1>2. proc' = [proc EXCEPT ![w] = x]
  BY DEF AutoGrade
<1>3. /\ x.pc = "scored" /\ x.run = proc[w].run /\ x.sub = proc[w].sub
      /\ x.view = proc[w].view /\ x.score = sc /\ x.grade = pending
  <2> HIDE DEF sc, pending, lock
  <2> QED BY <1>1 DEF ProcState
<1>4. proc'[w] = x /\ \A q \in Proc \ {w} : proc'[q] = proc[q]
  <2> HIDE DEF x
  <2> QED BY <1>1, <1>2
<1> QED BY <1>3, <1>4

\* The steps with which a worker leaves a transaction, dies or starts again.
LEMMA StepsToRest ==
  ASSUME TypeInv, NEW v \in Worker,
         \/ CommitGrade(v) \/ GradeConflict(v) \/ GradeFails(v) \/ FinishSnapshot(v)
         \/ FinishRender(v) \/ PageFails(v) \/ Survey(v) \/ Requeue(v) \/ Crash(v)
  PROVE  \E x : Resting(x) /\ proc' = [proc EXCEPT ![v] = x]
<1>1. CASE Survey(v)
  BY <1>1, IdleRests DEF Survey, Running, TypeInv, TypeOK
<1>2. CASE ~Survey(v)
  BY <1>2, IdleRests DEF CommitGrade, GradeConflict, GradeFails, FinishSnapshot, FinishRender,
       PageFails, Requeue, Crash, Finish
<1> QED BY <1>1, <1>2

\* The other steps of a worker leave no score row pending.
LEMMA OtherWorkerSteps ==
  ASSUME TypeInv, NEW v \in Worker,
         \/ \E r \in Queued : Claim(v, r)
         \/ MarkGrading(v) \/ CommitGrade(v) \/ GradeConflict(v) \/ GradeFails(v)
         \/ FinishSnapshot(v) \/ FinishRender(v) \/ PageFails(v) \/ Survey(v) \/ Requeue(v) \/ Crash(v)
  PROVE  \A q \in Proc : proc'[q] = proc[q] \/ proc'[q].pc \notin {"begun", "scored"}
<1>1. proc \in [Proc -> ProcState]
  BY DEF TypeInv, TypeOK
<1>3. ASSUME NEW r \in Queued, Claim(v, r)
      PROVE  \A q \in Proc : proc'[q] = proc[q] \/ proc'[q].pc \notin {"begun", "scored"}
  BY <1>1, <1>3 DEF Claim, Idle
<1>4. CASE MarkGrading(v)
  <2>1. proc' = [proc EXCEPT ![v] = [proc[v] EXCEPT !.pc = "grading", !.lock = TRUE]]
    BY <1>4 DEF MarkGrading
  <2> QED BY <1>1, <2>1 DEF ProcState
<1>5. ASSUME \/ CommitGrade(v) \/ GradeConflict(v) \/ GradeFails(v)
             \/ FinishSnapshot(v) \/ FinishRender(v) \/ PageFails(v) \/ Survey(v) \/ Requeue(v) \/ Crash(v)
      PROVE  \A q \in Proc : proc'[q] = proc[q] \/ proc'[q].pc \notin {"begun", "scored"}
  <2>1. PICK x : Resting(x) /\ proc' = [proc EXCEPT ![v] = x]
    BY <1>5, StepsToRest
  <2> QED BY <1>1, <2>1, RestingIsOpen DEF AtRest
<1> QED BY <1>3, <1>4, <1>5

\* RecomputeScore, seen from the record of the grader that takes the step.
LEMMA RecomputeScoreRecord ==
  ASSUME TypeInv, NEW g \in Grader, RecomputeScore(g)
  PROVE  /\ proc'[g].pc = "scored"
         /\ proc'[g].sub = proc[g].sub /\ proc'[g].score = proc[g].score
         /\ proc'[g].grade = PendingGrade(proc[g].sub, proc[g].score)
         /\ \A q \in Proc \ {g} : proc'[q] = proc[q]
<1> DEFINE pending == PendingGrade(proc[g].sub, proc[g].score)
           lock == MarksGraded(g)
           x == [proc[g] EXCEPT !.pc = "scored", !.lock = lock, !.grade = pending]
<1>1. proc[g] \in ProcState /\ proc \in [Proc -> ProcState]
  BY DEF TypeInv, TypeOK
<1>2. proc' = [proc EXCEPT ![g] = x]
  BY DEF RecomputeScore
<1>3. x.pc = "scored" /\ x.sub = proc[g].sub /\ x.score = proc[g].score /\ x.grade = pending
  <2> HIDE DEF pending, lock
  <2> QED BY <1>1 DEF ProcState
<1>4. proc'[g] = x /\ \A q \in Proc \ {g} : proc'[q] = proc[q]
  <2> HIDE DEF x
  <2> QED BY <1>1, <1>2
<1> QED BY <1>3, <1>4

\* BeginScore, seen from the record of the grader that takes the step.
LEMMA BeginScoreRecord ==
  ASSUME TypeInv, NEW g \in Grader, NEW s \in Sub, NEW manual, NEW final, BeginScore(g, s, manual, final)
  PROVE  /\ proc'[g].pc = "begun" /\ proc'[g].sub = s
         /\ proc'[g].score.by = "staff" /\ proc'[g].score.at = ticks[s] + 1
         /\ \A q \in Proc \ {g} : proc'[q] = proc[q]
<1> DEFINE prev == FinalScore(scores[s])
           sc == [auto |-> IF prev = None THEN None ELSE prev.auto, manual |-> manual,
                  final |-> final, at |-> ticks[s] + 1, by |-> "staff"]
           x == [Idle EXCEPT !.pc = "begun", !.sub = s, !.view = Loaded(s), !.score = sc]
<1>1. proc \in [Proc -> ProcState] /\ proc' = [proc EXCEPT ![g] = x]
  BY DEF TypeInv, TypeOK, BeginScore
<1>2. sc.by = "staff" /\ sc.at = ticks[s] + 1
  OBVIOUS
<1>3. x.pc = "begun" /\ x.sub = s /\ x.score = sc
  <2> HIDE DEF sc
  <2> QED BY DEF Idle
<1>4. proc'[g] = x /\ \A q \in Proc \ {g} : proc'[q] = proc[q]
  <2> HIDE DEF x
  <2> QED BY <1>1
<1> HIDE DEF sc, x
<1> QED BY <1>2, <1>3, <1>4

\* The steps after which a process has a score row to commit.
LEMMA BecomesPending ==
  ASSUME TypeInv, [Next]_vars, NEW p \in Proc, proc'[p].pc \in {"begun", "scored"}
  PROVE  \/ proc'[p] = proc[p]
         \/ p \in Worker /\ \E auto \in 0..settings.auto_max : AutoGrade(p, auto)
         \/ p \in Grader /\ RecomputeScore(p)
         \/ p \in Grader /\ \E s \in Sub, manual \in {None} \cup 0..settings.manual_max, final \in BOOLEAN :
                              BeginScore(p, s, manual, final)
<1>1. proc \in [Proc -> ProcState]
  BY DEF TypeInv, TypeOK
<1>2. ASSUME NEW w \in Worker, NEW auto \in 0..settings.auto_max, AutoGrade(w, auto)
      PROVE  p = w \/ proc'[p] = proc[p]
  BY <1>2, AutoGradeRecord
<1>3. ASSUME NEW g \in Grader, RecomputeScore(g)
      PROVE  p = g \/ proc'[p] = proc[p]
  BY <1>3, RecomputeScoreRecord
<1>4. ASSUME NEW g \in Grader, CommitScore(g) \/ ScoreConflict(g)
      PROVE  proc'[p] = proc[p]
  <2>1. proc' = [proc EXCEPT ![g] = Idle]
    BY <1>4 DEF CommitScore, ScoreConflict
  <2> QED BY <1>1, <2>1 DEF Idle
<1>5. ASSUME NEW g \in Grader, NEW s \in Sub, NEW manual, NEW final, BeginScore(g, s, manual, final)
      PROVE  p = g \/ proc'[p] = proc[p]
  BY <1>5, BeginScoreRecord
<1>6. ASSUME \/ \E e \in Enrollment, snap \in Sent : Submit(e, snap)
             \/ \E s \in Existing : Retry(s) \/ AttachSnapshot(s) \/ AttachHtml(s)
             \/ \E policy \in Policy : PatchPolicy(policy)
             \/ UNCHANGED vars
      PROVE  proc'[p] = proc[p]
  BY <1>6 DEF Submit, Retry, AttachSnapshot, AttachHtml, PatchPolicy, vars
<1>7. Existing \subseteq Sub
  BY DEF Existing
<1> QED BY <1>2, <1>3, <1>4, <1>5, <1>6, <1>7, OtherWorkerSteps DEF Next, WorkerStep, RequestStep, StaffStep

\* The steps after which a process has a question grade to commit with the row.
LEMMA BecomesScored ==
  ASSUME TypeInv, [Next]_vars, NEW p \in Proc, proc'[p].pc = "scored"
  PROVE  \/ proc'[p] = proc[p]
         \/ p \in Worker /\ \E auto \in 0..settings.auto_max : AutoGrade(p, auto)
         \/ p \in Grader /\ RecomputeScore(p)
BY BecomesPending, BeginScoreRecord

-----------------------------------------------------------------------------
(* A graded attempt has its final score.                                   *)

\* The row a worker is about to commit on an autograded question is final.
PendingRowsFinal ==
  \A w \in Worker : proc[w].pc = "scored" /\ settings.mode = "auto" => proc[w].score.final

GradedInv == GradedHasFinalScore /\ PendingRowsFinal

\* No step leaves a provisional row pending on an autograded question.
LEMMA PendingRowsFinalNext ==
  ASSUME TypeInv, PendingRowsFinal, [Next]_vars
  PROVE  PendingRowsFinal'
<1> SUFFICES ASSUME NEW w \in Worker, proc'[w].pc = "scored", settings'.mode = "auto"
             PROVE  proc'[w].score.final
  BY DEF PendingRowsFinal
<1>1. settings.mode = "auto"
  BY SettingsKept
<1>2. CASE proc'[w] = proc[w]
  BY <1>1, <1>2 DEF PendingRowsFinal
<1>3. ASSUME NEW auto \in 0..settings.auto_max, AutoGrade(w, auto)
      PROVE  proc'[w].score.final
  <2>1. proc'[w].score = AutoScore(proc[w].sub, auto)
    BY <1>3, AutoGradeRecord
  <2>2. AutoScore(proc[w].sub, auto).final
    BY <1>1 DEF AutoScore
  <2> QED BY <2>1, <2>2
<1> QED BY <1>2, <1>3, BecomesScored, ProcAssumption

\* No step makes an attempt graded without a final row, or takes one away.
LEMMA GradedNext ==
  ASSUME TypeInv, GradedInv, [Next]_vars
  PROVE  GradedHasFinalScore'
<1> SUFFICES ASSUME NEW s \in Sub, s[2] <= attempts'[s[1]], status'[s] = "graded", ~Receipt'
             PROVE  FinalRows(scores'[s]) # {}
  BY DEF GradedHasFinalScore, Existing
<1>1. ~Receipt
  BY SettingsKept
<1>2. FinalRows(scores[s]) \subseteq FinalRows(scores'[s])
  BY RowsGrow DEF FinalRows
<1>3. CASE status[s] = "graded" /\ s \in Existing
  BY <1>1, <1>2, <1>3 DEF GradedInv, GradedHasFinalScore
<1>4. CASE status[s] # "graded"
  <2>1. ASSUME NEW w \in Worker, CommitGrade(w), proc[w].sub = s, WritesGraded(w)
        PROVE  FinalRows(scores'[s]) # {}
    <3>1. proc[w].score.final
      BY <2>1 DEF GradedInv, PendingRowsFinal, CommitGrade, WritesGraded
    <3>2. scores'[s] = scores[s] \cup {proc[w].score}
      BY <2>1, CommitTypes DEF CommitGrade, TypeInv, TypeOK
    <3> QED BY <3>1, <3>2 DEF FinalRows
  <2>2. ASSUME NEW g \in Grader, CommitScore(g), proc[g].sub = s, MarksGraded(g)
        PROVE  FinalRows(scores'[s]) # {}
    <3>1. proc[g].score.final
      BY <2>2 DEF MarksGraded
    <3>2. scores'[s] = scores[s] \cup {proc[g].score}
      BY <2>2, CommitTypes DEF CommitScore, TypeInv, TypeOK
    <3> QED BY <3>1, <3>2 DEF FinalRows
  <2> QED BY <1>1, <1>4, <2>1, <2>2, BecomesGraded
<1>5. CASE status[s] = "graded" /\ s \notin Existing
  <2>1. attempts'[s[1]] # attempts[s[1]]
    BY <1>5 DEF Existing
  <2>2. PICK e \in Enrollment, snap \in Sent : Submit(e, snap)
    BY <2>1 DEF Next, WorkerStep, RequestStep, StaffStep, Claim, MarkGrading, AutoGrade, CommitGrade,
         GradeConflict, GradeFails, FinishSnapshot, FinishRender, PageFails, Crash, Survey, Requeue,
         BeginScore, RecomputeScore, CommitScore, ScoreConflict, Retry, AttachSnapshot, AttachHtml,
         PatchPolicy, vars, tables
  <2>3. s = <<e, attempts[e] + 1>>
    BY <1>5, <2>1, <2>2, BoundAssumption DEF Submit, TypeInv, TypeOK, Sub, Existing, Attempt
  <2>4. status'[s] = "received"
    BY <1>1, <2>2, <2>3 DEF Submit, TypeInv, TypeOK
  <2> QED BY <2>4
<1> QED BY <1>3, <1>4, <1>5

\* An attempt reads "graded" only with a committed final score, whatever the
\* interleaving of runs, retries, hand scores, crashes and restarts.
THEOREM GradedIsBacked == Spec => []GradedHasFinalScore
<1>1. Init => GradedInv
  BY DEF Init, GradedInv, GradedHasFinalScore, PendingRowsFinal, Idle, Existing, Sub
<1>2. TypeInv /\ GradedInv /\ [Next]_vars => GradedInv'
  BY GradedNext, PendingRowsFinalNext DEF GradedInv
<1>3. GradedInv => GradedHasFinalScore
  BY DEF GradedInv
<1> QED BY <1>1, <1>2, <1>3, Typing, PTL DEF Spec

-----------------------------------------------------------------------------
(* A received attempt has a run that will settle it.                       *)

\* Run r is still to be finished, and every process that executes it found the
\* attempt received, so that its outcome will replace the word.
WillSettle(r) ==
  /\ r \in DOMAIN runs /\ r.kind = "autograde" /\ Live(r)
  /\ \A p \in Proc : proc[p].run = r => proc[p].view.status = "received"

\* Runs are stamped by the clock, so that rows yet to come are new ones.
RunsInThePast == \A r \in DOMAIN runs : r.at <= now

SettlingRuns ==
  AutoGraded => \A s \in Existing : status[s] = "received" =>
    \E r \in DOMAIN runs : r.sub = s /\ WillSettle(r)

SettleInv == RunsInThePast /\ SettlingRuns

\* A step inserts the rows of one flush and moves the clock, or inserts none.
LEMMA RunsChange ==
  ASSUME TypeInv, [Next]_vars
  PROVE  \/ DOMAIN runs' = DOMAIN runs /\ now' = now
         \/ /\ now' = now + 1 + MaxSkew
            /\ \E s \in Sub, kinds \in SUBSET Kind, st \in {"queued", "succeeded"} :
                 \E new \in FlushedRuns(s, kinds) : runs' = WithRuns(new, st)
<1> DEFINE Inserts == /\ now' = now + 1 + MaxSkew
                      /\ \E s \in Sub, kinds \in SUBSET Kind, st \in {"queued", "succeeded"} :
                           \E new \in FlushedRuns(s, kinds) : runs' = WithRuns(new, st)
<1>1. ASSUME NEW e \in Enrollment, NEW snap \in Sent, Submit(e, snap) PROVE Inserts
  <2> DEFINE kinds == {"snapshot"}
                      \cup (IF settings.autograde /\ ~Whole THEN {"autograde"} ELSE {})
                      \cup (IF settings.render THEN {"render"} ELSE {})
  <2>1. <<e, attempts[e] + 1>> \in Sub
    BY <1>1, BoundAssumption DEF TypeInv, TypeOK, Submit, Sub, Attempt
  <2>2. kinds \in SUBSET Kind
    BY DEF Kind
  <2>3. /\ \E new \in FlushedRuns(<<e, attempts[e] + 1>>, kinds) : runs' = WithRuns(new, "queued")
        /\ now' = now + 1 + MaxSkew
    BY <1>1 DEF Submit
  <2> HIDE DEF kinds
  <2> QED BY <2>1, <2>2, <2>3
<1>2. ASSUME NEW s \in Sub, Retry(s) PROVE Inserts
  <2> DEFINE kinds == {"autograde"} \cup (IF render[s] = "none" THEN {"render"} ELSE {})
  <2>1. kinds \in SUBSET Kind
    BY DEF Kind
  <2>2. /\ \E new \in FlushedRuns(s, kinds) : runs' = WithRuns(new, "queued")
        /\ now' = now + 1 + MaxSkew
    BY <1>2 DEF Retry
  <2> HIDE DEF kinds
  <2> QED BY <2>1, <2>2
<1>3. ASSUME NEW s \in Sub, AttachSnapshot(s) \/ AttachHtml(s) PROVE Inserts
  <2>1. {"snapshot"} \in SUBSET Kind
    BY DEF Kind
  <2> QED BY <1>3, <2>1 DEF AttachSnapshot, AttachHtml
<1>4. ASSUME NEW w \in Worker, WorkerStep(w) \/ Crash(w)
      PROVE  DOMAIN runs' = DOMAIN runs /\ now' = now
  BY <1>4 DEF WorkerStep, Claim, MarkGrading, AutoGrade, CommitGrade, GradeConflict, GradeFails,
       FinishSnapshot, FinishRender, PageFails, Crash, Survey, Requeue, Finish, Running, tables, TypeInv, TypeOK
<1>5. Existing \subseteq Sub
  BY DEF Existing
<1> HIDE DEF Inserts
<1>6. Inserts \/ (DOMAIN runs' = DOMAIN runs /\ now' = now)
  BY <1>1, <1>2, <1>3, <1>4, <1>5
     DEF Next, RequestStep, StaffStep, BeginScore, RecomputeScore, CommitScore, ScoreConflict,
         PatchPolicy, vars, tables
<1> QED BY <1>6 DEF Inserts

\* The clock of the runs never falls behind them.
LEMMA RunsPastNext ==
  ASSUME TypeInv, RunsInThePast, [Next]_vars
  PROVE  RunsInThePast'
<1>1. /\ now \in Nat /\ MaxSkew \in Nat
      /\ \A r \in DOMAIN runs : r.at \in Nat
  BY BoundAssumption DEF TypeInv, TypeOK, RunId
<1>2. CASE DOMAIN runs' = DOMAIN runs /\ now' = now
  BY <1>2 DEF RunsInThePast
<1>3. ASSUME NEW s \in Sub, NEW kinds \in SUBSET Kind, NEW st \in {"queued", "succeeded"},
             NEW new \in FlushedRuns(s, kinds), runs' = WithRuns(new, st), now' = now + 1 + MaxSkew
      PROVE  RunsInThePast'
  <2>1. DOMAIN runs' = DOMAIN runs \cup new
    BY <1>3 DEF WithRuns
  <2>2. \A r \in new : r.at <= now'
    BY <1>3, FlushedRows DEF TypeInv
  <2>3. \A r \in DOMAIN runs : r.at <= now'
    BY <1>1, <1>3 DEF RunsInThePast
  <2> QED BY <2>1, <2>2, <2>3 DEF RunsInThePast
<1> QED BY <1>2, <1>3, RunsChange

\* Inserting rows leaves a run and who executes it as they were.
LEMMA InsertKeeps ==
  ASSUME TypeInv, RunsInThePast, NEW s \in Sub, NEW kinds \in SUBSET Kind,
         NEW new \in FlushedRuns(s, kinds), NEW st, runs' = WithRuns(new, st), proc' = proc,
         NEW r, WillSettle(r)
  PROVE  r \in DOMAIN runs' /\ WillSettle(r)'
<1>1. r \notin new
  <2>1. r.at <= now /\ now \in Nat /\ r.at \in Nat
    BY DEF WillSettle, RunsInThePast, TypeInv, TypeOK, RunId
  <2>2. r \in new => now < r.at
    BY FlushedRows DEF TypeInv
  <2> QED BY <2>1, <2>2
<1>2. r \in DOMAIN runs' /\ runs'[r] = runs[r]
  BY <1>1 DEF WillSettle, WithRuns
<1> QED BY <1>2 DEF WillSettle, Live

\* A new autograde run will settle its attempt: nobody executes it yet.
LEMMA NewRunSettles ==
  ASSUME TypeInv, RunsInThePast, NEW s \in Sub, NEW kinds \in SUBSET Kind, "autograde" \in kinds,
         NEW new \in FlushedRuns(s, kinds), runs' = WithRuns(new, "queued"), proc' = proc
  PROVE  \E r \in DOMAIN runs' : r.sub = s /\ WillSettle(r)'
<1>1. PICK r \in new : r.kind = "autograde"
  BY FlushedRows DEF TypeInv
<1>2. r \in RunId /\ r.sub = s /\ now < r.at
  BY FlushedRows DEF TypeInv
<1>3. r \in DOMAIN runs' /\ runs'[r] = "queued"
  BY DEF WithRuns
<1>4. r \notin DOMAIN runs
  <2>1. r.at \in Nat /\ now \in Nat
    BY <1>2 DEF TypeInv, TypeOK, RunId
  <2>2. r \in DOMAIN runs => r.at <= now
    BY DEF RunsInThePast
  <2> QED BY <1>2, <2>1, <2>2
<1>5. \A p \in Proc : proc'[p].run # r
  BY <1>2, <1>4, NoneAssumption DEF TypeInv, ExecutedRunsExist
<1> QED BY <1>1, <1>2, <1>3, <1>5 DEF WillSettle, Live

\* A step of one process that does not end the run keeps it one that will settle,
\* if the process, should it execute the run, found the attempt received.
LEMMA StepKeeps ==
  ASSUME TypeInv, NEW p \in Proc, NEW r, WillSettle(r),
         \A q \in Proc \ {p} : proc'[q] = proc[q],
         proc'[p].run = r => proc'[p].view.status = "received",
         r \in DOMAIN runs', runs'[r] \in {"queued", "running"}
  PROVE  WillSettle(r)'
BY DEF WillSettle, Live

\* Claim: the worker has just loaded the attempt, which is received.
LEMMA ClaimKeeps ==
  ASSUME TypeInv, NEW w \in Worker, NEW c \in Queued, Claim(w, c),
         NEW s \in Sub, status[s] = "received", NEW r, WillSettle(r), r.sub = s
  PROVE  r \in DOMAIN runs' /\ WillSettle(r)'
<1> DEFINE x == [Idle EXCEPT !.run = c, !.sub = c.sub, !.view = Loaded(c.sub),
                             !.pc = IF c.kind = "autograde" /\ status[c.sub] # "received"
                                    THEN "grading" ELSE "claimed"]
<1>1. proc \in [Proc -> ProcState] /\ proc' = [proc EXCEPT ![w] = x]
  BY DEF TypeInv, TypeOK, Claim
<1>2. x.run = c /\ x.view = Loaded(c.sub)
  BY DEF Idle
<1>3. proc'[w] = x /\ \A q \in Proc \ {w} : proc'[q] = proc[q]
  <2> HIDE DEF x
  <2> QED BY <1>1
<1>4. proc'[w].run = r => proc'[w].view.status = "received"
  <2> HIDE DEF x
  <2> QED BY <1>2, <1>3 DEF Loaded
<1>5. r \in DOMAIN runs' /\ runs'[r] \in {"queued", "running"}
  BY DEF Claim, WillSettle, Live, TypeInv, TypeOK
<1> QED BY <1>3, <1>4, <1>5, StepKeeps

\* MarkGrading and AutoGrade: the worker goes on with the run and the row it has.
LEMMA ExecutionKeeps ==
  ASSUME TypeInv, NEW w \in Worker,
         MarkGrading(w) \/ \E auto \in 0..settings.auto_max : AutoGrade(w, auto),
         NEW r, WillSettle(r)
  PROVE  r \in DOMAIN runs' /\ WillSettle(r)'
<1>1. runs' = runs
  BY DEF MarkGrading, AutoGrade
<1>2. /\ proc'[w].run = proc[w].run /\ proc'[w].view = proc[w].view
      /\ \A q \in Proc \ {w} : proc'[q] = proc[q]
  <2>1. CASE MarkGrading(w)
    <3> DEFINE x == [proc[w] EXCEPT !.pc = "grading", !.lock = TRUE]
    <3>1. proc[w] \in ProcState /\ proc \in [Proc -> ProcState] /\ proc' = [proc EXCEPT ![w] = x]
      BY <2>1 DEF TypeInv, TypeOK, MarkGrading
    <3>2. x.run = proc[w].run /\ x.view = proc[w].view
      BY <3>1 DEF ProcState
    <3> HIDE DEF x
    <3> QED BY <3>1, <3>2
  <2>2. ASSUME NEW auto \in 0..settings.auto_max, AutoGrade(w, auto)
        PROVE  /\ proc'[w].run = proc[w].run /\ proc'[w].view = proc[w].view
               /\ \A q \in Proc \ {w} : proc'[q] = proc[q]
    BY <2>2, AutoGradeRecord
  <2> QED BY <2>1, <2>2
<1> QED BY <1>1, <1>2, StepKeeps DEF WillSettle, Live

\* A worker that stops executing, for whatever reason, does not end another run.
LEMMA LeavingKeeps ==
  ASSUME TypeInv, NEW w \in Worker, NEW x, Resting(x),
         proc' = [proc EXCEPT ![w] = x], NEW r, WillSettle(r),
         r \in DOMAIN runs', runs'[r] \in {"queued", "running"}
  PROVE  WillSettle(r)'
<1>1. x.run = None
  BY RestingIsOpen
<1>2. proc'[w] = x /\ \A q \in Proc \ {w} : proc'[q] = proc[q]
  BY DEF TypeInv, TypeOK
<1>3. r # None
  BY NoneAssumption DEF TypeInv, TypeOK, WillSettle
<1> QED BY <1>1, <1>2, <1>3, StepKeeps

\* A worker that records an outcome while the attempt stays received did so for
\* another run.
LEMMA OutcomeKeeps ==
  ASSUME TypeInv, AutoGraded, NEW w \in Worker, CommitGrade(w) \/ GradeFails(w) \/
           FinishSnapshot(w) \/ FinishRender(w) \/ PageFails(w),
         NEW s \in Sub, status'[s] = "received", NEW r, WillSettle(r), r.sub = s
  PROVE  r \in DOMAIN runs' /\ WillSettle(r)'
<1>1. \E outcome : Finish(w, outcome)
  BY DEF CommitGrade, GradeFails, FinishSnapshot, FinishRender, PageFails
<1>2. OpenAs(w, proc[w]) /\ proc[w].pc \notin AtRest
  BY ProcTypes DEF CommitGrade, GradeFails, FinishSnapshot, FinishRender, PageFails
<1>3. proc[w].run \in RunId /\ proc[w].run.sub = proc[w].sub
  BY <1>2 DEF OpenAs
<1>4. proc[w].run # r
  <2> SUFFICES ASSUME proc[w].run = r PROVE FALSE
    OBVIOUS
  <2>1. proc[w].view.status = "received" /\ proc[w].sub = s /\ proc[w].run.kind = "autograde"
    BY <1>3 DEF WillSettle
  <2>2. CASE CommitGrade(w)
    <3>1. WritesGraded(w)
      BY <2>1 DEF WritesGraded, AutoGraded
    <3> QED BY <2>1, <2>2, <3>1 DEF CommitGrade, StatusAfterGrade, TypeInv, TypeOK
  <2>3. CASE GradeFails(w)
    BY <2>1, <2>3 DEF GradeFails, WritesFailed, TypeInv, TypeOK
  <2> QED BY <2>1, <2>2, <2>3 DEF FinishSnapshot, FinishRender, PageFails
<1>5. r \in DOMAIN runs' /\ runs'[r] \in {"queued", "running"}
  BY <1>1, <1>4 DEF Finish, WillSettle, Live, TypeInv, TypeOK
<1>6. proc' = [proc EXCEPT ![w] = Idle]
  BY <1>1 DEF Finish
<1> QED BY <1>5, <1>6, IdleRests, LeavingKeeps

\* The word "received" comes with an attempt or a retry; no other step writes it on
\* an autograded question.
LEMMA ReceivedBefore ==
  ASSUME TypeInv, [Next]_vars, AutoGraded, NEW s \in Sub, status'[s] = "received"
  PROVE  \/ status[s] = "received"
         \/ \E e \in Enrollment, snap \in Sent : Submit(e, snap) /\ s = <<e, attempts[e] + 1>>
         \/ Retry(s)
<1>1. status \in [Sub -> Status]
  BY DEF TypeInv, TypeOK
<1>2. ASSUME NEW e \in Enrollment, NEW snap \in Sent, Submit(e, snap)
      PROVE  status'[s] = status[s] \/ s = <<e, attempts[e] + 1>>
  BY <1>1, <1>2 DEF Submit
<1>3. ASSUME NEW x \in Existing, Retry(x) PROVE status'[s] = status[s] \/ s = x
  BY <1>1, <1>3 DEF Retry
<1>4. ASSUME NEW w \in Worker, CommitGrade(w) PROVE status'[s] = status[s] \/ status'[s] = "graded"
  BY <1>1, <1>4 DEF CommitGrade, StatusAfterGrade, AutoGraded
<1>5. ASSUME NEW w \in Worker, GradeFails(w) PROVE status'[s] = status[s] \/ status'[s] = "failed"
  BY <1>1, <1>5 DEF GradeFails
<1>6. ASSUME NEW g \in Grader, CommitScore(g) PROVE status'[s] = status[s] \/ status'[s] = "graded"
  BY <1>1, <1>6 DEF CommitScore
<1> QED BY <1>2, <1>3, <1>4, <1>5, <1>6
        DEF Next, WorkerStep, RequestStep, StaffStep, Claim, MarkGrading, AutoGrade,
            GradeConflict, FinishSnapshot, FinishRender, PageFails, Crash, Survey, Requeue,
            BeginScore, RecomputeScore, ScoreConflict, AttachSnapshot, AttachHtml,
            PatchPolicy, vars, tables

\* A run that will settle an attempt does so until it has: no step takes it away.
LEMMA SettlingKept ==
  ASSUME TypeInv, RunsInThePast, [Next]_vars, AutoGraded, NEW s \in Sub,
         status[s] = "received", status'[s] = "received", NEW r, WillSettle(r), r.sub = s
  PROVE  r \in DOMAIN runs' /\ WillSettle(r)'
<1>1. CASE \E w \in Worker : WorkerStep(w) \/ Crash(w)
  <2>1. PICK w \in Worker : WorkerStep(w) \/ Crash(w)
    BY <1>1
  <2>2. CASE GradeConflict(w) \/ Crash(w)
    <3>1. runs' = runs /\ proc' = [proc EXCEPT ![w] = [Idle EXCEPT !.pc = "down"]]
      BY <2>2 DEF GradeConflict, Crash
    <3> QED BY <3>1, IdleRests, LeavingKeeps DEF WillSettle, Live
  <2>3. CASE Survey(w)
    <3> DEFINE x == [Idle EXCEPT !.pc = "requeueing", !.stale = Running]
    <3>1. Resting(x) /\ runs' = runs /\ proc' = [proc EXCEPT ![w] = x]
      BY <2>3, IdleRests DEF Survey, Running, TypeInv, TypeOK
    <3> HIDE DEF x
    <3> QED BY <3>1, LeavingKeeps DEF WillSettle, Live
  <2>4. CASE Requeue(w)
    <3>1. proc' = [proc EXCEPT ![w] = Idle] /\ Resting(Idle)
      BY <2>4, IdleRests DEF Requeue
    <3>2. r \in DOMAIN runs' /\ runs'[r] \in {"queued", "running"}
      BY <2>4 DEF Requeue, WillSettle, Live
    <3> QED BY <3>1, <3>2, LeavingKeeps
  <2> QED BY <2>1, <2>2, <2>3, <2>4, ClaimKeeps, ExecutionKeeps, OutcomeKeeps DEF WorkerStep
<1>2. ASSUME NEW g \in Grader,
             \/ RequestStep(g)
             \/ \E x \in Sub, manual \in {None} \cup 0..settings.manual_max, final \in BOOLEAN :
                  BeginScore(g, x, manual, final)
      PROVE  r \in DOMAIN runs' /\ WillSettle(r)'
  <2>1. runs' = runs /\ \A q \in Worker : proc'[q] = proc[q]
    BY <1>2, ProcAssumption DEF TypeInv, TypeOK, RequestStep, RecomputeScore, CommitScore, ScoreConflict, BeginScore
  <2>2. \A q \in Grader : proc'[q].run = None
    <3>1. OpenTransactions'
      BY TypeNext DEF TypeInv
    <3> QED BY <3>1 DEF OpenTransactions, OpenAs
  <2>3. r # None
    BY NoneAssumption DEF TypeInv, TypeOK, WillSettle
  <2> QED BY <2>1, <2>2, <2>3 DEF WillSettle, Live
<1>3. ASSUME proc' = proc, runs' = runs \/ now' # now
      PROVE  r \in DOMAIN runs' /\ WillSettle(r)'
  <2>1. CASE runs' = runs
    BY <1>3, <2>1 DEF WillSettle, Live
  <2>2. ASSUME NEW x \in Sub, NEW kinds \in SUBSET Kind, NEW st \in {"queued", "succeeded"},
               NEW new \in FlushedRuns(x, kinds), runs' = WithRuns(new, st)
        PROVE  r \in DOMAIN runs' /\ WillSettle(r)'
    BY <1>3, <2>2, InsertKeeps
  <2> QED BY <1>3, <2>1, <2>2, RunsChange
<1>4. ASSUME \/ \E e \in Enrollment, snap \in Sent : Submit(e, snap)
             \/ \E x \in Existing : Retry(x) \/ AttachSnapshot(x) \/ AttachHtml(x)
             \/ \E policy \in Policy : PatchPolicy(policy)
             \/ UNCHANGED vars
      PROVE  proc' = proc /\ (runs' = runs \/ now' # now)
  <2>1. now + 1 + MaxSkew # now
    BY BoundAssumption DEF TypeInv, TypeOK
  <2> QED BY <1>4, <2>1 DEF Submit, Retry, AttachSnapshot, AttachHtml, PatchPolicy, vars
<1>5. Existing \subseteq Sub
  BY DEF Existing
<1> QED BY <1>1, <1>2, <1>3, <1>4, <1>5 DEF Next, StaffStep

\* Every received attempt has a run that will settle it, after any step.
LEMMA SettlingNext ==
  ASSUME TypeInv, SettleInv, [Next]_vars
  PROVE  SettlingRuns'
<1> SUFFICES ASSUME AutoGraded, NEW s \in Sub, s[2] <= attempts'[s[1]], status'[s] = "received"
             PROVE  \E r \in DOMAIN runs' : r.sub = s /\ WillSettle(r)'
  BY SettingsKept DEF SettlingRuns, Existing
<1>1. RunsInThePast /\ SettlingRuns
  BY DEF SettleInv
<1>2. CASE Retry(s)
  <2> DEFINE kinds == {"autograde"} \cup (IF render[s] = "none" THEN {"render"} ELSE {})
  <2>1. PICK new \in FlushedRuns(s, kinds) : runs' = WithRuns(new, "queued")
    BY <1>2 DEF Retry
  <2>2. kinds \in SUBSET Kind /\ "autograde" \in kinds /\ proc' = proc
    BY <1>2 DEF Kind, Retry
  <2> HIDE DEF kinds
  <2> QED BY <1>1, <2>1, <2>2, NewRunSettles
<1>3. ASSUME NEW e \in Enrollment, NEW snap \in Sent, Submit(e, snap), s = <<e, attempts[e] + 1>>
      PROVE  \E r \in DOMAIN runs' : r.sub = s /\ WillSettle(r)'
  <2> DEFINE kinds == {"snapshot"}
                      \cup (IF settings.autograde /\ ~Whole THEN {"autograde"} ELSE {})
                      \cup (IF settings.render THEN {"render"} ELSE {})
  <2>1. PICK new \in FlushedRuns(s, kinds) : runs' = WithRuns(new, "queued")
    BY <1>3 DEF Submit
  <2>2. kinds \in SUBSET Kind /\ "autograde" \in kinds /\ proc' = proc
    BY <1>3 DEF Kind, Submit, AutoGraded
  <2> HIDE DEF kinds
  <2> QED BY <1>1, <2>1, <2>2, NewRunSettles
<1>4. CASE status[s] = "received" /\ s \in Existing
  <2>1. PICK r \in DOMAIN runs : r.sub = s /\ WillSettle(r)
    BY <1>1, <1>4 DEF SettlingRuns
  <2> QED BY <1>1, <1>4, <2>1, SettlingKept
<1>5. CASE s \notin Existing
  <2>1. attempts'[s[1]] # attempts[s[1]]
    BY <1>5 DEF Existing
  <2>2. PICK e \in Enrollment, snap \in Sent : Submit(e, snap)
    BY <2>1 DEF Next, WorkerStep, RequestStep, StaffStep, Claim, MarkGrading, AutoGrade, CommitGrade,
         GradeConflict, GradeFails, FinishSnapshot, FinishRender, PageFails, Crash, Survey, Requeue,
         BeginScore, RecomputeScore, CommitScore, ScoreConflict, Retry, AttachSnapshot, AttachHtml,
         PatchPolicy, vars, tables
  <2>3. s = <<e, attempts[e] + 1>>
    BY <1>5, <2>1, <2>2, BoundAssumption DEF Submit, TypeInv, TypeOK, Sub, Existing, Attempt
  <2> QED BY <1>3, <2>2, <2>3
<1> QED BY <1>2, <1>3, <1>4, <1>5, ReceivedBefore

\* No interleaving of runs, retries, hand scores, worker deaths and doubly executed
\* runs leaves an attempt of an autograded question "received" with nothing queued
\* or running that will settle it, for any number of workers.
THEOREM NothingStranded == Spec => []ReceivedHasLiveRun
<1>1. Init => SettleInv
  BY DEF Init, SettleInv, RunsInThePast, SettlingRuns, Existing, Sub, Attempt
<1>2. TypeInv /\ SettleInv /\ [Next]_vars => SettleInv'
  BY RunsPastNext, SettlingNext DEF SettleInv
<1>3. SettleInv => ReceivedHasLiveRun
  BY DEF SettleInv, SettlingRuns, ReceivedHasLiveRun, LiveRun, WillSettle
<1> QED BY <1>1, <1>2, <1>3, Typing, PTL DEF Spec


-----------------------------------------------------------------------------
(* The official points are those of a committed score.                     *)

\* The points of a grade row, written with row sc of attempt s, are those of a row
\* of the table or of the row written with it.
BackedIn(table, s, sc, row) ==
  row.points # None =>
    /\ row.attempt \in Attempt
    /\ \E x \in table[<<s[1], row.attempt>>] \cup (IF row.attempt = s[2] THEN {sc} ELSE {}) :
         row.points = Total(x)

PendingGradesBacked ==
  \A p \in Proc : proc[p].pc = "scored" /\ proc[p].grade # None
    => BackedIn(scores, proc[p].sub, proc[p].score, proc[p].grade.row)

GradesBacked ==
  \A e \in Enrollment : grades[e] # None /\ grades[e].points # None =>
    \E k \in Attempt : \E x \in scores[<<e, k>>] : grades[e].points = Total(x)

PointsInv == PendingGradesBacked /\ GradesBacked

\* Rows are only ever added to.
LEMMA RowsStay ==
  ASSUME TypeInv, [Next]_vars, NEW s \in Sub
  PROVE  scores[s] \subseteq scores'[s]
BY RowsGrow

\* A recomputation writes the points of a row it sees.
LEMMA RecomputedBacked ==
  ASSUME TypeInv, NEW s \in Sub, NEW sc \in Score
  PROVE  BackedIn(scores, s, sc, PendingGrade(s, sc).row)
<1> DEFINE row == RecomputedGrade(s, sc)
<1>1. /\ row.attempt \in 0..attempts[s[1]]
      /\ row.points # None
           => /\ row.attempt # 0
              /\ \E x \in scores[<<s[1], row.attempt>>] \cup (IF row.attempt = s[2] THEN {sc} ELSE {}) :
                   row.points = Total(x)
  BY RecomputedTypes
<1>2. attempts[s[1]] \in 0..MaxAttempts /\ MaxAttempts \in Nat
  BY BoundAssumption DEF TypeInv, TypeOK, Sub
<1>3. PendingGrade(s, sc).row = row
  BY DEF PendingGrade
<1> HIDE DEF row
<1>4. row.points # None => row.attempt \in Attempt
  BY <1>1, <1>2 DEF Attempt
<1> QED BY <1>1, <1>3, <1>4 DEF BackedIn

\* A grade row that is backed stays so while rows are added.
LEMMA BackedStays ==
  ASSUME TypeInv, [Next]_vars, NEW s \in Sub, NEW sc, NEW row, BackedIn(scores, s, sc, row)
  PROVE  BackedIn(scores', s, sc, row)
<1> SUFFICES ASSUME row.points # None
             PROVE  /\ row.attempt \in Attempt
                    /\ \E x \in scores'[<<s[1], row.attempt>>]
                                 \cup (IF row.attempt = s[2] THEN {sc} ELSE {}) :
                         row.points = Total(x)
  BY DEF BackedIn
<1>1. row.attempt \in Attempt /\ <<s[1], row.attempt>> \in Sub
  BY DEF BackedIn, Sub
<1>2. scores[<<s[1], row.attempt>>] \subseteq scores'[<<s[1], row.attempt>>]
  BY <1>1, RowsStay
<1> QED BY <1>1, <1>2 DEF BackedIn

\* What a process is about to write is backed after any step.
LEMMA PendingGradesNext ==
  ASSUME TypeInv, PendingGradesBacked, [Next]_vars
  PROVE  PendingGradesBacked'
<1> SUFFICES ASSUME NEW p \in Proc, proc'[p].pc = "scored", proc'[p].grade # None
             PROVE  BackedIn(scores', proc'[p].sub, proc'[p].score, proc'[p].grade.row)
  BY DEF PendingGradesBacked
<1> SUFFICES /\ proc'[p].sub \in Sub
             /\ BackedIn(scores, proc'[p].sub, proc'[p].score, proc'[p].grade.row)
  BY BackedStays
<1>1. CASE proc'[p] = proc[p]
  BY <1>1, ProcTypes DEF PendingGradesBacked, OpenAs
<1>2. ASSUME p \in Worker, NEW auto \in 0..settings.auto_max, AutoGrade(p, auto)
      PROVE  /\ proc'[p].sub \in Sub
             /\ BackedIn(scores, proc'[p].sub, proc'[p].score, proc'[p].grade.row)
  <2>1. proc[p].sub \in Sub
    BY <1>2, ProcTypes DEF OpenAs, AutoGrade
  <2>2. AutoScore(proc[p].sub, auto) \in Score
    BY <2>1, AutoScoreTypes DEF TypeInv, TypeOK, Setting
  <2>3. /\ proc'[p].sub = proc[p].sub /\ proc'[p].score = AutoScore(proc[p].sub, auto)
        /\ proc'[p].grade = PendingGrade(proc[p].sub, AutoScore(proc[p].sub, auto))
    BY <1>2, AutoGradeRecord
  <2> QED BY <2>1, <2>2, <2>3, RecomputedBacked
<1>3. ASSUME p \in Grader, RecomputeScore(p)
      PROVE  /\ proc'[p].sub \in Sub
             /\ BackedIn(scores, proc'[p].sub, proc'[p].score, proc'[p].grade.row)
  <2>1. proc[p].sub \in Sub /\ proc[p].score \in Score
    BY <1>3, ProcTypes DEF OpenAs, RecomputeScore
  <2> QED BY <1>3, <2>1, RecomputeScoreRecord, RecomputedBacked
<1> QED BY <1>1, <1>2, <1>3, BecomesScored

\* The grade rows a step leaves alone, and the one a commit writes.
LEMMA GradesChange ==
  ASSUME TypeInv, [Next]_vars, NEW e \in Enrollment
  PROVE  \/ grades'[e] = grades[e]
         \/ \E p \in Proc :
              /\ proc[p].pc = "scored" /\ proc[p].grade # None
              /\ proc[p].sub \in Sub /\ proc[p].sub[1] = e
              /\ scores' = [scores EXCEPT ![proc[p].sub] = @ \cup {proc[p].score}]
              /\ grades'[e] = GradeWritten(p) /\ proc' = [proc EXCEPT ![p] = Idle]
<1>1. ASSUME NEW p \in Worker \cup Grader, proc[p].pc = "scored", ~Conflicts(p), CommitScoreOf(p)
      PROVE  \/ grades'[e] = grades[e]
             \/ /\ proc[p].pc = "scored" /\ proc[p].grade # None
                /\ proc[p].sub \in Sub /\ proc[p].sub[1] = e
                /\ scores' = [scores EXCEPT ![proc[p].sub] = @ \cup {proc[p].score}]
                /\ grades'[e] = GradeWritten(p)
  <2>1. proc[p].sub \in Sub
    BY <1>1, ProcTypes DEF OpenAs
  <2>2. grades' = IF proc[p].grade = None THEN grades
                  ELSE [grades EXCEPT ![proc[p].sub[1]] = GradeWritten(p)]
    BY <1>1 DEF CommitScoreOf
  <2>3. grades'[e] = grades[e]
        \/ (proc[p].grade # None /\ proc[p].sub[1] = e /\ grades'[e] = GradeWritten(p))
    BY <2>2 DEF TypeInv, TypeOK
  <2> QED BY <1>1, <2>1, <2>3, CommitTypes
<1>2. \/ grades' = grades
      \/ \E p \in Worker \cup Grader :
           proc[p].pc = "scored" /\ ~Conflicts(p) /\ CommitScoreOf(p) /\ proc' = [proc EXCEPT ![p] = Idle]
  BY DEF Next, WorkerStep, RequestStep, StaffStep, Submit, Claim, MarkGrading, AutoGrade, CommitGrade,
         GradeConflict, GradeFails, FinishSnapshot, FinishRender, PageFails, Crash, Survey, Requeue,
         BeginScore, RecomputeScore, CommitScore, ScoreConflict, Retry, AttachSnapshot, AttachHtml,
         PatchPolicy, Finish, vars, tables
<1> QED BY <1>1, <1>2

\* A row a transaction is about to write is backed by the table once it has committed.
LEMMA CommittedBacked ==
  ASSUME TypeInv, NEW p \in Proc, proc[p].sub \in Sub, NEW row,
         BackedIn(scores, proc[p].sub, proc[p].score, row), row.points # None,
         scores' = [scores EXCEPT ![proc[p].sub] = @ \cup {proc[p].score}]
  PROVE  /\ row.attempt \in Attempt
         /\ \E x \in scores'[<<proc[p].sub[1], row.attempt>>] : row.points = Total(x)
<1> DEFINE k == row.attempt
           s == proc[p].sub
           e == s[1]
<1>1. /\ k \in Attempt
      /\ \E x \in scores[<<e, k>>] \cup (IF k = s[2] THEN {proc[p].score} ELSE {}) : row.points = Total(x)
  BY DEF BackedIn
<1>2. <<e, k>> \in Sub
  BY <1>1 DEF Sub
<1>3. k = s[2] => s = <<e, k>>
  <2> HIDE DEF k
  <2> QED BY DEF Sub
<1>4. scores[<<e, k>>] \cup (IF k = s[2] THEN {proc[p].score} ELSE {}) \subseteq scores'[<<e, k>>]
  <2> HIDE DEF k, e
  <2> QED BY <1>2, <1>3 DEF TypeInv, TypeOK
<1> HIDE DEF s, e
<1>5. PICK x \in scores'[<<e, k>>] : row.points = Total(x)
  BY <1>1, <1>4
<1> QED BY <1>1, <1>5 DEF s, e

\* Every grade row with points is backed after any step.
LEMMA GradesNext ==
  ASSUME TypeInv, PointsInv, [Next]_vars
  PROVE  GradesBacked'
<1> SUFFICES ASSUME NEW e \in Enrollment, grades'[e] # None, grades'[e].points # None
             PROVE  \E k \in Attempt : \E x \in scores'[<<e, k>>] : grades'[e].points = Total(x)
  BY DEF GradesBacked
<1>1. ASSUME grades[e] # None, grades'[e].points = grades[e].points
      PROVE  \E k \in Attempt : \E x \in scores'[<<e, k>>] : grades'[e].points = Total(x)
  <2>1. PICK k \in Attempt : \E x \in scores[<<e, k>>] : grades[e].points = Total(x)
    BY <1>1 DEF PointsInv, GradesBacked
  <2>2. <<e, k>> \in Sub
    BY <2>1 DEF Sub
  <2> QED BY <1>1, <2>1, <2>2, RowsStay
<1>2. ASSUME NEW p \in Proc, proc[p].pc = "scored", proc[p].grade # None,
             proc[p].sub \in Sub, proc[p].sub[1] = e,
             scores' = [scores EXCEPT ![proc[p].sub] = @ \cup {proc[p].score}],
             grades'[e].points = proc[p].grade.row.points
      PROVE  \E k \in Attempt : \E x \in scores'[<<e, k>>] : grades'[e].points = Total(x)
  <2>1. BackedIn(scores, proc[p].sub, proc[p].score, proc[p].grade.row)
    BY <1>2 DEF PointsInv, PendingGradesBacked
  <2>2. proc[p].grade.row.points # None
    BY <1>2
  <2>3. /\ proc[p].grade.row.attempt \in Attempt
        /\ \E x \in scores'[<<proc[p].sub[1], proc[p].grade.row.attempt>>] :
             proc[p].grade.row.points = Total(x)
    BY <1>2, <2>1, <2>2, CommittedBacked
  <2> QED BY <1>2, <2>3
<1>3. ASSUME NEW p \in Proc, proc[p].grade # None, proc[p].sub \in Sub, proc[p].sub[1] = e,
             grades'[e] = GradeWritten(p)
      PROVE  \/ grades'[e].points = proc[p].grade.row.points
             \/ grades[e] # None /\ grades'[e].points = grades[e].points
  BY <1>3, WrittenTypes
<1>4. CASE grades'[e] = grades[e]
  BY <1>1, <1>4
<1> QED BY <1>1, <1>2, <1>3, <1>4, GradesChange

\* Only one recomputation of a student's grade at a time: it found the row as it still is,
\* and the points in the row are those of the attempt the row names.
SeenIsCommitted == \A p \in Proc : Recomputed(p) => proc[p].grade.seen = grades[proc[p].sub[1]]

NamedBacked ==
  \A e \in Enrollment : grades[e] # None /\ grades[e].points # None =>
    /\ grades[e].attempt \in Attempt
    /\ \E x \in scores[<<e, grades[e].attempt>>] : grades[e].points = Total(x)

RaceInv ==
  /\ TwoRecomputed => raced
  /\ ~raced => SeenIsCommitted /\ NamedBacked

\* Without a race the row a recomputation found stays until it has committed.
LEMMA SeenNext ==
  ASSUME TypeInv, SeenIsCommitted, ~TwoRecomputed, [Next]_vars
  PROVE  SeenIsCommitted'
<1> SUFFICES ASSUME NEW p \in Proc, proc'[p].pc = "scored", proc'[p].grade # None
             PROVE  proc'[p].grade.seen = grades'[proc'[p].sub[1]]
  BY DEF SeenIsCommitted, Recomputed
<1>1. CASE proc'[p] = proc[p]
  <2> DEFINE e == proc[p].sub[1]
  <2>1. Recomputed(p) /\ e \in Enrollment /\ proc[p].grade.seen = grades[e]
    BY <1>1, ProcTypes DEF OpenAs, Recomputed, SeenIsCommitted, Sub
  <2>2. ASSUME NEW q \in Proc, proc[q].pc = "scored", proc[q].grade # None, proc[q].sub[1] = e,
               proc' = [proc EXCEPT ![q] = Idle]
        PROVE  FALSE
    <3>1. q = p
      BY <2>1, <2>2 DEF TwoRecomputed, Recomputed
    <3> QED BY <2>2, <3>1 DEF Idle, TypeInv, TypeOK
  <2>3. grades'[e] = grades[e]
    <3> HIDE DEF e
    <3> QED BY <2>1, <2>2, GradesChange
  <2> QED BY <1>1, <2>1, <2>3
<1>2. ASSUME p \in Worker, NEW auto \in 0..settings.auto_max, AutoGrade(p, auto)
      PROVE  proc'[p].grade.seen = grades'[proc'[p].sub[1]]
  <2>1. proc'[p].grade = PendingGrade(proc[p].sub, AutoScore(proc[p].sub, auto)) /\ proc'[p].sub = proc[p].sub
    BY <1>2, AutoGradeRecord
  <2> QED BY <1>2, <2>1 DEF PendingGrade, AutoGrade, tables
<1>3. ASSUME p \in Grader, RecomputeScore(p)
      PROVE  proc'[p].grade.seen = grades'[proc'[p].sub[1]]
  <2>1. proc'[p].grade = PendingGrade(proc[p].sub, proc[p].score) /\ proc'[p].sub = proc[p].sub
    BY <1>3, RecomputeScoreRecord
  <2> QED BY <1>3, <2>1 DEF PendingGrade, RecomputeScore, tables
<1> QED BY <1>1, <1>2, <1>3, BecomesScored

\* Without a race a commit writes both columns, so that they stay together.
LEMMA NamedNext ==
  ASSUME TypeInv, PendingGradesBacked, SeenIsCommitted, NamedBacked, [Next]_vars
  PROVE  NamedBacked'
<1> SUFFICES ASSUME NEW e \in Enrollment, grades'[e] # None, grades'[e].points # None
             PROVE  /\ grades'[e].attempt \in Attempt
                    /\ \E x \in scores'[<<e, grades'[e].attempt>>] : grades'[e].points = Total(x)
  BY DEF NamedBacked
<1>1. CASE grades'[e] = grades[e]
  <2>1. /\ grades[e].attempt \in Attempt
        /\ \E x \in scores[<<e, grades[e].attempt>>] : grades[e].points = Total(x)
    BY <1>1 DEF NamedBacked
  <2>2. <<e, grades[e].attempt>> \in Sub
    BY <2>1 DEF Sub
  <2> QED BY <1>1, <2>1, <2>2, RowsStay
<1>2. ASSUME NEW p \in Proc, proc[p].pc = "scored", proc[p].grade # None,
             proc[p].sub \in Sub, proc[p].sub[1] = e,
             scores' = [scores EXCEPT ![proc[p].sub] = @ \cup {proc[p].score}],
             grades'[e] = GradeWritten(p)
      PROVE  /\ grades'[e].attempt \in Attempt
             /\ \E x \in scores'[<<e, grades'[e].attempt>>] : grades'[e].points = Total(x)
  <2>1. grades'[e] = proc[p].grade.row
    BY <1>2, WrittenIsRow DEF SeenIsCommitted, Recomputed
  <2>2. BackedIn(scores, proc[p].sub, proc[p].score, proc[p].grade.row)
    BY <1>2 DEF PendingGradesBacked
  <2>3. proc[p].grade.row.points # None
    BY <2>1
  <2>4. /\ proc[p].grade.row.attempt \in Attempt
        /\ \E x \in scores'[<<proc[p].sub[1], proc[p].grade.row.attempt>>] :
             proc[p].grade.row.points = Total(x)
    BY <1>2, <2>2, <2>3, CommittedBacked
  <2> QED BY <1>2, <2>1, <2>4
<1> QED BY <1>1, <1>2, GradesChange

\* What is known while no two recomputations have crossed holds after any step.
LEMMA RaceNext ==
  ASSUME TypeInv, PendingGradesBacked, RaceInv, [Next /\ Watch]_watched
  PROVE  RaceInv' /\ (raced => raced')
<1>1. [Next]_vars
  BY DEF watched
<1>2. (TwoRecomputed => raced)' /\ (raced => raced')
  BY DEF Watch, watched, vars, RaceInv, TwoRecomputed, Recomputed
<1>3. ASSUME ~raced' PROVE SeenIsCommitted' /\ NamedBacked'
  <2>1. SeenIsCommitted /\ NamedBacked /\ ~TwoRecomputed
    BY <1>2, <1>3 DEF RaceInv
  <2> QED BY <1>1, <2>1, SeenNext, NamedNext
<1> QED BY <1>2, <1>3 DEF RaceInv

\* Where no process is in a transaction and no grade is written, there was no race.
LEMMA RaceInit == WatchedInit => PointsInv /\ RaceInv
<1> SUFFICES ASSUME WatchedInit PROVE PointsInv /\ RaceInv
  OBVIOUS
<1>1. \A p \in Proc : proc[p].pc = "idle"
  BY DEF WatchedInit, Init, Idle
<1>2. \A e \in Enrollment : grades[e] = None
  BY DEF WatchedInit, Init
<1> QED BY <1>1, <1>2 DEF PointsInv, PendingGradesBacked, GradesBacked, RaceInv, SeenIsCommitted,
                          NamedBacked, TwoRecomputed, Recomputed

\* Rolled-back work never reaches the gradebook: official points are the total of a
\* committed score of that student, and of the attempt the row names unless two
\* recomputations crossed, whose columns may then come from both.
THEOREM GradesAreScores == WatchedSpec => []GradeIsACommittedScore
<1>1. WatchedInit => Init /\ PointsInv /\ RaceInv
  BY RaceInit DEF WatchedInit
<1>2. [Next /\ Watch]_watched => [Next]_vars
  BY DEF watched
<1>3. TypeInv /\ PointsInv /\ RaceInv /\ [Next /\ Watch]_watched => PointsInv' /\ RaceInv'
  BY <1>2, PendingGradesNext, GradesNext, RaceNext DEF PointsInv
<1>4. PointsInv /\ RaceInv => GradeIsACommittedScore
  <2> SUFFICES ASSUME PointsInv, RaceInv, NEW e \in Enrollment, grades[e] # None, grades[e].points # None
               PROVE  /\ \E k \in Attempt : IsTotalOf(grades[e].points, scores[<<e, k>>])
                      /\ ~raced => IsTotalOf(grades[e].points, scores[<<e, grades[e].attempt>>])
    BY DEF GradeIsACommittedScore
  <2> QED BY DEF PointsInv, GradesBacked, RaceInv, NamedBacked, IsTotalOf
<1>5. Init /\ [][Next]_vars => []TypeInv
  BY Typing DEF Spec
<1> QED BY <1>1, <1>2, <1>3, <1>4, <1>5, PTL DEF WatchedSpec


-----------------------------------------------------------------------------
(* Nobody's hand-entered points are invented.                              *)

\* The manual points of a row, if a worker wrote it, are those of an older final row
\* of the staff.
HandEntered(rows, x) ==
  x.by = "worker" /\ x.manual # None
    => \E y \in rows : y.by = "staff" /\ y.final /\ y.manual = x.manual /\ y.at < x.at

\* graded_at of the rows committed and to be committed is in the past.
RowsInThePast == \A s \in Sub : \A x \in scores[s] : x.at <= ticks[s]

RowAccounted(p) ==
  proc[p].pc \in {"begun", "scored"}
    => /\ proc[p].score.at <= ticks[proc[p].sub]
       /\ HandEntered(scores[proc[p].sub], proc[p].score)

HandInv ==
  /\ RowsInThePast
  /\ \A p \in Proc : RowAccounted(p)
  /\ \A s \in Sub : \A x \in scores[s] : HandEntered(scores[s], x)

\* The clock of an attempt's rows does not run backwards.
LEMMA TicksGrow ==
  ASSUME TypeInv, [Next]_vars, NEW s \in Sub
  PROVE  ticks[s] \in Nat /\ ticks'[s] \in Nat /\ ticks[s] <= ticks'[s]
<1>1. ticks \in [Sub -> Nat]
  BY DEF TypeInv, TypeOK
<1>2. ticks' = ticks \/ \E x \in Sub : ticks' = [ticks EXCEPT ![x] = @ + 1]
  <2>1. ASSUME NEW w \in Worker, NEW auto, AutoGrade(w, auto)
        PROVE  \E x \in Sub : ticks' = [ticks EXCEPT ![x] = @ + 1]
    BY <2>1, ProcTypes DEF OpenAs, AutoGrade
  <2>2. ASSUME NEW x \in Existing, NEW g \in Grader, NEW manual, NEW final, BeginScore(g, x, manual, final)
        PROVE  \E y \in Sub : ticks' = [ticks EXCEPT ![y] = @ + 1]
    BY <2>2 DEF Existing, BeginScore
  <2> QED BY <2>1, <2>2
       DEF Next, WorkerStep, RequestStep, StaffStep, Submit, Claim, MarkGrading, CommitGrade,
           GradeConflict, GradeFails, FinishSnapshot, FinishRender, PageFails, Crash, Survey, Requeue,
           RecomputeScore, CommitScore, ScoreConflict, Retry, AttachSnapshot, AttachHtml,
           PatchPolicy, vars, tables
<1>3. CASE ticks' = ticks
  BY <1>1, <1>3
<1>4. ASSUME NEW x \in Sub, ticks' = [ticks EXCEPT ![x] = @ + 1]
      PROVE  ticks'[s] = ticks[s] \/ ticks'[s] = ticks[s] + 1
  BY <1>1, <1>4
<1>5. ticks'[s] = ticks[s] \/ ticks'[s] = ticks[s] + 1
  BY <1>2, <1>3, <1>4
<1> QED BY <1>1, <1>5

\* A row that a person accounts for stays one while rows are added.
LEMMA HandEnteredStays ==
  ASSUME NEW rows, NEW more, rows \subseteq more, NEW x, HandEntered(rows, x)
  PROVE  HandEntered(more, x)
BY DEF HandEntered

\* The row a worker writes carries over the points of an older final row.
LEMMA AutoScoreHandEntered ==
  ASSUME TypeInv, HandInv, NEW s \in Sub, NEW auto
  PROVE  HandEntered(scores[s], AutoScore(s, auto))
<1> DEFINE prev == LatestFinal(scores[s])
           sc == AutoScore(s, auto)
<1>1. scores[s] \in Rows /\ ticks[s] \in Nat
  BY DEF TypeInv, TypeOK, FiniteRows, Rows
<1>2. prev # None => prev \in scores[s] /\ prev.final
  BY <1>1, ChosenRows DEF FinalRows
<1>3. sc.manual = (IF prev = None THEN None ELSE prev.manual) /\ sc.at = ticks[s] + 1
  BY DEF AutoScore, Carried
<1> HIDE DEF prev, sc
<1>4. SUFFICES ASSUME sc.manual # None
               PROVE  \E y \in scores[s] : y.by = "staff" /\ y.final /\ y.manual = sc.manual /\ y.at < sc.at
  BY DEF HandEntered, sc
<1>5. prev \in scores[s] /\ prev.final /\ prev.manual = sc.manual
  BY <1>2, <1>3, <1>4
<1>6. \A y \in scores[s] : y.at \in Nat /\ y.at < sc.at
  <2>1. \A y \in scores[s] : y.at \in Nat /\ y.at <= ticks[s]
    BY DEF HandInv, RowsInThePast, TypeInv, TypeOK, Score
  <2> QED BY <1>1, <1>3, <2>1
<1>7. prev.by \in {"worker", "staff"}
  BY <1>5 DEF TypeInv, TypeOK, Score
<1>8. prev.by = "worker" => \E y \in scores[s] : y.by = "staff" /\ y.final /\ y.manual = prev.manual
  BY <1>4, <1>5 DEF HandInv, HandEntered
<1> QED BY <1>5, <1>6, <1>7, <1>8

\* The row a process is about to commit is accounted for after any step.
LEMMA PendingRowNext ==
  ASSUME TypeInv, HandInv, [Next]_vars, NEW p \in Proc, proc'[p].pc \in {"begun", "scored"}
  PROVE  /\ proc'[p].score.at <= ticks'[proc'[p].sub]
         /\ HandEntered(scores'[proc'[p].sub], proc'[p].score)
<1> DEFINE s == proc'[p].sub
           x == proc'[p].score
<1>1. s \in Sub /\ x \in Score
  <2>1. OpenAs(p, proc[p])'
    BY TypeNext DEF TypeInv, OpenTransactions
  <2> QED BY <2>1 DEF OpenAs
<1>2. ticks[s] \in Nat /\ ticks'[s] \in Nat /\ ticks[s] <= ticks'[s] /\ scores[s] \subseteq scores'[s]
  BY <1>1, TicksGrow, RowsStay
<1>3. CASE proc'[p] = proc[p]
  <2>1. x.at <= ticks[s] /\ HandEntered(scores[s], x)
    BY <1>3 DEF HandInv, RowAccounted
  <2>2. x.at \in Nat
    BY <1>1 DEF Score
  <2> HIDE DEF s, x
  <2>3. x.at <= ticks'[s] /\ HandEntered(scores'[s], x)
    BY <1>2, <2>1, <2>2, HandEnteredStays
  <2> QED BY <2>3 DEF s, x
<1>4. ASSUME p \in Worker, NEW auto \in 0..settings.auto_max, AutoGrade(p, auto)
      PROVE  x.at <= ticks'[s] /\ HandEntered(scores'[s], x)
  <2>1. s = proc[p].sub /\ x = AutoScore(s, auto)
    BY <1>4, AutoGradeRecord
  <2>2. ticks'[s] = ticks[s] + 1
    BY <1>1, <1>4, <2>1 DEF AutoGrade, TypeInv, TypeOK
  <2>3. x.at = ticks[s] + 1
    BY <2>1 DEF AutoScore
  <2>4. HandEntered(scores[s], x)
    BY <1>1, <2>1, AutoScoreHandEntered
  <2> HIDE DEF s, x
  <2> QED BY <1>2, <2>2, <2>3, <2>4, HandEnteredStays
<1>5. ASSUME p \in Grader, RecomputeScore(p)
      PROVE  x.at <= ticks'[s] /\ HandEntered(scores'[s], x)
  <2>1. s = proc[p].sub /\ x = proc[p].score /\ proc[p].pc = "begun"
    BY <1>5, RecomputeScoreRecord DEF RecomputeScore
  <2>2. x.at <= ticks[s] /\ HandEntered(scores[s], x)
    BY <2>1 DEF HandInv, RowAccounted
  <2>3. x.at \in Nat
    BY <1>1 DEF Score
  <2> HIDE DEF s, x
  <2> QED BY <1>2, <2>2, <2>3, HandEnteredStays
<1>6. ASSUME p \in Grader, NEW y \in Sub, NEW manual, NEW final, BeginScore(p, y, manual, final)
      PROVE  x.at <= ticks'[s] /\ HandEntered(scores'[s], x)
  <2>1. s = y /\ x.by = "staff" /\ x.at = ticks[s] + 1
    BY <1>6, BeginScoreRecord
  <2>2. ticks'[s] = ticks[s] + 1
    BY <1>1, <1>6, <2>1 DEF BeginScore, TypeInv, TypeOK
  <2> HIDE DEF s, x
  <2> QED BY <1>2, <2>1, <2>2 DEF HandEntered
<1> QED BY <1>3, <1>4, <1>5, <1>6, BecomesPending

\* The rows of an attempt are accounted for after any step.
LEMMA CommittedRowsNext ==
  ASSUME TypeInv, HandInv, [Next]_vars, NEW s \in Sub, NEW x \in scores'[s]
  PROVE  x.at <= ticks'[s] /\ HandEntered(scores'[s], x)
<1>1. ticks[s] \in Nat /\ ticks'[s] \in Nat /\ ticks[s] <= ticks'[s] /\ scores[s] \subseteq scores'[s]
  BY TicksGrow, RowsStay
<1>2. x.at \in Nat
  BY TypeNext DEF TypeInv, TypeOK, Score
<1>3. x.at <= ticks[s] /\ HandEntered(scores[s], x)
  <2>1. CASE x \in scores[s]
    BY <2>1 DEF HandInv, RowsInThePast
  <2>2. CASE x \notin scores[s]
    <3>1. PICK p \in Worker \cup Grader :
            /\ (p \in Worker /\ CommitGrade(p)) \/ (p \in Grader /\ CommitScore(p))
            /\ proc[p].sub = s /\ x = proc[p].score
      BY <2>2, RowsGrow
    <3>2. proc[p].pc = "scored"
      BY <3>1 DEF CommitGrade, CommitScore
    <3> QED BY <3>1, <3>2 DEF HandInv, RowAccounted
  <2> QED BY <2>1, <2>2
<1> QED BY <1>1, <1>2, <1>3, HandEnteredStays

\* The manual points of every row are points a person entered for that attempt,
\* through any number of re-runs, retries and worker deaths.
THEOREM HandPoints == Spec => []HandPointsAreHandEntered
<1>1. Init => HandInv
  BY DEF Init, HandInv, RowsInThePast, RowAccounted, Idle
<1>2. TypeInv /\ HandInv /\ [Next]_vars => HandInv'
  <2> SUFFICES ASSUME TypeInv, HandInv, [Next]_vars PROVE HandInv'
    OBVIOUS
  <2>1. \A p \in Proc : RowAccounted(p)'
    BY PendingRowNext DEF RowAccounted
  <2>2. RowsInThePast' /\ \A s \in Sub : \A x \in scores'[s] : HandEntered(scores'[s], x)
    BY CommittedRowsNext DEF RowsInThePast
  <2> QED BY <2>1, <2>2 DEF HandInv
<1>3. HandInv => HandPointsAreHandEntered
  BY DEF HandInv, HandEntered, HandPointsAreHandEntered
<1> QED BY <1>1, <1>2, <1>3, Typing, PTL DEF Spec

-----------------------------------------------------------------------------
(* The gradebook is right, unless two recomputations of a student's grade  *)
(* cross.                                                                  *)

\* The grade the policy gives a history of attempts.
PolicyGrade(history) ==
  LET pick == PickAttempt(history, settings.policy, 0)
  IN  [attempt |-> pick.attempt, points |-> OfficialPoints(pick)]

\* Runs and open transactions are of attempts that were handed in.
OfExisting ==
  /\ \A r \in DOMAIN runs : r.sub \in Existing
  /\ \A p \in Proc : proc[p].pc \notin AtRest => proc[p].sub \in Existing

\* A transaction that has scored a student's attempt has recomputed the grade; one of the
\* worker that has scored a staff attempt has not.
RollsUpStudents ==
  \A p \in Proc : proc[p].pc = "scored" =>
    /\ proc[p].sub[1] \in Student => proc[p].grade # None
    /\ p \in Worker /\ proc[p].sub[1] \in Staff => proc[p].grade = None

AllGraded(e) == \A k \in 1..attempts[e] : status[<<e, k>>] = "graded"
OthersGraded(s) == \A k \in 1..attempts[s[1]] : k # s[2] => status[<<s[1], k>>] = "graded"

\* While the other attempts are graded, the grade a transaction is about to write is that
\* of the history as it will be.
PendingFollowsPolicy ==
  \A p \in Proc : Recomputed(p) /\ proc[p].sub[1] \in Student /\ OthersGraded(proc[p].sub)
    => proc[p].grade.row = RecomputedGrade(proc[p].sub, proc[p].score)

\* Once all attempts of a student are graded, with or without runs in flight, the
\* official grade is that of the history.
GradesFollowPolicy ==
  \A e \in Student : attempts[e] > 0 /\ AllGraded(e) => grades[e] = PolicyGrade(History(e))

PolicyInv ==
  /\ OfExisting
  /\ RollsUpStudents
  /\ PointsInv /\ RaceInv
  /\ ~raced /\ used.patches = 0 /\ ~Receipt => PendingFollowsPolicy /\ GradesFollowPolicy

\* The rows a grader is about to insert are the staff's.
StaffRows ==
  \A g \in Grader : proc[g].pc \in {"begun", "scored"} => proc[g].score.by = "staff"

\* Process p commits its score row.
Commits(p) == (p \in Worker /\ CommitGrade(p)) \/ (p \in Grader /\ CommitScore(p))

\* Attempts are handed in one at a time, and none is taken back.
LEMMA AttemptsGrow ==
  ASSUME TypeInv, [Next]_vars, NEW e \in Enrollment
  PROVE  /\ attempts[e] \in Nat
         /\ \/ attempts'[e] = attempts[e]
            \/ \E snap \in Sent : Submit(e, snap) /\ attempts'[e] = attempts[e] + 1
<1>1. attempts \in [Enrollment -> 0..MaxAttempts] /\ attempts[e] \in Nat
  BY BoundAssumption DEF TypeInv, TypeOK
<1>2. attempts' = attempts \/ \E x \in Enrollment, snap \in Sent : Submit(x, snap)
  BY DEF Next, WorkerStep, RequestStep, StaffStep, Claim, MarkGrading, AutoGrade, CommitGrade,
         GradeConflict, GradeFails, FinishSnapshot, FinishRender, PageFails, Crash, Survey, Requeue,
         BeginScore, RecomputeScore, CommitScore, ScoreConflict, Retry, AttachSnapshot, AttachHtml,
         PatchPolicy, vars, tables
<1>3. ASSUME NEW x \in Enrollment, NEW snap \in Sent, Submit(x, snap)
      PROVE  IF x = e THEN attempts'[e] = attempts[e] + 1 ELSE attempts'[e] = attempts[e]
  BY <1>1, <1>3 DEF Submit
<1> QED BY <1>1, <1>2, <1>3

\* What was handed in stays handed in.
LEMMA ExistingStays ==
  ASSUME TypeInv, [Next]_vars
  PROVE  Existing \subseteq Existing'
<1> SUFFICES ASSUME NEW s \in Sub, s[2] <= attempts[s[1]] PROVE s[2] <= attempts'[s[1]]
  BY DEF Existing
<1>1. s[1] \in Enrollment /\ s[2] \in Nat
  BY BoundAssumption DEF Sub, Attempt
<1>2. attempts[s[1]] \in Nat /\ (attempts'[s[1]] = attempts[s[1]] \/ attempts'[s[1]] = attempts[s[1]] + 1)
  BY <1>1, AttemptsGrow
<1> QED BY <1>1, <1>2

\* The runs of a step are the runs that were, and rows of attempts handed in.
LEMMA RunsOfExisting ==
  ASSUME TypeInv, OfExisting, [Next]_vars, NEW r \in DOMAIN runs'
  PROVE  r.sub \in Existing'
<1>1. CASE r \in DOMAIN runs
  BY <1>1, ExistingStays DEF OfExisting
<1>2. ASSUME NEW s \in Existing', NEW kinds \in SUBSET Kind, NEW st,
             NEW new \in FlushedRuns(s, kinds), runs' = WithRuns(new, st), r \notin DOMAIN runs
      PROVE  r.sub \in Existing'
  <2>1. r \in new /\ s \in Sub
    BY <1>2 DEF WithRuns, Existing
  <2>2. r.sub = s
    BY <2>1, FlushedRows DEF TypeInv
  <2> QED BY <2>2
<1>3. ASSUME NEW e \in Enrollment, NEW snap \in Sent, Submit(e, snap), r \notin DOMAIN runs
      PROVE  r.sub \in Existing'
  <2> DEFINE s == <<e, attempts[e] + 1>>
             kinds == {"snapshot"}
                      \cup (IF settings.autograde /\ ~Whole THEN {"autograde"} ELSE {})
                      \cup (IF settings.render THEN {"render"} ELSE {})
  <2>1. PICK new \in FlushedRuns(s, kinds) : runs' = WithRuns(new, "queued")
    BY <1>3 DEF Submit
  <2>2. kinds \in SUBSET Kind
    BY DEF Kind
  <2>3. s \in Sub /\ s[2] <= attempts'[s[1]]
    BY <1>3, BoundAssumption DEF Submit, TypeInv, TypeOK, Sub, Attempt
  <2>4. r \in new
    BY <1>3, <2>1 DEF WithRuns
  <2>5. r.sub = s
    <3> HIDE DEF s, kinds
    <3> QED BY <2>1, <2>2, <2>3, <2>4, FlushedRows DEF TypeInv
  <2>6. PICK d \in Sub : d = s
    BY <2>3
  <2> QED BY <2>3, <2>5, <2>6 DEF Existing
<1>4. ASSUME NEW s \in Existing, Retry(s) \/ AttachSnapshot(s) \/ AttachHtml(s), r \notin DOMAIN runs
      PROVE  r.sub \in Existing'
  <2>1. PICK kinds \in SUBSET Kind, st \in {"queued", "succeeded"} :
                \E new \in FlushedRuns(s, kinds) : runs' = WithRuns(new, st)
    <3>1. {"snapshot"} \in SUBSET Kind /\ {"autograde"} \in SUBSET Kind /\ {"autograde", "render"} \in SUBSET Kind
      BY DEF Kind
    <3>2. {"autograde"} \cup (IF render[s] = "none" THEN {"render"} ELSE {}) \in SUBSET Kind
      BY DEF Kind
    <3> QED BY <1>4, <3>1, <3>2 DEF Retry, AttachSnapshot, AttachHtml
  <2>2. s \in Existing'
    BY ExistingStays
  <2> QED BY <1>2, <1>4, <2>1, <2>2
<1>5. ASSUME NEW w \in Worker, WorkerStep(w) \/ Crash(w)
      PROVE  DOMAIN runs' = DOMAIN runs
  BY <1>5 DEF WorkerStep, Claim, MarkGrading, AutoGrade, CommitGrade, GradeConflict, GradeFails,
       FinishSnapshot, FinishRender, PageFails, Crash, Survey, Requeue, Finish, Running, tables, TypeInv, TypeOK
<1> QED BY <1>1, <1>3, <1>4, <1>5
        DEF Next, RequestStep, StaffStep, BeginScore, RecomputeScore, CommitScore, ScoreConflict,
            PatchPolicy, vars, tables

\* A process is busy with the attempt it was busy with, with that of the run it claims, or
\* with the one a person has picked.
LEMMA BusyOnExisting ==
  ASSUME TypeInv, OfExisting, [Next]_vars, NEW p \in Proc, proc'[p].pc \notin AtRest
  PROVE  proc'[p].sub \in Existing'
<1>1. proc \in [Proc -> ProcState]
  BY DEF TypeInv, TypeOK
<1> SUFFICES ASSUME proc'[p] # proc[p]
             PROVE  proc'[p].sub \in Existing
  BY ExistingStays DEF OfExisting
<1>2. ASSUME NEW w \in Worker, NEW r \in Queued, Claim(w, r)
      PROVE  proc'[p].sub \in Existing
  <2>1. proc'[p].sub = r.sub /\ r \in DOMAIN runs
    BY <1>1, <1>2 DEF Claim, Idle, Queued
  <2> QED BY <2>1 DEF OfExisting
<1>3. ASSUME NEW w \in Worker, MarkGrading(w)
      PROVE  proc'[p].sub \in Existing
  <2>1. proc[w].pc = "claimed" /\ proc' = [proc EXCEPT ![w] = [proc[w] EXCEPT !.pc = "grading", !.lock = TRUE]]
    BY <1>3 DEF MarkGrading
  <2>2. p = w /\ proc'[p].sub = proc[p].sub
    BY <1>1, <2>1 DEF ProcState
  <2> QED BY <2>1, <2>2 DEF OfExisting
<1>4. ASSUME NEW w \in Worker, NEW auto \in 0..settings.auto_max, AutoGrade(w, auto)
      PROVE  proc'[p].sub \in Existing
  BY <1>4, AutoGradeRecord DEF AutoGrade, OfExisting
<1>5. ASSUME NEW g \in Grader, RecomputeScore(g)
      PROVE  proc'[p].sub \in Existing
  BY <1>5, RecomputeScoreRecord DEF RecomputeScore, OfExisting
<1>6. ASSUME NEW g \in Grader, NEW s \in Existing, NEW manual, NEW final, BeginScore(g, s, manual, final)
      PROVE  proc'[p].sub \in Existing
  <2>1. s \in Sub
    BY DEF Existing
  <2> QED BY <1>6, <2>1, BeginScoreRecord
<1>7. ASSUME NEW w \in Worker,
             \/ CommitGrade(w) \/ GradeConflict(w) \/ GradeFails(w) \/ FinishSnapshot(w)
             \/ FinishRender(w) \/ PageFails(w) \/ Survey(w) \/ Requeue(w) \/ Crash(w)
      PROVE  FALSE
  <2>1. PICK x : Resting(x) /\ proc' = [proc EXCEPT ![w] = x]
    BY <1>7, StepsToRest
  <2> QED BY <1>1, <2>1, RestingIsOpen
<1>8. ASSUME NEW g \in Grader, CommitScore(g) \/ ScoreConflict(g)
      PROVE  FALSE
  <2>1. proc' = [proc EXCEPT ![g] = Idle]
    BY <1>8 DEF CommitScore, ScoreConflict
  <2> QED BY <1>1, <2>1 DEF Idle
<1>9. ASSUME \/ \E e \in Enrollment, snap \in Sent : Submit(e, snap)
             \/ \E s \in Existing : Retry(s) \/ AttachSnapshot(s) \/ AttachHtml(s)
             \/ \E policy \in Policy : PatchPolicy(policy)
             \/ UNCHANGED vars
      PROVE  FALSE
  BY <1>9 DEF Submit, Retry, AttachSnapshot, AttachHtml, PatchPolicy, vars
<1> QED BY <1>2, <1>3, <1>4, <1>5, <1>6, <1>7, <1>8, <1>9 DEF Next, WorkerStep, RequestStep, StaffStep

\* Runs and open transactions stay with attempts handed in.
LEMMA OfExistingNext ==
  ASSUME TypeInv, OfExisting, [Next]_vars
  PROVE  OfExisting'
BY RunsOfExisting, BusyOnExisting DEF OfExisting

\* A worker rolls up a student's attempt and no other; a hand score always rolls up.
LEMMA RollsUpNext ==
  ASSUME TypeInv, RollsUpStudents, [Next]_vars
  PROVE  RollsUpStudents'
<1> SUFFICES ASSUME NEW p \in Proc, proc'[p].pc = "scored"
             PROVE  /\ proc'[p].sub[1] \in Student => proc'[p].grade # None
                    /\ p \in Worker /\ proc'[p].sub[1] \in Staff => proc'[p].grade = None
  BY DEF RollsUpStudents
<1>1. \A s \in Sub, sc \in Score : PendingGrade(s, sc) # None
  BY PendingTypes, NoneAssumption
<1>2. ASSUME p \in Worker, NEW auto \in 0..settings.auto_max, AutoGrade(p, auto)
      PROVE  /\ proc'[p].sub[1] \in Student => proc'[p].grade # None
             /\ proc'[p].sub[1] \in Staff => proc'[p].grade = None
  <2>1. proc[p].sub \in Sub
    BY <1>2, ProcTypes DEF OpenAs, AutoGrade
  <2>2. AutoScore(proc[p].sub, auto) \in Score
    BY <2>1, AutoScoreTypes DEF TypeInv, TypeOK, Setting
  <2>3. /\ proc'[p].sub = proc[p].sub
        /\ proc'[p].grade = IF RollsUp(proc[p].sub)
                            THEN PendingGrade(proc[p].sub, AutoScore(proc[p].sub, auto)) ELSE None
    BY <1>2, AutoGradeRecord
  <2> QED BY <1>1, <2>1, <2>2, <2>3, RoleAssumption DEF RollsUp
<1>3. ASSUME p \in Grader, RecomputeScore(p)
      PROVE  p \notin Worker /\ proc'[p].grade # None
  <2>1. proc[p].sub \in Sub /\ proc[p].score \in Score
    BY <1>3, ProcTypes DEF OpenAs, RecomputeScore
  <2> QED BY <1>1, <1>3, <2>1, RecomputeScoreRecord, ProcAssumption
<1> QED BY <1>2, <1>3, BecomesScored DEF RollsUpStudents

\* The settings stay while no policy is patched, and the count of patches tells.
LEMMA PolicyKept ==
  ASSUME TypeInv, [Next]_vars, used'.patches = 0
  PROVE  settings' = settings /\ used.patches = 0
<1>1. used \in [scores : Nat, crashes : Nat, attached : Nat, patches : Nat]
  BY DEF TypeInv, TypeOK
<1>2. ASSUME NEW policy \in Policy, PatchPolicy(policy) PROVE FALSE
  BY <1>1, <1>2 DEF PatchPolicy
<1>3. settings' = settings /\ used'.patches = used.patches
  BY <1>1, <1>2 DEF Next, WorkerStep, RequestStep, StaffStep, Submit, Claim, MarkGrading, AutoGrade, CommitGrade,
         GradeConflict, GradeFails, FinishSnapshot, FinishRender, PageFails, Crash, Survey, Requeue,
         BeginScore, RecomputeScore, CommitScore, ScoreConflict, Retry, AttachSnapshot, AttachHtml,
         vars, tables
<1> QED BY <1>3

\* A step that commits no score of a student leaves the rows of the student's attempts as
\* they are and grades none of them.
LEMMA QuietRows ==
  ASSUME TypeInv, [Next]_vars, ~Receipt, NEW s \in Sub,
         \A p \in Proc : Commits(p) => proc[p].sub[1] # s[1]
  PROVE  /\ scores'[s] = scores[s]
         /\ status'[s] = "graded" => status[s] = "graded"
BY RowsGrow, BecomesGraded DEF Commits

\* An attempt handed in by the step waits to be graded.
LEMMA NewAttemptWaits ==
  ASSUME TypeInv, [Next]_vars, ~Receipt, NEW e \in Enrollment, attempts'[e] # attempts[e]
  PROVE  /\ attempts'[e] = attempts[e] + 1
         /\ attempts'[e] \in 1..attempts'[e]
         /\ status'[<<e, attempts'[e]>>] = "received"
<1>1. PICK snap \in Sent : Submit(e, snap) /\ attempts'[e] = attempts[e] + 1
  BY AttemptsGrow
<1>2. attempts[e] \in Nat
  BY AttemptsGrow
<1>3. <<e, attempts[e] + 1>> \in Sub
  BY <1>1, <1>2, BoundAssumption DEF Submit, Sub, Attempt, TypeInv, TypeOK
<1>4. status'[<<e, attempts[e] + 1>>] = "received"
  BY <1>1, <1>3 DEF Submit, TypeInv, TypeOK
<1> QED BY <1>1, <1>2, <1>4

\* So, when all of a student's attempts but one of old are graded after such a step, they
\* were before, and there are no more of them.
LEMMA QuietStep ==
  ASSUME TypeInv, [Next]_vars, ~Receipt, NEW e \in Enrollment,
         \A p \in Proc : Commits(p) => proc[p].sub[1] # e,
         NEW j, j \notin Nat \/ j <= attempts[e],
         \A k \in 1..attempts'[e] : k # j => status'[<<e, k>>] = "graded"
  PROVE  /\ attempts'[e] = attempts[e]
         /\ \A k \in 1..attempts[e] : k # j => status[<<e, k>>] = "graded"
         /\ \A k \in 1..attempts[e] : scores'[<<e, k>>] = scores[<<e, k>>]
<1>1. attempts[e] \in 0..MaxAttempts /\ attempts[e] \in Nat
  BY BoundAssumption DEF TypeInv, TypeOK
<1>2. attempts'[e] = attempts[e]
  <2> SUFFICES ASSUME attempts'[e] # attempts[e] PROVE FALSE
    OBVIOUS
  <2>1. /\ attempts'[e] = attempts[e] + 1
        /\ attempts'[e] \in 1..attempts'[e]
        /\ status'[<<e, attempts'[e]>>] = "received"
    BY NewAttemptWaits
  <2>2. attempts'[e] # j
    BY <1>1, <2>1
  <2> QED BY <2>1, <2>2
<1>3. ASSUME NEW k \in 1..attempts[e]
      PROVE  /\ scores'[<<e, k>>] = scores[<<e, k>>]
             /\ status'[<<e, k>>] = "graded" => status[<<e, k>>] = "graded"
  <2>1. <<e, k>> \in Sub
    BY <1>1, BoundAssumption DEF Sub, Attempt
  <2> QED BY <2>1, QuietRows
<1> QED BY <1>2, <1>3

\* A commit that finds no recomputation racing its own is of no other student: it would
\* have recomputed the grade too.
LEMMA CommitsAlone ==
  ASSUME TypeInv, RollsUpStudents, ~TwoRecomputed, NEW p \in Proc, Recomputed(p),
         proc[p].sub[1] \in Student, NEW q \in Proc, Commits(q), proc[q].sub[1] = proc[p].sub[1]
  PROVE  q = p
<1>1. proc[q].pc = "scored"
  BY DEF Commits, CommitGrade, CommitScore
<1>2. Recomputed(q)
  BY <1>1 DEF RollsUpStudents, Recomputed
<1> QED BY <1>2 DEF TwoRecomputed

\* A recomputation that sees the same settings, attempts and rows writes the same grade.
LEMMA SameGrade ==
  ASSUME NEW s, NEW sc, settings' = settings, attempts'[s[1]] = attempts[s[1]],
         \A k \in 1..attempts[s[1]] : scores'[<<s[1], k>>] = scores[<<s[1], k>>]
  PROVE  RecomputedGrade(s, sc)' = RecomputedGrade(s, sc)
<1>1. HistoryWith(s, sc)' = HistoryWith(s, sc)
  BY DEF HistoryWith
<1> QED BY <1>1 DEF RecomputedGrade

\* What a transaction is about to write follows the policy after any step.
LEMMA PendingPolicyNext ==
  ASSUME TypeInv, OfExisting, RollsUpStudents, ~TwoRecomputed, PendingFollowsPolicy,
         ~Receipt, settings' = settings, [Next]_vars
  PROVE  PendingFollowsPolicy'
<1> SUFFICES ASSUME NEW p \in Proc, NEW s, NEW sc, s = proc'[p].sub, sc = proc'[p].score,
                    proc'[p].pc = "scored", proc'[p].grade # None, s[1] \in Student,
                    \A k \in 1..attempts'[s[1]] : k # s[2] => status'[<<s[1], k>>] = "graded"
             PROVE  proc'[p].grade.row = RecomputedGrade(s, sc)'
  BY DEF PendingFollowsPolicy, Recomputed, OthersGraded, RecomputedGrade, HistoryWith
<1>1. CASE proc'[p] = proc[p]
  <2>1. Recomputed(p) /\ s = proc[p].sub /\ sc = proc[p].score
    BY <1>1 DEF Recomputed
  <2>2. s \in Existing /\ s \in Sub /\ s[1] \in Enrollment
    BY <2>1 DEF Recomputed, OfExisting, Existing, Enrollment
  <2>3. \A q \in Proc : Commits(q) => proc[q].sub[1] # s[1]
    <3> SUFFICES ASSUME NEW q \in Proc, Commits(q), proc[q].sub[1] = s[1] PROVE FALSE
      OBVIOUS
    <3>1. q = p
      BY <2>1, CommitsAlone
    <3>2. proc' = [proc EXCEPT ![p] = Idle]
      BY <3>1 DEF Commits, CommitGrade, CommitScore, Finish
    <3> QED BY <3>2 DEF Idle, TypeInv, TypeOK
  <2>4. /\ attempts'[s[1]] = attempts[s[1]]
        /\ \A k \in 1..attempts[s[1]] : k # s[2] => status[<<s[1], k>>] = "graded"
        /\ \A k \in 1..attempts[s[1]] : scores'[<<s[1], k>>] = scores[<<s[1], k>>]
    <3>1. s[2] <= attempts[s[1]]
      BY <2>2 DEF Existing
    <3> QED BY <2>2, <2>3, <3>1, QuietStep
  <2>5. proc[p].grade.row = RecomputedGrade(s, sc)
    BY <2>1, <2>4 DEF PendingFollowsPolicy, OthersGraded
  <2> QED BY <1>1, <2>4, <2>5, SameGrade
<1>2. ASSUME proc'[p].grade = PendingGrade(s, sc), attempts' = attempts, scores' = scores
      PROVE  proc'[p].grade.row = RecomputedGrade(s, sc)'
  <2>1. RecomputedGrade(s, sc)' = RecomputedGrade(s, sc)
    BY <1>2, SameGrade
  <2>2. PendingGrade(s, sc).row = RecomputedGrade(s, sc)
    BY DEF PendingGrade
  <2> QED BY <1>2, <2>1, <2>2
<1>3. ASSUME p \in Worker, NEW auto \in 0..settings.auto_max, AutoGrade(p, auto)
      PROVE  proc'[p].grade.row = RecomputedGrade(s, sc)'
  <2>1. proc'[p].grade = PendingGrade(s, sc)
    BY <1>3, AutoGradeRecord
  <2> QED BY <1>2, <1>3, <2>1 DEF AutoGrade, tables
<1>4. ASSUME p \in Grader, RecomputeScore(p)
      PROVE  proc'[p].grade.row = RecomputedGrade(s, sc)'
  <2>1. proc'[p].grade = PendingGrade(s, sc)
    BY <1>4, RecomputeScoreRecord
  <2> QED BY <1>2, <1>4, <2>1 DEF RecomputeScore, tables
<1> QED BY <1>1, <1>3, <1>4, BecomesScored

\* A recomputation writes the grade of the history with its row.
LEMMA RecomputedIsPolicy ==
  ASSUME NEW s, NEW sc
  PROVE  RecomputedGrade(s, sc) = PolicyGrade(HistoryWith(s, sc))
BY DEF RecomputedGrade, PolicyGrade

\* Only the commit of a student's score changes the student's grade.
LEMMA GradesByCommits ==
  ASSUME TypeInv, [Next]_vars, NEW e \in Enrollment,
         \A p \in Proc : Commits(p) => proc[p].sub[1] # e
  PROVE  grades'[e] = grades[e]
<1>1. grades' = grades \/ \E p \in Proc : Commits(p)
  BY DEF Next, WorkerStep, RequestStep, StaffStep, Submit, Claim, MarkGrading, AutoGrade, Commits,
         GradeConflict, GradeFails, FinishSnapshot, FinishRender, PageFails, Crash, Survey, Requeue,
         BeginScore, RecomputeScore, ScoreConflict, Retry, AttachSnapshot, AttachHtml,
         PatchPolicy, vars, tables
<1>2. ASSUME NEW p \in Proc, Commits(p) PROVE grades'[e] = grades[e]
  BY <1>2 DEF Commits, CommitGrade, CommitScore, CommitScoreOf, TypeInv, TypeOK
<1> QED BY <1>1, <1>2

\* The official grade of a student whose attempts are all graded follows the policy after
\* any step.
LEMMA GradesPolicyNext ==
  ASSUME TypeInv, OfExisting, RollsUpStudents, SeenIsCommitted, PendingFollowsPolicy,
         GradesFollowPolicy, ~Receipt, settings' = settings, [Next]_vars
  PROVE  GradesFollowPolicy'
<1> SUFFICES ASSUME NEW e \in Student, attempts'[e] > 0,
                    \A k \in 1..attempts'[e] : status'[<<e, k>>] = "graded"
             PROVE  grades'[e] = PolicyGrade([k \in 1..attempts'[e] |-> scores'[<<e, k>>]])
  BY DEF GradesFollowPolicy, AllGraded, History, PolicyGrade
<1>1. e \in Enrollment
  BY DEF Enrollment
<1>2. ASSUME \A p \in Proc : Commits(p) => proc[p].sub[1] # e
      PROVE  grades'[e] = PolicyGrade([k \in 1..attempts'[e] |-> scores'[<<e, k>>]])
  <2>1. /\ attempts'[e] = attempts[e]
        /\ \A k \in 1..attempts[e] : status[<<e, k>>] = "graded"
        /\ \A k \in 1..attempts[e] : scores'[<<e, k>>] = scores[<<e, k>>]
    <3>1. attempts[e] \in Nat
      BY <1>1, AttemptsGrow
    <3>2. 0 <= attempts[e] /\ \A k \in 1..attempts[e] : k # 0
      BY <3>1
    <3> QED BY <1>1, <1>2, <3>1, <3>2, QuietStep
  <2>2. grades'[e] = grades[e]
    BY <1>1, <1>2, GradesByCommits
  <2>3. [k \in 1..attempts'[e] |-> scores'[<<e, k>>]] = History(e)
    BY <2>1 DEF History
  <2>4. grades[e] = PolicyGrade(History(e))
    BY <2>1 DEF GradesFollowPolicy, AllGraded
  <2> QED BY <2>2, <2>3, <2>4
<1>3. ASSUME NEW p \in Proc, Commits(p), proc[p].sub[1] = e
      PROVE  grades'[e] = PolicyGrade([k \in 1..attempts'[e] |-> scores'[<<e, k>>]])
  <2> DEFINE s == proc[p].sub
             sc == proc[p].score
  <2>1. proc[p].pc = "scored" /\ ~Conflicts(p) /\ attempts' = attempts /\ CommitScoreOf(p)
    BY <1>3 DEF Commits, CommitGrade, CommitScore
  <2>2. Recomputed(p) /\ s \in Sub
    BY <1>3, <2>1, ProcTypes DEF RollsUpStudents, Recomputed, OpenAs
  <2>3. \A k \in 1..attempts[e] : k # s[2] => status[<<e, k>>] = "graded"
    <3> SUFFICES ASSUME NEW k \in 1..attempts[e], k # s[2] PROVE status'[<<e, k>>] = status[<<e, k>>]
      BY <2>1
    <3>1. <<e, k>> # s
      BY <2>2 DEF Sub
    <3>2. \E st : status' = [status EXCEPT ![s] = st]
      BY <1>3 DEF Commits, CommitGrade, CommitScore
    <3>3. <<e, k>> \in Sub
      BY <1>1, BoundAssumption DEF Sub, Attempt, TypeInv, TypeOK
    <3> HIDE DEF s
    <3> QED BY <3>1, <3>2, <3>3 DEF TypeInv, TypeOK
  <2>4. proc[p].grade.row = RecomputedGrade(s, sc)
    BY <1>3, <2>2, <2>3 DEF PendingFollowsPolicy, OthersGraded
  <2>5. grades'[e] = proc[p].grade.row
    <3>1. grades'[e] = GradeWritten(p)
      BY <1>1, <1>3, <2>1, <2>2 DEF CommitScoreOf, Recomputed, TypeInv, TypeOK
    <3> QED BY <2>2, <3>1, WrittenIsRow DEF SeenIsCommitted, Recomputed
  <2>6. [k \in 1..attempts'[e] |-> scores'[<<e, k>>]] = HistoryWith(s, sc)
    <3>1. scores' = [scores EXCEPT ![s] = @ \cup {sc}]
      BY <2>1, CommitTypes
    <3>2. ASSUME NEW k \in 1..attempts[e]
          PROVE  scores'[<<e, k>>] = scores[<<e, k>>] \cup (IF k = s[2] THEN {sc} ELSE {})
      <4>1. <<e, k>> \in Sub
        BY <1>1, BoundAssumption DEF Sub, Attempt, TypeInv, TypeOK
      <4>2. <<e, k>> = s <=> k = s[2]
        BY <1>3, <2>2 DEF Sub
      <4> HIDE DEF s, sc
      <4> QED BY <3>1, <4>1, <4>2 DEF TypeInv, TypeOK
    <3>3. s[1] = e
      BY <1>3
    <3> HIDE DEF s, sc
    <3> QED BY <2>1, <3>2, <3>3 DEF HistoryWith
  <2> HIDE DEF s, sc
  <2> QED BY <2>4, <2>5, <2>6, RecomputedIsPolicy
<1> QED BY <1>2, <1>3

\* The policy's invariant holds after any step, whatever it does to `raced`.
LEMMA PolicyNext ==
  ASSUME TypeInv, PolicyInv, [Next /\ Watch]_watched
  PROVE  PolicyInv'
<1>1. [Next]_vars
  BY DEF watched
<1>2. OfExisting' /\ RollsUpStudents'
  BY <1>1, OfExistingNext, RollsUpNext DEF PolicyInv
<1>3. PointsInv' /\ RaceInv' /\ (raced => raced')
  BY <1>1, PendingGradesNext, GradesNext, RaceNext DEF PolicyInv, PointsInv
<1>4. ASSUME ~raced', used'.patches = 0, ~Receipt'
      PROVE  PendingFollowsPolicy' /\ GradesFollowPolicy'
  <2>1. settings' = settings /\ used.patches = 0
    BY <1>1, <1>4, PolicyKept
  <2>2. ~Receipt
    BY <1>1, <1>4, SettingsKept
  <2>3. ~raced /\ ~TwoRecomputed /\ SeenIsCommitted /\ PendingFollowsPolicy /\ GradesFollowPolicy
    BY <1>3, <1>4, <2>1, <2>2 DEF PolicyInv, RaceInv
  <2> QED BY <1>1, <2>1, <2>2, <2>3, PendingPolicyNext, GradesPolicyNext DEF PolicyInv
<1> QED BY <1>2, <1>3, <1>4 DEF PolicyInv

-----------------------------------------------------------------------------
(* Staff attempts, and the views.                                          *)

\* A row a grader is about to insert is the staff's after any step.
LEMMA StaffRowsNext ==
  ASSUME TypeInv, StaffRows, [Next]_vars
  PROVE  StaffRows'
<1> SUFFICES ASSUME NEW g \in Grader, proc'[g].pc \in {"begun", "scored"}
             PROVE  proc'[g].score.by = "staff"
  BY DEF StaffRows
<1>1. g \notin Worker
  BY ProcAssumption
<1>2. CASE proc'[g] = proc[g]
  BY <1>2 DEF StaffRows
<1>3. CASE RecomputeScore(g)
  BY <1>3, RecomputeScoreRecord DEF StaffRows, RecomputeScore
<1> QED BY <1>1, <1>2, <1>3, BecomesPending, BeginScoreRecord

\* A staff enrollment gets a grade only with a row of a person's.
LEMMA TestGradesNext ==
  ASSUME TypeInv, RollsUpStudents, StaffRows, TestGradesOnlyByHand, [Next]_vars
  PROVE  TestGradesOnlyByHand'
<1> SUFFICES ASSUME NEW e \in Staff, grades'[e] # None
             PROVE  \E k \in Attempt : \E x \in scores'[<<e, k>>] : x.by = "staff"
  BY DEF TestGradesOnlyByHand
<1>1. e \in Enrollment
  BY DEF Enrollment
<1>2. CASE grades'[e] = grades[e]
  <2>1. PICK k \in Attempt : \E x \in scores[<<e, k>>] : x.by = "staff"
    BY <1>2 DEF TestGradesOnlyByHand
  <2>2. <<e, k>> \in Sub
    BY <1>1 DEF Sub
  <2> QED BY <2>1, <2>2, RowsStay
<1>3. ASSUME NEW p \in Proc, proc[p].pc = "scored", proc[p].grade # None,
             proc[p].sub \in Sub, proc[p].sub[1] = e,
             scores' = [scores EXCEPT ![proc[p].sub] = @ \cup {proc[p].score}]
      PROVE  \E k \in Attempt : \E x \in scores'[<<e, k>>] : x.by = "staff"
  <2>1. p \in Grader /\ proc[p].score.by = "staff"
    BY <1>3 DEF RollsUpStudents, StaffRows
  <2>2. proc[p].score \in scores'[proc[p].sub]
    BY <1>3 DEF TypeInv, TypeOK
  <2>3. PICK k \in Attempt : proc[p].sub = <<e, k>>
    BY <1>3 DEF Sub
  <2> QED BY <2>1, <2>2, <2>3
<1> QED BY <1>1, <1>2, <1>3, GradesChange

\* Grid, progress and queue tell one story where graded attempts have a final score.
LEMMA ViewsFollow ==
  ASSUME TypeInv, GradedHasFinalScore, ~Receipt
  PROVE  ViewsAgree
<1> SUFFICES ASSUME NEW e \in Student
             PROVE  /\ Cell(e) = "graded" <=> Progress(e) = "graded"
                    /\ NeedsManual(settings.mode, LatestScore(e)) /\ attempts[e] > 0
                         => Progress(e) \in {"waiting", "failed"}
  BY DEF ViewsAgree
<1> DEFINE st == LatestStatus(e)
           sc == LatestScore(e)
<1>1. attempts[e] \in 0..MaxAttempts /\ attempts[e] \in Nat
  BY BoundAssumption DEF TypeInv, TypeOK, Enrollment
<1>2. CASE attempts[e] = 0
  BY <1>2 DEF LatestStatus, LatestScore, Cell, Progress, CellState, ProgressState
<1>3. CASE attempts[e] # 0
  <2> DEFINE s == <<e, attempts[e]>>
  <2>1. s \in Sub /\ s \in Existing
    BY <1>1, <1>3, BoundAssumption DEF Sub, Attempt, Enrollment, Existing
  <2>2. scores[s] \in Rows
    BY <2>1 DEF TypeInv, TypeOK, FiniteRows, Rows
  <2>3. st = status[s] /\ sc = FinalScore(scores[s]) /\ st \in Status
    BY <1>3, <2>1 DEF LatestStatus, LatestScore, TypeInv, TypeOK
  <2>4. st = "graded" => sc # None /\ sc.final
    <3> SUFFICES ASSUME status[s] = "graded" PROVE FinalScore(scores[s]) \in FinalRows(scores[s])
      BY <2>1, <2>2, <2>3, NoneAssumption DEF FinalRows, Rows
    <3>1. FinalRows(scores[s]) # {}
      BY <2>1 DEF GradedHasFinalScore
    <3> HIDE DEF s
    <3> QED BY <2>2, <3>1, ChosenRows
  <2> HIDE DEF st, sc
  <2>5. /\ CellState(st, sc) = "graded" <=> st = "graded"
        /\ ProgressState(st, sc, ByHand) = "graded" <=> st = "graded"
    BY <2>3, <2>4 DEF CellState, ProgressState, Status
  <2>6. NeedsManual(settings.mode, sc) => ProgressState(st, sc, ByHand) \in {"waiting", "failed"}
    BY <2>3, <2>4 DEF NeedsManual, ProgressState, ByHand, Status
  <2> QED BY <2>5, <2>6 DEF Cell, Progress, st, sc
<1> QED BY <1>2, <1>3

\* What students and staff read is right for any number of students, workers and graders:
\* the official grade follows the policy unless two recomputations of it crossed or the
\* policy changed, the worker grades no staff attempt, and the views agree.
THEOREM GradebookRight == WatchedSpec => []GradebookIsRight
<1> DEFINE Inv == PolicyInv /\ StaffRows /\ TestGradesOnlyByHand
<1>1. WatchedInit => Init /\ Inv
  <2> SUFFICES ASSUME WatchedInit PROVE Init /\ Inv
    OBVIOUS
  <2>1. Init /\ raced = FALSE /\ \A p \in Proc : proc[p] = Idle
    BY DEF WatchedInit, Init
  <2>2. \A p \in Proc : proc[p].pc = "idle"
    BY <2>1 DEF Idle
  <2>3. OfExisting /\ RollsUpStudents /\ ~TwoRecomputed /\ PendingFollowsPolicy /\ StaffRows
    BY <2>1, <2>2 DEF OfExisting, RollsUpStudents, TwoRecomputed, Recomputed, PendingFollowsPolicy,
                      StaffRows, Init
  <2>4. GradesFollowPolicy /\ TestGradesOnlyByHand
    BY <2>1 DEF Init, GradesFollowPolicy, TestGradesOnlyByHand, Enrollment
  <2> QED BY <2>1, <2>3, <2>4, RaceInit DEF PolicyInv
<1>2. [Next /\ Watch]_watched => [Next]_vars
  BY DEF watched
<1>3. TypeInv /\ Inv /\ [Next /\ Watch]_watched => Inv'
  BY <1>2, PolicyNext, StaffRowsNext, TestGradesNext DEF PolicyInv
<1>4. TypeInv /\ GradedHasFinalScore /\ Inv => GradebookIsRight
  <2> SUFFICES ASSUME TypeInv, GradedHasFinalScore, Inv PROVE GradebookIsRight
    OBVIOUS
  <2>1. ~raced /\ used.patches = 0 => SettledGradeFollowsPolicy
    BY DEF PolicyInv, SettledGradeFollowsPolicy, Settled, GradesFollowPolicy, AllGraded, PolicyGrade
  <2> QED BY <2>1, ViewsFollow DEF GradebookIsRight, FollowsPolicyUnlessRaced
<1>5. Init /\ [][Next]_vars => []TypeInv /\ []GradedHasFinalScore
  BY Typing, GradedIsBacked DEF Spec
<1> HIDE DEF Inv
<1> QED BY <1>1, <1>2, <1>3, <1>4, <1>5, PTL DEF WatchedSpec
=============================================================================
