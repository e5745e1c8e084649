---------------------------- MODULE IntakeProofs ----------------------------
(***************************************************************************)
(* How attempts are counted and kept, for any number of clicks, requests   *)
(* and deaths of the API process: the handlers that count the same         *)
(* attempts side by side, those that share one .tmp file, the answer and   *)
(* the commit in either order, and the queue of a grading page.            *)
(***************************************************************************)
EXTENDS Intake, TLAPS, FiniteSetTheorems, WellFoundedInduction

\* What is kept of a request and the handler that serves it, and of a run of submit().
Served == [pc : {"none", "sent", "admitting", "storing", "opening", "writing", "renaming", "inserting",
                 "closing", "done", "gone"},
           n : 0..(2 * MaxClicks), fd : Inode \cup {0}, code : Code, left : SUBSET {"commit", "answer"}]
Run == [pc : {"unused", "collecting", "posting", "polling", "ended"}, view : View,
        cred : {"none", "live", "expired"}, copy : {1, 2}, shown : Attempt \cup {None}]

-----------------------------------------------------------------------------
(* The inductive invariant.                                                *)

\* A request that has been admitted, up to its commit.
Admitted(r) ==
  \/ request[r].pc \in {"storing", "opening", "writing", "renaming", "inserting"}
  \/ r \in Uncommitted

\* Attempts are numbered without gaps and no two share a number or an id; a request took
\* its number from a count that has not shrunk since, and below the limit; what is not
\* committed yet shares no number and no id with what is stored, or with another.
CountInv ==
  /\ IsFiniteSet(stored) /\ NumberedWithoutGaps /\ LimitHolds
  /\ \A a, b \in stored : SameKey(a, b) => a = b
  /\ \A r \in Request : Admitted(r) =>
       /\ request[r].n \in 1..(Cardinality(stored) + 1)
       /\ settings.attempts_allowed # None => request[r].n <= settings.attempts_allowed
  /\ \A q \in Uncommitted :
       /\ \A a \in stored : ~SameKey(a, New(q))
       /\ \A p \in Uncommitted : SameKey(New(p), New(q)) => p = q

\* A file stands whole, or somebody is about to write it.
Filled(i) == i = 0 \/ i \in disk.whole \/ \E r \in Request : At(r, "writing") /\ request[r].fd = i

\* A file is held open by who writes it, and nobody else.
WritersHold == \A r \in Request : request[r].fd # 0 <=> At(r, "writing")

\* Before any attempt is stored its file has its final name.
FileInv ==
  /\ Filled(disk.final) /\ Filled(disk.tmp) /\ (disk.tmp # 0 => disk.tmp # disk.final)
  /\ (stored # {} \/ \E r \in Request : At(r, "inserting") \/ r \in Uncommitted) => disk.final # 0

\* An answer that says "handed in", and is still to be sent when the commit is done, names
\* a stored attempt.
AnswersAreStored ==
  \A r \in Request : At(r, "closing") /\ request[r].code \in {"created", "duplicate"} =>
    request[r].n # 0 /\ ("commit" \notin request[r].left => New(r) \in stored)

\* A click's request is sent once, and once again after its connection broke.
SentOnce ==
  \A c \in Click :
    /\ click[c].pc \in {"unused", "collecting"} => click[c].copy = 1 /\ request[<<c, 1>>] = Unsent
    /\ click[c].copy = 1 => request[<<c, 2>>] = Unsent

IntakeInv ==
  /\ TypeOK /\ CountInv /\ SentOnce /\ WritersHold /\ AnswersAreStored
  /\ used.kills = 0 => FileInv /\ ShownIsStored
  /\ PageShowsTheAnnounced

-----------------------------------------------------------------------------
(* Requests, one at a time.                                                *)

\* One request goes on: how it stands afterwards.
Goes(r, pc, n, fd, code, left) ==
  /\ request' \in [Request -> Served]
  /\ \A q \in Request : q # r => request'[q] = request[q]
  /\ /\ request'[r].pc = pc /\ request'[r].n = n /\ request'[r].fd = fd
     /\ request'[r].code = code /\ request'[r].left = left

\* Every request is one.
LEMMA RequestIs ==
  ASSUME TypeOK, NEW r \in Request
  PROVE  request \in [Request -> Served] /\ request[r] \in Served /\ Unsent \in Served
<1>1. 0 \in 0..(2 * MaxClicks)
  BY BoundAssumption
<1>2. request \in [Request -> Served] /\ request[r] \in Served
  BY DEF TypeOK, Served
<1> QED BY <1>1, <1>2 DEF Served, Unsent, Code

\* A request that gets a new state.
LEMMA RequestSet ==
  ASSUME TypeOK, NEW r \in Request, NEW x \in Served, request' = [request EXCEPT ![r] = x]
  PROVE  Goes(r, x.pc, x.n, x.fd, x.code, x.left)
BY RequestIs DEF Goes

\* A request that goes on to the next statement.
LEMMA MoveGoes ==
  ASSUME TypeOK, NEW r \in Request,
         NEW pc \in {"sent", "admitting", "storing", "opening", "inserting", "gone"}, Move(r, pc)
  PROVE  Goes(r, pc, request[r].n, request[r].fd, request[r].code, request[r].left)
BY RequestIs DEF Goes, Move, Served

\* A request that has its answer.
LEMMA CloseGoes ==
  ASSUME TypeOK, NEW r \in Request, NEW code \in Code, NEW left \in SUBSET {"commit", "answer"},
         Close(r, code, left)
  PROVE  Goes(r, "closing", request[r].n, request[r].fd, code, left)
BY RequestIs DEF Goes, Close, Served

\* The commit or the answer is done; after both nothing is left of the request.
LEMMA LeftGoes ==
  ASSUME TypeOK, NEW r \in Request, NEW what \in {"commit", "answer"}, Left(r, what), At(r, "closing")
  PROVE  IF request[r].left \ {what} = {} THEN Goes(r, "done", 0, 0, "error", {})
         ELSE Goes(r, "closing", request[r].n, request[r].fd, request[r].code, request[r].left \ {what})
<1> DEFINE rest == request[r].left \ {what}
<1>1. rest \in SUBSET {"commit", "answer"}
  BY RequestIs DEF Served
<1>2. CASE rest = {}
  <2> DEFINE x == [Unsent EXCEPT !.pc = "done"]
  <2>1. x \in Served /\ x.pc = "done" /\ x.n = 0 /\ x.fd = 0 /\ x.code = "error" /\ x.left = {}
    BY RequestIs DEF Served, Unsent
  <2>2. request' = [request EXCEPT ![r] = x]
    BY <1>2 DEF Left
  <2> HIDE DEF x
  <2> QED BY <1>2, <2>1, <2>2, RequestSet
<1>3. CASE rest # {}
  <2> DEFINE x == [request[r] EXCEPT !.left = rest]
  <2>1. request' = [request EXCEPT ![r] = x]
    BY <1>3 DEF Left
  <2>2. /\ x \in Served /\ x.pc = "closing" /\ x.n = request[r].n /\ x.fd = request[r].fd
        /\ x.code = request[r].code /\ x.left = rest
    BY <1>1, RequestIs DEF Served, At
  <2> HIDE DEF x
  <2> QED BY <1>3, <2>1, <2>2, RequestSet
<1> QED BY <1>2, <1>3

-----------------------------------------------------------------------------
(* What a step leaves as it was.                                           *)

\* The count stays right while no request is admitted, inserts or commits.
LEMMA CountRests ==
  ASSUME CountInv, UNCHANGED <<stored, settings>>,
         \A q \in Request : /\ Admitted(q)' => Admitted(q)
                            /\ q \in Uncommitted' => q \in Uncommitted
                            /\ Admitted(q)' => request'[q].n = request[q].n
  PROVE  CountInv'
<1>1. \A q \in Uncommitted' : q \in Uncommitted /\ New(q)' = New(q)
  BY DEF Uncommitted, Admitted, New
<1>2. NumberedWithoutGaps' /\ LimitHolds'
  BY DEF CountInv, NumberedWithoutGaps, LimitHolds
<1> QED BY <1>1, <1>2 DEF CountInv, SameKey

\* Somebody relies on the file.
Needed == stored # {} \/ \E r \in Request : At(r, "inserting") \/ r \in Uncommitted

\* The file stays good while nobody touches it, no writer goes and nobody new relies on it.
LEMMA FileRests ==
  ASSUME FileInv, UNCHANGED disk, Needed' => Needed,
         \A q \in Request : At(q, "writing") => At(q, "writing")' /\ request'[q].fd = request[q].fd
  PROVE  FileInv'
<1>1. \A i : Filled(i) => Filled(i)'
  BY DEF Filled
<1>2. Needed => disk.final # 0
  BY DEF FileInv, Needed
<1>3. disk'.final = disk.final /\ disk'.tmp = disk.tmp
  OBVIOUS
<1>4. Filled(disk.final)' /\ Filled(disk.tmp)'
  BY <1>1, <1>3 DEF FileInv, Filled
<1> QED BY <1>2, <1>3, <1>4 DEF FileInv, Needed

-----------------------------------------------------------------------------
(* Counting.                                                               *)

\* No more attempts than clicks: no two have the same id.
LEMMA CountBound ==
  ASSUME TypeOK, CountInv
  PROVE  Cardinality(stored) \in Nat /\ Cardinality(stored) <= MaxClicks
<1>1. IsFiniteSet(stored) /\ Cardinality(stored) \in Nat
  BY FS_CardinalityType DEF CountInv
<1>2. IsFiniteSet(Click) /\ Cardinality(Click) = MaxClicks /\ MaxClicks \in Nat
  <2>1. MaxClicks \in Int /\ MaxClicks >= 1
    BY BoundAssumption
  <2>2. IsFiniteSet(1..MaxClicks) /\ Cardinality(1..MaxClicks) = IF 1 > MaxClicks THEN 0 ELSE MaxClicks - 1 + 1
    BY <2>1, FS_Interval
  <2> QED BY <2>1, <2>2 DEF Click
<1>3. CASE Cardinality(stored) > MaxClicks
  <2> DEFINE id == [a \in stored |-> a.id]
  <2>1. id \in [stored -> Click]
    BY DEF TypeOK, Attempt
  <2>2. Cardinality(Click) < Cardinality(stored)
    BY <1>1, <1>2, <1>3
  <2> HIDE DEF id
  <2>3. PICK a, b \in stored : a # b /\ id[a] = id[b]
    BY <1>1, <1>2, <2>1, <2>2, FS_PigeonHole
  <2> QED BY <2>3 DEF id, CountInv, SameKey
<1> QED BY <1>1, <1>2, <1>3

\* What waits for its commit has the next number, and nothing else waits.
LEMMA NextNumber ==
  ASSUME CountInv, NEW r \in Uncommitted
  PROVE  /\ request[r].n = Cardinality(stored) + 1
         /\ \A q \in Uncommitted : q = r
<1>1. Cardinality(stored) \in Nat /\ {a.no : a \in stored} = 1..Cardinality(stored)
  BY FS_CardinalityType DEF CountInv, NumberedWithoutGaps
<1>2. ASSUME NEW q \in Uncommitted PROVE request[q].n = Cardinality(stored) + 1
  <2>1. q \in Request /\ Admitted(q)
    BY DEF Uncommitted, Admitted
  <2>2. request[q].n \in 1..(Cardinality(stored) + 1)
    BY <2>1 DEF CountInv
  <2>3. request[q].n \notin {a.no : a \in stored}
    BY DEF CountInv, SameKey, New
  <2> QED BY <1>1, <2>2, <2>3
<1>3. ASSUME NEW q \in Uncommitted PROVE q = r
  <2>1. SameKey(New(q), New(r))
    BY <1>2 DEF SameKey, New
  <2> QED BY <2>1 DEF CountInv
<1> QED BY <1>2, <1>3

\* The admitted take the next number, within the limit.
LEMMA AdmitCounts ==
  ASSUME TypeOK, CountInv, NEW r \in Request, ~Exhausted(Cardinality(stored)), UNCHANGED <<stored, settings>>,
         Goes(r, "storing", Cardinality(stored) + 1, request[r].fd, request[r].code, request[r].left)
  PROVE  CountInv'
<1>1. Cardinality(stored) \in Nat
  BY CountBound
<1>2. settings.attempts_allowed \in Nat \cup {None}
  BY SettingsAssumption DEF TypeOK, Setting
<1>3. \A q \in Request : Admitted(q)' => q = r \/ (Admitted(q) /\ request'[q].n = request[q].n)
  BY DEF Admitted, Uncommitted, Goes, At
<1>4. \A q \in Uncommitted' : q \in Uncommitted /\ New(q)' = New(q)
  BY DEF Uncommitted, Goes, At, New
<1>5. settings.attempts_allowed # None => Cardinality(stored) + 1 <= settings.attempts_allowed
  BY <1>1, <1>2 DEF Exhausted
<1>6. request'[r].n = Cardinality(stored) + 1
  BY DEF Goes
<1>7. NumberedWithoutGaps' /\ LimitHolds'
  BY DEF CountInv, NumberedWithoutGaps, LimitHolds
<1>8. \A q \in Request : Admitted(q)' =>
        /\ request'[q].n \in 1..(Cardinality(stored) + 1)
        /\ settings.attempts_allowed # None => request'[q].n <= settings.attempts_allowed
  BY <1>1, <1>3, <1>5, <1>6 DEF CountInv
<1> QED BY <1>4, <1>7, <1>8 DEF CountInv, SameKey

\* What is inserted shares no key with what is stored or waits for its commit.
LEMMA InsertCounts ==
  ASSUME CountInv, NEW r \in Request, At(r, "inserting"), UNCHANGED <<stored, settings>>,
         \A q \in Uncommitted : ~SameKey(New(q), New(r)), \A a \in stored : ~SameKey(a, New(r)),
         Goes(r, "closing", request[r].n, request[r].fd, "created", {"commit", "answer"})
  PROVE  CountInv'
<1>1. \A q \in Request : Admitted(q)' => Admitted(q) /\ request'[q].n = request[q].n
  BY DEF Admitted, Uncommitted, Goes, At
<1>2. \A q \in Uncommitted' : New(q)' = New(q) /\ (q = r \/ q \in Uncommitted)
  BY DEF Uncommitted, Goes, At, New
<1>3. NumberedWithoutGaps' /\ LimitHolds'
  BY DEF CountInv, NumberedWithoutGaps, LimitHolds
<1> QED BY <1>1, <1>2, <1>3 DEF CountInv, SameKey

\* A commit adds the next number, and nobody else waits with it.
LEMMA CommitCounts ==
  ASSUME TypeOK, CountInv, NEW r \in Uncommitted, stored' = stored \cup {New(r)}, UNCHANGED settings,
         \A q \in Request : q # r => request'[q] = request[q],
         ~Admitted(r)'
  PROVE  CountInv'
<1> DEFINE n == Cardinality(stored)
           a == New(r)
<1>1. n \in Nat /\ IsFiniteSet(stored)
  BY CountBound DEF CountInv
<1>2. request[r].n = n + 1 /\ \A q \in Uncommitted : q = r
  BY NextNumber
<1>3. a.no = n + 1 /\ \A b \in stored : ~SameKey(b, a)
  BY <1>2 DEF New, CountInv
<1>4. r \in Request /\ Admitted(r)
  BY DEF Uncommitted, Admitted
<1> HIDE DEF a
<1>5. stored' = stored \cup {a}
  BY DEF a
<1>6. a \notin stored
  BY <1>3 DEF SameKey
<1>7. IsFiniteSet(stored') /\ Cardinality(stored') = n + 1
  <2>1. /\ IsFiniteSet(stored \cup {a})
        /\ Cardinality(stored \cup {a}) = IF a \in stored THEN Cardinality(stored) ELSE Cardinality(stored) + 1
    BY <1>1, FS_AddElement, Zenon
  <2> QED BY <1>5, <1>6, <2>1
<1>8. NumberedWithoutGaps'
  <2>1. {b.no : b \in stored} = 1..n
    BY DEF CountInv, NumberedWithoutGaps
  <2>2. {b.no : b \in stored'} = {b.no : b \in stored} \cup {n + 1}
    BY <1>3, <1>5
  <2>3. (1..n) \cup {n + 1} = 1..(n + 1)
    BY <1>1
  <2> QED BY <1>7, <2>1, <2>2, <2>3 DEF NumberedWithoutGaps
<1>9. LimitHolds'
  BY <1>2, <1>4, <1>7 DEF LimitHolds, CountInv
<1>10. \A b, c \in stored' : SameKey(b, c) => b = c
  BY <1>3, <1>5 DEF SameKey, CountInv
<1>11. \A q \in Request : Admitted(q)' => q # r /\ Admitted(q) /\ request'[q].n = request[q].n
  BY DEF Admitted, Uncommitted, At
<1>12. \A q \in Uncommitted' : q \in Uncommitted /\ q # r
  BY DEF Uncommitted, Admitted, At
<1>13. Uncommitted' = {}
  BY <1>2, <1>12
<1>14. \A q \in Request : Admitted(q)' =>
         /\ request'[q].n \in 1..(n + 1 + 1)
         /\ settings.attempts_allowed # None => request'[q].n <= settings.attempts_allowed
  BY <1>1, <1>11 DEF CountInv
<1> QED BY <1>7, <1>8, <1>9, <1>10, <1>13, <1>14 DEF CountInv

-----------------------------------------------------------------------------
(* The handlers.                                                           *)

\* Types, when only what the handlers write changes.
LEMMA ServeTypes ==
  ASSUME TypeOK, UNCHANGED <<world, token, widget, click, used>>,
         request' \in [Request -> Served], stored \subseteq stored', stored' \subseteq Attempt,
         disk' \in [tmp : Inode \cup {0}, final : Inode \cup {0}, whole : SUBSET Inode],
         page' \in PageOver(stored')
  PROVE  TypeOK'
BY DEF TypeOK, Served, world

\* A page that nothing happens to, while attempts are added.
LEMMA PageRests ==
  ASSUME TypeOK, UNCHANGED page, stored \subseteq stored'
  PROVE  page' \in PageOver(stored')
BY DEF TypeOK, PageOver

\* A request that has been sent goes on without the browser.
LEMMA SentRests ==
  ASSUME SentOnce, NEW r \in Request, request[r].pc # "none",
         \A q \in Request : q # r => request'[q] = request[q],
         \A c \in Click : /\ click'[c].copy = click[c].copy
                          /\ click'[c].pc \in {"unused", "collecting"} => click'[c].pc = click[c].pc
  PROVE  SentOnce'
<1>1. \A q \in Request : request[q] = Unsent => q # r
  BY DEF Unsent
<1>2. ASSUME NEW c \in Click PROVE <<c, 1>> \in Request /\ <<c, 2>> \in Request
  BY DEF Request
<1> QED BY <1>1, <1>2 DEF SentOnce

\* A statement of a handler before its transaction commits.
LEMMA StatementKeeps ==
  ASSUME IntakeInv, NEW r \in Request, request[r].pc # "none", r \notin Uncommitted,
         NEW pc, NEW n, NEW fd, NEW code, NEW left, Goes(r, pc, n, fd, code, left),
         UNCHANGED <<world, token, widget, click, used, stored>>,
         disk' \in [tmp : Inode \cup {0}, final : Inode \cup {0}, whole : SUBSET Inode],
         page' \in PageOver(stored),
         PageShowsTheAnnounced', CountInv', used.kills = 0 => FileInv',
         fd # 0 <=> pc = "writing",
         pc = "closing" /\ code \in {"created", "duplicate"} =>
           n # 0 /\ ("commit" \notin left => [no |-> n, id |-> r[1]] \in stored)
  PROVE  IntakeInv'
<1>1. TypeOK /\ TypeOK'
  BY ServeTypes DEF IntakeInv, Goes, TypeOK
<1>2. SentOnce'
  BY SentRests DEF IntakeInv, Goes
<1>3. WritersHold'
  BY DEF IntakeInv, WritersHold, Goes, At
<1>4. AnswersAreStored'
  BY DEF IntakeInv, AnswersAreStored, Goes, At, New
<1>5. \A q \in Uncommitted : q \in Uncommitted' /\ New(q)' = New(q)
  BY DEF Uncommitted, Goes, At, New
<1>6. used.kills = 0 => ShownIsStored'
  <2> SUFFICES ASSUME used.kills = 0, NEW c \in Click, click[c].shown # None
               PROVE  click[c].shown \in stored \/ \E q \in Uncommitted' : New(q)' = click[c].shown
    BY DEF ShownIsStored
  <2> QED BY <1>5 DEF IntakeInv, ShownIsStored
<1> QED BY <1>1, <1>2, <1>3, <1>4, <1>6 DEF IntakeInv

\* The duplicate check.
LEMMA LookStep ==
  ASSUME IntakeInv, NEW r \in Request, Look(r)
  PROVE  IntakeInv'
<1>1. /\ TypeOK /\ request[r].pc = "sent" /\ r \notin Uncommitted /\ request[r].fd = 0
      /\ UNCHANGED <<world, token, widget, click, stored, disk, page, used>>
  BY DEF IntakeInv, Look, At, Uncommitted, WritersHold
<1>2. \E pc, n, code, left :
        /\ Goes(r, pc, n, 0, code, left) /\ pc \in {"closing", "admitting"}
        /\ pc = "closing" => left = {"answer"}
        /\ pc = "closing" /\ code \in {"created", "duplicate"} => n # 0 /\ [no |-> n, id |-> r[1]] \in stored
  <2>1. CASE click[r[1]].cred # "live"
    <3>1. Goes(r, "closing", request[r].n, 0, "unauthorized", {"answer"})
      BY <1>1, <2>1, CloseGoes DEF Look, Code
    <3> QED BY <3>1
  <2>2. CASE click[r[1]].cred = "live" /\ \E a \in stored : a.id = r[1]
    <3> DEFINE a == CHOOSE b \in stored : b.id = r[1]
    <3>1. a \in stored /\ a.id = r[1] /\ a \in Attempt
      BY <1>1, <2>2 DEF TypeOK
    <3> DEFINE x == [request[r] EXCEPT !.pc = "closing", !.code = "duplicate", !.left = {"answer"}, !.n = a.no]
    <3>2. request' = [request EXCEPT ![r] = x]
      BY <2>2 DEF Look
    <3> HIDE DEF a
    <3>3. /\ x \in Served /\ x.pc = "closing" /\ x.n = a.no /\ x.fd = 0 /\ x.code = "duplicate"
          /\ x.left = {"answer"}
      <4>1. a.no \in 0..(2 * MaxClicks)
        BY <3>1, BoundAssumption DEF Attempt
      <4> QED BY <1>1, <4>1, RequestIs DEF Served, Code
    <3> HIDE DEF x
    <3>4. Goes(r, "closing", a.no, 0, "duplicate", {"answer"})
      BY <1>1, <3>2, <3>3, RequestSet
    <3>5. [no |-> a.no, id |-> r[1]] = a /\ a.no # 0
      <4>1. a = [no |-> a.no, id |-> a.id] /\ a.no \in 1..(2 * MaxClicks)
        BY <3>1 DEF Attempt
      <4> QED BY <3>1, <4>1, BoundAssumption
    <3> QED BY <3>1, <3>4, <3>5
  <2>3. CASE click[r[1]].cred = "live" /\ ~\E a \in stored : a.id = r[1]
    <3>1. Goes(r, "admitting", request[r].n, 0, request[r].code, request[r].left)
      BY <1>1, <2>3, MoveGoes DEF Look
    <3> QED BY <3>1
  <2> QED BY <2>1, <2>2, <2>3
<1>3. PICK pc, n, code, left :
        /\ Goes(r, pc, n, 0, code, left) /\ pc \in {"closing", "admitting"}
        /\ pc = "closing" => left = {"answer"}
        /\ pc = "closing" /\ code \in {"created", "duplicate"} => n # 0 /\ [no |-> n, id |-> r[1]] \in stored
  BY <1>2
<1>4. \A q \in Request : /\ Admitted(q)' => Admitted(q) /\ request'[q] = request[q]
                         /\ q \in Uncommitted' <=> q \in Uncommitted
                         /\ At(q, "inserting")' <=> At(q, "inserting")
                         /\ At(q, "writing") => At(q, "writing")' /\ request'[q].fd = request[q].fd
  BY <1>1, <1>3 DEF Goes, Admitted, Uncommitted, At
<1>5. CountInv'
  BY <1>1, <1>4, CountRests DEF IntakeInv, world
<1>6. used.kills = 0 => FileInv'
  BY <1>1, <1>4, FileRests DEF IntakeInv, Needed
<1>7. /\ PageShowsTheAnnounced'
      /\ disk' \in [tmp : Inode \cup {0}, final : Inode \cup {0}, whole : SUBSET Inode]
      /\ page' \in PageOver(stored)
  BY <1>1 DEF IntakeInv, PageShowsTheAnnounced, TypeOK
<1> QED BY <1>1, <1>3, <1>5, <1>6, <1>7, StatementKeeps

\* The window, the count and the limit.
LEMMA AdmitStep ==
  ASSUME IntakeInv, NEW r \in Request, Admit(r)
  PROVE  IntakeInv'
<1>1. /\ TypeOK /\ request[r].pc = "admitting" /\ r \notin Uncommitted /\ request[r].fd = 0
      /\ UNCHANGED <<world, token, widget, click, stored, disk, page, used>>
  BY DEF IntakeInv, Admit, At, Uncommitted, WritersHold
<1> DEFINE n == Cardinality(stored)
<1>2. /\ PageShowsTheAnnounced'
      /\ disk' \in [tmp : Inode \cup {0}, final : Inode \cup {0}, whole : SUBSET Inode]
      /\ page' \in PageOver(stored)
  BY <1>1 DEF IntakeInv, PageShowsTheAnnounced, TypeOK
<1>3. ASSUME NEW pc \in {"closing", "storing"}, NEW m, NEW code, NEW left, Goes(r, pc, m, 0, code, left),
             pc = "closing" => left = {"answer"}
      PROVE  used.kills = 0 => FileInv'
  <2>1. \A q \in Request : /\ q \in Uncommitted' <=> q \in Uncommitted
                           /\ At(q, "inserting")' <=> At(q, "inserting")
                           /\ At(q, "writing") => At(q, "writing")' /\ request'[q].fd = request[q].fd
    BY <1>1, <1>3 DEF Goes, Uncommitted, At
  <2> QED BY <1>1, <2>1, FileRests DEF IntakeInv, Needed
<1>4. CASE RefusedByWindow \/ Exhausted(n)
  <2>1. Goes(r, "closing", request[r].n, 0, "refused", {"answer"})
    BY <1>1, <1>4, CloseGoes DEF Admit, Code
  <2>2. CountInv'
    <3>1. \A q \in Request : /\ Admitted(q)' => Admitted(q) /\ request'[q].n = request[q].n
                             /\ q \in Uncommitted' => q \in Uncommitted
      BY <1>1, <2>1 DEF Goes, Admitted, Uncommitted, At
    <3> QED BY <1>1, <3>1, CountRests DEF IntakeInv, world
  <2> QED BY <1>1, <1>2, <1>3, <2>1, <2>2, StatementKeeps
<1>5. CASE ~(RefusedByWindow \/ Exhausted(n))
  <2> DEFINE x == [request[r] EXCEPT !.pc = "storing", !.n = n + 1]
  <2>1. request' = [request EXCEPT ![r] = x]
    BY <1>5 DEF Admit
  <2>2. n + 1 \in 0..(2 * MaxClicks)
    BY <1>1, CountBound, BoundAssumption DEF IntakeInv
  <2> HIDE DEF n
  <2>3. /\ x \in Served /\ x.pc = "storing" /\ x.n = n + 1 /\ x.fd = 0
        /\ x.code = request[r].code /\ x.left = request[r].left
    BY <1>1, <2>2, RequestIs DEF Served
  <2> HIDE DEF x
  <2>4. Goes(r, "storing", n + 1, 0, request[r].code, request[r].left)
    BY <1>1, <2>1, <2>3, RequestSet
  <2>5. CountInv'
    BY <1>1, <1>5, <2>4, AdmitCounts DEF IntakeInv, world, n
  <2> QED BY <1>1, <1>2, <1>3, <2>4, <2>5, StatementKeeps
<1> QED BY <1>4, <1>5

\* A statement about the file: a request that stays admitted, under the number it has.
LEMMA FileStatement ==
  ASSUME IntakeInv, NEW r \in Request,
         request[r].pc \in {"storing", "opening", "writing", "renaming", "inserting"},
         NEW pc, NEW fd, NEW code, NEW left, Goes(r, pc, request[r].n, fd, code, left),
         pc \in {"opening", "writing", "renaming", "inserting"} \/ (pc = "closing" /\ code = "error" /\ left = {"answer"}),
         fd # 0 <=> pc = "writing",
         UNCHANGED <<world, token, widget, click, used, stored, page>>,
         disk' \in [tmp : Inode \cup {0}, final : Inode \cup {0}, whole : SUBSET Inode],
         used.kills = 0 => FileInv'
  PROVE  IntakeInv'
<1>1. TypeOK /\ r \notin Uncommitted
  BY DEF IntakeInv, Uncommitted, At
<1>2. \A q \in Request : /\ Admitted(q)' => Admitted(q) /\ request'[q].n = request[q].n
                         /\ q \in Uncommitted' => q \in Uncommitted
  BY DEF Goes, Admitted, Uncommitted, At
<1>3. CountInv'
  BY <1>2, CountRests DEF IntakeInv, world
<1>4. PageShowsTheAnnounced' /\ page' \in PageOver(stored)
  BY DEF IntakeInv, PageShowsTheAnnounced, TypeOK
<1> QED BY <1>1, <1>3, <1>4, StatementKeeps

\* A writer that goes on writing keeps a file filled.
LEMMA FilledRests ==
  ASSUME UNCHANGED disk,
         \A q \in Request : At(q, "writing") => At(q, "writing")' /\ request'[q].fd = request[q].fd
  PROVE  \A i : Filled(i) => Filled(i)'
BY DEF Filled

\* store().put() finds the file, or not.
LEMMA PutCheckStep ==
  ASSUME IntakeInv, NEW r \in Request, PutCheck(r)
  PROVE  IntakeInv'
<1>1. /\ TypeOK /\ request[r].pc = "storing" /\ request[r].fd = 0 /\ r \notin Uncommitted
      /\ UNCHANGED <<world, token, widget, click, stored, disk, page, used>>
  BY DEF IntakeInv, PutCheck, At, WritersHold, Uncommitted
<1> DEFINE pc == IF Present THEN "inserting" ELSE "opening"
<1>2. Goes(r, pc, request[r].n, 0, request[r].code, request[r].left)
  BY <1>1, MoveGoes DEF PutCheck
<1>3. pc = "inserting" => disk.final # 0
  BY DEF Present
<1>4. pc \in {"inserting", "opening"}
  OBVIOUS
<1> HIDE DEF pc
<1>5. used.kills = 0 => FileInv'
  <2>1. \A q \in Request : At(q, "writing") => At(q, "writing")' /\ request'[q].fd = request[q].fd
    BY <1>1, <1>2 DEF Goes, At
  <2>2. \A i : Filled(i) => Filled(i)'
    BY <1>1, <2>1, FilledRests
  <2>3. Needed' => Needed \/ disk.final # 0
    <3>1. \A q \in Request : /\ At(q, "inserting")' => At(q, "inserting") \/ disk.final # 0
                             /\ q \in Uncommitted' => q \in Uncommitted
      BY <1>1, <1>2, <1>3, <1>4 DEF Goes, Uncommitted, At
    <3> QED BY <1>1, <3>1 DEF Needed, Uncommitted
  <2>4. disk'.final = disk.final /\ disk'.tmp = disk.tmp
    BY <1>1
  <2> SUFFICES ASSUME used.kills = 0 PROVE FileInv'
    OBVIOUS
  <2>5. FileInv
    BY DEF IntakeInv
  <2>6. Filled(disk.final)' /\ Filled(disk.tmp)'
    BY <2>2, <2>4, <2>5 DEF FileInv, Filled
  <2> QED BY <2>3, <2>4, <2>5, <2>6 DEF FileInv, Needed
<1>6. disk' \in [tmp : Inode \cup {0}, final : Inode \cup {0}, whole : SUBSET Inode]
  BY <1>1 DEF TypeOK
<1> QED BY <1>1, <1>2, <1>4, <1>5, <1>6, FileStatement

\* There is a file nobody holds: fewer handlers write than there are files.
LEMMA FreeFile ==
  ASSUME TypeOK, NEW r \in Request, request[r].fd = 0, disk.tmp = 0
  PROVE  LET free == Inode \ ({disk.tmp, disk.final} \cup {request[q].fd : q \in Request})
         IN  Min(free) \in free
<1> DEFINE free == Inode \ ({disk.tmp, disk.final} \cup {request[q].fd : q \in Request})
<1>1. MaxClicks \in Nat /\ MaxClicks >= 1 /\ 2 * MaxClicks \in Nat
  BY BoundAssumption
<1>2. free # {}
  <2> SUFFICES ASSUME free = {} PROVE FALSE
    BY Zenon
  <2>1. \A i \in Inode \ {disk.final} : \E q \in Request : request[q].fd = i
    BY DEF Inode
  <2> DEFINE holder == [i \in Inode |-> IF i = disk.final THEN r ELSE CHOOSE q \in Request : request[q].fd = i]
  <2>2. \A i \in Inode : holder[i] \in Request /\ (i # disk.final => request[holder[i]].fd = i)
    BY <2>1
  <2>3. holder \in [Inode -> Request]
    BY <2>2
  <2>4. \A i \in Inode : i # 0 /\ (i = disk.final => holder[i] = r)
    BY DEF Inode
  <2> HIDE DEF holder
  <2>5. IsFiniteSet(Inode) /\ Cardinality(Inode) = 2 * MaxClicks + 1
    <3>1. /\ IsFiniteSet(1..(2 * MaxClicks + 1))
          /\ Cardinality(1..(2 * MaxClicks + 1)) =
               IF 1 > 2 * MaxClicks + 1 THEN 0 ELSE (2 * MaxClicks + 1) - 1 + 1
      BY <1>1, FS_Interval
    <3> QED BY <1>1, <3>1 DEF Inode
  <2>6. IsFiniteSet(Request) /\ Cardinality(Request) = MaxClicks * 2
    <3>1. IsFiniteSet(Click) /\ Cardinality(Click) = MaxClicks
      <4>1. IsFiniteSet(1..MaxClicks) /\ Cardinality(1..MaxClicks) = IF 1 > MaxClicks THEN 0 ELSE MaxClicks - 1 + 1
        BY <1>1, FS_Interval
      <4> QED BY <1>1, <4>1 DEF Click
    <3>2. IsFiniteSet({1, 2}) /\ Cardinality({1, 2}) = 2
      <4>1. IsFiniteSet({1}) /\ Cardinality({1}) = 1
        BY FS_Singleton
      <4>2. {1, 2} = {1} \cup {2} /\ 2 \notin {1}
        OBVIOUS
      <4>3. /\ IsFiniteSet({1} \cup {2})
            /\ Cardinality({1} \cup {2}) = IF 2 \in {1} THEN Cardinality({1}) ELSE Cardinality({1}) + 1
        BY <4>1, FS_AddElement, Zenon
      <4> QED BY <4>1, <4>2, <4>3
    <3>3. IsFiniteSet(Click \X {1, 2}) /\ Cardinality(Click \X {1, 2}) = Cardinality(Click) * Cardinality({1, 2})
      BY <3>1, <3>2, FS_Product, Zenon
    <3> QED BY <3>1, <3>2, <3>3 DEF Request
  <2>7. Cardinality(Request) < Cardinality(Inode)
    BY <1>1, <2>5, <2>6
  <2>8. PICK i, j \in Inode : i # j /\ holder[i] = holder[j]
    BY <2>3, <2>5, <2>6, <2>7, FS_PigeonHole
  <2> QED BY <2>2, <2>4, <2>8
<1>3. free \in SUBSET Nat
  BY DEF Inode
<1> HIDE DEF free
<1>4. \E x \in free : \A y \in free : x <= y
  <2> DEFINE R == OpToRel(<, Nat)
  <2>1. IsWellFoundedOn(R, Nat)
    BY NatLessThanWellFounded, Zenon
  <2>2. \A x, y \in Nat : <<x, y>> \in R <=> x < y
    BY DEF OpToRel
  <2> HIDE DEF R
  <2>3. PICK x \in free : \A y \in free : <<y, x>> \notin R
    BY <1>2, <1>3, <2>1, WFMin, Zenon
  <2>4. ASSUME NEW y \in free PROVE x <= y
    <3>1. x \in Nat /\ y \in Nat /\ ~(y < x)
      BY <1>3, <2>2, <2>3
    <3> QED BY <3>1
  <2> QED BY <2>4
<1>5. Min(free) \in free
  BY <1>4 DEF Min
<1> QED BY <1>5 DEF free

\* The .tmp file is opened: a new one, or the one that stands there, cut to nothing.
LEMMA PutOpenStep ==
  ASSUME IntakeInv, NEW r \in Request, PutOpen(r)
  PROVE  IntakeInv'
<1>1. /\ TypeOK /\ request[r].pc = "opening" /\ request[r].fd = 0 /\ r \notin Uncommitted
      /\ UNCHANGED <<world, token, widget, click, stored, page, used>>
  BY DEF IntakeInv, PutOpen, At, WritersHold, Uncommitted
<1> DEFINE free == Inode \ ({disk.tmp, disk.final} \cup {request[q].fd : q \in Request})
           fd == IF disk.tmp # 0 THEN disk.tmp ELSE Min(free)
<1>2. fd \in Inode /\ fd # 0 /\ (used.kills = 0 => fd # disk.final)
  <2>1. CASE disk.tmp # 0
    <3>1. disk.tmp \in Inode
      BY <1>1, <2>1 DEF TypeOK
    <3> QED BY <2>1, <3>1 DEF IntakeInv, FileInv
  <2>2. CASE disk.tmp = 0
    <3>1. Min(free) \in free
      BY <1>1, <2>2, FreeFile
    <3>2. \A i \in Inode : i # 0
      BY DEF Inode
    <3> QED BY <2>2, <3>1, <3>2
  <2> QED BY <2>1, <2>2
<1>3. /\ request' = [request EXCEPT ![r] = [@ EXCEPT !.pc = "writing", !.fd = fd]]
      /\ disk' = [disk EXCEPT !.tmp = fd, !.whole = @ \ {fd}]
  BY DEF PutOpen
<1> HIDE DEF fd
<1>4. Goes(r, "writing", request[r].n, fd, request[r].code, request[r].left)
  <2> DEFINE x == [request[r] EXCEPT !.pc = "writing", !.fd = fd]
  <2>1. request' = [request EXCEPT ![r] = x]
    BY <1>3
  <2>2. /\ x \in Served /\ x.pc = "writing" /\ x.n = request[r].n /\ x.fd = fd
        /\ x.code = request[r].code /\ x.left = request[r].left
    BY <1>1, <1>2, RequestIs DEF Served
  <2> HIDE DEF x
  <2> QED BY <1>1, <2>1, <2>2, RequestSet
<1>5. /\ disk' \in [tmp : Inode \cup {0}, final : Inode \cup {0}, whole : SUBSET Inode]
      /\ disk'.tmp = fd /\ disk'.final = disk.final /\ disk'.whole = disk.whole \ {fd}
  BY <1>1, <1>2, <1>3 DEF TypeOK
<1>6. ASSUME used.kills = 0 PROVE FileInv'
  <2>1. FileInv /\ fd # disk.final
    BY <1>2, <1>6 DEF IntakeInv
  <2>2. \A q \in Request : At(q, "writing") => At(q, "writing")' /\ request'[q].fd = request[q].fd
    BY <1>1, <1>4 DEF Goes, At
  <2>3. Filled(disk.final)'
    BY <1>5, <2>1, <2>2 DEF FileInv, Filled
  <2>4. Filled(disk.tmp)'
    BY <1>4, <1>5 DEF Filled, Goes, At
  <2>5. Needed' => Needed
    BY <1>1, <1>4 DEF Needed, Goes, At, Uncommitted
  <2> QED BY <1>5, <2>1, <2>3, <2>4, <2>5 DEF FileInv, Needed
<1> QED BY <1>1, <1>2, <1>4, <1>5, <1>6, FileStatement

\* The bytes are written, to the file that was opened, whatever its name is by now.
LEMMA PutWriteStep ==
  ASSUME IntakeInv, NEW r \in Request, PutWrite(r)
  PROVE  IntakeInv'
<1>1. /\ TypeOK /\ request[r].pc = "writing" /\ request[r].fd # 0 /\ r \notin Uncommitted
      /\ UNCHANGED <<world, token, widget, click, stored, page, used>>
  BY DEF IntakeInv, PutWrite, At, WritersHold, Uncommitted
<1> DEFINE fd == request[r].fd
<1>2. fd \in Inode
  BY <1>1 DEF TypeOK
<1>3. Goes(r, "renaming", request[r].n, 0, request[r].code, request[r].left)
  <2> DEFINE x == [request[r] EXCEPT !.pc = "renaming", !.fd = 0]
  <2>1. request' = [request EXCEPT ![r] = x]
    BY DEF PutWrite
  <2>2. /\ x \in Served /\ x.pc = "renaming" /\ x.n = request[r].n /\ x.fd = 0
        /\ x.code = request[r].code /\ x.left = request[r].left
    BY <1>1, RequestIs DEF Served
  <2> HIDE DEF x
  <2> QED BY <1>1, <2>1, <2>2, RequestSet
<1>4. /\ disk' \in [tmp : Inode \cup {0}, final : Inode \cup {0}, whole : SUBSET Inode]
      /\ disk'.tmp = disk.tmp /\ disk'.final = disk.final /\ disk'.whole = disk.whole \cup {fd}
  BY <1>1, <1>2 DEF TypeOK, PutWrite
<1>5. ASSUME used.kills = 0 PROVE FileInv'
  <2>1. FileInv
    BY <1>5 DEF IntakeInv
  <2>2. \A q \in Request : q # r /\ At(q, "writing") => At(q, "writing")' /\ request'[q].fd = request[q].fd
    BY <1>3 DEF Goes, At
  <2>3. \A i : Filled(i) => Filled(i)'
    BY <1>4, <2>2 DEF Filled
  <2>4. Needed' => Needed
    BY <1>1, <1>3 DEF Needed, Goes, At, Uncommitted
  <2>5. Filled(disk.final)' /\ Filled(disk.tmp)'
    BY <1>4, <2>1, <2>3 DEF FileInv, Filled
  <2> QED BY <1>4, <2>1, <2>4, <2>5 DEF FileInv, Needed
<1> QED BY <1>1, <1>3, <1>4, <1>5, FileStatement

\* What the .tmp name stands for gets the final name, or is gone already.
LEMMA PutReplaceStep ==
  ASSUME IntakeInv, NEW r \in Request, PutReplace(r)
  PROVE  IntakeInv'
<1>1. /\ TypeOK /\ request[r].pc = "renaming" /\ request[r].fd = 0 /\ r \notin Uncommitted
      /\ UNCHANGED <<world, token, widget, click, stored, page, used>>
  BY DEF IntakeInv, PutReplace, At, WritersHold, Uncommitted
<1>2. CASE disk.tmp = 0
  <2>1. UNCHANGED disk /\ Goes(r, "closing", request[r].n, 0, "error", {"answer"})
    BY <1>1, <1>2, CloseGoes DEF PutReplace, Code
  <2>2. ASSUME used.kills = 0 PROVE FileInv'
    <3>1. Needed' => Needed
      BY <1>1, <2>1 DEF Needed, Goes, At, Uncommitted
    <3>2. \A q \in Request : At(q, "writing") => At(q, "writing")' /\ request'[q].fd = request[q].fd
      BY <1>1, <2>1 DEF Goes, At
    <3> QED BY <2>1, <2>2, <3>1, <3>2, FileRests DEF IntakeInv
  <2>3. disk' \in [tmp : Inode \cup {0}, final : Inode \cup {0}, whole : SUBSET Inode]
    BY <1>1, <2>1 DEF TypeOK
  <2> QED BY <1>1, <2>1, <2>2, <2>3, FileStatement
<1>3. CASE disk.tmp # 0
  <2>1. Goes(r, "inserting", request[r].n, 0, request[r].code, request[r].left)
    BY <1>1, <1>3, MoveGoes DEF PutReplace
  <2>2. /\ disk' \in [tmp : Inode \cup {0}, final : Inode \cup {0}, whole : SUBSET Inode]
        /\ disk'.tmp = 0 /\ disk'.final = disk.tmp
        /\ disk'.whole = disk.whole \ ({disk.final} \ {disk.tmp})
    <3>1. disk \in [tmp : Inode \cup {0}, final : Inode \cup {0}, whole : SUBSET Inode]
      BY <1>1 DEF TypeOK
    <3>2. disk' = [disk EXCEPT !.final = disk.tmp, !.tmp = 0, !.whole = @ \ ({disk.final} \ {disk.tmp})]
      BY <1>3 DEF PutReplace
    <3>3. disk' = [tmp |-> 0, final |-> disk.tmp, whole |-> disk.whole \ ({disk.final} \ {disk.tmp})]
      BY <3>1, <3>2
    <3> QED BY <3>1, <3>3
  <2>3. ASSUME used.kills = 0 PROVE FileInv'
    <3>1. Filled(disk.tmp)
      BY <2>3 DEF IntakeInv, FileInv
    <3>2. \A q \in Request : At(q, "writing") => At(q, "writing")' /\ request'[q].fd = request[q].fd
      BY <1>1, <2>1 DEF Goes, At
    <3>3. Filled(disk.final)' /\ Filled(disk.tmp)'
      BY <2>2, <3>1, <3>2 DEF Filled
    <3> QED BY <1>3, <2>2, <3>3 DEF FileInv
  <2> QED BY <1>1, <2>1, <2>2, <2>3, FileStatement
<1> QED BY <1>2, <1>3

\* The insert: a key that is taken is an error, otherwise the page is told.
LEMMA InsertStep ==
  ASSUME IntakeInv, NEW r \in Request, Insert(r)
  PROVE  IntakeInv'
<1>1. /\ TypeOK /\ request[r].pc = "inserting" /\ request[r].fd = 0 /\ r \notin Uncommitted
      /\ UNCHANGED <<world, token, widget, click, stored, disk, used>>
  BY DEF IntakeInv, Insert, At, WritersHold, Uncommitted
<1>2. disk' \in [tmp : Inode \cup {0}, final : Inode \cup {0}, whole : SUBSET Inode]
  BY <1>1 DEF TypeOK
<1>3. ASSUME NEW code, NEW left, Goes(r, "closing", request[r].n, 0, code, left)
      PROVE  used.kills = 0 => FileInv'
  <2>1. \A q \in Request : At(q, "writing") => At(q, "writing")' /\ request'[q].fd = request[q].fd
    BY <1>1, <1>3 DEF Goes, At
  <2>2. Needed' => Needed
    BY <1>1, <1>3 DEF Needed, Goes, At, Uncommitted
  <2> QED BY <1>1, <2>1, <2>2, FileRests DEF IntakeInv
<1>4. CASE \E a \in stored : SameKey(a, New(r))
  <2>1. UNCHANGED page /\ Goes(r, "closing", request[r].n, 0, "error", {"answer"})
    BY <1>1, <1>4, CloseGoes DEF Insert, Rejected, Code
  <2> QED BY <1>1, <1>2, <1>3, <2>1, FileStatement
<1>5. CASE ~\E a \in stored : SameKey(a, New(r))
  <2>1. page' = Published /\ Goes(r, "closing", request[r].n, 0, "created", {"commit", "answer"})
    BY <1>1, <1>5, CloseGoes DEF Insert, Code
  <2>2. /\ page' \in PageOver(stored)
        /\ page'.inbox # 0 \/ page'.behind
    <3>1. page \in PageOver(stored)
      BY <1>1 DEF TypeOK
    <3>2. MaxInbox \in Nat /\ MaxInbox >= 1
      BY BoundAssumption
    <3> DEFINE k == IF page.linked /\ page.inbox < MaxInbox THEN page.inbox + 1 ELSE page.inbox
    <3>3. k \in 0..MaxInbox /\ (page.linked => k # 0)
      BY <3>1, <3>2 DEF PageOver
    <3>4. page' = [page EXCEPT !.inbox = k, !.announced = stored, !.behind = @ \/ ~page.linked]
      BY <2>1 DEF Published
    <3> HIDE DEF k
    <3>5. page' \in PageOver(stored)
      BY <3>1, <3>3, <3>4 DEF PageOver
    <3>6. page.linked => page'.inbox # 0
      BY <3>1, <3>3, <3>4 DEF PageOver
    <3>7. ~page.linked => page'.behind
      BY <3>1, <3>4, Zenon DEF PageOver
    <3> QED BY <3>5, <3>6, <3>7
  <2>3. PageShowsTheAnnounced'
    BY <2>2 DEF PageShowsTheAnnounced
  <2>4. CountInv'
    BY <1>1, <1>5, <2>1, InsertCounts DEF IntakeInv, Insert, world, At
  <2>5. request[r].n # 0
    BY <1>1, CountBound DEF IntakeInv, CountInv, Admitted
  <2> QED BY <1>1, <1>2, <1>3, <2>1, <2>2, <2>3, <2>4, <2>5, StatementKeeps
<1> QED BY <1>4, <1>5

\* The transaction commits: the attempt is stored.
LEMMA CommitStep ==
  ASSUME IntakeInv, NEW r \in Request, Commit(r)
  PROVE  IntakeInv'
<1>1. /\ TypeOK /\ request[r].pc = "closing" /\ request[r].fd = 0 /\ r \in Uncommitted
      /\ stored' = stored \cup {New(r)}
      /\ UNCHANGED <<world, token, widget, click, disk, page, used>>
  BY DEF IntakeInv, Commit, At, WritersHold, Uncommitted
<1>2. New(r) \in Attempt
  <2>1. request[r].n = Cardinality(stored) + 1
    BY <1>1, NextNumber DEF IntakeInv
  <2>2. request[r].n \in 1..(2 * MaxClicks)
    BY <1>1, <2>1, CountBound, BoundAssumption DEF IntakeInv
  <2> QED BY <2>2 DEF New, Attempt, Request
<1> DEFINE rest == request[r].left \ {"commit"}
<1>3. PICK pc, n, code :
        /\ Goes(r, pc, n, 0, code, rest) /\ pc \in {"done", "closing"}
        /\ pc = "closing" => n = request[r].n /\ code = request[r].code
  <2>1. IF rest = {} THEN Goes(r, "done", 0, 0, "error", {})
        ELSE Goes(r, "closing", request[r].n, request[r].fd, request[r].code, rest)
    BY <1>1, LeftGoes DEF Commit, At
  <2>2. CASE rest = {}
    <3>1. Goes(r, "done", 0, 0, "error", rest)
      BY <2>1, <2>2
    <3> QED BY <3>1
  <2>3. CASE rest # {}
    <3>1. Goes(r, "closing", request[r].n, 0, request[r].code, rest)
      BY <1>1, <2>1, <2>3
    <3> QED BY <3>1
  <2> QED BY <2>2, <2>3
<1>4. TypeOK'
  <2>1. stored \subseteq stored' /\ stored' \subseteq Attempt
    BY <1>1, <1>2 DEF TypeOK
  <2>2. disk' \in [tmp : Inode \cup {0}, final : Inode \cup {0}, whole : SUBSET Inode]
    BY <1>1 DEF TypeOK
  <2> QED BY <1>1, <1>3, <2>1, <2>2, PageRests, ServeTypes DEF Goes
<1>5. CountInv'
  <2>1. ~Admitted(r)'
    BY <1>3 DEF Admitted, Uncommitted, Goes, At
  <2> QED BY <1>1, <1>3, <2>1, CommitCounts DEF IntakeInv, Goes, world
<1>6. SentOnce'
  BY <1>1, <1>3, SentRests DEF IntakeInv, Goes
<1>7. WritersHold'
  BY <1>1, <1>3 DEF IntakeInv, WritersHold, Goes, At
<1>8. AnswersAreStored'
  <2> SUFFICES ASSUME NEW q \in Request, At(q, "closing")', request'[q].code \in {"created", "duplicate"}
               PROVE  request'[q].n # 0 /\ ("commit" \notin request'[q].left => New(q)' \in stored')
    BY DEF AnswersAreStored
  <2>1. CASE q = r
    <3>1. request'[r].n = request[r].n /\ request'[r].code = request[r].code
      BY <1>3, <2>1 DEF Goes, At
    <3> QED BY <1>1, <2>1, <3>1 DEF IntakeInv, AnswersAreStored, At, New
  <2>2. CASE q # r
    BY <1>1, <1>3, <2>2 DEF IntakeInv, AnswersAreStored, Goes, At, New
  <2> QED BY <2>1, <2>2
<1>9. ASSUME used.kills = 0 PROVE FileInv' /\ ShownIsStored'
  <2>1. FileInv'
    <3>1. \A q \in Request : At(q, "writing") => At(q, "writing")' /\ request'[q].fd = request[q].fd
      BY <1>1, <1>3 DEF Goes, At
    <3>2. Needed
      BY <1>1 DEF Needed, Uncommitted
    <3> QED BY <1>1, <1>9, <3>1, <3>2, FileRests DEF IntakeInv
  <2>2. ShownIsStored'
    <3>1. \A q \in Uncommitted : q = r
      BY <1>1, NextNumber DEF IntakeInv
    <3> SUFFICES ASSUME NEW c \in Click, click[c].shown # None
                 PROVE  click[c].shown \in stored'
      BY <1>1 DEF ShownIsStored
    <3> QED BY <1>1, <1>9, <3>1 DEF IntakeInv, ShownIsStored
  <2> QED BY <2>1, <2>2
<1>10. PageShowsTheAnnounced'
  BY <1>1 DEF IntakeInv, PageShowsTheAnnounced
<1> QED BY <1>1, <1>4, <1>5, <1>6, <1>7, <1>8, <1>9, <1>10 DEF IntakeInv

-----------------------------------------------------------------------------
(* The browser.                                                            *)

\* One run of submit() goes on: how it stands afterwards.
Runs(c, x) ==
  /\ click' \in [Click -> Run] /\ click'[c] = x
  /\ \A d \in Click : d # c => click'[d] = click[d]

\* Every run of submit() is one.
LEMMA RunIs ==
  ASSUME TypeOK
  PROVE  click \in [Click -> Run]
BY DEF TypeOK, Run

\* A run of submit() that ends.
LEMMA EndRuns ==
  ASSUME TypeOK, NEW c \in Click, End(c)
  PROVE  \E x \in Run : /\ Runs(c, x) /\ x.pc = "ended"
                        /\ x.copy = click[c].copy /\ x.shown = click[c].shown
<1> DEFINE x == [click[c] EXCEPT !.pc = "ended", !.cred = "none"]
<1>1. x \in Run /\ x.pc = "ended" /\ x.copy = click[c].copy /\ x.shown = click[c].shown
  BY RunIs DEF Run
<1>2. click' = [click EXCEPT ![c] = x]
  BY RunIs DEF End, Run
<1> HIDE DEF x
<1>3. Runs(c, x)
  BY <1>1, <1>2, RunIs DEF Runs
<1> QED BY <1>1, <1>3

\* A run of submit() that shows an attempt.
LEMMA ShowRuns ==
  ASSUME TypeOK, NEW c \in Click, NEW a \in Attempt,
         click' = [click EXCEPT ![c].pc = "polling", ![c].cred = "none", ![c].shown = a]
  PROVE  \E x \in Run : Runs(c, x) /\ x.pc = "polling" /\ x.copy = click[c].copy /\ x.shown = a
<1> DEFINE x == [click[c] EXCEPT !.pc = "polling", !.cred = "none", !.shown = a]
<1>1. x \in Run /\ x.pc = "polling" /\ x.copy = click[c].copy /\ x.shown = a
  BY RunIs DEF Run
<1>2. click' = [click EXCEPT ![c] = x]
  BY RunIs DEF Run
<1> HIDE DEF x
<1>3. Runs(c, x)
  BY <1>1, <1>2, RunIs DEF Runs
<1> QED BY <1>1, <1>3

\* The button comes back, on its own rendering.
LEMMA EnableTypes ==
  ASSUME TypeOK, NEW c \in Click, Enable(c)
  PROVE  widget' \in [view : View, disabled : BOOLEAN, flows : 0..2]
<1>1. widget \in [view : View, disabled : BOOLEAN, flows : 0..2]
  BY DEF TypeOK
<1> QED BY <1>1 DEF Enable

\* The answer arrives, before or after the commit.
LEMMA AnswerStep ==
  ASSUME IntakeInv, NEW r \in Request, Answer(r)
  PROVE  IntakeInv'
<1>1. /\ TypeOK /\ request[r].pc = "closing" /\ request[r].fd = 0 /\ "answer" \in request[r].left
      /\ UNCHANGED <<world, stored, disk, page, used>>
  BY DEF IntakeInv, Answer, At, WritersHold
<1> DEFINE rest == request[r].left \ {"answer"}
           c == r[1]
<1>2. c \in Click /\ r[2] \in {1, 2}
  BY DEF Request
<1>3. PICK pc, n, code :
        /\ Goes(r, pc, n, 0, code, rest) /\ pc \in {"done", "closing"}
        /\ pc = "closing" => n = request[r].n /\ code = request[r].code
        /\ pc = "done" => "commit" \notin request[r].left
  <2>1. IF rest = {} THEN Goes(r, "done", 0, 0, "error", {})
        ELSE Goes(r, "closing", request[r].n, request[r].fd, request[r].code, rest)
    BY <1>1, LeftGoes DEF Answer, At
  <2>2. CASE rest = {}
    <3>1. Goes(r, "done", 0, 0, "error", rest) /\ "commit" \notin request[r].left
      BY <2>1, <2>2
    <3> QED BY <3>1
  <2>3. CASE rest # {}
    <3>1. Goes(r, "closing", request[r].n, 0, request[r].code, rest)
      BY <1>1, <2>1, <2>3
    <3> QED BY <3>1
  <2> QED BY <2>2, <2>3
<1>4. \A q \in Request : /\ request'[q].pc # "closing" => q \notin Uncommitted
                         /\ q \in Uncommitted' <=> q \in Uncommitted
                         /\ q \in Uncommitted => request'[q].n = request[q].n
                         /\ q # r => request'[q] = request[q]
  BY <1>1, <1>3 DEF Goes, Uncommitted, At
<1>5. \/ UNCHANGED <<token, widget, click>>
      \/ /\ token' \in {"none", "live", "expired"}
         /\ widget' \in [view : View, disabled : BOOLEAN, flows : 0..2]
         /\ \E x \in Run : /\ Runs(c, x) /\ x.pc \in {"polling", "ended"} /\ x.copy = click[c].copy
                           /\ \/ x.shown = click[c].shown
                              \/ x.shown = New(r) /\ request[r].code \in {"created", "duplicate"}
  <2>1. CASE ~(click[c].pc = "posting" /\ click[c].copy = r[2])
    BY <2>1 DEF Answer
  <2>2. ASSUME click[c].pc = "posting", click[c].copy = r[2], request[r].code \in {"created", "duplicate"}
        PROVE  /\ UNCHANGED <<token, widget>>
               /\ \E x \in Run : /\ Runs(c, x) /\ x.pc = "polling" /\ x.copy = click[c].copy
                                 /\ x.shown = New(r)
    <3>1. /\ click' = [click EXCEPT ![c].pc = "polling", ![c].cred = "none", ![c].shown = New(r)]
          /\ UNCHANGED <<token, widget>>
      BY <2>2 DEF Answer, Heard
    <3>2. New(r) \in Attempt
      <4>1. request[r].n # 0 /\ request[r].n \in 0..(2 * MaxClicks)
        BY <1>1, <2>2 DEF IntakeInv, AnswersAreStored, TypeOK, At
      <4>2. request[r].n \in 1..(2 * MaxClicks)
        BY <4>1, BoundAssumption
      <4> QED BY <1>2, <4>2 DEF New, Attempt
    <3> QED BY <1>1, <1>2, <3>1, <3>2, ShowRuns
  <2>3. ASSUME click[c].pc = "posting", click[c].copy = r[2], request[r].code \notin {"created", "duplicate"}
        PROVE  /\ token' \in {"none", token} /\ widget' \in [view : View, disabled : BOOLEAN, flows : 0..2]
               /\ \E x \in Run : /\ Runs(c, x) /\ x.pc = "ended"
                                 /\ x.copy = click[c].copy /\ x.shown = click[c].shown
    <3>1. End(c) /\ Enable(c) /\ token' \in {"none", token}
      BY <2>3 DEF Answer, Heard
    <3> QED BY <1>1, <1>2, <3>1, EndRuns, EnableTypes
  <2>4. /\ token \in {"none", "live", "expired"} /\ widget \in [view : View, disabled : BOOLEAN, flows : 0..2]
    BY <1>1 DEF TypeOK
  <2> QED BY <2>1, <2>2, <2>3, <2>4
<1>6. /\ token' \in {"none", "live", "expired"} /\ widget' \in [view : View, disabled : BOOLEAN, flows : 0..2]
      /\ click' \in [Click -> Run]
      /\ \A d \in Click : /\ click'[d].copy = click[d].copy
                          /\ click'[d].pc \in {"unused", "collecting"} => click'[d].pc = click[d].pc
                          /\ \/ click'[d].shown = click[d].shown
                             \/ click'[d].shown = New(r) /\ request[r].code \in {"created", "duplicate"}
  <2>1. CASE UNCHANGED <<token, widget, click>>
    BY <1>1, <2>1, RunIs DEF TypeOK
  <2>2. CASE ~UNCHANGED <<token, widget, click>>
    <3>1. PICK x \in Run : /\ Runs(c, x) /\ x.pc \in {"polling", "ended"} /\ x.copy = click[c].copy
                           /\ \/ x.shown = click[c].shown
                              \/ x.shown = New(r) /\ request[r].code \in {"created", "duplicate"}
      BY <1>5, <2>2
    <3> QED BY <1>5, <2>2, <3>1 DEF Runs
  <2> QED BY <2>1, <2>2
<1>7. TypeOK'
  BY <1>1, <1>3, <1>6 DEF TypeOK, Goes, Served, Run, world
<1>8. CountInv'
  <2>1. \A q \in Request : Admitted(q)' => Admitted(q) /\ request'[q].n = request[q].n
    BY <1>1, <1>3, <1>4 DEF Admitted, Goes
  <2> QED BY <1>1, <1>4, <2>1, CountRests DEF IntakeInv, world
<1>9. SentOnce'
  BY <1>1, <1>4, <1>6, SentRests DEF IntakeInv
<1>10. WritersHold'
  BY <1>1, <1>3 DEF IntakeInv, WritersHold, Goes, At
<1>11. AnswersAreStored'
  BY <1>1, <1>3, <1>4 DEF IntakeInv, AnswersAreStored, Goes, At, New
<1>12. ASSUME used.kills = 0 PROVE FileInv' /\ ShownIsStored'
  <2>1. FileInv'
    <3>1. \A q \in Request : At(q, "writing") => At(q, "writing")' /\ request'[q].fd = request[q].fd
      BY <1>1, <1>4 DEF At
    <3>2. Needed' => Needed
      BY <1>1, <1>3, <1>4 DEF Needed, Goes, At
    <3> QED BY <1>1, <1>12, <3>1, <3>2, FileRests DEF IntakeInv
  <2>2. \A q \in Uncommitted : q \in Uncommitted' /\ New(q)' = New(q)
    BY <1>4 DEF New, Uncommitted
  <2>3. request[r].code \in {"created", "duplicate"} => New(r) \in stored \/ r \in Uncommitted
    BY <1>1 DEF IntakeInv, AnswersAreStored, Uncommitted, At
  <2>4. ShownIsStored
    BY <1>12 DEF IntakeInv
  <2>5. ShownIsStored'
    <3> SUFFICES ASSUME NEW d \in Click, click'[d].shown # None
                 PROVE  click'[d].shown \in stored \/ \E q \in Uncommitted' : New(q)' = click'[d].shown
      BY <1>1 DEF ShownIsStored
    <3>1. CASE click'[d].shown = click[d].shown
      BY <1>12, <2>2, <2>4, <3>1 DEF ShownIsStored
    <3>2. CASE click'[d].shown = New(r) /\ request[r].code \in {"created", "duplicate"}
      BY <2>2, <2>3, <3>2
    <3> QED BY <1>6, <3>1, <3>2
  <2> QED BY <2>1, <2>5
<1>13. PageShowsTheAnnounced'
  BY <1>1 DEF IntakeInv, PageShowsTheAnnounced
<1> QED BY <1>1, <1>7, <1>8, <1>9, <1>10, <1>11, <1>12, <1>13 DEF IntakeInv

\* What the browser does disturbs nothing the server keeps, and shows nothing new.
LEMMA BrowserKeeps ==
  ASSUME IntakeInv, TypeOK', SentOnce', UNCHANGED <<settings, stored, disk, page>>, used'.kills = used.kills,
         \A q \in Request : \/ request'[q] = request[q]
                            \/ /\ request[q].pc \in {"none", "sent"} /\ request'[q].pc \in {"sent", "gone"}
                               /\ request'[q].fd = request[q].fd,
         \A c \in Click : click'[c].shown \in {click[c].shown, None}
  PROVE  IntakeInv'
<1>1. \A q \in Request : \/ request'[q] = request[q]
                         \/ /\ ~Admitted(q)' /\ ~At(q, "writing") /\ ~At(q, "writing")' /\ ~At(q, "closing")'
                            /\ ~At(q, "inserting")' /\ q \notin Uncommitted /\ request'[q].fd = request[q].fd
  BY DEF Admitted, Uncommitted, At
<1>2. \A q \in Request : /\ Admitted(q)' => Admitted(q) /\ request'[q].n = request[q].n
                         /\ q \in Uncommitted' <=> q \in Uncommitted
                         /\ q \in Uncommitted => New(q)' = New(q)
                         /\ At(q, "inserting")' => At(q, "inserting")
                         /\ At(q, "writing") => At(q, "writing")' /\ request'[q].fd = request[q].fd
  BY <1>1 DEF Admitted, Uncommitted, At, New
<1>3. CountInv'
  BY <1>2, CountRests DEF IntakeInv
<1>4. WritersHold'
  BY <1>1 DEF IntakeInv, WritersHold, At
<1>5. AnswersAreStored'
  BY <1>1 DEF IntakeInv, AnswersAreStored, At, New
<1>6. ASSUME used.kills = 0 PROVE FileInv' /\ ShownIsStored'
  <2>1. FileInv'
    <3>1. Needed' => Needed
      BY <1>2 DEF Needed
    <3> QED BY <1>2, <1>6, <3>1, FileRests DEF IntakeInv
  <2>2. ShownIsStored
    BY <1>6 DEF IntakeInv
  <2>3. ASSUME NEW c \in Click, click'[c].shown # None
        PROVE  click'[c].shown \in stored \/ \E q \in Uncommitted' : New(q)' = click'[c].shown
    <3>1. click'[c].shown = click[c].shown
      BY <2>3
    <3>2. click[c].shown \in stored \/ \E q \in Uncommitted : New(q) = click[c].shown
      BY <1>6, <2>2, <2>3, <3>1 DEF ShownIsStored
    <3>3. \A q \in Uncommitted : q \in Uncommitted' /\ New(q)' = New(q)
      BY <1>2 DEF Uncommitted
    <3> QED BY <3>1, <3>2, <3>3
  <2>4. ShownIsStored'
    BY <2>3 DEF ShownIsStored
  <2> QED BY <2>1, <2>4
<1>7. PageShowsTheAnnounced'
  BY DEF IntakeInv, PageShowsTheAnnounced
<1> QED BY <1>3, <1>4, <1>5, <1>6, <1>7 DEF IntakeInv

\* One run of submit() goes on, and no request is sent for it.
LEMMA RunKeeps ==
  ASSUME IntakeInv, NEW c \in Click, NEW x \in Run, Runs(c, x),
         UNCHANGED <<world, request, stored, disk, page, used>>,
         token' \in {"none", "live", "expired"},
         widget' \in [view : View, disabled : BOOLEAN, flows : 0..2],
         x.copy = click[c].copy, x.shown \in {click[c].shown, None},
         x.pc \in {"unused", "collecting"} => click[c].pc \in {"unused", "collecting"}
  PROVE  IntakeInv'
<1>1. TypeOK'
  BY DEF IntakeInv, TypeOK, Runs, Run, world
<1>2. SentOnce'
  BY DEF IntakeInv, SentOnce, Runs
<1>3. \A d \in Click : click'[d].shown \in {click[d].shown, None}
  BY DEF Runs
<1> QED BY <1>1, <1>2, <1>3, BrowserKeeps DEF world

\* submit() begins.
LEMMA SubmitRuns ==
  ASSUME IntakeInv, NEW c \in Click, Submit(c), token' \in {"none", "live", "expired"}
  PROVE  \E x \in Run : /\ Runs(c, x) /\ x.pc = "collecting" /\ click[c].pc = "unused"
                        /\ x.copy = click[c].copy /\ x.shown = None
<1>1. TypeOK /\ click[c].pc = "unused" /\ click[c].copy = 1 /\ widget.view \in View
  BY DEF IntakeInv, TypeOK, SentOnce, Submit, Fresh
<1> DEFINE x == [pc |-> "collecting", view |-> widget.view, cred |-> token', copy |-> 1, shown |-> None]
<1>2. x \in Run /\ x.pc = "collecting" /\ x.copy = click[c].copy /\ x.shown = None
  BY <1>1 DEF Run
<1>3. click' = [click EXCEPT ![c] = x]
  BY DEF Submit
<1> HIDE DEF x
<1>4. Runs(c, x)
  BY <1>1, <1>2, <1>3, RunIs DEF Runs
<1> QED BY <1>1, <1>2, <1>4

\* The button is pressed, or a sign-in calls submit().
LEMMA SubmitStep ==
  ASSUME IntakeInv, NEW c \in Click, PressSubmit(c) \/ SignedIn(c)
  PROVE  IntakeInv'
<1>1. /\ UNCHANGED <<world, request, stored, disk, page, used>>
      /\ token' \in {"none", "live", "expired"}
      /\ widget' \in [view : View, disabled : BOOLEAN, flows : 0..2]
      /\ Submit(c)
  <2>1. /\ token \in {"none", "live", "expired"} /\ widget \in [view : View, disabled : BOOLEAN, flows : 0..2]
    BY DEF IntakeInv, TypeOK
  <2>2. CASE PressSubmit(c)
    BY <2>1, <2>2 DEF PressSubmit
  <2>3. CASE SignedIn(c)
    <3>1. widget.flows - 1 \in 0..2
      BY <2>1, <2>3 DEF SignedIn
    <3>2. widget' = [widget EXCEPT !.flows = widget.flows - 1, !.disabled = TRUE]
      BY <2>3 DEF SignedIn
    <3>3. widget' \in [view : View, disabled : BOOLEAN, flows : 0..2]
      BY <2>1, <3>1, <3>2
    <3> QED BY <2>1, <2>3, <3>3 DEF SignedIn
  <2> QED BY <2>2, <2>3
<1>2. PICK x \in Run : /\ Runs(c, x) /\ x.pc = "collecting" /\ click[c].pc = "unused"
                       /\ x.copy = click[c].copy /\ x.shown = None
  BY <1>1, SubmitRuns
<1> QED BY <1>1, <1>2, RunKeeps

\* submit() ends before a request, or after polling.
LEMMA EndStep ==
  ASSUME IntakeInv, NEW c \in Click, CannotCollect(c) \/ StopPolling(c)
  PROVE  IntakeInv'
<1>1. /\ End(c) /\ Enable(c) /\ TypeOK
      /\ UNCHANGED <<world, token, request, stored, disk, page, used>>
  BY DEF CannotCollect, StopPolling, IntakeInv
<1>2. token' \in {"none", "live", "expired"} /\ widget' \in [view : View, disabled : BOOLEAN, flows : 0..2]
  BY <1>1, EnableTypes DEF TypeOK
<1>3. PICK x \in Run : Runs(c, x) /\ x.pc = "ended" /\ x.copy = click[c].copy /\ x.shown = click[c].shown
  BY <1>1, EndRuns
<1> QED BY <1>1, <1>2, <1>3, RunKeeps

\* No run of submit() goes on: a sign-in begins, the cell is re-run, time passes.
LEMMA RestStep ==
  ASSUME IntakeInv, PressSignIn \/ Rerender \/ Tick
  PROVE  IntakeInv'
<1>1. UNCHANGED <<settings, submitter, token, click, request, stored, disk, page, used>>
  BY DEF PressSignIn, Rerender, Tick, world
<1>2. widget \in [view : View, disabled : BOOLEAN, flows : 0..2] /\ clock \in 0..MaxTime
  BY DEF IntakeInv, TypeOK
<1>3. widget' \in [view : View, disabled : BOOLEAN, flows : 0..2] /\ clock' \in 0..MaxTime
  <2>1. CASE PressSignIn
    BY <1>2, <2>1 DEF PressSignIn, world
  <2>2. CASE Rerender
    <3>1. widget.view + 1 \in View
      BY <1>2, <2>2, BoundAssumption DEF Rerender, View
    <3> QED BY <1>2, <2>2, <3>1 DEF Rerender, world
  <2>3. CASE Tick
    <3>1. clock + 1 \in 0..MaxTime
      BY <1>2, <2>3, BoundAssumption DEF Tick
    <3> QED BY <1>2, <2>3, <3>1 DEF Tick
  <2> QED BY <2>1, <2>2, <2>3
<1>4. TypeOK'
  BY <1>1, <1>3 DEF IntakeInv, TypeOK
<1>5. SentOnce'
  BY <1>1 DEF IntakeInv, SentOnce
<1> QED BY <1>1, <1>4, <1>5, BrowserKeeps

\* The token runs out.
LEMMA TokenExpiresStep ==
  ASSUME IntakeInv, TokenExpires
  PROVE  IntakeInv'
<1>1. /\ UNCHANGED <<world, widget, request, stored, disk, page, used>> /\ token' = "expired"
      /\ click' = [c \in Click |-> [click[c] EXCEPT !.cred = IF @ = "live" THEN "expired" ELSE @]]
  BY DEF TokenExpires
<1>2. \A c \in Click : /\ click'[c] \in Run /\ click'[c].pc = click[c].pc /\ click'[c].copy = click[c].copy
                       /\ click'[c].shown = click[c].shown
  BY <1>1, RunIs DEF IntakeInv, Run
<1>3. click' \in [Click -> Run]
  BY <1>1, <1>2
<1>4. TypeOK'
  BY <1>1, <1>3 DEF IntakeInv, TypeOK, Run, world
<1>5. SentOnce'
  BY <1>1, <1>2 DEF IntakeInv, SentOnce
<1> QED BY <1>1, <1>2, <1>4, <1>5, BrowserKeeps DEF world

\* A request is sent, the first one of its click.
LEMMA PostStep ==
  ASSUME IntakeInv, NEW c \in Click, Post(c)
  PROVE  IntakeInv'
<1>1. /\ TypeOK /\ click[c].pc = "collecting" /\ click[c].copy = 1 /\ request[<<c, 1>>] = Unsent
      /\ used.posts < MaxPosts /\ UNCHANGED <<world, token, widget, stored, disk, page>>
  BY DEF IntakeInv, SentOnce, Post
<1>2. <<c, 1>> \in Request /\ <<c, 2>> \in Request
  BY DEF Request
<1> DEFINE x == [click[c] EXCEPT !.pc = "posting"]
<1>3. x \in Run /\ x.pc = "posting" /\ x.copy = 1 /\ x.shown = click[c].shown
  BY <1>1, RunIs DEF Run
<1>4. click' = [click EXCEPT ![c] = x]
  BY <1>1, RunIs DEF Post, Run
<1> HIDE DEF x
<1>5. Runs(c, x)
  BY <1>1, <1>3, <1>4, RunIs DEF Runs
<1>6. Goes(<<c, 1>>, "sent", request[<<c, 1>>].n, request[<<c, 1>>].fd, request[<<c, 1>>].code, request[<<c, 1>>].left)
  BY <1>1, <1>2, MoveGoes DEF Post, Move
<1>7. used' \in [posts : 0..MaxPosts, kills : 0..MaxKills, drops : 0..MaxDrops] /\ used'.kills = used.kills
  <2>1. used \in [posts : 0..MaxPosts, kills : 0..MaxKills, drops : 0..MaxDrops]
    BY <1>1 DEF TypeOK
  <2>2. used.posts + 1 \in 0..MaxPosts
    BY <1>1, <2>1, BoundAssumption
  <2> QED BY <2>1, <2>2 DEF Post
<1>8. TypeOK'
  BY <1>1, <1>5, <1>6, <1>7 DEF TypeOK, Runs, Run, Goes, Served, world
<1>9. SentOnce'
  <2>1. \A d \in Click : d # c => <<d, 1>> # <<c, 1>>
    OBVIOUS
  <2>2. \A d \in Click : <<d, 2>> # <<c, 1>> /\ <<d, 1>> \in Request /\ <<d, 2>> \in Request
    BY DEF Request
  <2>3. click'[c].pc = "posting" /\ click'[c].copy = 1 /\ request[<<c, 2>>] = Unsent
    BY <1>1, <1>3, <1>5 DEF IntakeInv, SentOnce, Runs
  <2>4. ASSUME NEW d \in Click
        PROVE  /\ click'[d].pc \in {"unused", "collecting"} => click'[d].copy = 1 /\ request'[<<d, 1>>] = Unsent
               /\ click'[d].copy = 1 => request'[<<d, 2>>] = Unsent
    <3>1. request'[<<d, 2>>] = request[<<d, 2>>]
      BY <1>6, <2>2 DEF Goes
    <3>2. CASE d = c
      BY <2>3, <3>1, <3>2
    <3>3. CASE d # c
      <4>1. request'[<<d, 1>>] = request[<<d, 1>>] /\ click'[d] = click[d]
        BY <1>5, <1>6, <2>1, <2>2, <3>3 DEF Goes, Runs
      <4> QED BY <3>1, <4>1 DEF IntakeInv, SentOnce
    <3> QED BY <3>2, <3>3
  <2> QED BY <2>4 DEF SentOnce, Unsent
<1>10. \A d \in Click : click'[d].shown = click[d].shown
  BY <1>3, <1>5 DEF Runs
<1>11. \A q \in Request : \/ request'[q] = request[q]
                          \/ /\ request[q].pc = "none" /\ request'[q].pc = "sent"
                             /\ request'[q].fd = request[q].fd
  BY <1>1, <1>6 DEF Goes, Unsent
<1> QED BY <1>1, <1>7, <1>8, <1>9, <1>10, <1>11, BrowserKeeps DEF world

\* Of a request whose connection breaks: it is on its way still, or is being served.
Broken(r) == IF request[r].pc = "sent" THEN [request[r] EXCEPT !.pc = "gone"] ELSE request[r]

\* A connection that breaks keeps the kinds of what is known of a request.
LEMMA BrokenIs ==
  ASSUME TypeOK, NEW r \in Request
  PROVE  /\ Broken(r) \in Served /\ Broken(r) = [request[r] EXCEPT !.pc = IF @ = "sent" THEN "gone" ELSE @]
         /\ \/ Broken(r) = request[r]
            \/ request[r].pc = "sent" /\ Broken(r).pc = "gone" /\ Broken(r).fd = request[r].fd
<1>1. request[r] \in Served
  BY RequestIs
<1>2. CASE request[r].pc = "sent"
  BY <1>1, <1>2 DEF Broken, Served
<1>3. CASE request[r].pc # "sent"
  BY <1>1, <1>3 DEF Broken, Served
<1> QED BY <1>2, <1>3

\* A connection breaks: the request is sent again, or fetch() fails.
LEMMA BreakStep ==
  ASSUME IntakeInv, NEW c \in Click, Break(c)
  PROVE  IntakeInv'
<1> DEFINE r == <<c, click[c].copy>>
           s == <<c, 2>>
<1>1. /\ TypeOK /\ click[c].pc = "posting" /\ click[c].copy \in {1, 2}
      /\ UNCHANGED <<world, token, stored, disk, page>>
  BY RunIs DEF IntakeInv, Break, Run
<1>2. r \in Request /\ s \in Request /\ \A d \in Click : <<d, 1>> \in Request /\ <<d, 2>> \in Request
  BY <1>1 DEF Request
<1>3. request \in [Request -> Served] /\ Broken(r) \in Served
  BY <1>1, <1>2, BrokenIs, RequestIs
<1>4. CASE /\ click[c].copy = 1 /\ used.posts < MaxPosts
           /\ click' = [click EXCEPT ![c].copy = 2]
           /\ used' = [used EXCEPT !.posts = @ + 1]
           /\ request' = [request EXCEPT ![r].pc = IF @ = "sent" THEN "gone" ELSE @, ![s].pc = "sent"]
           /\ UNCHANGED widget
  <2>1. request[s] = Unsent /\ r # s /\ r = <<c, 1>>
    BY <1>4 DEF IntakeInv, SentOnce
  <2> DEFINE x == [click[c] EXCEPT !.copy = 2]
             y == [request[s] EXCEPT !.pc = "sent"]
  <2>2. x \in Run /\ x.pc = "posting" /\ x.copy = 2 /\ x.shown = click[c].shown
    BY <1>1, RunIs DEF Run
  <2>3. click' = [click EXCEPT ![c] = x]
    BY <1>1, <1>4, RunIs DEF Run
  <2>4. y \in Served /\ y.pc = "sent" /\ y.fd = request[s].fd
    BY <1>2, <1>3 DEF Served
  <2>5. request' = [request EXCEPT ![r] = Broken(r), ![s] = y]
    <3>1. Broken(r) = [request[r] EXCEPT !.pc = IF @ = "sent" THEN "gone" ELSE @]
      BY <1>1, <1>2, BrokenIs
    <3> QED BY <1>2, <1>3, <1>4, <2>1, <3>1
  <2> HIDE DEF x, y
  <2>6. Runs(c, x)
    BY <1>1, <2>2, <2>3, RunIs DEF Runs
  <2>7. /\ request' \in [Request -> Served] /\ request'[r] = Broken(r) /\ request'[s] = y
        /\ \A q \in Request : q # r /\ q # s => request'[q] = request[q]
    BY <1>2, <1>3, <2>1, <2>4, <2>5
  <2>8. used' \in [posts : 0..MaxPosts, kills : 0..MaxKills, drops : 0..MaxDrops] /\ used'.kills = used.kills
    <3>1. used \in [posts : 0..MaxPosts, kills : 0..MaxKills, drops : 0..MaxDrops]
      BY <1>1 DEF TypeOK
    <3>2. used.posts + 1 \in 0..MaxPosts
      BY <1>4, <3>1, BoundAssumption
    <3> QED BY <1>4, <3>1, <3>2
  <2>9. TypeOK'
    BY <1>1, <1>4, <2>6, <2>7, <2>8 DEF TypeOK, Runs, Run, Served, world
  <2>10. SentOnce'
    <3>1. ASSUME NEW d \in Click
          PROVE  /\ click'[d].pc \in {"unused", "collecting"} => click'[d].copy = 1 /\ request'[<<d, 1>>] = Unsent
                 /\ click'[d].copy = 1 => request'[<<d, 2>>] = Unsent
      <4>1. CASE d = c
        BY <2>2, <2>6, <4>1 DEF Runs
      <4>2. CASE d # c
        <5>1. /\ click'[d] = click[d] /\ request'[<<d, 1>>] = request[<<d, 1>>]
              /\ request'[<<d, 2>>] = request[<<d, 2>>]
          <6>1. <<d, 1>> # r /\ <<d, 1>> # s /\ <<d, 2>> # r /\ <<d, 2>> # s
            BY <4>2
          <6> QED BY <1>2, <2>6, <2>7, <4>2, <6>1 DEF Runs
        <5> QED BY <5>1 DEF IntakeInv, SentOnce
      <4> QED BY <4>1, <4>2
    <3> QED BY <3>1 DEF SentOnce, Unsent
  <2>11. \A q \in Request : \/ request'[q] = request[q]
                            \/ /\ request[q].pc \in {"none", "sent"} /\ request'[q].pc \in {"sent", "gone"}
                               /\ request'[q].fd = request[q].fd
    <3>1. \/ Broken(r) = request[r]
          \/ request[r].pc = "sent" /\ Broken(r).pc = "gone" /\ Broken(r).fd = request[r].fd
      BY <1>1, <1>2, BrokenIs
    <3>2. request[s].pc = "none"
      BY <2>1 DEF Unsent
    <3> QED BY <2>4, <2>7, <3>1, <3>2
  <2>12. \A d \in Click : click'[d].shown = click[d].shown
    BY <2>2, <2>6 DEF Runs
  <2> QED BY <1>1, <2>8, <2>9, <2>10, <2>11, <2>12, BrowserKeeps DEF world
<1>5. CASE /\ End(c) /\ Enable(c)
           /\ request' = [request EXCEPT ![r].pc = IF @ = "sent" THEN "gone" ELSE @]
           /\ UNCHANGED used
  <2>1. PICK x \in Run : Runs(c, x) /\ x.pc = "ended" /\ x.copy = click[c].copy /\ x.shown = click[c].shown
    BY <1>1, <1>5, EndRuns
  <2>2. request' = [request EXCEPT ![r] = Broken(r)]
    <3>1. Broken(r) = [request[r] EXCEPT !.pc = IF @ = "sent" THEN "gone" ELSE @]
      BY <1>1, <1>2, BrokenIs
    <3> QED BY <1>2, <1>3, <1>5, <3>1
  <2>3. /\ request' \in [Request -> Served] /\ request'[r] = Broken(r)
        /\ \A q \in Request : q # r => request'[q] = request[q]
    BY <1>2, <1>3, <2>2
  <2>4. widget' \in [view : View, disabled : BOOLEAN, flows : 0..2]
    BY <1>1, <1>5, EnableTypes
  <2>5. TypeOK'
    BY <1>1, <1>5, <2>1, <2>3, <2>4 DEF TypeOK, Runs, Run, Served, world
  <2>6. SentOnce'
    <3>1. ASSUME NEW d \in Click
          PROVE  /\ click'[d].pc \in {"unused", "collecting"} => click'[d].copy = 1 /\ request'[<<d, 1>>] = Unsent
                 /\ click'[d].copy = 1 => request'[<<d, 2>>] = Unsent
      <4>1. CASE d = c
        <5>1. click'[c].pc = "ended" /\ click'[c].copy = click[c].copy
          BY <2>1 DEF Runs
        <5>2. click[c].copy = 1 => r # s /\ request'[s] = request[s]
          BY <1>2, <2>3
        <5> QED BY <4>1, <5>1, <5>2 DEF IntakeInv, SentOnce
      <4>2. CASE d # c
        <5>1. /\ click'[d] = click[d] /\ request'[<<d, 1>>] = request[<<d, 1>>]
              /\ request'[<<d, 2>>] = request[<<d, 2>>]
          <6>1. <<d, 1>> # r /\ <<d, 2>> # r
            BY <4>2
          <6> QED BY <1>2, <2>1, <2>3, <4>2, <6>1 DEF Runs
        <5> QED BY <5>1 DEF IntakeInv, SentOnce
      <4> QED BY <4>1, <4>2
    <3> QED BY <3>1 DEF SentOnce, Unsent
  <2>7. \A q \in Request : \/ request'[q] = request[q]
                           \/ /\ request[q].pc \in {"none", "sent"} /\ request'[q].pc \in {"sent", "gone"}
                              /\ request'[q].fd = request[q].fd
    <3>1. \/ Broken(r) = request[r]
          \/ request[r].pc = "sent" /\ Broken(r).pc = "gone" /\ Broken(r).fd = request[r].fd
      BY <1>1, <1>2, BrokenIs
    <3> QED BY <2>3, <3>1
  <2>8. \A d \in Click : click'[d].shown = click[d].shown
    BY <2>1 DEF Runs
  <2> QED BY <1>1, <1>5, <2>5, <2>6, <2>7, <2>8, BrowserKeeps DEF world
<1> QED BY <1>4, <1>5 DEF Break

-----------------------------------------------------------------------------
(* The process, the page, and the theorems.                                *)

\* A page whose connection ends has lost what was queued, and misses nothing else.
LEMMA UnlinkedShows ==
  ASSUME TypeOK, PageShowsTheAnnounced, page' = Unlinked
  PROVE  page' \in PageOver(stored) /\ PageShowsTheAnnounced'
<1> DEFINE b == page.behind \/ page.inbox > 0
<1>1. page \in PageOver(stored) /\ 0 \in 0..MaxInbox
  BY BoundAssumption DEF TypeOK
<1>2. b \in BOOLEAN /\ (~b => page.inbox = 0 /\ ~page.behind)
  BY <1>1 DEF PageOver
<1>3. page' = [page EXCEPT !.linked = FALSE, !.inbox = 0, !.behind = b]
  BY DEF Unlinked
<1> HIDE DEF b
<1>4. /\ page' \in PageOver(stored) /\ page'.behind = b
      /\ page'.announced = page.announced /\ page'.shows = page.shows
  BY <1>1, <1>2, <1>3 DEF PageOver
<1> QED BY <1>2, <1>4 DEF PageShowsTheAnnounced

\* The API process dies: nothing is served any more, and what is stored stays.
LEMMA KillStep ==
  ASSUME IntakeInv, Kill
  PROVE  IntakeInv'
<1> DEFINE dead == {r \in Request : request[r].pc \notin {"none", "sent", "gone", "done"}}
           ended == [Unsent EXCEPT !.pc = "gone"]
<1>1. /\ TypeOK /\ used.kills < MaxKills
      /\ request' = [r \in Request |-> IF r \in dead THEN ended ELSE request[r]]
      /\ page' = Unlinked /\ used' = [used EXCEPT !.kills = @ + 1]
      /\ UNCHANGED <<world, token, widget, click, stored, disk>>
  BY DEF IntakeInv, Kill
<1>2. ended.pc = "gone" /\ ended.fd = 0 /\ (Request # {} => ended \in Served)
  <2>1. 0 \in 0..(2 * MaxClicks)
    BY BoundAssumption
  <2> QED BY <2>1 DEF Unsent, Served, Code
<1> HIDE DEF ended
<1>3. \A q \in Request : /\ request'[q] \in Served
                         /\ \/ request'[q] = request[q] /\ request[q].pc \in {"none", "sent", "gone", "done"}
                            \/ request[q].pc # "none" /\ request'[q] = ended
  BY <1>1, <1>2, RequestIs
<1>4. used' \in [posts : 0..MaxPosts, kills : 0..MaxKills, drops : 0..MaxDrops] /\ used'.kills # 0
  <2>1. used \in [posts : 0..MaxPosts, kills : 0..MaxKills, drops : 0..MaxDrops]
    BY <1>1 DEF TypeOK
  <2>2. used.kills + 1 \in 0..MaxKills /\ used.kills + 1 # 0
    BY <1>1, <2>1, BoundAssumption
  <2> QED BY <1>1, <2>1, <2>2
<1>5. page' \in PageOver(stored) /\ PageShowsTheAnnounced'
  BY <1>1, UnlinkedShows DEF IntakeInv
<1>6. request' \in [Request -> Served]
  BY <1>1, <1>3
<1>7. TypeOK'
  BY <1>1, <1>4, <1>5, <1>6 DEF TypeOK, Served, world
<1>8. \A q \in Request : ~Admitted(q)' /\ q \notin Uncommitted' /\ ~At(q, "writing")' /\ ~At(q, "closing")'
  BY <1>2, <1>3 DEF Admitted, Uncommitted, At
<1>9. CountInv'
  BY <1>1, <1>8, CountRests DEF IntakeInv, Uncommitted, world
<1>10. SentOnce'
  <2>1. \A q \in Request : request[q] = Unsent => request'[q] = Unsent
    BY <1>3 DEF Unsent
  <2>2. \A c \in Click : <<c, 1>> \in Request /\ <<c, 2>> \in Request
    BY DEF Request
  <2> QED BY <1>1, <2>1, <2>2 DEF IntakeInv, SentOnce, Unsent
<1>11. WritersHold'
  <2>1. \A q \in Request : request[q].pc \in {"none", "sent", "gone", "done"} => request[q].fd = 0
    BY DEF IntakeInv, WritersHold, At
  <2> QED BY <1>2, <1>3, <1>8, <2>1 DEF WritersHold
<1>12. AnswersAreStored'
  BY <1>8 DEF AnswersAreStored
<1> QED BY <1>4, <1>5, <1>7, <1>9, <1>10, <1>11, <1>12 DEF IntakeInv

\* What happens to the page alone.
LEMMA PageStep ==
  ASSUME IntakeInv, Connect \/ Drop \/ Refetch \/ RefetchFails
  PROVE  IntakeInv'
<1>1. /\ TypeOK /\ PageShowsTheAnnounced /\ page \in PageOver(stored) /\ 0 \in 0..MaxInbox
      /\ used \in [posts : 0..MaxPosts, kills : 0..MaxKills, drops : 0..MaxDrops] /\ MaxDrops \in Nat
  BY BoundAssumption DEF IntakeInv, TypeOK
<1>2. UNCHANGED <<world, token, widget, click, request, stored, disk>>
  BY DEF Connect, Drop, Refetch, RefetchFails
<1>3. used' \in [posts : 0..MaxPosts, kills : 0..MaxKills, drops : 0..MaxDrops] /\ used'.kills = used.kills
  <2>1. CASE Connect \/ Refetch
    BY <1>1, <2>1 DEF Connect, Refetch
  <2>2. CASE Drop \/ RefetchFails
    <3>1. used' = [used EXCEPT !.drops = @ + 1] /\ used.drops < MaxDrops
      BY <2>2 DEF Drop, RefetchFails
    <3>2. used.drops + 1 \in 0..MaxDrops
      BY <1>1, <3>1
    <3> QED BY <1>1, <3>1, <3>2
  <2> QED BY <2>1, <2>2
<1>4. page' \in PageOver(stored) /\ PageShowsTheAnnounced'
  <2>1. CASE Drop
    BY <1>1, <2>1, UnlinkedShows DEF Drop
  <2>2. CASE Connect
    <3>1. page' = [page EXCEPT !.linked = TRUE]
      BY <2>2 DEF Connect
    <3> QED BY <1>1, <3>1 DEF PageOver, PageShowsTheAnnounced
  <2>3. CASE Refetch
    <3>1. page' = [page EXCEPT !.inbox = 0, !.shows = @ \cup stored, !.behind = FALSE]
      BY <2>3 DEF Refetch
    <3>2. page.announced \subseteq stored /\ page.shows \cup stored \in SUBSET stored
      BY <1>1 DEF PageOver
    <3>3. /\ page' \in PageOver(stored) /\ page'.announced = page.announced
          /\ page'.shows = page.shows \cup stored
      BY <1>1, <3>1, <3>2 DEF PageOver
    <3> QED BY <3>2, <3>3 DEF PageShowsTheAnnounced
  <2>4. CASE RefetchFails
    <3>1. page' = [page EXCEPT !.inbox = 0, !.behind = TRUE]
      BY <2>4 DEF RefetchFails
    <3> QED BY <1>1, <3>1 DEF PageOver, PageShowsTheAnnounced
  <2> QED BY <2>1, <2>2, <2>3, <2>4
<1>5. TypeOK'
  BY <1>1, <1>2, <1>3, <1>4 DEF TypeOK, world
<1>6. CountInv'
  <2>1. \A q \in Request : Admitted(q)' => Admitted(q)
    BY <1>2 DEF Admitted, Uncommitted, At
  <2>2. \A q \in Request : q \in Uncommitted' => q \in Uncommitted
    BY <1>2 DEF Uncommitted, At
  <2> QED BY <1>2, <2>1, <2>2, CountRests DEF IntakeInv, world
<1>7. SentOnce' /\ WritersHold' /\ AnswersAreStored'
  BY <1>2 DEF IntakeInv, SentOnce, WritersHold, AnswersAreStored, At, New
<1>8. ASSUME used.kills = 0 PROVE FileInv' /\ ShownIsStored'
  BY <1>2, <1>3, <1>8 DEF IntakeInv, FileInv, Filled, ShownIsStored, Uncommitted, At, New
<1> QED BY <1>3, <1>4, <1>5, <1>6, <1>7, <1>8 DEF IntakeInv

\* Nothing is stored at first, and nothing sent.
LEMMA IntakeStarts ==
  ASSUME Init
  PROVE  IntakeInv
<1>1. /\ stored = {}
      /\ page = [linked |-> FALSE, inbox |-> 0, shows |-> {}, announced |-> {}, behind |-> FALSE]
      /\ disk = [tmp |-> 0, final |-> 0, whole |-> {}] /\ used = [posts |-> 0, kills |-> 0, drops |-> 0]
      /\ request = [r \in Request |-> Unsent]
      /\ click = [c \in Click |-> [pc |-> "unused", view |-> 0, cred |-> "none", copy |-> 1, shown |-> None]]
  BY DEF Init
<1>2. TypeOK
  <2>1. /\ 0 \in 0..MaxTime /\ 0 \in 0..MaxPosts /\ 0 \in 0..MaxKills /\ 0 \in 0..MaxDrops /\ 0 \in 0..MaxInbox
        /\ 0 \in View /\ 0 \in 0..(2 * MaxClicks) /\ 0 \in 0..2
    BY BoundAssumption DEF View
  <2>2. request \in [Request -> Served]
    BY <1>1, <2>1 DEF Unsent, Served, Code
  <2>3. click \in [Click -> Run]
    BY <1>1, <2>1 DEF Run
  <2>4. widget \in [view : View, disabled : BOOLEAN, flows : 0..2]
    BY <2>1 DEF Init
  <2>5. page \in PageOver(stored)
    BY <1>1, <2>1 DEF PageOver
  <2> QED BY <1>1, <2>1, <2>2, <2>3, <2>4, <2>5 DEF Init, TypeOK, Served, Run
<1>3. \A q \in Request : request[q] = Unsent /\ request[q].pc = "none" /\ request[q].fd = 0
  BY <1>1 DEF Unsent
<1>4. CountInv
  <2>1. IsFiniteSet(stored) /\ Cardinality(stored) = 0
    BY <1>1, FS_EmptySet
  <2>2. {a.no : a \in stored} = {} /\ 1..0 = {}
    BY <1>1
  <2>3. \A q \in Request : ~Admitted(q)
    BY <1>3 DEF Admitted, Uncommitted, At
  <2>4. Uncommitted = {}
    BY <1>3 DEF Uncommitted, At
  <2>5. LimitHolds
    <3>1. settings.attempts_allowed \in Nat \cup {None}
      BY <1>2, SettingsAssumption DEF TypeOK, Setting
    <3> QED BY <2>1, <3>1 DEF LimitHolds
  <2> QED BY <1>1, <2>1, <2>2, <2>3, <2>4, <2>5 DEF CountInv, NumberedWithoutGaps
<1>5. SentOnce
  <2>1. \A c \in Click : <<c, 1>> \in Request /\ <<c, 2>> \in Request
    BY DEF Request
  <2> QED BY <1>1, <1>3, <2>1 DEF SentOnce
<1>6. WritersHold /\ AnswersAreStored
  BY <1>3 DEF WritersHold, AnswersAreStored, At
<1>7. FileInv /\ ShownIsStored /\ PageShowsTheAnnounced
  BY <1>1, <1>3 DEF FileInv, Filled, ShownIsStored, PageShowsTheAnnounced, Uncommitted, At
<1> QED BY <1>2, <1>4, <1>5, <1>6, <1>7 DEF IntakeInv

\* Nothing happens.
LEMMA IntakeRests ==
  ASSUME IntakeInv, UNCHANGED vars
  PROVE  IntakeInv'
<1>1. UNCHANGED <<settings, submitter, clock, token, widget, click, request, stored, disk, page, used>>
  BY DEF vars
<1>2. TypeOK' /\ SentOnce'
  BY <1>1 DEF IntakeInv, TypeOK, SentOnce
<1> QED BY <1>1, <1>2, BrowserKeeps

\* IntakeInv is inductive.
LEMMA IntakeInductive ==
  ASSUME IntakeInv, [Next]_vars
  PROVE  IntakeInv'
<1>1. CASE \E c \in Click : PressSubmit(c) \/ SignedIn(c)
  BY <1>1, SubmitStep
<1>2. CASE \E c \in Click : CannotCollect(c) \/ StopPolling(c)
  BY <1>2, EndStep
<1>3. CASE \E c \in Click : Post(c)
  BY <1>3, PostStep
<1>4. CASE \E c \in Click : Break(c)
  BY <1>4, BreakStep
<1>5. CASE PressSignIn \/ Rerender \/ Tick
  BY <1>5, RestStep
<1>6. CASE TokenExpires
  BY <1>6, TokenExpiresStep
<1>7. CASE \E r \in Request : Serve(r)
  BY <1>7, LookStep, AdmitStep, PutCheckStep, PutOpenStep, PutWriteStep, PutReplaceStep,
     InsertStep, CommitStep, AnswerStep DEF Serve
<1>8. CASE Kill
  BY <1>8, KillStep
<1>9. CASE Connect \/ Drop \/ Refetch \/ RefetchFails
  BY <1>9, PageStep
<1>10. CASE UNCHANGED vars
  BY <1>10, IntakeRests
<1> QED BY <1>1, <1>2, <1>3, <1>4, <1>5, <1>6, <1>7, <1>8, <1>9, <1>10 DEF Next

\* The attempts of a student on a question are numbered 1, 2, 3, ... and kept within the limit,
\* and a client id makes one attempt, though nothing locks what create_submission counts.
THEOREM AttemptsCountRight == Spec => []AttemptsAreCounted
<1>1. Init => IntakeInv
  BY IntakeStarts
<1>2. IntakeInv /\ [Next]_vars => IntakeInv'
  BY IntakeInductive
<1>3. IntakeInv => AttemptsAreCounted
  BY DEF IntakeInv, CountInv, SameKey, AttemptsAreCounted, OneAttemptPerId
<1> QED BY <1>1, <1>2, <1>3, PTL DEF Spec

\* While no process dies, what the widget shows as handed in is stored or about to be
\* committed, and the notebook of a stored attempt has its bytes or is about to get them.
THEOREM ShownStaysStored == Spec => []ShownIsKept
<1>1. Init => IntakeInv
  BY IntakeStarts
<1>2. IntakeInv /\ [Next]_vars => IntakeInv'
  BY IntakeInductive
<1>3. IntakeInv => ShownIsKept
  <2>1. IntakeInv => ShownIsStored
    BY DEF IntakeInv, ShownIsStored
  <2>2. IntakeInv => BytesWhole
    BY DEF IntakeInv, FileInv, Filled, BytesWhole
  <2> QED BY <2>1, <2>2 DEF ShownIsKept
<1> QED BY <1>1, <1>2, <1>3, PTL DEF Spec

\* A grading page without queued events shows all that was stored when an event was last
\* published, however many events its full queue dropped, unless an event was lost with its
\* connection, to its absence or to a fetch that failed, and no other has arrived since.
THEOREM PageShowsWhatItWasTold == Spec => []PageShowsTheAnnounced
<1>1. Init => IntakeInv
  BY IntakeStarts
<1>2. IntakeInv /\ [Next]_vars => IntakeInv'
  BY IntakeInductive
<1>3. IntakeInv => PageShowsTheAnnounced
  BY DEF IntakeInv
<1> QED BY <1>1, <1>2, <1>3, PTL DEF Spec

=============================================================================
