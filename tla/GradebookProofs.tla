---------------------------- MODULE GradebookProofs ----------------------------
(***************************************************************************)
(* What the grade policies promise a student, and that the loops of the    *)
(* code compute them, for histories of any length and any points           *)
(* (Gradebook); and what the staff's pages promise of a class of any size: *)
(* nobody is forgotten, and the sums of points agree (Classroom).          *)
(*                                                                         *)
(* A loop is a recursive function.  That it is defined (LoopRuns) and what *)
(* holds after k rounds are inductions on k, by the least number at which  *)
(* they would fail (UpTo).                                                 *)
(*                                                                         *)
(* What the class rests on (ClassInv): the official grades are the         *)
(* policy's wherever the latest attempt has a row, what is graded has one, *)
(* and what waits with nothing queued waits for a person.  A sum of points *)
(* is a fold of the library; that it is a number is an induction on the    *)
(* number of questions, by the least one at which it would not be.         *)
(***************************************************************************)
EXTENDS Gradebook, Classroom, GradePolicyProofs

\* Each attempt has finitely many typed rows.
HistoryInv == history \in Histories /\ count \in Nat

\* NewAttempt and AddScore keep the history one.
LEMMA HistoryNext == HistoryInv /\ [Next]_<<history, count>> => HistoryInv'
<1> SUFFICES ASSUME HistoryInv, [Next]_<<history, count>> PROVE HistoryInv'
  OBVIOUS
<1> USE DEF HistoryInv
<1>1. history \in Seq(Rows)
  BY DEF Histories
<1>2. CASE NewAttempt
  <2>1. {} \in Rows
    BY FS_EmptySet DEF Rows
  <2> QED BY <1>1, <1>2, <2>1, AppendProperties DEF NewAttempt, Histories
<1>3. ASSUME NEW k \in DOMAIN history, NEW auto \in AutoPoints, NEW manual \in ManualPoints,
             NEW final \in BOOLEAN, AddScore(k, auto, manual, final)
      PROVE  HistoryInv'
  <2> DEFINE row == [auto |-> auto, manual |-> manual, final |-> final, at |-> count + 1, by |-> "staff"]
  <2>1. row \in Score
    BY PointsAssumption DEF Score
  <2>2. k \in 1..Len(history) /\ history[k] \in Rows
    BY HistoryShape
  <2>3. history[k] \cup {row} \in Rows
    <3> HIDE DEF row
    <3>1. IsFiniteSet(history[k] \cup {row})
      BY <2>2, FS_AddElement DEF Rows
    <3> QED BY <2>1, <2>2, <3>1 DEF Rows
  <2>4. history' = [history EXCEPT ![k] = history[k] \cup {row}] /\ count' = count + 1
    BY <1>3 DEF AddScore
  <2>5. history' \in Seq(Rows)
    <3> HIDE DEF row
    <3> QED BY <1>1, <2>2, <2>3, <2>4, ExceptSeq
  <2> QED BY <2>4, <2>5 DEF Histories
<1>4. CASE UNCHANGED <<history, count>>
  BY <1>4
<1> QED BY <1>2, <1>3, <1>4 DEF Next

\* When another policy counts a scored attempt, "highest" has one to count too.
LEMMA HighestCovers ==
  ASSUME NEW h \in Histories, None \notin Score, NEW policy \in {"latest", "first", "selected"},
         OfficialPoints(PickAttempt(h, policy, 0)) # None
  PROVE  /\ CountedAttempt(h, policy, 0) \in Scored(h)
         /\ CountedAttempt(h, "highest", 0) = HighestAttempt(h)
         /\ HighestAttempt(h) \in Scored(h)
<1> DEFINE k == CountedAttempt(h, policy, 0)
<1>1. /\ k \in 0..Len(h) /\ Len(h) \in Nat /\ (k = 0 <=> Len(h) = 0)
      /\ DOMAIN h = 1..Len(h)
  BY CountedIsAnAttempt, HistoryShape
<1>2. k # 0 /\ FinalScore(h[k]) # None
  BY DEF PickAttempt, OfficialPoints
<1>3. k \in Scored(h)
  <2> HIDE DEF k
  <2> QED BY <1>1, <1>2 DEF Scored
<1>4. HighestAttempt(h) \in Scored(h)
  BY <1>3, HighestIsHighest
<1>5. CountedAttempt(h, "highest", 0) = HighestAttempt(h)
  <2>1. Len(h) # 0
    BY <1>1, <1>2
  <2> QED BY <1>3, <2>1 DEF CountedAttempt
<1> QED BY <1>3, <1>4, <1>5

\* Under "highest" a student never has fewer points than under another policy,
\* for every history the gradebook can hold.
THEOREM HighestIsBest == Spec => []HighestDominates
<1>1. Init => HistoryInv
  BY DEF Init, HistoryInv, Histories
<1>2. HistoryInv /\ [Next]_<<history, count>> => HistoryInv'
  BY HistoryNext
<1>3. HistoryInv => HighestDominates
  <2> SUFFICES ASSUME HistoryInv, NEW policy \in {"latest", "first", "selected"}, Points(policy) # None
               PROVE  Points("highest") # None /\ Points("highest") >= Points(policy)
    BY DEF HighestDominates
  <2> DEFINE k == CountedAttempt(history, policy, 0)
             best == HighestAttempt(history)
  <2>1. history \in Histories /\ None \notin Score /\ None \notin Nat
    BY NoneIsNoScore DEF HistoryInv
  <2>2. k \in Scored(history) /\ best \in Scored(history) /\ CountedAttempt(history, "highest", 0) = best
    BY <2>1, HighestCovers DEF Points
  <2>3. Total(FinalScore(history[k])) <= Total(FinalScore(history[best]))
    BY <2>1, <2>2, HighestIsHighest
  <2>4. /\ Total(FinalScore(history[k])) \in Nat /\ Total(FinalScore(history[best])) \in Nat
        /\ k # 0 /\ best # 0 /\ FinalScore(history[k]) # None /\ FinalScore(history[best]) # None
    BY <2>1, <2>2, ScoredHaveRows, HistoryShape DEF Scored
  <2>5. /\ Points(policy) = Total(FinalScore(history[k]))
        /\ Points("highest") = Total(FinalScore(history[best]))
    <3> HIDE DEF k, best
    <3>1. k = CountedAttempt(history, policy, 0)
      BY DEF k
    <3> QED BY <2>2, <2>4, <3>1 DEF Points, PickAttempt, OfficialPoints
  <2> HIDE DEF k, best
  <2> QED BY <2>1, <2>3, <2>4, <2>5
<1> QED BY <1>1, <1>2, <1>3, PTL DEF Spec

-----------------------------------------------------------------------------
(* One attempt more.                                                       *)

\* An attempt without rows changes nothing of what the attempts before it scored.
LEMMA AppendedScores ==
  ASSUME NEW h \in Histories, None \notin Score
  PROVE  LET g == Append(h, {})
         IN  /\ g \in Histories /\ Len(g) = Len(h) + 1 /\ \A k \in 1..Len(h) : g[k] = h[k]
             /\ g[Len(g)] = {} /\ Scored(g) = Scored(h)
             /\ Scored(h) # {} => HighestAttempt(g) = HighestAttempt(h)
<1> DEFINE g == Append(h, {})
<1>1. Len(h) \in Nat /\ DOMAIN h = 1..Len(h) /\ Scored(h) \subseteq 1..Len(h)
  BY HistoryShape
<1>2. {} \in Rows /\ FinalScore({}) = None
  BY FS_EmptySet DEF Rows, FinalScore, FinalRows
<1>3. /\ g \in Histories /\ Len(g) = Len(h) + 1 /\ g[Len(h) + 1] = {}
      /\ \A k \in 1..Len(h) : g[k] = h[k]
  BY <1>1, <1>2, AppendProperties DEF Histories
<1> HIDE DEF g
<1>4. DOMAIN g = 1..Len(h) + 1
  BY <1>3, HistoryShape
<1>5. Scored(g) = Scored(h)
  <2>1. \A k \in 1..Len(h) + 1 : k \in 1..Len(h) \/ k = Len(h) + 1
    BY <1>1
  <2>2. Scored(h) \subseteq Scored(g)
    <3> SUFFICES ASSUME NEW k \in Scored(h) PROVE k \in Scored(g)
      OBVIOUS
    <3>1. k \in 1..Len(h) /\ k \in DOMAIN g /\ g[k] = h[k]
      BY <1>1, <1>3, <1>4
    <3> QED BY <3>1 DEF Scored
  <2>3. Scored(g) \subseteq Scored(h)
    <3> SUFFICES ASSUME NEW k \in Scored(g) PROVE k \in Scored(h)
      OBVIOUS
    <3>1. k \in 1..Len(h) + 1 /\ FinalScore(g[k]) # None
      BY <1>4 DEF Scored
    <3>2. k \in 1..Len(h)
      BY <1>2, <1>3, <2>1, <3>1
    <3> QED BY <1>1, <1>3, <3>1, <3>2 DEF Scored
  <2> QED BY <2>2, <2>3
<1>6. ASSUME NEW k \in Scored(h) PROVE g[k] = h[k]
  BY <1>1, <1>3
<1>7. HighestAttempt(g) = HighestAttempt(h)
  <2> DEFINE Best(f, k) == \A j \in Scored(f) :
        LET tj == Total(FinalScore(f[j]))
            tk == Total(FinalScore(f[k]))
        IN  tj < tk \/ (tj = tk /\ k <= j)
  <2>1. \A k \in Scored(h) : Best(g, k) <=> Best(h, k)
    BY <1>5, <1>6
  <2>2. HighestAttempt(g) = CHOOSE k \in Scored(g) : Best(g, k)
    BY DEF HighestAttempt
  <2>3. HighestAttempt(h) = CHOOSE k \in Scored(h) : Best(h, k)
    BY DEF HighestAttempt
  <2> HIDE DEF Best
  <2> QED BY <1>5, <2>1, <2>2, <2>3
<1> QED BY <1>3, <1>5, <1>7 DEF g

\* Handing in once more changes no points under "highest" or "first".
THEOREM AnotherIsFree == Spec => AnotherAttemptIsFree
<1>1. Init => HistoryInv
  BY DEF Init, HistoryInv, Histories
<1>2. HistoryInv /\ [Next]_<<history, count>> => HistoryInv'
  BY HistoryNext
<1>3. ASSUME HistoryInv, NewAttempt, history # <<>>
      PROVE  Points("highest")' = Points("highest") /\ Points("first")' = Points("first")
  <2> DEFINE g == Append(history, {})
             Given(h, policy) == OfficialPoints(PickAttempt(h, policy, 0))
  <2>1. history \in Histories /\ None \notin Score /\ history' = g
    BY <1>3, NoneIsNoScore DEF HistoryInv, NewAttempt
  <2>2. /\ Len(g) = Len(history) + 1 /\ \A k \in 1..Len(history) : g[k] = history[k]
        /\ g[Len(g)] = {} /\ Scored(g) = Scored(history)
        /\ Scored(history) # {} => HighestAttempt(g) = HighestAttempt(history)
    BY <2>1, AppendedScores
  <2> HIDE DEF g
  <2>3. Len(history) \in Nat /\ Len(history) # 0 /\ Scored(history) \subseteq 1..Len(history)
        /\ DOMAIN history = 1..Len(history)
    BY <1>3, <2>1, HistoryShape, EmptySeq DEF Histories
  <2>4. Given(g, "first") = Given(history, "first")
    <3>1. CountedAttempt(g, "first", 0) = 1 /\ CountedAttempt(history, "first", 0) = 1 /\ g[1] = history[1]
      BY <2>2, <2>3 DEF CountedAttempt
    <3> QED BY <3>1 DEF PickAttempt, OfficialPoints
  <2>5. Given(g, "highest") = Given(history, "highest")
    <3>1. CASE Scored(history) # {}
      <4>1. /\ CountedAttempt(g, "highest", 0) = HighestAttempt(history)
            /\ CountedAttempt(history, "highest", 0) = HighestAttempt(history)
        BY <2>2, <2>3, <3>1 DEF CountedAttempt
      <4>2. g[HighestAttempt(history)] = history[HighestAttempt(history)]
        BY <2>1, <2>2, <2>3, <3>1, HighestIsHighest
      <4> QED BY <4>1, <4>2 DEF PickAttempt, OfficialPoints
    <3>2. CASE Scored(history) = {}
      <4>1. CountedAttempt(g, "highest", 0) = Len(g) /\ CountedAttempt(history, "highest", 0) = Len(history)
        BY <2>2, <2>3, <3>2 DEF CountedAttempt
      <4>2. FinalScore(g[Len(g)]) = None
        BY <2>2 DEF FinalScore, FinalRows
      <4>3. FinalScore(history[Len(history)]) = None
        BY <2>3, <3>2 DEF Scored
      <4> QED BY <4>1, <4>2, <4>3 DEF PickAttempt, OfficialPoints
    <3> QED BY <3>1, <3>2
  <2> QED BY <2>1, <2>4, <2>5 DEF Points
<1> QED BY <1>1, <1>2, <1>3, PTL DEF Spec, AnotherAttemptIsFree

-----------------------------------------------------------------------------
(* The loops.                                                              *)

\* A set of numbers has a least one.
LEMMA LeastNumber ==
  ASSUME NEW T \in SUBSET Nat, T # {}
  PROVE  \E n \in T : \A m \in T : n <= m
<1> DEFINE R == OpToRel(<, Nat)
<1>1. IsWellFoundedOn(R, Nat)
  BY NatLessThanWellFounded, Zenon
<1>2. \A x, y \in Nat : <<x, y>> \in R <=> x < y
  BY DEF OpToRel
<1> HIDE DEF R
<1>3. PICK n \in T : \A m \in T : <<m, n>> \notin R
  BY <1>1, WFMin, Zenon
<1>4. ASSUME NEW m \in T PROVE n <= m
  <2>1. m \in Nat /\ n \in Nat /\ ~(m < n)
    BY <1>2, <1>3
  <2> QED BY <2>1
<1> QED BY <1>4

\* What holds of 0, and of a number up to n when it holds of the one before, holds up to n.
LEMMA UpTo ==
  ASSUME NEW n \in Nat, NEW P, 0 \in P, \A k \in 1..n : k - 1 \in P => k \in P
  PROVE  \A k \in 0..n : k \in P
<1> DEFINE Fails == {k \in 0..n : k \notin P}
<1>1. SUFFICES ASSUME Fails # {} PROVE FALSE
  OBVIOUS
<1>2. PICK k \in Fails : \A m \in Fails : k <= m
  <2>1. Fails \in SUBSET Nat
    OBVIOUS
  <2> HIDE DEF Fails
  <2> QED BY <1>1, <2>1, LeastNumber
<1>3. k \in 1..n /\ k - 1 \in 0..n /\ ~(k <= k - 1)
  OBVIOUS
<1>4. k - 1 \in P
  BY <1>2, <1>3
<1> QED BY <1>3, <1>4

\* f is what a loop of n rounds goes through from `base` on: G[k] is its k-th round, a
\* function on its states D.
LoopRun(f, n, D, base, G) ==
  /\ f \in [0..n -> D] /\ f[0] = base
  /\ \A k \in 1..n : f[k - 1] \in D /\ f[k] = G[k][f[k - 1]]

\* Every loop goes through something.
LEMMA LoopRuns ==
  ASSUME NEW n \in Nat, NEW D, NEW base \in D, NEW G \in [1..n -> [D -> D]]
  PROVE  \E f : LoopRun(f, n, D, base, G)
<1> DEFINE Run(m, f) == f[0] = base /\ \A k \in 1..m : f[k] = G[k][f[k - 1]]
           P == {m \in 0..n : \E f \in [0..m -> D] : Run(m, f)}
<1>1. 0 \in P
  <2>1. Run(0, [k \in 0..0 |-> base]) /\ [k \in 0..0 |-> base] \in [0..0 -> D]
    OBVIOUS
  <2> HIDE DEF Run
  <2> QED BY <2>1
<1>2. ASSUME NEW k \in 1..n, k - 1 \in P PROVE k \in P
  <2>1. PICK f \in [0..k - 1 -> D] : Run(k - 1, f)
    BY <1>2
  <2> DEFINE h == [i \in 0..k |-> IF i = k THEN G[k][f[k - 1]] ELSE f[i]]
  <2>2. k - 1 \in 0..k - 1 /\ f[k - 1] \in D /\ G[k][f[k - 1]] \in D
    OBVIOUS
  <2>3. h \in [0..k -> D]
    BY <2>2
  <2>4. h[0] = base
    BY <2>1
  <2>5. ASSUME NEW i \in 1..k PROVE h[i] = G[i][h[i - 1]]
    <3>1. h[i - 1] = f[i - 1]
      OBVIOUS
    <3>2. CASE i = k
      BY <3>1, <3>2
    <3>3. CASE i # k
      <4>1. i \in 1..k - 1
        BY <3>3
      <4> QED BY <2>1, <3>1, <3>3, <4>1
    <3> QED BY <3>2, <3>3
  <2> HIDE DEF h
  <2>6. Run(k, h)
    BY <2>4, <2>5
  <2> HIDE DEF Run
  <2> QED BY <2>3, <2>6
<1>3. n \in P
  <2>1. \A k \in 1..n : k - 1 \in P => k \in P
    BY <1>2
  <2> HIDE DEF P
  <2>2. \A k \in 0..n : k \in P
    BY <1>1, <2>1, UpTo
  <2> QED BY <2>2
<1>4. PICK f \in [0..n -> D] : Run(n, f)
  <2> HIDE DEF Run
  <2> QED BY <1>3
<1>5. \A k \in 1..n : k - 1 \in 0..n
  OBVIOUS
<1> QED BY <1>4, <1>5 DEF LoopRun

\* No two rows have one graded_at.
Ordered(rows) == \A x, y \in rows : x.at = y.at => x = y

\* The rows as a sequence s in the order of graded_at.
Sorts(s, rows, n) ==
  /\ s \in [1..n -> rows]
  /\ \A x \in rows : \E i \in 1..n : s[i] = x
  /\ \A i, j \in 1..n : i < j => s[i].at < s[j].at

\* The newest row is the one none is newer than.
LEMMA NewestOf ==
  ASSUME NEW rows \in Rows, Ordered(rows), NEW x \in rows, \A y \in rows : y.at <= x.at
  PROVE  Newest(rows) = x
<1>1. Newest(rows) \in rows /\ x.at <= Newest(rows).at /\ Newest(rows).at <= x.at
  BY NewestIsNewest
<1>2. x.at \in Nat /\ Newest(rows).at \in Nat
  BY <1>1 DEF Rows, Score
<1> QED BY <1>1, <1>2 DEF Ordered

\* Finitely many rows can be put in order.
LEMMA RowsAreSorted ==
  ASSUME NEW rows \in Rows, Ordered(rows)
  PROVE  /\ Cardinality(rows) \in Nat /\ (Cardinality(rows) = 0 <=> rows = {})
         /\ Sorts(ByGradedAt(rows), rows, Cardinality(rows))
<1> DEFINE n == Cardinality(rows)
           P == {m \in 0..n : \A r \in SUBSET rows : Cardinality(r) = m => \E s : Sorts(s, r, m)}
<1>1. ASSUME NEW r \in SUBSET rows
      PROVE  /\ r \in Rows /\ IsFiniteSet(r) /\ Ordered(r) /\ Cardinality(r) \in Nat
             /\ (Cardinality(r) = 0 <=> r = {})
  BY FS_Subset, FS_CardinalityType, FS_EmptySet DEF Rows, Ordered
<1>2. 0 \in P
  <2>1. n \in Nat
    BY <1>1
  <2>2. ASSUME NEW r \in SUBSET rows, Cardinality(r) = 0 PROVE \E s : Sorts(s, r, 0)
    <3>1. r = {}
      BY <1>1, <2>2
    <3>2. Sorts([i \in 1..0 |-> i], r, 0)
      BY <3>1 DEF Sorts
    <3> QED BY <3>2
  <2> QED BY <2>1, <2>2
<1>3. ASSUME NEW k \in 1..n, k - 1 \in P PROVE k \in P
  <2>1. ASSUME NEW r \in SUBSET rows, Cardinality(r) = k PROVE \E s : Sorts(s, r, k)
    <3> DEFINE x == Newest(r)
    <3>1. r # {} /\ x \in r /\ \A y \in r : y.at <= x.at
      BY <1>1, <2>1, NewestIsNewest
    <3> HIDE DEF x
    <3>2. r \ {x} \in SUBSET rows /\ Cardinality(r \ {x}) = k - 1
      BY <1>1, <2>1, <3>1, FS_RemoveElement
    <3>3. PICK s : Sorts(s, r \ {x}, k - 1)
      BY <1>3, <3>2
    <3> DEFINE t == [i \in 1..k |-> IF i = k THEN x ELSE s[i]]
    <3>4. ASSUME NEW i \in 1..k, i # k
          PROVE  i \in 1..k - 1 /\ s[i] \in r \ {x} /\ t[i] = s[i]
      BY <3>3, <3>4 DEF Sorts
    <3>5. t \in [1..k -> r] /\ t[k] = x /\ k \in 1..k
      BY <3>1, <3>4
    <3>6. ASSUME NEW y \in r PROVE \E i \in 1..k : t[i] = y
      <4>1. CASE y = x
        BY <3>5, <4>1
      <4>2. CASE y # x
        <5>1. PICK i \in 1..k - 1 : s[i] = y
          BY <3>3, <4>2 DEF Sorts
        <5>2. i \in 1..k /\ t[i] = y
          BY <5>1
        <5> QED BY <5>2
      <4> QED BY <4>1, <4>2
    <3>7. ASSUME NEW i \in 1..k, NEW j \in 1..k, i < j PROVE t[i].at < t[j].at
      <4>1. i # k /\ i \in 1..k - 1 /\ s[i] \in r \ {x} /\ t[i] = s[i]
        BY <3>4, <3>7
      <4>2. CASE j = k
        <5>1. s[i].at # x.at /\ s[i].at <= x.at /\ s[i].at \in Nat /\ x.at \in Nat
          BY <1>1, <3>1, <4>1 DEF Ordered, Rows, Score
        <5> QED BY <3>5, <4>1, <4>2, <5>1
      <4>3. CASE j # k
        BY <3>3, <3>4, <3>7, <4>1, <4>3 DEF Sorts
      <4> QED BY <4>2, <4>3
    <3> HIDE DEF t
    <3>8. Sorts(t, r, k)
      BY <3>5, <3>6, <3>7 DEF Sorts
    <3> QED BY <3>8
  <2> QED BY <2>1
<1>4. n \in Nat /\ (n = 0 <=> rows = {})
  BY <1>1
<1>5. n \in P
  <2> HIDE DEF P, n
  <2> QED BY <1>2, <1>3, <1>4, UpTo
<1>6. \E s : Sorts(s, rows, n)
  BY <1>5
<1>7. Sorts(ByGradedAt(rows), rows, n)
  <2> DEFINE InOrder(s) == /\ \A x \in rows : \E i \in DOMAIN s : s[i] = x
                           /\ \A i, j \in DOMAIN s : i < j => s[i].at < s[j].at
  <2>1. ASSUME NEW s \in [1..n -> rows] PROVE InOrder(s) <=> Sorts(s, rows, n)
    <3>1. DOMAIN s = 1..n
      OBVIOUS
    <3> HIDE DEF n
    <3> QED BY <3>1 DEF Sorts
  <2>2. ByGradedAt(rows) = CHOOSE s \in [1..n -> rows] : InOrder(s)
    BY DEF ByGradedAt
  <2>3. PICK s : Sorts(s, rows, n)
    BY <1>6
  <2>4. s \in [1..n -> rows]
    BY <2>3 DEF Sorts
  <2> HIDE DEF InOrder, n
  <2> QED BY <2>1, <2>2, <2>3, <2>4
<1> QED BY <1>4, <1>7

\* v is the last final one of the first k rows of s, or `none` when none is final.
LastFinal(s, k, v, none) ==
  \/ v = none /\ \A i \in 1..k : ~s[i].final
  \/ \E i \in 1..k : v = s[i] /\ s[i].final /\ \A j \in 1..k : i < j => ~s[j].final

\* A round of a loop that overwrites it with a final row.
LEMMA OneRowMore ==
  ASSUME NEW n \in Nat, NEW k \in 1..n, NEW s, NEW v, NEW none,
         s[k].final \in BOOLEAN, LastFinal(s, k - 1, v, none)
  PROVE  LastFinal(s, k, IF s[k].final THEN s[k] ELSE v, none)
<1>1. \A i \in 1..k : i # k => i \in 1..k - 1
  OBVIOUS
<1>2. \A i \in 1..k - 1 : i \in 1..k /\ i < k
  OBVIOUS
<1>3. CASE s[k].final
  <2>1. k \in 1..k /\ \A j \in 1..k : ~(k < j)
    OBVIOUS
  <2> QED BY <1>3, <2>1 DEF LastFinal
<1>4. CASE ~s[k].final
  <2>1. CASE v = none /\ \A i \in 1..k - 1 : ~s[i].final
    BY <1>1, <1>4, <2>1 DEF LastFinal
  <2>2. CASE \E i \in 1..k - 1 : /\ v = s[i] /\ s[i].final
                                 /\ \A j \in 1..k - 1 : i < j => ~s[j].final
    BY <1>1, <1>2, <1>4, <2>2 DEF LastFinal
  <2> QED BY <2>1, <2>2 DEF LastFinal
<1> QED BY <1>3, <1>4

\* At the end of the rows, that is the newest final row.
LEMMA AllRowsSeen ==
  ASSUME NEW rows \in Rows, Ordered(rows), NEW n \in Nat, NEW s, Sorts(s, rows, n),
         NEW v, NEW none, LastFinal(s, n, v, none)
  PROVE  /\ v = IF FinalRows(rows) # {} THEN Newest(FinalRows(rows)) ELSE none
         /\ n # 0 => s[n] = Newest(rows)
<1>1. /\ \A i \in 1..n : s[i] \in rows /\ s[i].at \in Nat
      /\ \A i, j \in 1..n : i < j => s[i].at < s[j].at
      /\ \A x \in rows : \E i \in 1..n : s[i] = x
  BY DEF Sorts, Rows, Score
<1>2. ASSUME n # 0 PROVE s[n] = Newest(rows)
  <2>1. n \in 1..n /\ \A i \in 1..n : i = n \/ i < n
    BY <1>2
  <2>2. \A y \in rows : y.at <= s[n].at
    BY <1>1, <2>1
  <2> QED BY <1>1, <2>1, <2>2, NewestOf
<1>3. ASSUME v = none, \A i \in 1..n : ~s[i].final
      PROVE  FinalRows(rows) = {} /\ v = none
  <2>1. \A x \in rows : ~x.final
    BY <1>1, <1>3
  <2> QED BY <1>3, <2>1 DEF FinalRows
<1>4. ASSUME NEW i \in 1..n, v = s[i], s[i].final, \A j \in 1..n : i < j => ~s[j].final
      PROVE  FinalRows(rows) # {} /\ v = Newest(FinalRows(rows))
  <2>1. FinalRows(rows) \in Rows /\ Ordered(FinalRows(rows)) /\ v \in FinalRows(rows)
    BY <1>1, <1>4, FS_Subset DEF FinalRows, Rows, Ordered
  <2>2. ASSUME NEW y \in FinalRows(rows) PROVE y.at <= v.at
    <3>1. PICK j \in 1..n : s[j] = y /\ s[j].final
      BY <1>1 DEF FinalRows
    <3>2. ~(i < j)
      BY <1>4, <3>1
    <3>3. j = i \/ j < i
      BY <3>2
    <3> QED BY <1>1, <1>4, <3>1, <3>3
  <2> QED BY <2>1, <2>2, NewestOf
<1> QED BY <1>2, <1>3, <1>4 DEF LastFinal

\* The scan from the newest row returns the score.
LEMMA ScanIsFinalScore ==
  ASSUME NEW rows \in Rows, Ordered(rows)
  PROVE  ScanFinalScore(rows) = FinalScore(rows)
<1> DEFINE n == Cardinality(rows)
           s == ByGradedAt(rows)
           D == rows \cup {None}
           base == IF n = 0 THEN None ELSE s[n]
           Scan(f) == [k \in 0..n |-> IF k = 0 THEN IF n = 0 THEN None ELSE s[n]
                                      ELSE IF s[k].final THEN s[k] ELSE f[k - 1]]
           scan == CHOOSE f : f = Scan(f)
           G == [k \in 1..n |-> [d \in D |-> IF s[k].final THEN s[k] ELSE d]]
<1>1. n \in Nat /\ (n = 0 <=> rows = {}) /\ Sorts(s, rows, n)
  BY RowsAreSorted
<1>2. ScanFinalScore(rows) = scan[n]
  BY Zenon DEF ScanFinalScore
<1> HIDE DEF n, s
<1>3. \A k \in 1..n : s[k] \in rows /\ s[k].final \in BOOLEAN
  BY <1>1 DEF Sorts, Rows, Score
<1>4. base \in D
  BY <1>1, <1>3
<1>5. G \in [1..n -> [D -> D]]
  BY <1>3
<1>6. PICK f : LoopRun(f, n, D, base, G)
  <2> HIDE DEF D, G, base
  <2> QED BY <1>1, <1>4, <1>5, LoopRuns
<1>7. f = Scan(f)
  <2>1. ASSUME NEW k \in 1..n PROVE f[k] = IF s[k].final THEN s[k] ELSE f[k - 1]
    <3>1. f[k - 1] \in D /\ f[k] = G[k][f[k - 1]]
      BY <1>6 DEF LoopRun
    <3> HIDE DEF D
    <3> QED BY <3>1
  <2>2. \A k \in 0..n : k # 0 => k \in 1..n
    OBVIOUS
  <2>3. f \in [0..n -> D] /\ f[0] = base
    BY <1>6 DEF LoopRun
  <2> HIDE DEF D, G
  <2> QED BY <2>1, <2>2, <2>3
<1>8. scan = Scan(scan)
  <2> HIDE DEF Scan
  <2> QED BY <1>7
<1> HIDE DEF scan
<1>9. scan[0] = base /\ \A k \in 1..n : scan[k] = IF s[k].final THEN s[k] ELSE scan[k - 1]
  <2>1. \A k \in 0..n : scan[k] = Scan(scan)[k]
    <3> HIDE DEF Scan
    <3> QED BY <1>8
  <2>2. 0 \in 0..n /\ \A k \in 1..n : k \in 0..n /\ k # 0
    BY <1>1
  <2> QED BY <2>1, <2>2
<1> DEFINE P == {k \in 0..n : LastFinal(s, k, scan[k], base)}
<1>10. n \in P
  <2>1. 0 \in P
    BY <1>1, <1>9 DEF LastFinal
  <2> HIDE DEF base
  <2>2. ASSUME NEW k \in 1..n, k - 1 \in P PROVE k \in P
    <3>1. LastFinal(s, k - 1, scan[k - 1], base) /\ k \in 0..n
      BY <2>2
    <3>2. LastFinal(s, k, scan[k], base)
      <4>1. LastFinal(s, k, IF s[k].final THEN s[k] ELSE scan[k - 1], base)
        BY <1>1, <1>3, <3>1, OneRowMore
      <4> QED BY <1>9, <4>1
    <3> QED BY <3>1, <3>2
  <2>3. \A k \in 0..n : k \in P
    <3>1. \A k \in 1..n : k - 1 \in P => k \in P
      BY <2>2
    <3> HIDE DEF P
    <3> QED BY <1>1, <2>1, <3>1, UpTo
  <2> HIDE DEF P
  <2> QED BY <1>1, <2>3
<1>11. LastFinal(s, n, scan[n], base)
  BY <1>10
<1>12. /\ scan[n] = IF FinalRows(rows) # {} THEN Newest(FinalRows(rows)) ELSE base
       /\ n # 0 => s[n] = Newest(rows)
  <2> HIDE DEF base, P
  <2> QED BY <1>1, <1>11, AllRowsSeen
<1> HIDE DEF P
<1> QED BY <1>1, <1>2, <1>12 DEF FinalScore

\* The dictionaries hold it.
LEMMA DictIsFinalScore ==
  ASSUME NEW rows \in Rows, Ordered(rows)
  PROVE  DictScore(rows) = FinalScore(rows)
<1> DEFINE n == Cardinality(rows)
           s == ByGradedAt(rows)
           D == [newest : rows \cup {None}, newest_final : rows \cup {None}]
           base == [newest |-> None, newest_final |-> None]
           Round(k, d) == [newest |-> s[k], newest_final |-> IF s[k].final THEN s[k] ELSE d.newest_final]
           Dict(f) == [k \in 0..n |-> IF k = 0 THEN base ELSE Round(k, f[k - 1])]
           dict == CHOOSE f : f = Dict(f)
           G == [k \in 1..n |-> [d \in D |-> Round(k, d)]]
<1>1. n \in Nat /\ (n = 0 <=> rows = {}) /\ Sorts(s, rows, n)
  BY RowsAreSorted
<1>2. DictScore(rows) = IF dict[n].newest_final # None THEN dict[n].newest_final ELSE dict[n].newest
  BY Zenon DEF DictScore
<1> HIDE DEF n, s
<1>3. \A k \in 1..n : s[k] \in rows /\ s[k].final \in BOOLEAN
  BY <1>1 DEF Sorts, Rows, Score
<1>4. base \in D
  OBVIOUS
<1>5. G \in [1..n -> [D -> D]]
  <2>1. ASSUME NEW k \in 1..n, NEW d \in D PROVE Round(k, d) \in D
    BY <1>3
  <2> HIDE DEF Round, D
  <2> QED BY <2>1
<1>6. PICK f : LoopRun(f, n, D, base, G)
  <2> HIDE DEF D, G, base
  <2> QED BY <1>1, <1>4, <1>5, LoopRuns
<1>7. f = Dict(f)
  <2> HIDE DEF Round, D, base
  <2>1. ASSUME NEW k \in 1..n PROVE f[k] = Round(k, f[k - 1])
    <3>1. f[k - 1] \in D /\ f[k] = G[k][f[k - 1]]
      BY <1>6 DEF LoopRun
    <3> QED BY <3>1
  <2>2. \A k \in 0..n : k # 0 => k \in 1..n
    OBVIOUS
  <2>3. f \in [0..n -> D] /\ f[0] = base
    BY <1>6 DEF LoopRun
  <2> HIDE DEF G
  <2> QED BY <2>1, <2>2, <2>3
<1>8. dict = Dict(dict)
  <2> HIDE DEF Dict
  <2> QED BY <1>7
<1> HIDE DEF dict
<1>9. dict[0] = base /\ \A k \in 1..n : dict[k] = Round(k, dict[k - 1])
  <2>1. \A k \in 0..n : dict[k] = Dict(dict)[k]
    <3> HIDE DEF Dict
    <3> QED BY <1>8
  <2>2. 0 \in 0..n /\ \A k \in 1..n : k \in 0..n /\ k # 0
    BY <1>1
  <2> HIDE DEF Round, base
  <2> QED BY <2>1, <2>2
<1>10. \A k \in 1..n : /\ dict[k].newest = s[k]
                       /\ dict[k].newest_final = IF s[k].final THEN s[k] ELSE dict[k - 1].newest_final
  <2>1. \A k, d : /\ Round(k, d).newest = s[k]
                 /\ Round(k, d).newest_final = IF s[k].final THEN s[k] ELSE d.newest_final
    OBVIOUS
  <2> HIDE DEF Round, base
  <2> QED BY <1>9, <2>1
<1> HIDE DEF Round, Dict, D, G
<1> DEFINE P == {k \in 0..n : LastFinal(s, k, dict[k].newest_final, None)}
<1>11. n \in P
  <2>1. 0 \in P
    BY <1>1, <1>9 DEF LastFinal
  <2>2. ASSUME NEW k \in 1..n, k - 1 \in P PROVE k \in P
    <3>1. LastFinal(s, k - 1, dict[k - 1].newest_final, None) /\ k \in 0..n
      BY <2>2
    <3>2. dict[k].newest_final = IF s[k].final THEN s[k] ELSE dict[k - 1].newest_final
      BY <1>10
    <3>3. LastFinal(s, k, dict[k].newest_final, None)
      <4>1. LastFinal(s, k, IF s[k].final THEN s[k] ELSE dict[k - 1].newest_final, None)
        BY <1>1, <1>3, <3>1, OneRowMore
      <4> QED BY <3>2, <4>1
    <3> QED BY <3>1, <3>3
  <2>3. \A k \in 0..n : k \in P
    <3>1. \A k \in 1..n : k - 1 \in P => k \in P
      BY <2>2
    <3> HIDE DEF P
    <3> QED BY <1>1, <2>1, <3>1, UpTo
  <2> HIDE DEF P
  <2> QED BY <1>1, <2>3
<1>12. LastFinal(s, n, dict[n].newest_final, None)
  BY <1>11
<1>13. /\ dict[n].newest_final = IF FinalRows(rows) # {} THEN Newest(FinalRows(rows)) ELSE None
       /\ n # 0 => s[n] = Newest(rows)
  <2> HIDE DEF P
  <2> QED BY <1>1, <1>12, AllRowsSeen
<1>14. dict[n].newest = IF n = 0 THEN None ELSE s[n]
  <2>1. n # 0 => n \in 1..n
    BY <1>1
  <2> QED BY <1>9, <1>10, <2>1
<1>15. FinalRows(rows) # {} => Newest(FinalRows(rows)) # None
  <2>1. FinalRows(rows) \in Rows /\ FinalRows(rows) \subseteq Score
    BY FS_Subset DEF FinalRows, Rows
  <2> QED BY <2>1, NewestIsNewest, NoneIsNoScore
<1> HIDE DEF P
<1> QED BY <1>1, <1>2, <1>13, <1>14, <1>15 DEF FinalScore

\* The rows of an attempt have different dates, none of them to come.
Dated ==
  \A k \in DOMAIN history :
    Ordered(history[k]) /\ \A x \in history[k] : x.at <= count

\* The best of the first k attempts: the earliest of those with the highest total.
BestSoFar(h, k, best) ==
  \/ best = [attempt |-> 0, score |-> None] /\ \A j \in 1..k : j \notin Scored(h)
  \/ \E i \in 1..k :
       /\ i \in Scored(h) /\ best = [attempt |-> i, score |-> FinalScore(h[i])]
       /\ \A j \in 1..k : j \in Scored(h) =>
            LET tj == Total(FinalScore(h[j]))
                ti == Total(FinalScore(h[i]))
            IN  tj < ti \/ (tj = ti /\ i <= j)

\* A round of the loop over the attempts.
LEMMA OneAttemptMore ==
  ASSUME NEW h \in Histories, None \notin Score, NEW k \in 1..Len(h), NEW best, BestSoFar(h, k - 1, best)
  PROVE  LET sc == FinalScore(h[k])
         IN  BestSoFar(h, k, IF sc # None /\ (best.score = None \/ Total(sc) > Total(best.score))
                             THEN [attempt |-> k, score |-> sc] ELSE best)
<1> DEFINE sc == FinalScore(h[k])
           T(j) == Total(FinalScore(h[j]))
<1>1. Len(h) \in Nat /\ DOMAIN h = 1..Len(h) /\ k \in Nat
  BY HistoryShape
<1>2. \A j \in Scored(h) : T(j) \in Nat
  BY ScoredHaveRows
<1>3. /\ \A j \in 1..k : j # k => j \in 1..k - 1
      /\ \A j \in 1..k - 1 : j \in 1..k /\ j < k
      /\ k \in 1..k
  BY <1>1
<1>4. sc # None <=> k \in Scored(h)
  BY <1>1 DEF Scored
<1>5. CASE best = [attempt |-> 0, score |-> None] /\ \A j \in 1..k - 1 : j \notin Scored(h)
  <2>1. CASE sc # None
    <3>1. \A j \in 1..k : j \in Scored(h) => j = k
      BY <1>3, <1>5
    <3>2. best.score = None
      BY <1>5
    <3>3. BestSoFar(h, k, [attempt |-> k, score |-> sc])
      <4>1. \A j \in 1..k : j \in Scored(h) => T(j) < T(k) \/ (T(j) = T(k) /\ k <= j)
        BY <1>1, <3>1
      <4> QED BY <1>3, <1>4, <2>1, <4>1 DEF BestSoFar
    <3> QED BY <2>1, <3>2, <3>3
  <2>2. CASE sc = None
    <3>1. \A j \in 1..k : j \notin Scored(h)
      BY <1>3, <1>4, <1>5, <2>2
    <3>2. BestSoFar(h, k, best)
      BY <1>5, <3>1 DEF BestSoFar
    <3> QED BY <2>2, <3>2
  <2> QED BY <2>1, <2>2
<1>6. ASSUME NEW i \in 1..k - 1, i \in Scored(h), best = [attempt |-> i, score |-> FinalScore(h[i])],
             \A j \in 1..k - 1 : j \in Scored(h) => T(j) < T(i) \/ (T(j) = T(i) /\ i <= j)
      PROVE  BestSoFar(h, k, IF sc # None /\ (best.score = None \/ Total(sc) > Total(best.score))
                             THEN [attempt |-> k, score |-> sc] ELSE best)
  <2>1. best.score # None /\ Total(best.score) = T(i) /\ Total(sc) = T(k)
    BY <1>6 DEF Scored
  <2>2. i \in 1..k /\ i < k /\ T(i) \in Nat
    BY <1>2, <1>3, <1>6
  <2>3. CASE sc # None /\ T(k) > T(i)
    <3>1. k \in Scored(h) /\ T(k) \in Nat
      BY <1>2, <1>4, <2>3
    <3>2. ASSUME NEW j \in 1..k, j \in Scored(h) PROVE T(j) < T(k) \/ (T(j) = T(k) /\ k <= j)
      <4>1. CASE j = k
        BY <1>1, <4>1
      <4>2. CASE j # k
        <5>1. T(j) \in Nat /\ (T(j) < T(i) \/ T(j) = T(i))
          BY <1>2, <1>3, <1>6, <3>2, <4>2
        <5> HIDE DEF T
        <5> QED BY <2>2, <2>3, <3>1, <5>1
      <4> QED BY <4>1, <4>2
    <3>3. BestSoFar(h, k, [attempt |-> k, score |-> sc])
      BY <1>3, <3>1, <3>2 DEF BestSoFar
    <3> QED BY <2>1, <2>3, <3>3
  <2>4. CASE ~(sc # None /\ T(k) > T(i))
    <3>1. ASSUME NEW j \in 1..k, j \in Scored(h) PROVE T(j) < T(i) \/ (T(j) = T(i) /\ i <= j)
      <4>1. CASE j = k
        <5>1. T(k) \in Nat /\ ~(T(k) > T(i)) /\ i <= k
          BY <1>2, <1>4, <2>2, <2>4, <3>1, <4>1
        <5> HIDE DEF T
        <5> QED BY <2>2, <4>1, <5>1
      <4>2. CASE j # k
        BY <1>3, <1>6, <3>1, <4>2
      <4> QED BY <4>1, <4>2
    <3>2. BestSoFar(h, k, best)
      BY <1>6, <2>2, <3>1 DEF BestSoFar
    <3> QED BY <2>1, <2>4, <3>2
  <2> QED BY <2>3, <2>4
<1> QED BY <1>5, <1>6 DEF BestSoFar

\* At the end of the attempts, that is the attempt "highest" counts.
LEMMA AllAttemptsSeen ==
  ASSUME NEW h \in Histories, None \notin Score, NEW best, BestSoFar(h, Len(h), best), Len(h) # 0
  PROVE  PickAttempt(h, "highest", 0) =
           IF best.attempt # 0 THEN best ELSE [attempt |-> Len(h), score |-> None]
<1> DEFINE T(j) == Total(FinalScore(h[j]))
           Best(i) == \A j \in Scored(h) : T(j) < T(i) \/ (T(j) = T(i) /\ i <= j)
<1>1. Len(h) \in Nat /\ DOMAIN h = 1..Len(h) /\ Scored(h) \subseteq 1..Len(h)
  BY HistoryShape
<1>2. CASE best = [attempt |-> 0, score |-> None] /\ \A j \in 1..Len(h) : j \notin Scored(h)
  <2>1. Scored(h) = {} /\ best.attempt = 0
    BY <1>1, <1>2
  <2>2. FinalScore(h[Len(h)]) = None
    BY <1>1, <2>1 DEF Scored
  <2> QED BY <2>1, <2>2 DEF PickAttempt, CountedAttempt
<1>3. ASSUME NEW i \in Scored(h), best = [attempt |-> i, score |-> FinalScore(h[i])], Best(i)
      PROVE  PickAttempt(h, "highest", 0) =
               IF best.attempt # 0 THEN best ELSE [attempt |-> Len(h), score |-> None]
  <2> DEFINE c == HighestAttempt(h)
  <2>1. c = CHOOSE k \in Scored(h) : Best(k)
    BY DEF HighestAttempt
  <2>2. c \in Scored(h) /\ Best(c)
    <3> HIDE DEF Best, c
    <3> QED BY <1>3, <2>1
  <2>3. T(c) \in Nat /\ T(i) \in Nat /\ c \in Nat /\ i \in Nat /\ i # 0
    <3> HIDE DEF c
    <3> QED BY <1>1, <1>3, <2>2, ScoredHaveRows
  <2>4. c = i
    <3> HIDE DEF c, T
    <3> QED BY <1>3, <2>2, <2>3
  <2>5. CountedAttempt(h, "highest", 0) = i
    BY <1>3, <2>4 DEF CountedAttempt
  <2>6. PickAttempt(h, "highest", 0) = best
    BY <1>3, <2>3, <2>5 DEF PickAttempt
  <2> QED BY <1>3, <2>3, <2>6
<1>4. ASSUME NEW i \in 1..Len(h), i \in Scored(h),
             \A j \in 1..Len(h) : j \in Scored(h) => T(j) < T(i) \/ (T(j) = T(i) /\ i <= j)
      PROVE  Best(i)
  BY <1>1, <1>4
<1> HIDE DEF Best
<1> QED BY <1>2, <1>3, <1>4 DEF BestSoFar

\* The loop over the attempts returns it.
LEMMA LoopIsHighest ==
  ASSUME history \in Histories, Len(history) # 0,
         \A k \in 1..Len(history) : ScanFinalScore(history[k]) = FinalScore(history[k])
  PROVE  PickAttempt(history, "highest", 0) = LoopHighest
<1> DEFINE n == Len(history)
           base == [attempt |-> 0, score |-> None]
           Final(k) == ScanFinalScore(history[k])
           D == [attempt : 0..n, score : {Final(k) : k \in 1..n} \cup {None}]
           Round(k, d) == IF Final(k) # None /\ (d.score = None \/ Total(Final(k)) > Total(d.score))
                          THEN [attempt |-> k, score |-> Final(k)] ELSE d
           Best(f) == [k \in 0..n |-> IF k = 0 THEN base ELSE Round(k, f[k - 1])]
           best == CHOOSE f : f = Best(f)
           G == [k \in 1..n |-> [d \in D |-> Round(k, d)]]
<1>1. n \in Nat /\ None \notin Score
  BY HistoryShape, NoneIsNoScore
<1>2. LoopHighest = IF best[n].attempt # 0 THEN best[n] ELSE [attempt |-> n, score |-> None]
  BY Zenon DEF LoopHighest
<1>3. base \in D
  <2>1. 0 \in 0..n
    BY <1>1
  <2> HIDE DEF n, Final
  <2> QED BY <2>1
<1>4. G \in [1..n -> [D -> D]]
  <2>1. ASSUME NEW k \in 1..n, NEW d \in D PROVE Round(k, d) \in D
    <3>1. Final(k) \in {Final(j) : j \in 1..n} /\ k \in 0..n
      OBVIOUS
    <3> HIDE DEF Final
    <3>2. [attempt |-> k, score |-> Final(k)] \in D
      BY <3>1
    <3> QED BY <3>2
  <2> HIDE DEF Round, D
  <2> QED BY <2>1
<1> HIDE DEF n, Final
<1>5. PICK f : LoopRun(f, n, D, base, G)
  <2> HIDE DEF D, G, base
  <2> QED BY <1>1, <1>3, <1>4, LoopRuns
<1>6. f = Best(f)
  <2> HIDE DEF Round, D, base
  <2>1. ASSUME NEW k \in 1..n PROVE f[k] = Round(k, f[k - 1])
    <3>1. f[k - 1] \in D /\ f[k] = G[k][f[k - 1]]
      BY <1>5 DEF LoopRun
    <3> QED BY <3>1
  <2>2. \A k \in 0..n : k # 0 => k \in 1..n
    OBVIOUS
  <2>3. f \in [0..n -> D] /\ f[0] = base
    BY <1>5 DEF LoopRun
  <2> HIDE DEF G
  <2> QED BY <2>1, <2>2, <2>3
<1>7. best = Best(best)
  <2> HIDE DEF Best
  <2> QED BY <1>6
<1> HIDE DEF best
<1>8. best[0] = base /\ \A k \in 1..n : best[k] = Round(k, best[k - 1])
  <2>1. \A k \in 0..n : best[k] = Best(best)[k]
    <3> HIDE DEF Best
    <3> QED BY <1>7
  <2>2. 0 \in 0..n /\ \A k \in 1..n : k \in 0..n /\ k # 0
    BY <1>1
  <2> HIDE DEF Round, base
  <2> QED BY <2>1, <2>2
<1> DEFINE P == {k \in 0..n : BestSoFar(history, k, best[k])}
<1>9. 0 \in P
  BY <1>1, <1>8 DEF BestSoFar
<1>10. ASSUME NEW k \in 1..n, k - 1 \in P PROVE k \in P
  <2>1. BestSoFar(history, k - 1, best[k - 1]) /\ k \in 0..n
    BY <1>10
  <2>2. k \in 1..Len(history) /\ Final(k) = FinalScore(history[k])
    BY DEF n, Final
  <2>3. BestSoFar(history, k, Round(k, best[k - 1]))
    <3>1. LET sc == FinalScore(history[k])
              b == best[k - 1]
          IN  BestSoFar(history, k, IF sc # None /\ (b.score = None \/ Total(sc) > Total(b.score))
                                    THEN [attempt |-> k, score |-> sc] ELSE b)
      BY <1>1, <2>1, <2>2, OneAttemptMore
    <3> QED BY <2>2, <3>1
  <2> HIDE DEF Round
  <2>4. BestSoFar(history, k, best[k])
    BY <1>8, <2>3
  <2> QED BY <2>1, <2>4
<1>11. \A k \in 0..n : k \in P
  <2>1. \A k \in 1..n : k - 1 \in P => k \in P
    BY <1>10
  <2> HIDE DEF P
  <2> QED BY <1>1, <1>9, <2>1, UpTo
<1>12. BestSoFar(history, n, best[n])
  <2>1. n \in P
    <3> HIDE DEF P
    <3> QED BY <1>1, <1>11
  <2> QED BY <2>1
<1>13. PickAttempt(history, "highest", 0) =
         IF best[n].attempt # 0 THEN best[n] ELSE [attempt |-> n, score |-> None]
  BY <1>1, <1>12, AllAttemptsSeen DEF n
<1> QED BY <1>2, <1>13

\* NewAttempt and AddScore keep the rows dated.
LEMMA DatedNext == HistoryInv /\ Dated /\ [Next]_<<history, count>> => Dated'
<1> SUFFICES ASSUME HistoryInv, Dated, [Next]_<<history, count>> PROVE Dated'
  OBVIOUS
<1>1. history \in Seq(Rows) /\ Len(history) \in Nat /\ DOMAIN history = 1..Len(history) /\ count \in Nat
  BY HistoryShape DEF HistoryInv, Histories
<1>2. CASE NewAttempt
  <2>1. history' = Append(history, {}) /\ count' = count
    BY <1>2 DEF NewAttempt
  <2>2. /\ DOMAIN history' = 1..Len(history) + 1 /\ history'[Len(history) + 1] = {}
        /\ \A k \in 1..Len(history) : history'[k] = history[k]
    <3>1. LET g == Append(history, {})
          IN  /\ g \in Histories /\ Len(g) = Len(history) + 1 /\ g[Len(g)] = {}
              /\ \A k \in 1..Len(history) : g[k] = history[k]
      BY AppendedScores, NoneIsNoScore DEF HistoryInv
    <3> QED BY <2>1, <3>1, HistoryShape
  <2>3. ASSUME NEW k \in 1..Len(history) + 1
        PROVE  \/ k \in DOMAIN history /\ history'[k] = history[k]
               \/ history'[k] = {}
    BY <1>1, <2>2
  <2> QED BY <2>1, <2>2, <2>3 DEF Dated, Ordered
<1>3. ASSUME NEW k \in DOMAIN history, NEW auto \in AutoPoints, NEW manual \in ManualPoints,
             NEW final \in BOOLEAN, AddScore(k, auto, manual, final)
      PROVE  Dated'
  <2> DEFINE row == [auto |-> auto, manual |-> manual, final |-> final, at |-> count + 1, by |-> "staff"]
  <2>1. row.at = count + 1
    OBVIOUS
  <2>2. count' = count + 1 /\ history' = [history EXCEPT ![k] = history[k] \cup {row}]
    BY <1>3 DEF AddScore
  <2> HIDE DEF row
  <2>3. /\ DOMAIN history' = DOMAIN history /\ history'[k] = history[k] \cup {row}
        /\ \A j \in DOMAIN history : j # k => history'[j] = history[j]
    BY <1>1, <2>2
  <2>4. \A j \in DOMAIN history : \A x \in history[j] : x.at \in Nat /\ x.at <= count
    <3>1. \A j \in DOMAIN history : history[j] \in Rows
      BY <1>1, HistoryShape DEF HistoryInv
    <3> QED BY <3>1 DEF Dated, Rows, Score
  <2>5. \A j \in DOMAIN history : Ordered(history[j])
    BY DEF Dated
  <2>6. ASSUME NEW j \in DOMAIN history
        PROVE  Ordered(history'[j]) /\ \A x \in history'[j] : x.at <= count + 1
    <3>1. CASE j # k
      <4>1. history'[j] = history[j] /\ Ordered(history[j])
        BY <2>3, <2>5, <3>1
      <4>2. \A x \in history[j] : x.at <= count + 1
        BY <1>1, <2>4
      <4> QED BY <4>1, <4>2
    <3>2. CASE j = k
      <4>1. \A x \in history'[j] : x \in history[j] \/ x = row
        BY <2>3, <3>2
      <4>2. \A x \in history'[j] : x.at <= count + 1
        BY <1>1, <2>1, <2>4, <4>1
      <4>3. ASSUME NEW x \in history'[j], NEW y \in history'[j], x.at = y.at PROVE x = y
        <5>1. CASE x = row \/ y = row
          BY <1>1, <2>1, <2>4, <4>1, <4>3, <5>1
        <5>2. CASE x # row /\ y # row
          BY <2>5, <4>1, <4>3, <5>2 DEF Ordered
        <5> QED BY <5>1, <5>2
      <4> QED BY <4>2, <4>3 DEF Ordered
    <3> QED BY <3>1, <3>2
  <2> QED BY <2>2, <2>3, <2>6 DEF Dated
<1>4. CASE UNCHANGED <<history, count>>
  BY <1>4 DEF Dated
<1> QED BY <1>2, <1>3, <1>4 DEF Next

\* For every history the gradebook can hold, the scan of the newest score, the two
\* dictionaries and the loop over the attempts compute what the rules say
\* (services/grades.final_score and pick_attempt, services/progress.compute).
THEOREM LoopsFollowRules == Spec => []RulesAreTheLoops
<1>1. Init => HistoryInv /\ Dated
  BY DEF Init, HistoryInv, Dated, Histories
<1>2. HistoryInv /\ Dated /\ [Next]_<<history, count>> => HistoryInv' /\ Dated'
  BY HistoryNext, DatedNext
<1>3. HistoryInv /\ Dated => RulesAreTheLoops
  <2> SUFFICES ASSUME HistoryInv, Dated PROVE RulesAreTheLoops
    OBVIOUS
  <2>1. history \in Histories /\ DOMAIN history = 1..Len(history) /\ Len(history) \in Nat
    BY HistoryShape DEF HistoryInv
  <2>2. ASSUME NEW k \in 1..Len(history)
        PROVE  ScanFinalScore(history[k]) = FinalScore(history[k])
               /\ DictScore(history[k]) = FinalScore(history[k])
    <3>1. history[k] \in Rows /\ Ordered(history[k])
      BY <2>1, HistoryShape DEF Dated
    <3> QED BY <3>1, ScanIsFinalScore, DictIsFinalScore
  <2>3. OneScorePerAttempt
    BY <2>1, <2>2 DEF OneScorePerAttempt
  <2>4. HighestIsTheLoop
    <3>1. history # <<>> => Len(history) # 0
      BY <2>1, EmptySeq DEF Histories
    <3> QED BY <2>1, <2>2, <3>1, LoopIsHighest DEF HighestIsTheLoop
  <2> QED BY <2>3, <2>4 DEF RulesAreTheLoops
<1> QED BY <1>1, <1>2, <1>3, PTL DEF Spec

-----------------------------------------------------------------------------
(* Sums.                                                                   *)

\* The points a student has on the questions of S.
SumOf(points, S) == MapThenSumSet(LAMBDA q : PointsOf(points[q]), S)

\* The sum of the points of finitely many questions, as the library adds them up: what is
\* chosen of the set and the sum of the rest.
LEMMA SumIsNat ==
  ASSUME NEW S, IsFiniteSet(S), NEW g, \A q \in S : g[q] \in PointsOrNone
  PROVE  SumOf(g, S) \in Nat
<1> DEFINE pick(s) == CHOOSE x \in s : TRUE
           Sum(it, s) == IF s = {} THEN 0 ELSE PointsOf(g[pick(s)]) + it[s \ {pick(s)}]
           Sums(n, it) == \A s \in SUBSET S : Cardinality(s) <= n => it[s] = Sum(it, s)
           Fails == {n \in Nat : ~\E it : Sums(n, it)}
           it == CHOOSE it : it = [s \in SUBSET S |-> Sum(it, s)]
<1>1. ASSUME NEW s \in SUBSET S
      PROVE  /\ IsFiniteSet(s) /\ Cardinality(s) \in Nat /\ Cardinality(s) <= Cardinality(S)
             /\ Cardinality(s) = 0 <=> s = {}
             /\ s # {} => /\ pick(s) \in s /\ s \ {pick(s)} \in SUBSET S
                          /\ Cardinality(s \ {pick(s)}) = Cardinality(s) - 1
  <2>1. IsFiniteSet(s) /\ Cardinality(s) \in Nat /\ Cardinality(s) <= Cardinality(S)
        /\ (Cardinality(s) = 0 <=> s = {})
    BY FS_Subset, FS_CardinalityType, FS_EmptySet
  <2>2. s # {} => pick(s) \in s
    OBVIOUS
  <2>3. s # {} => Cardinality(s \ {pick(s)}) = Cardinality(s) - 1
    BY <2>1, <2>2, FS_RemoveElement
  <2> HIDE DEF pick
  <2> QED BY <2>1, <2>2, <2>3
<1> HIDE DEF pick
<1>2. \E f : Sums(0, f)
  <2> DEFINE f == [s \in SUBSET S |-> 0]
  <2>1. ASSUME NEW s \in SUBSET S, Cardinality(s) <= 0 PROVE f[s] = Sum(f, s)
    <3>1. Cardinality(s) \in Nat /\ (Cardinality(s) = 0 <=> s = {})
      BY <1>1
    <3>2. s = {}
      BY <2>1, <3>1
    <3> QED BY <3>2
  <2> HIDE DEF f, Sum
  <2> QED BY <2>1
<1>3. ASSUME NEW n \in Nat, NEW f, Sums(n, f)
      PROVE  \E h : Sums(n + 1, h)
  <2> DEFINE h == [s \in SUBSET S |-> Sum(f, s)]
  <2>1. ASSUME NEW s \in SUBSET S, Cardinality(s) <= n + 1
        PROVE  h[s] = Sum(h, s)
    <3>1. CASE s = {}
      BY <3>1
    <3>2. CASE s # {}
      <4>1. s \ {pick(s)} \in SUBSET S /\ Cardinality(s \ {pick(s)}) <= n
        BY <1>1, <2>1, <3>2
      <4>2. h[s \ {pick(s)}] = f[s \ {pick(s)}]
        BY <1>3, <4>1
      <4> QED BY <3>2, <4>2
    <3> QED BY <3>1, <3>2
  <2> HIDE DEF h, Sum
  <2>2. Sums(n + 1, h)
    BY <2>1
  <2> QED BY <2>2
<1>4. Fails = {}
  <2> SUFFICES ASSUME Fails # {} PROVE FALSE
    OBVIOUS
  <2>1. PICK n \in Fails : \A m \in Fails : n <= m
    <3>1. Fails \subseteq Nat
      OBVIOUS
    <3> HIDE DEF Fails
    <3> QED BY <3>1, LeastNumber
  <2> HIDE DEF Sums
  <2>2. n \in Nat /\ n # 0 /\ ~\E f : Sums(n, f)
    BY <1>2, <2>1
  <2>3. n - 1 \in Nat /\ n - 1 \notin Fails /\ n = (n - 1) + 1
    BY <2>1, <2>2
  <2>4. PICK f : Sums(n - 1, f)
    BY <2>3
  <2> QED BY <1>3, <2>2, <2>3, <2>4
<1>5. \E f : f = [s \in SUBSET S |-> Sum(f, s)]
  <2>1. Cardinality(S) \in Nat
    BY FS_CardinalityType
  <2>2. PICK f : Sums(Cardinality(S), f)
    <3> HIDE DEF Sums
    <3> QED BY <1>4, <2>1
  <2> DEFINE h == [s \in SUBSET S |-> f[s]]
  <2>3. ASSUME NEW s \in SUBSET S PROVE h[s] = Sum(h, s)
    BY <1>1, <2>2
  <2> HIDE DEF Sum
  <2>4. h = [s \in SUBSET S |-> Sum(h, s)]
    BY <2>3
  <2> QED BY <2>4
<1>6. it = [s \in SUBSET S |-> Sum(it, s)]
  <2> HIDE DEF Sum
  <2> QED BY <1>5
<1>7. MapThenSumSet(LAMBDA q : PointsOf(g[q]), S) = it[S]
  BY Zenon DEF MapThenSumSet, MapThenFoldSet, pick
<1> HIDE DEF it
<1>8. ASSUME NEW s \in SUBSET S PROVE it[s] = Sum(it, s)
  <2> HIDE DEF Sum
  <2> QED BY <1>6
<1> DEFINE Bad == {n \in Nat : \E s \in SUBSET S : Cardinality(s) = n /\ it[s] \notin Nat}
<1>9. Bad = {}
  <2> SUFFICES ASSUME Bad # {} PROVE FALSE
    OBVIOUS
  <2>1. PICK n \in Bad : \A m \in Bad : n <= m
    <3>1. Bad \subseteq Nat
      OBVIOUS
    <3> HIDE DEF Bad
    <3> QED BY <3>1, LeastNumber
  <2>2. PICK s \in SUBSET S : Cardinality(s) = n /\ it[s] \notin Nat
    BY <2>1
  <2>3. CASE s = {}
    <3>1. it[s] = Sum(it, s)
      BY <1>8
    <3>2. Sum(it, s) = 0
      BY <2>3
    <3> HIDE DEF Sum
    <3> QED BY <2>2, <3>1, <3>2
  <2>4. CASE s # {}
    <3>1. /\ pick(s) \in S /\ s \ {pick(s)} \in SUBSET S
          /\ Cardinality(s \ {pick(s)}) \in Nat /\ Cardinality(s \ {pick(s)}) < n
      BY <1>1, <2>2, <2>4
    <3>2. it[s \ {pick(s)}] \in Nat
      BY <2>1, <3>1
    <3>3. PointsOf(g[pick(s)]) \in Nat
      BY <3>1 DEF PointsOf, PointsOrNone
    <3>4. it[s] = PointsOf(g[pick(s)]) + it[s \ {pick(s)}]
      BY <1>8, <2>4
    <3> HIDE DEF Sum
    <3> QED BY <2>2, <3>2, <3>3, <3>4
  <2> QED BY <2>3, <2>4
<1>10. S \in SUBSET S /\ Cardinality(S) \in Nat
  BY FS_CardinalityType
<1>11. it[S] \in Nat
  BY <1>9, <1>10
<1>12. SumOf(g, S) = MapThenSumSet(LAMBDA q : PointsOf(g[q]), S)
  BY Zenon DEF SumOf
<1> QED BY <1>7, <1>11, <1>12

-----------------------------------------------------------------------------
(* The class: the inductive invariant.                                     *)

TryType == [status : {"received", "graded", "failed"}, rows : Rows, queued : Nat, running : {0, 1},
            since : Nat]

\* An attempt on a question of mode `mode`: what is graded has a score; what waits with
\* nothing queued is for a person, or autograding is off; what a person settled and waits
\* all the same was opened `again`.
TryOK(t, mode, on, again) ==
  /\ t \in TryType /\ \A row \in t.rows : row.manual \in {None} \cup 0..HandMax
  /\ t.status = "graded" => t.rows # {}
  /\ t.status = "received" /\ mode = "auto" /\ t.queued = 0 /\ t.running = 0 => ~on
  /\ t.status = "received" /\ mode # "auto" /\ FinalRows(t.rows) # {} => again

\* The official points are those of the policy, once the latest attempt has a row.
OfficialOf(seq, points, policy) ==
  seq # <<>> /\ seq[Len(seq)].rows # {} => points = OfficialPoints(PickAttempt(RowsOf(seq), policy, 0))

OneRuns == \A x, y \in Attempts : Try(x).running > 0 /\ Try(y).running > 0 => x = y

CanvasIsFresh ==
  acts.exported => \A e \in enrolled : OverviewPoints(e) # None => canvas[e] = OverviewPoints(e)

TriesOK ==
  /\ tries \in [Student -> [Question -> Seq(TryType)]]
  /\ \A e \in Student, q \in Question : Len(tries[e][q]) <= MaxTries
  /\ \A x \in Attempts : TryOK(Try(x), setup.mode[x[2]], setup.autograde, x \in reopened)

ClassInv ==
  /\ setup \in Setup /\ enrolled \subseteq Student /\ active \subseteq Question
  /\ reopened \subseteq Attempts
  /\ official \in [Student -> [Question -> PointsOrNone]] /\ canvas \in [Student -> PointsOrNone]
  /\ TriesOK /\ OneRuns
  /\ \A e \in Student, q \in Question : OfficialOf(tries[e][q], official[e][q], setup.policy)
  /\ CanvasIsFresh

-----------------------------------------------------------------------------
(* The class: attempts.                                                    *)

\* The rows of a student's attempts on a question are a history.
LEMMA RowsAreAHistory ==
  ASSUME NEW seq \in Seq(TryType)
  PROVE  /\ RowsOf(seq) \in Histories /\ Len(RowsOf(seq)) = Len(seq) /\ DOMAIN seq = 1..Len(seq)
         /\ Len(seq) \in Nat
         /\ \A k \in 1..Len(seq) : seq[k] \in TryType /\ RowsOf(seq)[k] = seq[k].rows
<1>1. /\ Len(seq) \in Nat /\ DOMAIN seq = 1..Len(seq)
      /\ \A k \in 1..Len(seq) : seq[k] \in TryType
  BY LenProperties, ElementOfSeq
<1>2. RowsOf(seq) \in [1..Len(seq) -> Rows]
  BY <1>1 DEF RowsOf, TryType
<1>3. RowsOf(seq) \in Seq(Rows) /\ Len(RowsOf(seq)) = Len(seq)
  BY <1>1, <1>2
<1> QED BY <1>1, <1>3 DEF RowsOf, Histories

\* An attempt is one, in its place.
LEMMA AttemptIs ==
  ASSUME TriesOK, NEW x \in Attempts
  PROVE  /\ x = <<x[1], x[2], x[3]>> /\ x[1] \in Student /\ x[2] \in Question
         /\ x[3] \in 1..Len(tries[x[1]][x[2]]) /\ tries[x[1]][x[2]] \in Seq(TryType)
         /\ Try(x) \in TryType /\ Try(x) = tries[x[1]][x[2]][x[3]]
<1>1. /\ x = <<x[1], x[2], x[3]>> /\ x[1] \in Student /\ x[2] \in Question
      /\ x[3] \in DOMAIN tries[x[1]][x[2]] /\ tries[x[1]][x[2]] \in Seq(TryType)
  BY DEF TriesOK, Attempts
<1> QED BY <1>1, RowsAreAHistory DEF Try

\* Where there is an attempt.
LEMMA AttemptAt ==
  ASSUME TriesOK, NEW e \in Student, NEW q \in Question, NEW k \in 1..Len(tries[e][q])
  PROVE  <<e, q, k>> \in Attempts /\ Try(<<e, q, k>>) = tries[e][q][k]
<1>1. tries[e][q] \in Seq(TryType) /\ Len(tries[e][q]) <= MaxTries /\ MaxTries \in Nat
  BY ClassAssumption DEF TriesOK
<1>2. k \in DOMAIN tries[e][q] /\ k \in 1..MaxTries
  BY <1>1, RowsAreAHistory
<1> QED BY <1>2 DEF Attempts, Try

\* One attempt is replaced.
LEMMA TryGoes ==
  ASSUME TriesOK, NEW x \in Attempts, NEW t \in TryType, tries' = WithTry(x, t)
  PROVE  /\ tries' \in [Student -> [Question -> Seq(TryType)]]
         /\ \A e \in Student, q \in Question :
              /\ Len(tries'[e][q]) = Len(tries[e][q])
              /\ \A k \in 1..Len(tries[e][q]) :
                   tries'[e][q][k] = IF <<e, q, k>> = x THEN t ELSE tries[e][q][k]
              /\ <<e, q>> # <<x[1], x[2]>> => tries'[e][q] = tries[e][q]
         /\ Attempts' = Attempts /\ Try(x)' = t /\ \A y \in Attempts : y # x => Try(y)' = Try(y)
<1> DEFINE s == tries[x[1]][x[2]]
           n == [s EXCEPT ![x[3]] = t]
<1>1. /\ x = <<x[1], x[2], x[3]>> /\ x[1] \in Student /\ x[2] \in Question
      /\ x[3] \in 1..Len(s) /\ s \in Seq(TryType) /\ tries \in [Student -> [Question -> Seq(TryType)]]
  BY AttemptIs DEF TriesOK
<1>2. /\ n \in Seq(TryType) /\ Len(n) = Len(s) /\ DOMAIN n = DOMAIN s
      /\ \A k \in 1..Len(s) : n[k] = IF k = x[3] THEN t ELSE s[k]
  BY <1>1, ExceptSeq
<1>3. tries' = [tries EXCEPT ![x[1]] = [tries[x[1]] EXCEPT ![x[2]] = n]]
  BY DEF WithTry
<1> HIDE DEF n
<1>4. /\ tries' \in [Student -> [Question -> Seq(TryType)]] /\ tries'[x[1]][x[2]] = n
      /\ \A e \in Student, q \in Question : <<e, q>> # <<x[1], x[2]>> => tries'[e][q] = tries[e][q]
  BY <1>1, <1>2, <1>3
<1>5. ASSUME NEW e \in Student, NEW q \in Question
      PROVE  /\ Len(tries'[e][q]) = Len(tries[e][q]) /\ DOMAIN tries'[e][q] = DOMAIN tries[e][q]
             /\ \A k \in 1..Len(tries[e][q]) :
                  tries'[e][q][k] = IF <<e, q, k>> = x THEN t ELSE tries[e][q][k]
  <2>1. CASE <<e, q>> = <<x[1], x[2]>>
    BY <1>1, <1>2, <1>4, <2>1
  <2>2. CASE <<e, q>> # <<x[1], x[2]>>
    BY <1>1, <1>4, <2>2
  <2> QED BY <2>1, <2>2
<1>6. Attempts' = Attempts
  BY <1>5 DEF Attempts
<1>7. ASSUME NEW y \in Attempts PROVE Try(y)' = IF y = x THEN t ELSE Try(y)
  <2>1. /\ y = <<y[1], y[2], y[3]>> /\ y[1] \in Student /\ y[2] \in Question
        /\ y[3] \in 1..Len(tries[y[1]][y[2]])
    BY AttemptIs
  <2> QED BY <1>5, <2>1 DEF Try
<1> QED BY <1>4, <1>5, <1>6, <1>7

-----------------------------------------------------------------------------
(* The class: grades.                                                      *)

\* A step of one attempt leaves the others, and one run at a time.
LEMMA OneTryStep ==
  ASSUME ClassInv, NEW x \in Attempts, NEW t, tries' = WithTry(x, t), UNCHANGED <<setup, reopened>>,
         TryOK(t, setup.mode[x[2]], setup.autograde, x \in reopened),
         t.running = 0 \/ Try(x).running > 0 \/ \A y \in Attempts : Try(y).running = 0
  PROVE  TriesOK' /\ OneRuns' /\ (reopened \subseteq Attempts)'
<1>1. TriesOK /\ t \in TryType /\ OneRuns /\ reopened \subseteq Attempts
  BY DEF ClassInv, TryOK
<1>2. /\ tries' \in [Student -> [Question -> Seq(TryType)]]
      /\ \A e \in Student, q \in Question : Len(tries'[e][q]) = Len(tries[e][q])
      /\ Attempts' = Attempts /\ Try(x)' = t /\ \A y \in Attempts : y # x => Try(y)' = Try(y)
  BY <1>1, TryGoes
<1>3. \A y \in Attempts' : TryOK(Try(y)', setup'.mode[y[2]], setup'.autograde, y \in reopened')
  <2> SUFFICES ASSUME NEW y \in Attempts
               PROVE  TryOK(Try(y)', setup.mode[y[2]], setup.autograde, y \in reopened)
    BY <1>2
  <2> QED BY <1>1, <1>2 DEF TriesOK
<1>4. TriesOK'
  BY <1>1, <1>2, <1>3 DEF TriesOK
<1>5. OneRuns'
  <2> SUFFICES ASSUME NEW y \in Attempts, NEW z \in Attempts, Try(y)' .running > 0, Try(z)' .running > 0
               PROVE  y = z
    BY <1>2 DEF OneRuns
  <2>1. t.running > 0 => Try(x).running > 0 \/ \A w \in Attempts : Try(w).running = 0
    BY <1>1 DEF TryType
  <2>2. \A w \in Attempts : w # x /\ Try(w)' .running > 0 => Try(w).running > 0
    BY <1>2
  <2> QED BY <1>1, <1>2, <2>1, <2>2 DEF OneRuns
<1> QED BY <1>1, <1>2, <1>4, <1>5

\* A step that gives no row leaves the official points what the policy says.
LEMMA OfficialRests ==
  ASSUME ClassInv, NEW x \in Attempts, NEW t \in TryType, tries' = WithTry(x, t), t.rows = Try(x).rows,
         UNCHANGED <<setup, official>>, NEW e \in Student, NEW q \in Question
  PROVE  OfficialOf(tries'[e][q], official'[e][q], setup'.policy)
<1> DEFINE s == tries[e][q]
           n == tries'[e][q]
<1>1. TriesOK /\ OfficialOf(s, official[e][q], setup.policy)
  BY DEF ClassInv
<1>2. /\ n \in Seq(TryType) /\ s \in Seq(TryType) /\ Len(n) = Len(s)
      /\ \A k \in 1..Len(s) : n[k] = IF <<e, q, k>> = x THEN t ELSE s[k]
  BY <1>1, TryGoes DEF TriesOK
<1>3. /\ DOMAIN s = 1..Len(s) /\ DOMAIN n = 1..Len(s) /\ Len(s) \in Nat
      /\ s # <<>> <=> Len(s) # 0
      /\ n # <<>> <=> Len(n) # 0
  <2>1. DOMAIN s = 1..Len(s) /\ DOMAIN n = 1..Len(n) /\ Len(s) \in Nat
    BY <1>2, RowsAreAHistory
  <2>2. s # <<>> <=> Len(s) # 0
    BY <1>2, EmptySeq
  <2>3. n # <<>> <=> Len(n) # 0
    BY <1>2, EmptySeq
  <2> QED BY <1>2, <2>1, <2>2, <2>3
<1>4. \A k \in 1..Len(s) : n[k].rows = s[k].rows
  BY <1>1, <1>2, AttemptIs
<1>5. RowsOf(n) = RowsOf(s)
  BY <1>3, <1>4 DEF RowsOf
<1> HIDE DEF s, n
<1>6. n # <<>> <=> s # <<>>
  BY <1>2, <1>3
<1>7. s # <<>> => n[Len(n)].rows = s[Len(s)].rows
  BY <1>2, <1>3, <1>4
<1> QED BY <1>1, <1>5, <1>6, <1>7 DEF OfficialOf, s, n

\* A step that gives a row recomputes them.
LEMMA OfficialFollows ==
  ASSUME ClassInv, NEW x \in Attempts, NEW t \in TryType, tries' = WithTry(x, t),
         official' = Recomputed(x, tries'), setup' = setup
  PROVE  /\ official' \in [Student -> [Question -> PointsOrNone]]
         /\ \A e \in Student, q \in Question : OfficialOf(tries'[e][q], official'[e][q], setup'.policy)
<1> DEFINE p == OfficialPoints(PickAttempt(RowsOf(tries'[x[1]][x[2]]), setup.policy, 0))
<1>1. /\ TriesOK /\ official \in [Student -> [Question -> PointsOrNone]]
      /\ \A e \in Student, q \in Question : OfficialOf(tries[e][q], official[e][q], setup.policy)
  BY DEF ClassInv
<1>2. x[1] \in Student /\ x[2] \in Question /\ tries'[x[1]][x[2]] \in Seq(TryType)
  BY <1>1, AttemptIs, TryGoes
<1>3. \A e \in Student, q \in Question : <<e, q>> # <<x[1], x[2]>> => tries'[e][q] = tries[e][q]
  BY <1>1, TryGoes
<1>4. p \in PointsOrNone
  <2>1. RowsOf(tries'[x[1]][x[2]]) \in Histories /\ None \notin Score
    BY <1>2, RowsAreAHistory, NoneIsNoScore
  <2> QED BY <2>1, PickIsARow DEF PointsOrNone
<1>5. official' = [official EXCEPT ![x[1]][x[2]] = p]
  BY DEF Recomputed
<1>6. p = OfficialPoints(PickAttempt(RowsOf(tries'[x[1]][x[2]]), setup.policy, 0))
  OBVIOUS
<1> HIDE DEF p
<1>7. official' \in [Student -> [Question -> PointsOrNone]]
  BY <1>1, <1>2, <1>4, <1>5
<1>8. ASSUME NEW e \in Student, NEW q \in Question
      PROVE  OfficialOf(tries'[e][q], official'[e][q], setup'.policy)
  <2>1. CASE <<e, q>> = <<x[1], x[2]>>
    <3>1. official'[e][q] = p
      BY <1>1, <1>2, <1>5, <2>1
    <3> QED BY <1>6, <2>1, <3>1 DEF OfficialOf
  <2>2. CASE <<e, q>> # <<x[1], x[2]>>
    <3>1. official'[e][q] = official[e][q] /\ tries'[e][q] = tries[e][q]
      BY <1>1, <1>2, <1>3, <1>5, <2>2
    <3> QED BY <1>1, <3>1
  <2> QED BY <2>1, <2>2
<1> QED BY <1>7, <1>8

-----------------------------------------------------------------------------
(* The class: what happens.                                                *)

\* An attempt changes its state, and gets no row.
LEMMA OneTryRests ==
  ASSUME ClassInv, NEW x \in Attempts, NEW t, tries' = WithTry(x, t), t.rows = Try(x).rows,
         TryOK(t, setup.mode[x[2]], setup.autograde, x \in reopened),
         t.running = 0 \/ Try(x).running > 0 \/ \A y \in Attempts : Try(y).running = 0,
         UNCHANGED <<setup, official, enrolled, active, canvas, reopened>>, ~acts'.exported
  PROVE  ClassInv'
<1>1. TriesOK' /\ OneRuns' /\ (reopened \subseteq Attempts)'
  BY OneTryStep
<1>2. \A e \in Student, q \in Question : OfficialOf(tries'[e][q], official'[e][q], setup'.policy)
  <2>1. t \in TryType
    BY DEF TryOK
  <2> QED BY <2>1, OfficialRests
<1> QED BY <1>1, <1>2 DEF ClassInv, CanvasIsFresh

\* An attempt gets a row, and the question's points are computed again.
LEMMA OneTryScored ==
  ASSUME ClassInv, NEW x \in Attempts, NEW t, tries' = WithTry(x, t), official' = Recomputed(x, tries'),
         TryOK(t, setup.mode[x[2]], setup.autograde, x \in reopened),
         t.running = 0 \/ Try(x).running > 0 \/ \A y \in Attempts : Try(y).running = 0,
         UNCHANGED <<setup, enrolled, active, canvas, reopened>>, ~acts'.exported
  PROVE  ClassInv'
<1>1. TriesOK' /\ OneRuns' /\ (reopened \subseteq Attempts)'
  BY OneTryStep
<1>2. /\ official' \in [Student -> [Question -> PointsOrNone]]
      /\ \A e \in Student, q \in Question : OfficialOf(tries'[e][q], official'[e][q], setup'.policy)
  <2>1. t \in TryType
    BY DEF TryOK
  <2> QED BY <2>1, OfficialFollows
<1> QED BY <1>1, <1>2 DEF ClassInv, CanvasIsFresh

\* The rows of an attempt with one more.
LEMMA RowsGrow ==
  ASSUME NEW rows \in Rows, NEW row \in Score
  PROVE  /\ rows \cup {row} \in Rows /\ rows \cup {row} # {}
         /\ FinalRows(rows \cup {row}) # {} <=> FinalRows(rows) # {} \/ row.final
<1>1. IsFiniteSet(rows \cup {row})
  BY FS_AddElement DEF Rows
<1>2. rows \cup {row} \in Rows
  BY <1>1 DEF Rows
<1> QED BY <1>2 DEF FinalRows

\* An attempt that is there, as the invariant has it.
LEMMA TryIs ==
  ASSUME ClassInv, NEW x \in Attempts
  PROVE  /\ TryOK(Try(x), setup.mode[x[2]], setup.autograde, x \in reopened)
         /\ Try(x) \in TryType /\ Try(x).rows \in Rows /\ Cardinality(Try(x).rows) \in Nat
<1>1. TryOK(Try(x), setup.mode[x[2]], setup.autograde, x \in reopened)
  BY DEF ClassInv, TriesOK
<1>2. Try(x) \in TryType /\ Try(x).rows \in Rows
  BY <1>1 DEF TryOK, TryType
<1> QED BY <1>1, <1>2, FS_CardinalityType DEF Rows

\* The worker takes a run, or the run fails.
LEMMA ClassClaimStep ==
  ASSUME ClassInv, NEW x \in Attempts, ClassClaim(x) \/ ClassGradeFails(x)
  PROVE  ClassInv'
<1>1. CASE ClassClaim(x)
  <2> DEFINE t == [Try(x) EXCEPT !.queued = @ - 1, !.running = 1]
  <2>1. /\ tries' = WithTry(x, t) /\ Try(x).queued > 0 /\ \A y \in Attempts : Try(y).running = 0
        /\ UNCHANGED <<setup, official, enrolled, active, canvas, reopened>> /\ ~acts'.exported
    BY <1>1 DEF ClassClaim, Happened
  <2>2. /\ t \in TryType /\ t.rows = Try(x).rows /\ t.status = Try(x).status /\ t.running = 1
    <3>1. Try(x) \in TryType /\ Try(x).queued - 1 \in Nat
      BY <2>1, TryIs DEF TryType
    <3> QED BY <3>1 DEF TryType
  <2> HIDE DEF t
  <2>3. TryOK(t, setup.mode[x[2]], setup.autograde, x \in reopened)
    BY <2>2, TryIs DEF TryOK
  <2> QED BY <2>1, <2>2, <2>3, OneTryRests
<1>2. CASE ClassGradeFails(x)
  <2> DEFINE t == [Try(x) EXCEPT !.running = 0, !.status = "failed"]
  <2>1. /\ tries' = WithTry(x, t)
        /\ UNCHANGED <<setup, official, enrolled, active, canvas, reopened>> /\ ~acts'.exported
    BY <1>2 DEF ClassGradeFails, Happened
  <2>2. /\ t \in TryType /\ t.rows = Try(x).rows /\ t.status = "failed" /\ t.running = 0
    BY TryIs DEF TryType
  <2> HIDE DEF t
  <2>3. TryOK(t, setup.mode[x[2]], setup.autograde, x \in reopened)
    BY <2>2, TryIs DEF TryOK
  <2> QED BY <2>1, <2>2, <2>3, OneTryRests
<1> QED BY <1>1, <1>2

\* do_autograde writes its row, with the points the last final one had by hand.
LEMMA ClassGradedStep ==
  ASSUME ClassInv, NEW x \in Attempts, NEW auto \in 0..AutoMax, ClassGraded(x, auto)
  PROVE  ClassInv'
<1> DEFINE mode == setup.mode[x[2]]
           row == [auto |-> auto, manual |-> CarriedOver(Try(x).rows),
                   final |-> mode = "auto" \/ FinalRows(Try(x).rows) # {},
                   at |-> Cardinality(Try(x).rows) + 1, by |-> "worker"]
           t == [Try(x) EXCEPT !.running = 0, !.rows = @ \cup {row},
                               !.status = IF mode = "auto" THEN "graded" ELSE @]
<1>1. /\ tries' = WithTry(x, t) /\ Try(x).running = 1 /\ official' = Recomputed(x, tries')
      /\ UNCHANGED <<setup, enrolled, active, canvas, reopened>> /\ ~acts'.exported
  BY DEF ClassGraded, Happened
<1>2. /\ TryOK(Try(x), mode, setup.autograde, x \in reopened)
      /\ Try(x) \in TryType /\ Try(x).rows \in Rows /\ Cardinality(Try(x).rows) \in Nat
  BY TryIs
<1>3. CarriedOver(Try(x).rows) \in {None} \cup 0..HandMax
  <2>1. FinalRows(Try(x).rows) # {} => LatestFinal(Try(x).rows) \in Try(x).rows
    BY <1>2, ChosenRows DEF FinalRows
  <2>2. FinalRows(Try(x).rows) = {} => LatestFinal(Try(x).rows) = None
    BY <1>2, ChosenRows
  <2>3. \A r \in Try(x).rows : r.manual \in {None} \cup 0..HandMax
    BY <1>2 DEF TryOK
  <2> QED BY <2>1, <2>2, <2>3 DEF CarriedOver
<1>4. row \in Score
  <2>1. auto \in Nat /\ CarriedOver(Try(x).rows) \in PointsOrNone
    BY <1>3, ClassAssumption DEF PointsOrNone
  <2> QED BY <1>2, <2>1 DEF Score, PointsOrNone
<1>5. /\ row.manual \in {None} \cup 0..HandMax
      /\ row.final <=> mode = "auto" \/ FinalRows(Try(x).rows) # {}
  BY <1>3
<1> HIDE DEF row
<1>6. /\ Try(x).rows \cup {row} \in Rows /\ Try(x).rows \cup {row} # {}
      /\ FinalRows(Try(x).rows \cup {row}) # {} <=> FinalRows(Try(x).rows) # {} \/ row.final
  BY <1>2, <1>4, RowsGrow
<1>7. /\ t \in TryType /\ t.rows = Try(x).rows \cup {row} /\ t.running = 0
      /\ t.status = IF mode = "auto" THEN "graded" ELSE Try(x).status
  BY <1>2, <1>6 DEF TryType
<1> HIDE DEF t
<1>8. \A r \in t.rows : r.manual \in {None} \cup 0..HandMax
  BY <1>2, <1>5, <1>7 DEF TryOK
<1>9. TryOK(t, mode, setup.autograde, x \in reopened)
  BY <1>2, <1>5, <1>6, <1>7, <1>8 DEF TryOK
<1> QED BY <1>1, <1>7, <1>9, OneTryScored

\* A person gives points.
LEMMA ClassScoreStep ==
  ASSUME ClassInv, NEW x \in Attempts, NEW manual \in 0..HandMax, NEW final \in BOOLEAN,
         ClassScore(x, manual, final)
  PROVE  ClassInv'
<1> DEFINE prev == FinalScore(Try(x).rows)
           row == [auto |-> IF prev = None THEN None ELSE prev.auto, manual |-> manual, final |-> final,
                   at |-> Cardinality(Try(x).rows) + 1, by |-> "staff"]
           t == [Try(x) EXCEPT !.rows = @ \cup {row},
                               !.status = IF final /\ @ # "failed" THEN "graded" ELSE @]
<1>1. /\ tries' = WithTry(x, t) /\ official' = Recomputed(x, tries')
      /\ UNCHANGED <<setup, enrolled, active, canvas, reopened>> /\ ~acts'.exported
  BY DEF ClassScore, Bounded, Happened
<1>2. /\ TryOK(Try(x), setup.mode[x[2]], setup.autograde, x \in reopened)
      /\ Try(x) \in TryType /\ Try(x).rows \in Rows /\ Cardinality(Try(x).rows) \in Nat
  BY TryIs
<1>3. row \in Score
  <2>1. prev = None \/ prev.auto \in PointsOrNone
    BY <1>2, ChosenRows DEF Rows, Score
  <2>2. manual \in PointsOrNone
    BY ClassAssumption DEF PointsOrNone
  <2> HIDE DEF prev
  <2> QED BY <1>2, <2>1, <2>2 DEF Score, PointsOrNone
<1>4. row.manual = manual /\ row.final = final
  OBVIOUS
<1> HIDE DEF row
<1>5. /\ Try(x).rows \cup {row} \in Rows /\ Try(x).rows \cup {row} # {}
      /\ FinalRows(Try(x).rows \cup {row}) # {} <=> FinalRows(Try(x).rows) # {} \/ row.final
  BY <1>2, <1>3, RowsGrow
<1>6. /\ t \in TryType /\ t.rows = Try(x).rows \cup {row} /\ t.running = Try(x).running
      /\ t.queued = Try(x).queued
      /\ t.status = IF final /\ Try(x).status # "failed" THEN "graded" ELSE Try(x).status
  BY <1>2, <1>5 DEF TryType
<1> HIDE DEF t
<1>7. \A r \in t.rows : r.manual \in {None} \cup 0..HandMax
  BY <1>2, <1>4, <1>6 DEF TryOK
<1>8. TryOK(t, setup.mode[x[2]], setup.autograde, x \in reopened)
  BY <1>2, <1>4, <1>5, <1>6, <1>7 DEF TryOK
<1>9. t.running = 0 \/ Try(x).running > 0
  BY <1>2, <1>6 DEF TryType
<1> QED BY <1>1, <1>6, <1>8, <1>9, OneTryScored

\* There are finitely many attempts.
LEMMA AttemptsAreFinite == IsFiniteSet(Attempts)
<1> DEFINE P == (Student \X Question) \X (1..MaxTries)
           T == Student \X Question \X (1..MaxTries)
           f == [p \in P |-> <<p[1][1], p[1][2], p[2]>>]
<1>1. IsFiniteSet(P)
  <2>1. IsFiniteSet(1..MaxTries)
    BY FS_Interval, ClassAssumption
  <2>2. IsFiniteSet(Student \X Question)
    BY FS_Product, ClassAssumption
  <2> QED BY <2>1, <2>2, FS_Product
<1>2. f \in [P -> T]
  OBVIOUS
<1>3. ASSUME NEW t \in T PROVE \E p \in P : f[p] = t
  <2>1. <<<<t[1], t[2]>>, t[3]>> \in P /\ f[<<<<t[1], t[2]>>, t[3]>>] = t
    OBVIOUS
  <2> QED BY <2>1
<1>4. f \in Surjection(P, T)
  BY <1>2, <1>3 DEF Surjection
<1>5. IsFiniteSet(T)
  BY <1>1, <1>4, FS_Surjection
<1> QED BY <1>5, FS_Subset DEF Attempts

\* A student hands in once more.
LEMMA ClassSubmitStep ==
  ASSUME ClassInv, NEW e \in Student, NEW q \in Question, ClassSubmit(e, q)
  PROVE  ClassInv'
<1> DEFINE s == tries[e][q]
           n == Append(s, Arrived)
<1>1. /\ tries' = [tries EXCEPT ![e] = [tries[e] EXCEPT ![q] = n]] /\ Len(s) < MaxTries
      /\ UNCHANGED <<setup, official, enrolled, active, canvas, reopened>> /\ ~acts'.exported
  BY DEF ClassSubmit, Bounded, Happened
<1>2. /\ TriesOK /\ OneRuns /\ s \in Seq(TryType) /\ tries \in [Student -> [Question -> Seq(TryType)]]
      /\ Len(s) \in Nat /\ DOMAIN s = 1..Len(s) /\ MaxTries \in Nat
  BY RowsAreAHistory, ClassAssumption DEF ClassInv, TriesOK
<1>3. /\ Arrived \in TryType /\ Arrived.running = 0
      /\ \A mode, again : TryOK(Arrived, mode, setup.autograde, again)
  <2>1. {} \in Rows /\ Cardinality(Attempts) \in Nat
    BY FS_EmptySet, FS_CardinalityType, AttemptsAreFinite DEF Rows
  <2> QED BY <2>1 DEF Arrived, TryType, TryOK, FinalRows
<1>4. /\ n \in Seq(TryType) /\ Len(n) = Len(s) + 1 /\ DOMAIN n = 1..Len(n) /\ n[Len(n)] = Arrived
      /\ \A k \in 1..Len(s) : n[k] = s[k]
  BY <1>2, <1>3, AppendProperties, LenProperties
<1> HIDE DEF n
<1>5. /\ tries' \in [Student -> [Question -> Seq(TryType)]] /\ tries'[e][q] = n
      /\ \A d \in Student, r \in Question : <<d, r>> # <<e, q>> => tries'[d][r] = tries[d][r]
  BY <1>1, <1>2, <1>4
<1>6. ASSUME NEW x \in Attempts' 
      PROVE  \/ x \in Attempts /\ Try(x)' = Try(x)
             \/ x \notin Attempts /\ Try(x)' = Arrived
  <2>1. /\ x[1] \in Student /\ x[2] \in Question /\ x[3] \in DOMAIN tries'[x[1]][x[2]]
        /\ x \in Student \X Question \X (1..MaxTries) /\ x[3] \in 1..MaxTries
    BY DEF Attempts
  <2>2. CASE <<x[1], x[2]>> = <<e, q>>
    <3>1. /\ tries'[x[1]][x[2]] = n /\ tries[x[1]][x[2]] = s /\ x[3] \in 1..Len(n)
      BY <1>4, <1>5, <2>1, <2>2
    <3>2. CASE x[3] \in 1..Len(s)
      BY <1>2, <1>4, <2>1, <3>1, <3>2 DEF Attempts, Try
    <3>3. CASE x[3] \notin 1..Len(s)
      <4>1. x[3] = Len(n) /\ x[3] \notin DOMAIN s
        BY <1>2, <1>4, <3>1, <3>3
      <4> QED BY <1>4, <3>1, <4>1 DEF Attempts, Try
    <3> QED BY <3>2, <3>3
  <2>3. CASE <<x[1], x[2]>> # <<e, q>>
    BY <1>5, <2>1, <2>3 DEF Attempts, Try
  <2> QED BY <2>2, <2>3
<1>7. TriesOK'
  <2>1. \A d \in Student, r \in Question : Len(tries'[d][r]) <= MaxTries
    <3> SUFFICES ASSUME NEW d \in Student, NEW r \in Question PROVE Len(tries'[d][r]) <= MaxTries
      OBVIOUS
    <3>1. CASE <<d, r>> = <<e, q>>
      BY <1>1, <1>2, <1>4, <1>5, <3>1
    <3>2. CASE <<d, r>> # <<e, q>>
      BY <1>2, <1>5, <3>2 DEF TriesOK
    <3> QED BY <3>1, <3>2
  <2>2. \A x \in Attempts' : TryOK(Try(x)', setup'.mode[x[2]], setup'.autograde, x \in reopened')
    <3> SUFFICES ASSUME NEW x \in Attempts'
                 PROVE  TryOK(Try(x)', setup.mode[x[2]], setup.autograde, x \in reopened)
      BY <1>1
    <3> QED BY <1>2, <1>3, <1>6 DEF TriesOK
  <2> QED BY <1>5, <2>1, <2>2 DEF TriesOK
<1>8. OneRuns'
  <2> SUFFICES ASSUME NEW y \in Attempts', NEW z \in Attempts', Try(y)' .running > 0, Try(z)' .running > 0
               PROVE  y = z
    BY DEF OneRuns
  <2> QED BY <1>2, <1>3, <1>6 DEF OneRuns
<1>9. reopened' \subseteq Attempts'
  <2> SUFFICES ASSUME NEW x \in Attempts PROVE x \in Attempts'
    BY <1>1 DEF ClassInv
  <2>1. x[1] \in Student /\ x[2] \in Question /\ x \in Student \X Question \X (1..MaxTries)
        /\ x[3] \in DOMAIN tries[x[1]][x[2]]
    BY DEF Attempts
  <2>2. x[3] \in DOMAIN tries'[x[1]][x[2]]
    <3>1. CASE <<x[1], x[2]>> = <<e, q>>
      BY <1>2, <1>4, <1>5, <2>1, <3>1
    <3>2. CASE <<x[1], x[2]>> # <<e, q>>
      BY <1>5, <2>1, <3>2
    <3> QED BY <3>1, <3>2
  <2> QED BY <2>1, <2>2 DEF Attempts
<1>10. ASSUME NEW d \in Student, NEW r \in Question
       PROVE  OfficialOf(tries'[d][r], official'[d][r], setup'.policy)
  <2>1. CASE <<d, r>> = <<e, q>>
    <3>1. n[Len(n)].rows = {}
      BY <1>4 DEF Arrived
    <3> QED BY <1>5, <2>1, <3>1 DEF OfficialOf
  <2>2. CASE <<d, r>> # <<e, q>>
    BY <1>1, <1>5, <2>2 DEF ClassInv
  <2> QED BY <2>1, <2>2
<1> QED BY <1>1, <1>7, <1>8, <1>9, <1>10 DEF ClassInv, CanvasIsFresh

\* Attempts go back to the queue.
LEMMA RequeueStep ==
  ASSUME ClassInv, NEW xs \in SUBSET Attempts, Requeue(xs)
  PROVE  ClassInv'
<1> DEFINE again(e, q, k) ==
             IF <<e, q, k>> \in xs
             THEN [tries[e][q][k] EXCEPT !.status = "received", !.queued = @ + 1]
             ELSE tries[e][q][k]
           n(e, q) == [k \in DOMAIN tries[e][q] |-> again(e, q, k)]
<1>1. /\ tries' = [e \in Student |-> [q \in Question |-> n(e, q)]]
      /\ reopened' = reopened \cup {x \in xs : setup.mode[x[2]] # "auto" /\ FinalRows(Try(x).rows) # {}}
      /\ UNCHANGED <<setup, official, enrolled, active, canvas>> /\ ~acts'.exported
  BY DEF Requeue, Bounded, Happened
<1>2. TriesOK /\ OneRuns /\ reopened \subseteq Attempts
  BY DEF ClassInv
<1>3. ASSUME NEW e \in Student, NEW q \in Question
      PROVE  /\ n(e, q) \in Seq(TryType) /\ Len(n(e, q)) = Len(tries[e][q])
             /\ DOMAIN n(e, q) = 1..Len(tries[e][q]) /\ DOMAIN tries[e][q] = 1..Len(tries[e][q])
             /\ \A k \in 1..Len(tries[e][q]) : n(e, q)[k] = again(e, q, k) /\ again(e, q, k).rows = tries[e][q][k].rows
  <2>1. tries[e][q] \in Seq(TryType)
    BY <1>2 DEF TriesOK
  <2>2. /\ DOMAIN tries[e][q] = 1..Len(tries[e][q]) /\ Len(tries[e][q]) \in Nat
        /\ \A k \in 1..Len(tries[e][q]) : tries[e][q][k] \in TryType
    BY <2>1, RowsAreAHistory
  <2>3. ASSUME NEW k \in 1..Len(tries[e][q])
        PROVE  again(e, q, k) \in TryType /\ again(e, q, k).rows = tries[e][q][k].rows
    <3>1. tries[e][q][k] \in TryType /\ tries[e][q][k].queued + 1 \in Nat
      BY <2>2 DEF TryType
    <3>2. CASE <<e, q, k>> \in xs
      BY <3>1, <3>2 DEF TryType
    <3>3. CASE <<e, q, k>> \notin xs
      BY <3>1, <3>3
    <3> QED BY <3>2, <3>3
  <2> HIDE DEF again
  <2> QED BY <2>2, <2>3
<1>4. ASSUME NEW x \in Attempts
      PROVE  again(x[1], x[2], x[3]) =
               IF x \in xs THEN [Try(x) EXCEPT !.status = "received", !.queued = @ + 1] ELSE Try(x)
  BY <1>2, AttemptIs
<1> HIDE DEF again
<1>5. /\ tries' \in [Student -> [Question -> Seq(TryType)]]
      /\ \A e \in Student, q \in Question :
           /\ Len(tries'[e][q]) = Len(tries[e][q]) /\ DOMAIN tries'[e][q] = DOMAIN tries[e][q]
           /\ \A k \in 1..Len(tries[e][q]) : tries'[e][q][k] = again(e, q, k)
  BY <1>1, <1>3
<1> HIDE DEF n
<1>6. Attempts' = Attempts
  BY <1>5 DEF Attempts
<1>7. ASSUME NEW x \in Attempts
      PROVE  Try(x)' = IF x \in xs THEN [Try(x) EXCEPT !.status = "received", !.queued = @ + 1] ELSE Try(x)
  <2>1. x[1] \in Student /\ x[2] \in Question /\ x[3] \in 1..Len(tries[x[1]][x[2]])
    BY <1>2, AttemptIs
  <2>2. Try(x)' = tries'[x[1]][x[2]][x[3]]
    BY DEF Try
  <2>3. Try(x)' = again(x[1], x[2], x[3])
    BY <1>5, <2>1, <2>2
  <2> QED BY <1>4, <2>3, Zenon
<1>8. ASSUME NEW x \in Attempts
      PROVE  TryOK(Try(x)', setup.mode[x[2]], setup.autograde, x \in reopened')
  <2>1. TryOK(Try(x), setup.mode[x[2]], setup.autograde, x \in reopened) /\ Try(x) \in TryType
    BY TryIs
  <2>2. CASE x \in xs
    <3> DEFINE t == [Try(x) EXCEPT !.status = "received", !.queued = @ + 1]
    <3>1. t \in TryType /\ t.rows = Try(x).rows /\ t.status = "received" /\ t.queued > 0
      <4>1. Try(x).queued + 1 \in Nat /\ Try(x).queued + 1 > 0
        BY <2>1 DEF TryType
      <4> QED BY <2>1, <4>1 DEF TryType
    <3>2. setup.mode[x[2]] # "auto" /\ FinalRows(Try(x).rows) # {} => x \in reopened'
      BY <1>1, <2>2
    <3>3. Try(x)' = t
      BY <1>7, <2>2
    <3> HIDE DEF t
    <3> QED BY <2>1, <3>1, <3>2, <3>3 DEF TryOK
  <2>3. CASE x \notin xs
    BY <1>1, <1>7, <2>1, <2>3 DEF TryOK
  <2> QED BY <2>2, <2>3
<1>9. TriesOK'
  <2>1. \A e \in Student, q \in Question : Len(tries'[e][q]) <= MaxTries
    BY <1>2, <1>5 DEF TriesOK
  <2>2. \A x \in Attempts' : TryOK(Try(x)', setup'.mode[x[2]], setup'.autograde, x \in reopened')
    BY <1>1, <1>6, <1>8
  <2> QED BY <1>5, <2>1, <2>2 DEF TriesOK
<1>10. OneRuns'
  <2>1. \A x \in Attempts : Try(x)' .running = Try(x).running
    BY <1>7, TryIs DEF TryType
  <2> QED BY <1>2, <1>6, <2>1 DEF OneRuns
<1>11. ASSUME NEW e \in Student, NEW q \in Question
       PROVE  OfficialOf(tries'[e][q], official'[e][q], setup'.policy)
  <2>1. tries[e][q] \in Seq(TryType) /\ tries'[e][q] \in Seq(TryType)
        /\ OfficialOf(tries[e][q], official[e][q], setup.policy)
    BY <1>2, <1>5 DEF TriesOK, ClassInv
  <2>2. /\ DOMAIN tries[e][q] = 1..Len(tries[e][q]) /\ Len(tries[e][q]) \in Nat
        /\ Len(tries'[e][q]) = Len(tries[e][q]) /\ DOMAIN tries'[e][q] = 1..Len(tries[e][q])
        /\ \A k \in 1..Len(tries[e][q]) : tries'[e][q][k].rows = tries[e][q][k].rows
    BY <1>3, <1>5, <2>1, RowsAreAHistory
  <2>3. (tries[e][q] # <<>> <=> Len(tries[e][q]) # 0) /\ (tries'[e][q] # <<>> <=> Len(tries'[e][q]) # 0)
    BY <2>1, EmptySeq
  <2>4. RowsOf(tries'[e][q]) = RowsOf(tries[e][q])
    BY <2>2 DEF RowsOf
  <2> QED BY <1>1, <2>1, <2>2, <2>3, <2>4 DEF OfficialOf
<1> QED BY <1>1, <1>2, <1>6, <1>9, <1>10, <1>11 DEF ClassInv, CanvasIsFresh

\* A student's points depend on the official points and the active questions alone, and they
\* are a number.
LEMMA EarnedIs ==
  ASSUME NEW e
  PROVE  /\ Earned(e) = SumOf(official[e], active) /\ Earned(e)' = SumOf(official'[e], active')
         /\ \A g \in [Question -> PointsOrNone], S \in SUBSET Question : SumOf(g, S) \in Nat
<1>1. Earned(e) = SumOf(official[e], active)
  BY Zenon DEF Earned, SumOf
<1>2. Earned(e)' = SumOf(official'[e], active')
  <2>1. (Earned(e) = SumOf(official[e], active))'
    BY <1>1, PTL
  <2> QED BY <2>1
<1>3. ASSUME NEW g \in [Question -> PointsOrNone], NEW S \in SUBSET Question PROVE SumOf(g, S) \in Nat
  <2>1. IsFiniteSet(S) /\ \A q \in S : g[q] \in PointsOrNone
    BY FS_Subset, ClassAssumption
  <2> QED BY <2>1, SumIsNat
<1> QED BY <1>1, <1>2, <1>3

\* A student leaves or comes back, other questions are published, or the class is exported.
LEMMA ClassRestStep ==
  ASSUME ClassInv,
         Export \/ (\E e \in Student : ClassDrop(e)) \/ (\E qs \in SUBSET Question : ClassRepublish(qs))
  PROVE  ClassInv'
<1>1. ASSUME NEW e \in Student, ClassDrop(e) PROVE ClassInv'
  <2>1. /\ UNCHANGED <<setup, tries, official, active, canvas, reopened>> /\ ~acts'.exported
        /\ enrolled' \in SUBSET (enrolled \cup {e})
    BY <1>1 DEF ClassDrop, Bounded, Happened
  <2> QED BY <2>1 DEF ClassInv, TriesOK, OneRuns, Attempts, Try, CanvasIsFresh
<1>3. ASSUME NEW qs \in SUBSET Question, ClassRepublish(qs) PROVE ClassInv'
  <2>1. /\ UNCHANGED <<setup, tries, official, enrolled, canvas, reopened>> /\ ~acts'.exported
        /\ active' \in SUBSET Question
    BY <1>3 DEF ClassRepublish, Bounded, Happened
  <2> QED BY <2>1 DEF ClassInv, TriesOK, OneRuns, Attempts, Try, CanvasIsFresh
<1>2. CASE Export
  <2>1. /\ UNCHANGED <<setup, tries, official, enrolled, active, reopened>>
        /\ canvas' = [e \in Student |-> IF e \in enrolled /\ OverviewPoints(e) # None
                                        THEN OverviewPoints(e) ELSE canvas[e]]
    BY <1>2 DEF Export
  <2>2. \A e \in Student : OverviewPoints(e) \in PointsOrNone
    <3> SUFFICES ASSUME NEW e \in Student PROVE OverviewPoints(e) \in PointsOrNone
      OBVIOUS
    <3>1. official[e] \in [Question -> PointsOrNone] /\ active \in SUBSET Question
      BY DEF ClassInv
    <3>2. Earned(e) \in Nat
      BY <3>1, EarnedIs
    <3> QED BY <3>2 DEF OverviewPoints, PointsOrNone
  <2>3. canvas' \in [Student -> PointsOrNone]
    BY <2>1, <2>2 DEF ClassInv
  <2>4. CanvasIsFresh'
    <3>1. ASSUME NEW e \in Student PROVE OverviewPoints(e)' = OverviewPoints(e)
      <4>1. Earned(e)' = Earned(e)
        BY <2>1, EarnedIs
      <4> QED BY <2>1, <4>1 DEF OverviewPoints
    <3> QED BY <2>1, <3>1 DEF CanvasIsFresh, ClassInv
  <2> QED BY <2>1, <2>3, <2>4 DEF ClassInv, TriesOK, OneRuns, Attempts, Try
<1> QED BY <1>1, <1>2, <1>3


\* A class starts without attempts.
LEMMA ClassStarts == ClassInit => ClassInv
<1> SUFFICES ASSUME ClassInit PROVE ClassInv
  OBVIOUS
<1> USE DEF ClassInit
<1>1. <<>> \in Seq(TryType) /\ Len(<<>>) = 0 /\ DOMAIN <<>> = {} /\ MaxTries \in Nat
  BY ClassAssumption
<1>2. \A e \in Student, q \in Question : tries[e][q] = <<>>
  OBVIOUS
<1>3. Attempts = {}
  BY <1>1, <1>2 DEF Attempts
<1>4. TriesOK
  BY <1>1, <1>2, <1>3 DEF TriesOK
<1>5. \A e \in Student, q \in Question : OfficialOf(tries[e][q], official[e][q], setup.policy)
  BY <1>2 DEF OfficialOf
<1>6. official \in [Student -> [Question -> PointsOrNone]] /\ canvas \in [Student -> PointsOrNone]
  BY DEF PointsOrNone
<1> QED BY <1>3, <1>4, <1>5, <1>6 DEF ClassInv, OneRuns, CanvasIsFresh

\* Whatever happens in the class keeps the invariant.
LEMMA ClassInductive == ClassInv /\ [ClassNext]_classVars => ClassInv'
<1> SUFFICES ASSUME ClassInv, [ClassNext]_classVars PROVE ClassInv'
  OBVIOUS
<1>1. ASSUME NEW e \in Student, ClassDrop(e) PROVE ClassInv'
  BY <1>1, ClassRestStep
<1>2. ASSUME NEW e \in Student, NEW q \in Question, ClassSubmit(e, q) PROVE ClassInv'
  BY <1>2, ClassSubmitStep
<1>3. ASSUME NEW x \in Attempts, ClassClaim(x) \/ ClassGradeFails(x) PROVE ClassInv'
  BY <1>3, ClassClaimStep
<1>4. ASSUME NEW x \in Attempts, Requeue({x}) PROVE ClassInv'
  <2>1. {x} \in SUBSET Attempts
    OBVIOUS
  <2> QED BY <1>4, <2>1, RequeueStep
<1>5. ASSUME NEW x \in Attempts, NEW auto \in 0..AutoMax, ClassGraded(x, auto) PROVE ClassInv'
  BY <1>5, ClassGradedStep
<1>6. ASSUME NEW x \in Attempts, NEW manual \in 0..HandMax, NEW final \in BOOLEAN,
             ClassScore(x, manual, final)
      PROVE  ClassInv'
  BY <1>6, ClassScoreStep
<1>7. ASSUME NEW xs \in SUBSET StillFailed, RetryMany(xs) PROVE ClassInv'
  <2>1. xs \in SUBSET Attempts /\ Requeue(xs)
    BY <1>7 DEF StillFailed, RetryMany
  <2> QED BY <2>1, RequeueStep
<1>8. ASSUME NEW qs \in SUBSET Question, ClassRepublish(qs) PROVE ClassInv'
  BY <1>8, ClassRestStep
<1>10. CASE Export
  BY <1>10, ClassRestStep
<1>9. CASE UNCHANGED classVars
  <2>1. UNCHANGED <<setup, tries, official, enrolled, active, canvas, reopened, acts>>
    BY <1>9 DEF classVars
  <2>2. \A e \in Student : OverviewPoints(e)' = OverviewPoints(e)
    BY <2>1, EarnedIs DEF OverviewPoints
  <2>3. CanvasIsFresh'
    BY <2>1, <2>2 DEF ClassInv, CanvasIsFresh
  <2> QED BY <2>1, <2>3 DEF ClassInv, TriesOK, OneRuns, Attempts, Try
<1> QED BY <1>1, <1>2, <1>3, <1>4, <1>5, <1>6, <1>7, <1>8, <1>9, <1>10 DEF ClassNext

\* In a class the invariant holds.
LEMMA ClassHolds == ClassSpec => []ClassInv
<1>1. ClassInit => ClassInv
  BY ClassStarts
<1>2. ClassInv /\ [ClassNext]_classVars => ClassInv'
  BY ClassInductive
<1> QED BY <1>1, <1>2, PTL DEF ClassSpec

-----------------------------------------------------------------------------
(* The class: nobody is forgotten.                                         *)

\* What the pages read of a question a student tried: the latest attempt and its score.
LEMMA LatestIs ==
  ASSUME ClassInv, NEW e \in Student, NEW q \in Question, Tried(e, q)
  PROVE  LET x == <<e, q, Len(tries[e][q])>>
             sc == LatestScoreOf(e, q)
         IN  /\ x \in Attempts /\ LatestTry(e, q) = Try(x) /\ Try(x).rows \in Rows
             /\ LatestStatusOf(e, q) = Try(x).status /\ sc = FinalScore(Try(x).rows)
             /\ TryOK(Try(x), setup.mode[q], setup.autograde, x \in reopened)
             /\ Try(x).rows = {} => sc = None
             /\ Try(x).rows # {} => sc \in Try(x).rows /\ sc # None /\ Total(sc) \in Nat
             /\ sc # None => (sc.final <=> FinalRows(Try(x).rows) # {})
<1> DEFINE x == <<e, q, Len(tries[e][q])>>
           sc == LatestScoreOf(e, q)
<1>1. TriesOK /\ tries[e][q] \in Seq(TryType) /\ tries[e][q] # <<>>
  BY DEF ClassInv, TriesOK, Tried
<1>2. Len(tries[e][q]) \in 1..Len(tries[e][q])
  <2>1. Len(tries[e][q]) \in Nat /\ Len(tries[e][q]) # 0
    BY <1>1, LenProperties, EmptySeq
  <2> QED BY <2>1
<1>3. x \in Attempts /\ Try(x) = tries[e][q][Len(tries[e][q])]
  BY <1>1, <1>2, AttemptAt
<1>4. LatestTry(e, q) = Try(x) /\ LatestStatusOf(e, q) = Try(x).status /\ sc = FinalScore(Try(x).rows)
  BY <1>3 DEF LatestTry, LatestStatusOf, LatestScoreOf
<1>5. TryOK(Try(x), setup.mode[q], setup.autograde, x \in reopened) /\ Try(x).rows \in Rows
  <2>1. x[2] = q
    OBVIOUS
  <2> HIDE DEF x
  <2> QED BY <1>3, <2>1, TryIs
<1> HIDE DEF x, sc
<1>6. /\ Try(x).rows = {} => sc = None
      /\ Try(x).rows # {} => sc \in Try(x).rows
  BY <1>4, <1>5, ChosenRows
<1>7. Try(x).rows # {} => sc # None /\ Total(sc) \in Nat
  BY <1>5, <1>6, NoneIsNoScore, TotalIsNat DEF Rows
<1>8. sc # None => (sc.final <=> FinalRows(Try(x).rows) # {})
  <2>1. FinalRows(Try(x).rows) # {} => sc.final
    <3>1. FinalRows(Try(x).rows) # {} => sc \in FinalRows(Try(x).rows)
      BY <1>4, <1>5, ChosenRows
    <3> QED BY <3>1 DEF FinalRows
  <2>2. sc # None /\ sc.final => FinalRows(Try(x).rows) # {}
    BY <1>6 DEF FinalRows
  <2>3. sc # None => sc.final \in BOOLEAN
    BY <1>5, <1>6 DEF Rows, Score
  <2> QED BY <2>1, <2>2, <2>3
<1> QED BY <1>3, <1>4, <1>5, <1>6, <1>7, <1>8 DEF x, sc

\* The invariant has the types.
LEMMA ClassTypes == ClassInv => ClassTypeOK
<1> SUFFICES ASSUME ClassInv PROVE ClassTypeOK
  OBVIOUS
<1>1. Cardinality({x \in Attempts : Try(x).running > 0}) <= 1
  <2> DEFINE R == {x \in Attempts : Try(x).running > 0}
  <2>1. \A x, y \in R : x = y
    BY DEF ClassInv, OneRuns
  <2> SUFFICES Cardinality(R) <= 1
    OBVIOUS
  <2> HIDE DEF R
  <2>2. CASE R = {}
    BY <2>2, FS_EmptySet
  <2>3. CASE R # {}
    <3>1. PICK x : x \in R
      BY <2>3
    <3>2. R = {x}
      BY <2>1, <3>1
    <3> QED BY <3>2, FS_Singleton
  <2> QED BY <2>2, <2>3
<1>2. ASSUME NEW x \in Attempts
      PROVE  /\ Try(x).status \in {"received", "graded", "failed"}
             /\ \A row \in Try(x).rows : row \in Score /\ row.manual \in {None} \cup 0..HandMax
  BY TryIs DEF TryOK, TryType, Rows
<1> QED BY <1>1, <1>2 DEF ClassInv, ClassTypeOK

\* A failed attempt is listed, unless more have failed than the list takes.
LEMMA Listed ==
  ASSUME ClassInv, NEW x \in Failures
  PROVE  x \in FailedList \/ Cardinality(Failures) > ListMax
<1> DEFINE Newer == {y \in Failures : Try(y).since > Try(x).since}
<1>1. IsFiniteSet(Failures) /\ Cardinality(Failures) \in Nat /\ ListMax \in Nat
  BY AttemptsAreFinite, FS_Subset, FS_CardinalityType, ClassAssumption DEF Failures
<1>2. ~(Try(x).since > Try(x).since)
  <2>1. Try(x).since \in Nat
    BY TryIs DEF Failures, TryType
  <2> QED BY <2>1
<1>3. Newer \in SUBSET (Failures \ {x})
  BY <1>2
<1>4. IsFiniteSet(Failures \ {x}) /\ Cardinality(Failures \ {x}) = Cardinality(Failures) - 1
  BY <1>1, FS_RemoveElement
<1>5. Cardinality(Newer) \in Nat /\ Cardinality(Newer) <= Cardinality(Failures) - 1
  BY <1>3, <1>4, FS_Subset, FS_CardinalityType
<1> HIDE DEF Newer
<1>6. Cardinality(Newer) < ListMax \/ Cardinality(Failures) > ListMax
  BY <1>1, <1>5
<1> QED BY <1>6 DEF FailedList, Newer

\* Whoever tried is on somebody's desk, or done.
LEMMA DeskOf ==
  ASSUME ClassInv, NEW e \in enrolled, NEW q \in Question, Tried(e, q)
  PROVE  LET x == <<e, q, Len(tries[e][q])>>
             state == RetryState(x)
         IN  /\ state = "graded" /\ q \in active => GridPoints(e, q) # None
             /\ state = "failed" =>
                  /\ GridPoints(e, q) = None
                  /\ x \in FailedList \/ Cardinality(Failures) > ListMax
             /\ state = "waiting_for_grade" /\ q \in active =>
                  \/ <<e, q>> \in Awaiting
                  \/ x \in reopened
                  \/ setup.mode[q] = "auto" /\ ~setup.autograde
<1> DEFINE x == <<e, q, Len(tries[e][q])>>
           t == Try(x)
           sc == LatestScoreOf(e, q)
           state == RetryState(x)
<1>1. e \in Student
  BY DEF ClassInv
<1>2. /\ x \in Attempts /\ LatestStatusOf(e, q) = t.status /\ sc = FinalScore(t.rows)
      /\ TryOK(t, setup.mode[q], setup.autograde, x \in reopened)
      /\ t.rows = {} => sc = None
      /\ t.rows # {} => sc # None /\ Total(sc) \in Nat
      /\ sc # None => (sc.final <=> FinalRows(t.rows) # {})
  BY <1>1, LatestIs
<1>3. /\ t \in TryType /\ t.status \in {"received", "graded", "failed"} /\ t.queued \in Nat
      /\ t.running \in {0, 1} /\ None \notin Nat /\ x[1] = e
  BY <1>2, NoneIsNoScore DEF TryOK, TryType
<1>4. state = IF t.running > 0 THEN "running" ELSE IF t.queued > 0 THEN "queued"
              ELSE IF t.status \in {"failed", "graded"} THEN t.status ELSE "waiting_for_grade"
  BY DEF RetryState
<1> HIDE DEF x, t, sc, state
<1>5. state = "graded" /\ q \in active => GridPoints(e, q) # None
  <2>1. state = "graded" => t.status = "graded" /\ t.rows # {}
    BY <1>2, <1>3, <1>4 DEF TryOK
  <2> QED BY <1>2, <1>3, <2>1 DEF GridPoints, CellState, sc
<1>6. ASSUME state = "failed"
      PROVE  GridPoints(e, q) = None /\ (x \in FailedList \/ Cardinality(Failures) > ListMax)
  <2>1. t.status = "failed"
    BY <1>3, <1>4, <1>6
  <2>2. GridPoints(e, q) = None
    BY <1>2, <2>1 DEF GridPoints, CellState, sc
  <2>3. x \in Failures
    BY <1>2, <1>3, <2>1 DEF Failures, t
  <2>4. x \in FailedList \/ Cardinality(Failures) > ListMax
    BY <2>3, Listed
  <2> QED BY <2>2, <2>4
<1>7. ASSUME state = "waiting_for_grade", q \in active
      PROVE  \/ <<e, q>> \in Awaiting
             \/ x \in reopened
             \/ setup.mode[q] = "auto" /\ ~setup.autograde
  <2>1. t.status = "received" /\ t.queued = 0 /\ t.running = 0
    BY <1>3, <1>4, <1>7
  <2>2. CASE setup.mode[q] = "auto"
    BY <1>2, <2>1, <2>2 DEF TryOK
  <2>3. CASE setup.mode[q] # "auto" /\ FinalRows(t.rows) # {}
    BY <1>2, <2>1, <2>3 DEF TryOK
  <2>4. CASE setup.mode[q] # "auto" /\ FinalRows(t.rows) = {}
    BY <1>2, <1>7, <2>4 DEF Awaiting, NeedsManual, sc
  <2> QED BY <2>2, <2>3, <2>4
<1> QED BY <1>5, <1>6, <1>7 DEF x, state

\* Whatever the class and however long triage's list, the latest attempt of an active student
\* on an active question is on somebody's desk or done, and a failed one is listed until more
\* have failed than the list takes (api/grading.triage, grid and retry_status).
THEOREM NobodyIsForgotten == ClassSpec => []NobodyForgotten
<1>1. ClassInv => NobodyForgotten
  <2> SUFFICES ASSUME ClassInv PROVE NobodyForgotten
    OBVIOUS
  <2>1. enrolled \subseteq Student /\ ClassTypeOK
    BY ClassTypes DEF ClassInv
  <2> QED BY <2>1, DeskOf DEF NobodyForgotten
<1> QED BY <1>1, ClassHolds, PTL

-----------------------------------------------------------------------------
(* The class: the average.                                                 *)

\* Unless the first attempt counts, a history whose last attempt has a score pays no less.
LEMMA PaysTheLast ==
  ASSUME NEW h \in Histories, Len(h) # 0, h[Len(h)] # {}, NEW policy, policy # "first"
  PROVE  LET last == Total(FinalScore(h[Len(h)]))
             points == OfficialPoints(PickAttempt(h, policy, 0))
         IN  /\ points # None /\ points \in Nat /\ last \in Nat /\ points >= last
             /\ policy = "latest" => points = last
<1> DEFINE m == Len(h)
           last == Total(FinalScore(h[m]))
           k == CountedAttempt(h, policy, 0)
           points == OfficialPoints(PickAttempt(h, policy, 0))
<1>1. m \in 1..m /\ h[m] \in Rows /\ DOMAIN h = 1..m /\ None \notin Score /\ None \notin Nat
  BY HistoryShape, NoneIsNoScore
<1>2. FinalScore(h[m]) # None
  BY <1>1, ChosenRows DEF Rows
<1>3. m \in Scored(h)
  BY <1>1, <1>2 DEF Scored
<1>4. \A j \in Scored(h) : Total(FinalScore(h[j])) \in Nat /\ FinalScore(h[j]) # None /\ j # 0
  <2>1. Scored(h) \subseteq 1..m
    BY HistoryShape
  <2> QED BY <1>1, <2>1, ScoredHaveRows DEF Scored
<1>5. k = IF policy = "highest" THEN HighestAttempt(h) ELSE m
  BY <1>1, <1>3 DEF CountedAttempt
<1>6. k \in Scored(h) /\ last <= Total(FinalScore(h[k]))
  <2>1. /\ HighestAttempt(h) \in Scored(h)
        /\ \A j \in Scored(h) : Total(FinalScore(h[j])) <= Total(FinalScore(h[HighestAttempt(h)]))
    BY <1>1, <1>3, HighestIsHighest
  <2>2. CASE policy = "highest"
    BY <1>3, <1>5, <2>1, <2>2
  <2>3. CASE policy # "highest"
    BY <1>3, <1>4, <1>5, <2>3
  <2> QED BY <2>2, <2>3
<1>7. points = Total(FinalScore(h[k]))
  <2>1. k # 0 /\ FinalScore(h[k]) # None
    BY <1>4, <1>6
  <2> QED BY <2>1 DEF PickAttempt, OfficialPoints
<1>8. policy = "latest" => k = m
  BY <1>5
<1> QED BY <1>1, <1>3, <1>4, <1>6, <1>7, <1>8

\* A student the average takes in has nothing but graded questions.
LEMMA AveragedIsGraded ==
  ASSUME NEW e, Averaged(e)
  PROVE  /\ \E q \in active : Mark(e, q) # "none"
         /\ \A q \in active : Mark(e, q) \in {"none", "graded"}
<1>1. ASSUME NEW q \in active PROVE Mark(e, q) \in {"none", "waiting", "failed", "running", "graded"}
  BY DEF Mark, ProgressState
<1>2. Marks(e) \subseteq {"waiting", "failed", "running", "graded"} /\ Marks(e) # {}
  BY <1>1 DEF Marks, Averaged
<1>3. /\ Urgency["waiting"] = 0 /\ Urgency["failed"] = 1 /\ Urgency["running"] = 2
      /\ Urgency["graded"] = 3
  BY DEF Urgency
<1>4. \E m \in Marks(e) : \A n \in Marks(e) : Urgency[m] <= Urgency[n]
  <2>1. CASE "waiting" \in Marks(e)
    BY <1>2, <1>3, <2>1
  <2>2. CASE "waiting" \notin Marks(e) /\ "failed" \in Marks(e)
    BY <1>2, <1>3, <2>2
  <2>3. CASE "waiting" \notin Marks(e) /\ "failed" \notin Marks(e) /\ "running" \in Marks(e)
    BY <1>2, <1>3, <2>3
  <2>4. CASE "waiting" \notin Marks(e) /\ "failed" \notin Marks(e) /\ "running" \notin Marks(e)
    BY <1>2, <1>3, <2>4
  <2> QED BY <2>1, <2>2, <2>3, <2>4
<1>5. \A n \in Marks(e) : Urgency["graded"] <= Urgency[n]
  <2>1. \A n \in Marks(e) : Urgency[Pressing(e)] <= Urgency[n]
    BY <1>4 DEF Pressing
  <2> QED BY <2>1 DEF Averaged
<1>6. Marks(e) = {"graded"}
  BY <1>2, <1>3, <1>5
<1> QED BY <1>6 DEF Marks

\* What the pages and the tables say of a question such a student tried.
LEMMA AveragedAgrees ==
  ASSUME ClassInv, NEW e \in Student, Averaged(e), setup.policy # "first", NEW q \in active, Tried(e, q)
  PROVE  /\ official[e][q] # None /\ GridPoints(e, q) # None
         /\ setup.policy = "latest" => official[e][q] = GridPoints(e, q)
         /\ official[e][q] >= GridPoints(e, q)
<1> DEFINE t == Try(<<e, q, Len(tries[e][q])>>)
           sc == LatestScoreOf(e, q)
           s == tries[e][q]
<1>0. q \in Question
  BY DEF ClassInv
<1>1. /\ LatestTry(e, q) = t /\ LatestStatusOf(e, q) = t.status /\ sc = FinalScore(t.rows)
      /\ t.status \in {"received", "graded", "failed"}
      /\ t.rows = {} => sc = None
  BY <1>0, LatestIs DEF TryOK, TryType
<1>2. s \in Seq(TryType) /\ s # <<>> /\ t = s[Len(s)] /\ OfficialOf(s, official[e][q], setup.policy)
  BY <1>0, <1>1 DEF ClassInv, TriesOK, Tried, LatestTry
<1>3. Len(s) \in 1..Len(s) /\ RowsOf(s) \in Histories /\ Len(RowsOf(s)) = Len(s)
      /\ RowsOf(s)[Len(s)] = t.rows
  <2>1. /\ Len(s) \in Nat /\ RowsOf(s) \in Histories /\ Len(RowsOf(s)) = Len(s)
        /\ \A j \in 1..Len(s) : RowsOf(s)[j] = s[j].rows
    BY <1>2, RowsAreAHistory
  <2>2. Len(s) # 0
    BY <1>2, EmptySeq
  <2>3. Len(s) \in 1..Len(s)
    BY <2>1, <2>2
  <2> QED BY <1>2, <2>1, <2>3
<1> HIDE DEF t, sc, s
<1>4. sc # None /\ t.status = "graded"
  <2>1. Mark(e, q) \in {"none", "graded"}
    BY AveragedIsGraded
  <2>2. Mark(e, q) = ProgressState(t.status, sc, ByHandOf(q))
    BY <1>1 DEF Mark, sc
  <2> QED BY <1>1, <2>1, <2>2 DEF ProgressState
<1>5. t.rows # {} /\ GridPoints(e, q) = Total(FinalScore(t.rows))
  BY <1>1, <1>4 DEF GridPoints, CellState, sc
<1>6. official[e][q] = OfficialPoints(PickAttempt(RowsOf(s), setup.policy, 0))
  BY <1>2, <1>5 DEF OfficialOf
<1>7. LET last == Total(FinalScore(RowsOf(s)[Len(RowsOf(s))]))
          points == OfficialPoints(PickAttempt(RowsOf(s), setup.policy, 0))
      IN  /\ points # None /\ points \in Nat /\ last \in Nat /\ points >= last
          /\ setup.policy = "latest" => points = last
  <2>1. Len(RowsOf(s)) # 0 /\ RowsOf(s)[Len(RowsOf(s))] # {}
    BY <1>3, <1>5
  <2> QED BY <1>3, <2>1, PaysTheLast
<1> QED BY <1>3, <1>5, <1>6, <1>7, NoneIsNoScore

\* Whatever the class, a student's points are the same in the average, the overview and the
\* Canvas export, and those of the grid or more (services/progress.compute, my_overview,
\* services/canvas_export).
THEOREM AveragesAgree == ClassSpec => []AverageAgrees
<1>1. ASSUME ClassInv, NEW e \in enrolled, Averaged(e), setup.policy # "first"
      PROVE  /\ OverviewPoints(e) = Earned(e)
             /\ acts.exported => canvas[e] = Earned(e)
             /\ \A q \in active : Tried(e, q) =>
                  /\ official[e][q] # None /\ GridPoints(e, q) # None
                  /\ setup.policy = "latest" => official[e][q] = GridPoints(e, q)
                  /\ official[e][q] >= GridPoints(e, q)
  <2>1. e \in Student /\ official[e] \in [Question -> PointsOrNone] /\ CanvasIsFresh
        /\ active \in SUBSET Question
    BY <1>1 DEF ClassInv
  <2>2. PICK q \in active : Mark(e, q) # "none"
    BY <1>1, AveragedIsGraded
  <2>3. Tried(e, q)
    BY <2>2 DEF Mark, LatestStatusOf, ProgressState
  <2>4. official[e][q] # None
    BY <1>1, <2>1, <2>3, AveragedAgrees
  <2>5. OverviewPoints(e) = Earned(e)
    BY <2>4 DEF OverviewPoints
  <2>6. Earned(e) # None
    BY <2>1, EarnedIs, NoneIsNoScore
  <2>7. acts.exported => canvas[e] = Earned(e)
    BY <1>1, <2>1, <2>5, <2>6 DEF CanvasIsFresh
  <2> QED BY <1>1, <2>1, <2>5, <2>7, AveragedAgrees
<1>2. ClassInv => AverageAgrees
  BY <1>1 DEF AverageAgrees
<1> QED BY <1>2, ClassHolds, PTL
=============================================================================
