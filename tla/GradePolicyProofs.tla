-------------------------- MODULE GradePolicyProofs --------------------------
(***************************************************************************)
(* What the choices of GradePolicy return, for every set of score rows and *)
(* every history of attempts.                                              *)
(***************************************************************************)
EXTENDS GradePolicy, FiniteSets, FiniteSetTheorems, SequenceTheorems, TLAPS

(* Minimal elements.                                                       *)

\* Wherever below[x] is nonempty, some below[y] is smaller.
Shrinks(below) ==
  \A x \in DOMAIN below :
    below[x] # {} => \E y \in DOMAIN below : below[y] # below[x] /\ below[y] \subseteq below[x]

\* Subsets of a finite set cannot shrink for ever: one of them is empty.
LEMMA ShrinkingReachesEmpty ==
  ASSUME NEW S, IsFiniteSet(S), S # {}, NEW below, below \in [S -> SUBSET S], Shrinks(below)
  PROVE  \E x \in S : below[x] = {}
<1> DEFINE R == StrictSubsetOrdering(S)
           F == {below[x] : x \in S}
<1>1. F # {} /\ F \subseteq FiniteSubsetsOf(S)
  BY FS_Subset DEF FiniteSubsetsOf
<1>2. IsWellFoundedOn(R, FiniteSubsetsOf(S))
  BY FS_StrictSubsetOrderingWellFounded
<1>3. PICK U \in F : \A V \in F : ~(<<V, U>> \in R)
  <2> HIDE DEF R, F
  <2> QED BY <1>1, <1>2, WFMin
<1>4. PICK x \in S : U = below[x]
  OBVIOUS
<1>5. ASSUME NEW y \in S, below[y] # below[x], below[y] \subseteq below[x]
      PROVE  FALSE
  <2>1. <<below[y], below[x]>> \in R
    BY <1>5 DEF StrictSubsetOrdering
  <2> QED BY <2>1, <1>3, <1>4
<1> QED BY <1>5 DEF Shrinks

\* A strict order on a nonempty finite set has a minimal element.
LEMMA FiniteMinimum ==
  ASSUME NEW S, S # {}, IsFiniteSet(S), NEW R,
         \A k \in S : <<k, k>> \notin R,
         \A i, j, k \in S : <<i, j>> \in R /\ <<j, k>> \in R => <<i, k>> \in R
  PROVE  \E k \in S : \A j \in S : <<j, k>> \notin R
<1> DEFINE below == [k \in S |-> {j \in S : <<j, k>> \in R}]
<1>1. below \in [S -> SUBSET S]
  OBVIOUS
<1>2. ASSUME NEW k \in S, below[k] # {}
      PROVE  \E j \in S : below[j] # below[k] /\ below[j] \subseteq below[k]
  <2>1. PICK j \in S : <<j, k>> \in R
    BY <1>2
  <2>2. j \in below[k] /\ j \notin below[j] /\ below[j] \subseteq below[k]
    BY <2>1
  <2> QED BY <2>2
<1>3. \E k \in S : below[k] = {}
  <2>1. Shrinks(below)
    BY <1>2 DEF Shrinks
  <2> HIDE DEF below
  <2> QED BY <1>1, <2>1, ShrinkingReachesEmpty
<1> QED BY <1>3

-----------------------------------------------------------------------------
(* The newest row.                                                         *)

\* The rows of an attempt: a finite set.
Rows == {rows \in SUBSET Score : IsFiniteSet(rows)}

\* A finite nonempty set of rows has a newest one, and CHOOSE returns it.
LEMMA NewestIsNewest ==
  ASSUME NEW rows \in Rows, rows # {}
  PROVE  /\ Newest(rows) \in rows
         /\ \A y \in rows : y.at <= Newest(rows).at
<1> DEFINE Later(x, y) == y.at < x.at
           R == {p \in rows \X rows : Later(p[1], p[2])}
<1>1. IsFiniteSet(rows) /\ \A x \in rows : x.at \in Nat
  BY DEF Rows, Score, PointsOrNone
<1>2. \A x, y, z \in rows : Later(x, y) /\ Later(y, z) => Later(x, z)
  BY <1>1
<1>3. \A x \in rows : ~Later(x, x)
  BY <1>1
<1>4. \A x, y \in rows : ~Later(y, x) => y.at <= x.at
  BY <1>1
<1> HIDE DEF Later
<1>5. /\ \A x \in rows : <<x, x>> \notin R
      /\ \A x, y, z \in rows : <<x, y>> \in R /\ <<y, z>> \in R => <<x, z>> \in R
  BY <1>2, <1>3
<1>6. PICK x \in rows : \A y \in rows : <<y, x>> \notin R
  <2> HIDE DEF R
  <2> QED BY <1>1, <1>5, FiniteMinimum
<1>7. \A y \in rows : ~Later(y, x)
  BY <1>6
<1> QED BY <1>4, <1>7 DEF Newest

\* The two choices return rows of the attempt: a final one if there is any.
LEMMA ChosenRows ==
  ASSUME NEW rows \in Rows
  PROVE  /\ rows # {} => FinalScore(rows) \in rows
         /\ rows = {} => FinalScore(rows) = None
         /\ FinalRows(rows) # {} => /\ LatestFinal(rows) \in FinalRows(rows)
                                   /\ FinalScore(rows) = LatestFinal(rows)
         /\ FinalRows(rows) = {} => LatestFinal(rows) = None
<1>1. rows \in Rows /\ FinalRows(rows) \in Rows /\ FinalRows(rows) \subseteq rows
  BY FS_Subset DEF Rows, FinalRows
<1>2. rows # {} => Newest(rows) \in rows
  BY NewestIsNewest
<1>3. FinalRows(rows) # {} => Newest(FinalRows(rows)) \in FinalRows(rows)
  BY <1>1, NewestIsNewest
<1> QED BY <1>1, <1>2, <1>3 DEF FinalScore, LatestFinal

\* A history whose attempts have such rows.
Histories == Seq(Rows)

\* Its attempts are numbered from 1, and each has such rows.
LEMMA HistoryShape ==
  ASSUME NEW history \in Histories
  PROVE  /\ Len(history) \in Nat
         /\ DOMAIN history = 1..Len(history)
         /\ \A k \in 1..Len(history) : history[k] \in Rows
         /\ Scored(history) \subseteq 1..Len(history)
<1>1. history \in Seq(Rows)
  BY DEF Histories
<1>2. Len(history) \in Nat /\ DOMAIN history = 1..Len(history)
  BY <1>1, LenProperties
<1>3. \A k \in 1..Len(history) : history[k] \in Rows
  BY <1>1, ElementOfSeq
<1>4. Scored(history) \subseteq DOMAIN history
  BY DEF Scored
<1> QED BY <1>2, <1>3, <1>4

\* The total of a score row is a number.
LEMMA TotalIsNat ==
  ASSUME NEW rows \in Rows, NEW x \in rows
  PROVE  Total(x) \in Nat
<1>1. x.auto \in Nat \cup {None} /\ x.manual \in Nat \cup {None}
  BY DEF Rows, Score, PointsOrNone
<1> QED BY <1>1 DEF Total, PointsOf

\* An attempt has a score exactly when it has a row, provided None is not a row.
LEMMA ScoredHaveRows ==
  ASSUME NEW history \in Histories,
         None \notin Score, NEW k \in Scored(history)
  PROVE  /\ k \in 1..Len(history)
         /\ FinalScore(history[k]) \in history[k]
         /\ Total(FinalScore(history[k])) \in Nat
<1>1. k \in 1..Len(history) /\ history[k] \in Rows /\ FinalScore(history[k]) # None
  BY HistoryShape DEF Scored
<1>2. FinalScore(history[k]) \in history[k]
  BY <1>1, ChosenRows
<1> QED BY <1>1, <1>2, TotalIsNat

\* Among finitely many numbered totals there is an earliest greatest one.
LEMMA EarliestGreatest ==
  ASSUME NEW m \in Nat, NEW S \in SUBSET (1..m), S # {}, NEW total \in [S -> Nat]
  PROVE  \E k \in S : \A j \in S : total[j] < total[k] \/ (total[j] = total[k] /\ k <= j)
<1> DEFINE Beats(j, k) == total[k] < total[j] \/ (total[k] = total[j] /\ j < k)
           R == {p \in S \X S : Beats(p[1], p[2])}
<1>1. IsFiniteSet(S)
  <2>1. IsFiniteSet(1..m)
    BY FS_Interval
  <2> QED BY <2>1, FS_Subset
<1>2. \A k \in S : k \in Nat /\ total[k] \in Nat
  OBVIOUS
<1>3. \A i, j, k \in S : Beats(i, j) /\ Beats(j, k) => Beats(i, k)
  BY <1>2
<1>4. \A k \in S : ~Beats(k, k)
  BY <1>2
<1>5. \A j, k \in S : ~Beats(j, k) => total[j] < total[k] \/ (total[j] = total[k] /\ k <= j)
  BY <1>2
<1> HIDE DEF Beats
<1>6. /\ \A k \in S : <<k, k>> \notin R
      /\ \A i, j, k \in S : <<i, j>> \in R /\ <<j, k>> \in R => <<i, k>> \in R
  BY <1>3, <1>4
<1>7. PICK k \in S : \A j \in S : <<j, k>> \notin R
  <2> HIDE DEF R
  <2> QED BY <1>1, <1>6, FiniteMinimum
<1>8. \A j \in S : ~Beats(j, k)
  BY <1>7
<1> QED BY <1>5, <1>8

\* "highest" names the earliest of the scored attempts with the greatest total.
LEMMA HighestIsHighest ==
  ASSUME NEW history \in Histories,
         None \notin Score, Scored(history) # {}
  PROVE  /\ HighestAttempt(history) \in Scored(history)
         /\ \A j \in Scored(history) :
              Total(FinalScore(history[j])) <= Total(FinalScore(history[HighestAttempt(history)]))
<1> DEFINE total == [k \in Scored(history) |-> Total(FinalScore(history[k]))]
<1>1. \A k \in Scored(history) : Total(FinalScore(history[k])) \in Nat
  BY ScoredHaveRows
<1>2. total \in [Scored(history) -> Nat]
  BY <1>1
<1>3. \E k \in Scored(history) : \A j \in Scored(history) :
        total[j] < total[k] \/ (total[j] = total[k] /\ k <= j)
  <2>1. Len(history) \in Nat /\ Scored(history) \subseteq 1..Len(history)
    BY HistoryShape
  <2> HIDE DEF total
  <2> QED BY <2>1, <1>2, EarliestGreatest
<1>4. \E k \in Scored(history) : \A j \in Scored(history) :
        LET tj == Total(FinalScore(history[j]))
            tk == Total(FinalScore(history[k]))
        IN  tj < tk \/ (tj = tk /\ k <= j)
  BY <1>3
<1>5. /\ HighestAttempt(history) \in Scored(history)
      /\ \A j \in Scored(history) :
           LET tj == Total(FinalScore(history[j]))
               tk == Total(FinalScore(history[HighestAttempt(history)]))
           IN  tj < tk \/ (tj = tk /\ HighestAttempt(history) <= j)
  BY <1>4 DEF HighestAttempt
<1> QED BY <1>1, <1>5

\* The policy counts an attempt of the history, and none only when there is none.
LEMMA CountedIsAnAttempt ==
  ASSUME NEW history \in Histories, None \notin Score, NEW policy
  PROVE  /\ CountedAttempt(history, policy, 0) \in 0..Len(history)
         /\ CountedAttempt(history, policy, 0) = 0 <=> Len(history) = 0
<1>1. Len(history) \in Nat /\ Scored(history) \subseteq 1..Len(history)
  BY HistoryShape
<1>2. Scored(history) # {} => HighestAttempt(history) \in Scored(history)
  BY HighestIsHighest
<1> QED BY <1>1, <1>2 DEF CountedAttempt

\* What pick_attempt returns: a score row of the attempt it names, or no points.
LEMMA PickIsARow ==
  ASSUME NEW history \in Histories, None \notin Score, NEW policy
  PROVE  LET pick == PickAttempt(history, policy, 0)
         IN  /\ pick.attempt \in 0..Len(history)
             /\ \/ OfficialPoints(pick) = None
                \/ /\ pick.attempt # 0
                   /\ \E x \in history[pick.attempt] : OfficialPoints(pick) = Total(x)
             /\ OfficialPoints(pick) \in Nat \cup {None}
<1> DEFINE k == CountedAttempt(history, policy, 0)
<1>1. k \in 0..Len(history) /\ Len(history) \in Nat
  BY CountedIsAnAttempt, HistoryShape
<1>2. CASE k = 0
  BY <1>1, <1>2 DEF PickAttempt, OfficialPoints
<1>3. CASE k # 0
  <2>1. history[k] \in Rows
    <3>1. k \in 1..Len(history)
    BY <1>1, <1>3
  <3> HIDE DEF k
  <3> QED BY <3>1, HistoryShape
  <2>2. FinalScore(history[k]) \in history[k] \/ FinalScore(history[k]) = None
    BY <2>1, ChosenRows
  <2>3. FinalScore(history[k]) \in history[k] => Total(FinalScore(history[k])) \in Nat
    BY <2>1, TotalIsNat
  <2> QED BY <1>1, <1>3, <2>2, <2>3 DEF PickAttempt, OfficialPoints
<1> QED BY <1>2, <1>3
=============================================================================
