------------------------- MODULE HotPathScanProofs -------------------------
(***************************************************************************)
(* lookup()'s scan with its early exit implements the lookup that scores   *)
(* every row, for every scale of scores, threshold, penalty and number of  *)
(* rows.                                                                   *)
(***************************************************************************)
EXTENDS HotPathScan, TLAPS

USE DEF Answer!Row, Answer!RowList

\* While the scan runs, everything before idx has been taken into account: no
\* score there exceeds the best, and the best row is the first to have it.
ScanInv ==
    scanning =>
        /\ rows \in Answer!RowList
        /\ idx \in 1 .. Len(rows) + 1
        /\ \A j \in 1 .. idx - 1 : Answer!Score(rows, j) <= bestScore
        /\ \/ bestRow = 0 /\ bestScore = 0
           \/ /\ bestRow \in 1 .. Len(rows) /\ bestRow < idx
              /\ bestScore = Answer!Score(rows, bestRow) /\ bestScore > 0
              /\ \A j \in 1 .. bestRow - 1 : Answer!Score(rows, j) < bestScore

\* Multiplication keeps order; the only nonlinear fact the proofs need.
LEMMA ProductMonotone ==
    ASSUME NEW a \in Nat, NEW b \in Nat, NEW c \in Nat, a <= b
    PROVE  a * c <= b * c /\ c * a <= c * b /\ a * c \in Nat
<1>1. PICK d \in Nat : b = a + d
  <2>1. b - a \in Nat /\ b = a + (b - a)
    OBVIOUS
  <2> QED BY <2>1
<1>2. d * c \in Nat /\ a * c \in Nat
  OBVIOUS
<1>3. b * c = a * c + d * c
  BY <1>1
<1>4. c * a = a * c /\ c * b = b * c
  OBVIOUS
<1> QED BY <1>2, <1>3, <1>4

\* A fetched list and its rows are typed.
LEMMA RowFacts ==
    ASSUME NEW rs \in Answer!RowList
    PROVE  /\ Len(rs) \in Nat
           /\ \A i \in 1 .. Len(rs) : rs[i].text \in 0 .. MaxText /\ rs[i].home \in BOOLEAN
<1>1. PICK n \in 0 .. MaxRows : rs \in [1 .. n -> [text : 0 .. MaxText, home : BOOLEAN]]
  OBVIOUS
<1>2. n \in Nat
  BY ScaleAssumption
<1>3. Len(rs) = n
  BY <1>1, <1>2
<1> QED BY <1>1, <1>2, <1>3

\* The score of a row is a natural number.
LEMMA ScoreType ==
    ASSUME NEW rs \in Answer!RowList, NEW i \in 1 .. Len(rs)
    PROVE  Answer!Score(rs, i) \in Nat
<1>1. Len(rs) \in Nat /\ rs[i].text \in 0 .. MaxText /\ rs[i].home \in BOOLEAN
  BY RowFacts
<1>2. rs[i].text * Len(rs) \in Nat /\ MaxText * (Len(rs) - i + 1) \in Nat
  <2>1. Len(rs) - i + 1 \in Nat /\ rs[i].text \in Nat /\ MaxText \in Nat
    BY <1>1, ScaleAssumption
  <2> QED BY <1>1, <2>1, ProductMonotone
<1>3. Answer!Weight(rs[i].home) \in Nat
  BY <1>1, ScaleAssumption DEF Answer!Weight
<1>4. 4 * (rs[i].text * Len(rs)) + MaxText * (Len(rs) - i + 1) \in Nat
  BY <1>2
<1> QED BY <1>3, <1>4, ProductMonotone DEF Answer!Score

\* The early exit is safe: no later row can exceed MaxRemaining, whatever its
\* texts and its site.  This needs CROSS_SITE_PENALTY to be at most 1.
LEMMA CeilingBounds ==
    ASSUME NEW rs \in Answer!RowList, NEW i \in 1 .. Len(rs), NEW j \in 1 .. Len(rs), i < j
    PROVE  Answer!Score(rs, j) <= MaxRemaining(rs, i)
<1>. DEFINE n == Len(rs)
            t == rs[j].text
            w == Answer!Weight(rs[j].home)
            x == 4 * (t * n) + MaxText * (n - j + 1)
            y == 4 * (MaxText * n) + MaxText * (n - i)
<1>1. n \in Nat /\ t \in Nat /\ t <= MaxText /\ MaxText \in Nat /\ PenaltyDen \in Nat
  BY RowFacts, ScaleAssumption
<1>2. w \in Nat /\ w <= PenaltyDen
  BY RowFacts, ScaleAssumption DEF Answer!Weight
<1>3. n - j + 1 \in Nat /\ n - i \in Nat /\ n - j + 1 <= n - i
  BY <1>1
<1>4. t * n <= MaxText * n /\ t * n \in Nat /\ MaxText * n \in Nat
  <2>1. ASSUME NEW p \in Nat, p <= MaxText, NEW q \in Nat
        PROVE  p * q <= MaxText * q /\ p * q \in Nat /\ MaxText * q \in Nat
    BY <2>1, <1>1, ProductMonotone
  <2>. HIDE DEF t, n
  <2> QED BY <2>1, <1>1
<1>5. /\ MaxText * (n - j + 1) <= MaxText * (n - i)
      /\ MaxText * (n - j + 1) \in Nat /\ MaxText * (n - i) \in Nat
  <2>1. ASSUME NEW p \in Nat, NEW q \in Nat, p <= q
        PROVE  MaxText * p <= MaxText * q /\ MaxText * p \in Nat /\ MaxText * q \in Nat
    BY <2>1, <1>1, ProductMonotone
  <2> QED BY <2>1, <1>3
<1>6. x \in Nat /\ y \in Nat /\ x <= y
  BY <1>4, <1>5
<1>. HIDE DEF x, y, w
<1>7. w * x <= PenaltyDen * x /\ PenaltyDen * x <= PenaltyDen * y
  BY <1>1, <1>2, <1>6, ProductMonotone
<1>8. w * x \in Int /\ PenaltyDen * x \in Int /\ PenaltyDen * y \in Int
  BY <1>1, <1>2, <1>6
<1>9. w * x <= PenaltyDen * y
  BY <1>7, <1>8
<1> QED BY <1>9 DEF x, y, w, Answer!Score, MaxRemaining

LEMMA ScanInvInit == ScanInit => ScanInv
BY DEF ScanInit, ScanInv

\* Scoring one row keeps the invariant, with and without the early exit.
LEMMA ScoreRowKeepsInv == ScanInv /\ ScoreRow => ScanInv'
<1> SUFFICES ASSUME ScanInv, ScoreRow PROVE ScanInv'
  OBVIOUS
<1>. DEFINE s == Answer!Score(rows, idx)
<1>1. /\ scanning /\ rows \in Answer!RowList /\ rows' = rows /\ Len(rows) \in Nat
      /\ idx \in 1 .. Len(rows)
  BY RowFacts DEF ScanInv, ScoreRow
<1>2. s \in Nat /\ \A j \in 1 .. Len(rows) : Answer!Score(rows, j) \in Nat
  BY <1>1, ScoreType
<1>3. bestScore \in Nat /\ \A j \in 1 .. idx - 1 : Answer!Score(rows, j) <= bestScore
  BY <1>1, <1>2 DEF ScanInv
<1>. HIDE DEF s
<1>4. CASE s > bestScore
  <2>1. bestScore' = s /\ bestRow' = idx
    BY <1>4 DEF ScoreRow, s
  <2>2. \A j \in 1 .. idx - 1 : Answer!Score(rows, j) < s
    BY <1>1, <1>2, <1>3, <1>4
  <2>3. idx' \in 1 .. Len(rows) + 1 /\ idx < idx'
    BY <1>1, <1>4 DEF ScoreRow, s
  <2>4. \A j \in 1 .. idx' - 1 : Answer!Score(rows, j) <= s
    <3>1. CASE s >= MaxRemaining(rows, idx)
      <4>1. \A j \in 1 .. Len(rows) : idx < j => Answer!Score(rows, j) <= s
        <5>1. ASSUME NEW j \in 1 .. Len(rows), idx < j PROVE Answer!Score(rows, j) <= s
          <6>1. Answer!Score(rows, j) <= MaxRemaining(rows, idx)
            BY <5>1, <1>1, CeilingBounds
          <6>2. MaxRemaining(rows, idx) \in Int
            BY <1>1, ScaleAssumption DEF MaxRemaining
          <6> QED BY <6>1, <6>2, <3>1, <1>2, <5>1
        <5> QED BY <5>1
      <4>2. idx' - 1 \in Nat /\ idx' - 1 <= Len(rows)
          <5>1. ASSUME NEW n \in Nat, NEW k \in 1 .. n + 1
                PROVE  k - 1 \in Nat /\ k - 1 <= n
            OBVIOUS
          <5>2. Len(rows) \in Nat /\ idx' \in 1 .. Len(rows) + 1
            BY <2>3, <1>1
          <5> QED BY <5>1, <5>2
        <4>3. \A j \in 1 .. idx' - 1 :
                j \in 1 .. Len(rows) /\ (j \in 1 .. idx - 1 \/ j = idx \/ idx < j)
          BY <4>2, <1>1
        <4>4. \A j \in 1 .. idx - 1 : Answer!Score(rows, j) <= s
          BY <2>2, <1>1, <1>2
        <4>5. Answer!Score(rows, idx) <= s
          BY <1>1, <1>2 DEF s
        <4> QED BY <4>1, <4>3, <4>4, <4>5
    <3>2. CASE ~(s >= MaxRemaining(rows, idx))
      <4>1. idx' = idx + 1
        BY <3>2, <1>4 DEF ScoreRow, s
      <4> QED BY <4>1, <2>2, <1>1, <1>2 DEF s
    <3> QED BY <3>1, <3>2
  <2>5. s > 0 /\ s = Answer!Score(rows, idx)
    BY <1>2, <1>3, <1>4 DEF s
  <2> QED BY <1>1, <2>1, <2>2, <2>3, <2>4, <2>5 DEF ScanInv
<1>5. CASE ~(s > bestScore)
  <2>1. bestScore' = bestScore /\ bestRow' = bestRow /\ idx' = idx + 1
    BY <1>5 DEF ScoreRow, s
  <2>2. \A j \in 1 .. idx' - 1 : Answer!Score(rows, j) <= bestScore
    BY <1>1, <1>2, <1>3, <1>5, <2>1 DEF s
  <2> QED BY <1>1, <2>1, <2>2 DEF ScanInv
<1> QED BY <1>4, <1>5

LEMMA ScanInvStep == ScanInv /\ [ScanNext]_scanVars => ScanInv'
<1> SUFFICES ASSUME ScanInv, [ScanNext]_scanVars PROVE ScanInv'
  OBVIOUS
<1>1. CASE Fetch
  <2>1. rows' \in Answer!RowList /\ idx' = 1 /\ bestScore' = 0 /\ bestRow' = 0
    BY <1>1 DEF Fetch
  <2>2. Len(rows') \in Nat
    <3>1. ASSUME NEW rs \in Answer!RowList PROVE Len(rs) \in Nat
      BY RowFacts
    <3> QED BY <3>1, <2>1
  <2> QED BY <2>1, <2>2 DEF ScanInv
<1>2. CASE ScoreRow
  BY <1>2, ScoreRowKeepsInv
<1>3. CASE Return
  BY <1>3 DEF Return, ScanInv
<1>4. CASE UNCHANGED scanVars
  BY <1>4 DEF ScanInv, scanVars
<1> QED BY <1>1, <1>2, <1>3, <1>4 DEF ScanNext

\* What Return answers is what the reference answers.
LEMMA ReturnIsReply == ScanInv /\ Return => Answer!Reply
<1> SUFFICES ASSUME ScanInv, Return PROVE Answer!Reply
  OBVIOUS
<1>1. /\ rows \in Answer!RowList /\ Len(rows) \in Nat /\ idx = Len(rows) + 1
      /\ \A j \in 1 .. Len(rows) : Answer!Score(rows, j) <= bestScore
  <2>1. rows \in Answer!RowList /\ idx \in 1 .. Len(rows) + 1 /\ idx > Len(rows)
    BY DEF ScanInv, Return
  <2>2. Len(rows) \in Nat
    BY <2>1, RowFacts
  <2>3. idx = Len(rows) + 1 /\ idx - 1 = Len(rows)
    BY <2>1, <2>2
  <2> QED BY <2>1, <2>2, <2>3 DEF ScanInv, Return
<1>2. \A j \in 1 .. Len(rows) : Answer!Score(rows, j) \in Nat
  BY <1>1, ScoreType
<1>3. CASE bestRow = 0
  <2>1. bestScore = 0 /\ found' = 0
    BY <1>1, <1>3 DEF ScanInv, Return
  <2>2. \A j \in 1 .. Len(rows) : ~Answer!IsFirstBest(rows, j)
    BY <1>1, <1>2, <2>1 DEF Answer!IsFirstBest
  <2>3. Answer!IsOffer(rows, 0)
    BY <2>2 DEF Answer!IsOffer
  <2> QED BY <2>1, <2>3 DEF Return, Answer!Reply
<1>4. CASE bestRow # 0
  <2>1. Answer!IsFirstBest(rows, bestRow) /\ bestScore = Answer!Score(rows, bestRow)
    BY <1>1, <1>4 DEF ScanInv, Return, Answer!IsFirstBest
  <2>2. CASE Answer!Clears(rows, bestScore)
    <3>1. found' = bestRow
      BY <1>4, <2>2 DEF Return
    <3>2. Answer!IsOffer(rows, bestRow)
      BY <2>1, <2>2 DEF Answer!IsOffer
    <3> QED BY <3>1, <3>2 DEF Return, Answer!Reply
  <2>3. CASE ~Answer!Clears(rows, bestScore)
    <3>1. found' = 0
      BY <2>3 DEF Return
    <3>2. ASSUME NEW j \in 1 .. Len(rows), Answer!IsFirstBest(rows, j)
          PROVE  ~Answer!Clears(rows, Answer!Score(rows, j))
      <4>1. Answer!Score(rows, j) = bestScore
        BY <3>2, <2>1, <1>2 DEF Answer!IsFirstBest
      <4> QED BY <4>1, <2>3
    <3>3. Answer!IsOffer(rows, 0)
      BY <3>2 DEF Answer!IsOffer
    <3> QED BY <3>1, <3>3 DEF Return, Answer!Reply
  <2> QED BY <2>2, <2>3
<1> QED BY <1>3, <1>4

\* Every step of the scan is a step of the reference or changes nothing of it.
LEMMA StepSimulates ==
    ScanInv /\ [ScanNext]_scanVars => [Answer!Next]_<<rows, scanning, found>>
<1> SUFFICES ASSUME ScanInv, [ScanNext]_scanVars
             PROVE  [Answer!Next]_<<rows, scanning, found>>
  OBVIOUS
<1>1. CASE Fetch
  BY <1>1 DEF Fetch, Answer!Next, Answer!Ask
<1>2. CASE ScoreRow
  BY <1>2 DEF ScoreRow
<1>3. CASE Return
  BY <1>3, ReturnIsReply DEF Answer!Next
<1>4. CASE UNCHANGED scanVars
  BY <1>4 DEF scanVars
<1> QED BY <1>1, <1>2, <1>3, <1>4 DEF ScanNext

\* The invariant of the scan: the best of all rows before idx is known.
THEOREM ScanInvariant == ScanSpec => []ScanInv
<1>1. ScanInit => ScanInv
  BY ScanInvInit
<1>2. ScanInv /\ [ScanNext]_scanVars => ScanInv'
  BY ScanInvStep
<1> QED BY <1>1, <1>2, PTL DEF ScanSpec

\* Refinement: a lookup answers with the first of the best rows, or with none if
\* that does not reach the threshold, as if the scan had no early exit.
THEOREM ScanAnswersFirstBest == ScanSpec => AnswersFirstBest
<1>1. ScanInit => Answer!Init
  BY DEF ScanInit, Answer!Init
<1>2. ScanInv /\ [ScanNext]_scanVars => [Answer!Next]_<<rows, scanning, found>>
  BY StepSimulates
<1> QED BY <1>1, <1>2, ScanInvariant, PTL DEF ScanSpec, AnswersFirstBest, Answer!Spec
=============================================================================
