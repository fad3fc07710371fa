---------------------------- MODULE WidgetProofs ----------------------------
(***************************************************************************)
(* Theorems about Widget, for every set of queries and paths, every        *)
(* threshold and every number of moves.                                    *)
(***************************************************************************)
EXTENDS Widget, SequenceTheorems, WellFoundedInduction, TLAPS

(***************************************************************************)
(* Suggestions.  That they are current is not inductive: an answer to the  *)
(* live request will be shown, so that request must be for the text last   *)
(* typed too.                                                              *)
(***************************************************************************)
RequestIsCurrent == suggesting # None => suggesting = typed
SuggestInv == SuggestionsAreCurrent /\ RequestIsCurrent

\* The panels other than that of Suggested never show suggestions.
LEMMA OtherPanels ==
    /\ Status.shows = "status"
    /\ RecentPanel.shows # "suggest"
    /\ Showing("searching", {}).shows = "searching"
    /\ \A items : /\ Showing("learned", items).shows = "learned"
                  /\ Showing("recent", items).shows = "recent"
                  /\ Showing("answer", items).shows = "answer"
BY DEF Status, RecentPanel, Showing

\* A query shows the saved route, a status, or what the caller says.
LEMMA AskedPanel ==
    ASSUME NEW q, NEW waiting, AskFor(q, waiting)
    PROVE  panel' = waiting \/ panel'.shows # "suggest"
BY OtherPanels DEF AskFor

LEMMA SavedPanels == ASSUME NEW s \in SavedPanel PROVE s.shows # "suggest"
BY OtherPanels DEF SavedPanel

LEMMA SuggestStep == SuggestInv /\ [Next]_vars => SuggestInv'
<1> SUFFICES ASSUME SuggestInv, [Next]_vars PROVE SuggestInv'
  OBVIOUS
<1> USE DEF SuggestInv, SuggestionsAreCurrent, RequestIsCurrent
<1>1. CASE Open
  BY <1>1, OtherPanels DEF Open, net
<1>2. CASE Close
  BY <1>2 DEF Close, net
<1>3. CASE Debounced
  BY <1>3, AskedPanel DEF Debounced
<1>4. CASE Suggested
  BY <1>4 DEF Suggested
<1>5. CASE StartVoice
  BY <1>5, OtherPanels DEF StartVoice, net
<1>6. CASE StopVoice
  BY <1>6, OtherPanels DEF StopVoice, net
<1>7. CASE Choose
  BY <1>7 DEF Choose, Navigate, net
<1>8. CASE Leap
  BY <1>8 DEF Leap, Navigate, net
<1>9. CASE Age
  BY <1>9 DEF Age, net
<1>10. CASE Load
  BY <1>10, OtherPanels DEF Load
<1>11. ASSUME NEW t \in Texts, Type(t) PROVE SuggestInv'
  BY <1>11, OtherPanels DEF Type
<1>12. ASSUME NEW q \in Queries, Heard(q) PROVE SuggestInv'
  <2>1. suggesting' = suggesting /\ typed' = typed /\ shownFor' = shownFor
    BY <1>12 DEF Heard
  <2>2. panel' = panel \/ panel'.shows # "suggest"
    BY <1>12, AskedPanel, OtherPanels DEF Heard
  <2> QED BY <2>1, <2>2
<1>13. ASSUME NEW q \in Queries, Answers(q) PROVE SuggestInv'
  <2>1. suggesting' = suggesting /\ typed' = typed /\ shownFor' = shownFor
    BY <1>13 DEF Answers, Refused, Missed, Failed, Found
  <2>2. panel' = panel \/ panel'.shows # "suggest"
    BY <1>13, OtherPanels, SavedPanels DEF Answers, Refused, Missed, Failed, Found
  <2> QED BY <2>1, <2>2
<1>14. CASE UNCHANGED vars
  BY <1>14 DEF vars, net
<1> QED
  BY <1>1, <1>2, <1>3, <1>4, <1>5, <1>6, <1>7, <1>8, <1>9, <1>10, <1>11, <1>12, <1>13, <1>14
  DEF Next

\* Suggestions on display are for the text last typed.
THEOREM SuggestionsStayCurrent == Spec => []SuggestionsAreCurrent
<1>1. Init => SuggestInv
  BY OtherPanels DEF Init, SuggestInv, SuggestionsAreCurrent, RequestIsCurrent
<1>2. SuggestInv => SuggestionsAreCurrent
  BY DEF SuggestInv
<1> QED BY <1>1, <1>2, SuggestStep, PTL DEF Spec

(***************************************************************************)
(* The debounce timer: inductive as it stands, since a palette is closed   *)
(* by close() alone, which stops it, and navigate() calls close().         *)
(***************************************************************************)
LEMMA TimerStep == TimerIsCurrent /\ [Next]_vars => TimerIsCurrent'
<1> SUFFICES ASSUME TimerIsCurrent, [Next]_vars PROVE TimerIsCurrent'
  OBVIOUS
<1> USE DEF TimerIsCurrent
<1>1. CASE Open
  BY <1>1 DEF Open
<1>2. CASE Close
  BY <1>2 DEF Close
<1>3. CASE Debounced
  BY <1>3 DEF Debounced
<1>4. CASE Suggested \/ StartVoice \/ StopVoice \/ Age
  BY <1>4 DEF Suggested, StartVoice, StopVoice, Age
<1>5. CASE Choose \/ Leap
  BY <1>5 DEF Choose, Leap, Navigate
<1>6. CASE Load
  BY <1>6 DEF Load
<1>7. ASSUME NEW t \in Texts, Type(t) PROVE TimerIsCurrent'
  BY <1>7 DEF Type
<1>8. ASSUME NEW q \in Queries, Heard(q) PROVE TimerIsCurrent'
  BY <1>8 DEF Heard
<1>9. ASSUME NEW q \in Queries, Answers(q) PROVE TimerIsCurrent'
  BY <1>9 DEF Answers, Refused, Missed, Failed, Found
<1>10. CASE UNCHANGED vars
  BY <1>10 DEF vars
<1> QED BY <1>1, <1>2, <1>3, <1>4, <1>5, <1>6, <1>7, <1>8, <1>9, <1>10 DEF Next

\* What the timer will ask is the text last typed, in an open palette.
THEOREM TimerStaysCurrent == Spec => []TimerIsCurrent
<1>1. Init => TimerIsCurrent
  BY DEF Init, TimerIsCurrent
<1> QED BY <1>1, TimerStep, PTL DEF Spec

(***************************************************************************)
(* The limited mode.                                                       *)
(***************************************************************************)
Exhausted == fails >= FailThreshold
ServiceInv ==
    /\ fails \in Nat /\ degraded \in BOOLEAN /\ banner \in BOOLEAN
    /\ (degraded => Exhausted) /\ (Exhausted => degraded)
    /\ (banner => degraded) /\ (degraded => banner)

LEMMA ServiceAgrees == ServiceInv => LimitedModeShown
<1>1. ServiceInv => (Exhausted \in BOOLEAN)
  BY DEF Exhausted
<1> QED BY <1>1, Zenon DEF ServiceInv, LimitedModeShown, Exhausted

\* What a failed request does to the count.
LEMMA Counted ==
    ASSUME fails \in Nat, fails' = IF fails < FailThreshold THEN fails + 1 ELSE fails
    PROVE  fails' \in Nat /\ (Exhausted => Exhausted')
BY WidgetAssumption DEF Exhausted

LEMMA ServiceKept == ServiceInv /\ UNCHANGED service => ServiceInv'
<1>1. UNCHANGED service => fails' = fails /\ degraded' = degraded /\ banner' = banner
  BY DEF service
<1>2. fails' = fails => Exhausted' = Exhausted
  BY DEF Exhausted
<1> QED BY <1>1, <1>2, Zenon DEF ServiceInv

LEMMA ServiceReset ==
    fails' = 0 /\ degraded' = FALSE /\ banner' = FALSE => ServiceInv'
<1>1. fails' = 0 => ~Exhausted' /\ fails' \in Nat
  BY WidgetAssumption DEF Exhausted
<1> QED BY <1>1, Zenon DEF ServiceInv

LEMMA ServiceStep == ServiceInv /\ [Next]_vars => ServiceInv'
<1> SUFFICES ASSUME ServiceInv, [Next]_vars PROVE ServiceInv'
  OBVIOUS
<1>1. CASE Open \/ Close \/ Debounced \/ Suggested \/ StartVoice \/ StopVoice \/ Age
  <2>1. UNCHANGED service
    BY <1>1, Zenon DEF Open, Close, Debounced, Suggested, StartVoice, StopVoice, Age
  <2> QED BY <2>1, ServiceKept
<1>2. CASE Choose \/ Leap
  <2>1. UNCHANGED service
    BY <1>2, Zenon DEF Choose, Leap, Navigate
  <2> QED BY <2>1, ServiceKept
<1>3. CASE Load
  BY <1>3, ServiceReset, Zenon DEF Load
<1>4. ASSUME NEW t \in Texts, Type(t) PROVE ServiceInv'
  BY <1>4, ServiceKept, Zenon DEF Type
<1>5. ASSUME NEW q \in Queries, Heard(q) PROVE ServiceInv'
  BY <1>5, ServiceKept, Zenon DEF Heard
<1>6. ASSUME NEW q \in Queries, Answers(q) PROVE ServiceInv'
  <2>1. CASE Failed(q)
    <3>1. /\ fails' = IF fails < FailThreshold THEN fails + 1 ELSE fails
          /\ degraded' = (degraded \/ fails' >= FailThreshold)
          /\ banner' = (banner \/ degraded')
      BY <2>1, Zenon DEF Failed
    <3>2. fails' \in Nat /\ (Exhausted => Exhausted')
      BY <3>1, Counted DEF ServiceInv
    <3>3. Exhausted' = (fails' >= FailThreshold)
      BY DEF Exhausted
    <3>4. Exhausted' \in BOOLEAN
      BY <3>2 DEF Exhausted
    <3>5. degraded' = (degraded \/ Exhausted')
      BY <3>1, <3>3, Zenon
    <3> QED BY <3>1, <3>2, <3>4, <3>5, Zenon DEF ServiceInv
  <2>2. CASE Reachable
    BY <2>2, ServiceReset, Zenon DEF Reachable
  <2> QED BY <1>6, <2>1, <2>2, Zenon DEF Answers, Refused, Missed, Found
<1>7. CASE UNCHANGED vars
  <2>1. UNCHANGED service
    BY <1>7, Zenon DEF vars
  <2> QED BY <2>1, ServiceKept
<1> QED BY <1>1, <1>2, <1>3, <1>4, <1>5, <1>6, <1>7, Zenon DEF Next

\* The limited mode, its banner and the count of failures agree.
THEOREM LimitedModeStaysShown == Spec => []LimitedModeShown
<1>1. Init => ServiceInv
  <2>1. fails = 0 => ~Exhausted /\ fails \in Nat
    BY WidgetAssumption DEF Exhausted
  <2> QED BY <2>1, Zenon DEF Init, ServiceInv
<1> QED BY <1>1, ServiceAgrees, ServiceStep, PTL DEF Spec

(***************************************************************************)
(* The recent pages.  What Without keeps of a sequence, prefix by prefix.  *)
(***************************************************************************)
Kept(s, path, k) ==
    {f \in [0 .. k -> Seq(Paths)] :
       /\ f[0] = <<>>
       /\ \A i \in 1 .. k : f[i] = IF s[i] = path THEN f[i - 1] ELSE Append(f[i - 1], s[i])}

\* A position of a sequence one longer is an old one or the last.
LEMMA LastOrBefore ==
    ASSUME NEW n \in Nat
    PROVE  \A c \in 1 .. n + 1 : c \in 1 .. n \/ c = n + 1
OBVIOUS

\* The least natural number of a set of them.
LEMMA LeastNat ==
    ASSUME NEW S, S \subseteq Nat, S # {}
    PROVE  \E m \in S : \A k \in S : m <= k
<1> DEFINE Less == {ss \in Nat \X Nat : ss[1] < ss[2]}
<1>1. IsWellFoundedOn(Less, Nat)
  BY NatLessThanWellFounded DEF OpToRel
<1>2. PICK m \in S : \A k \in S : <<k, m>> \notin Less
  <2> HIDE DEF Less
  <2> QED BY <1>1, WFMin
<1>3. \A k \in S : ~(k < m)
  BY <1>2
<1> QED BY <1>3

\* The recursion of Without has a solution, and so Without is its last value.
LEMMA KeptExists ==
    ASSUME NEW s \in Seq(Paths), NEW path
    PROVE  \E f \in Kept(s, path, Len(s)) : Without(s, path) = f[Len(s)]
<1> DEFINE n == Len(s)
           Bad == {k \in 0 .. n : Kept(s, path, k) = {}}
           Step(f) == [i \in 0 .. n |->
             IF i = 0 THEN <<>> ELSE IF s[i] = path THEN f[i - 1] ELSE Append(f[i - 1], s[i])]
<1>1. n \in Nat /\ \A i \in 1 .. n : s[i] \in Paths
  OBVIOUS
<1>2. Bad = {}
  <2> SUFFICES ASSUME Bad # {} PROVE FALSE
    OBVIOUS
  <2>1. PICK m \in Bad : \A k \in Bad : m <= k
    <3>1. Bad \subseteq Nat
      BY <1>1
    <3> HIDE DEF Bad
    <3> QED BY <3>1, LeastNat
  <2>2. CASE m = 0
    <3>1. [i \in 0 .. 0 |-> <<>>] \in Kept(s, path, 0)
      BY DEF Kept
    <3> QED BY <2>2, <3>1
  <2>3. CASE m # 0
    <3>1. m - 1 \in 0 .. n /\ m - 1 \notin Bad /\ m \in 1 .. n
      BY <1>1, <2>1, <2>3
    <3>2. PICK f \in [0 .. m - 1 -> Seq(Paths)] :
            /\ f[0] = <<>>
            /\ \A i \in 1 .. m - 1 : f[i] = IF s[i] = path THEN f[i - 1] ELSE Append(f[i - 1], s[i])
      BY <3>1 DEF Kept
    <3>3. PICK last \in Seq(Paths) : last = IF s[m] = path THEN f[m - 1] ELSE Append(f[m - 1], s[m])
      <4>1. f[m - 1] \in Seq(Paths) /\ s[m] \in Paths
        BY <1>1, <3>1, <3>2
      <4>2. Append(f[m - 1], s[m]) \in Seq(Paths)
        BY <4>1
      <4> QED BY <4>1, <4>2
    <3> DEFINE g == [i \in 0 .. m |-> IF i = m THEN last ELSE f[i]]
    <3>4. g \in [0 .. m -> Seq(Paths)] /\ g[0] = <<>>
      BY <3>1, <3>2, <3>3
    <3>5. ASSUME NEW i \in 1 .. m
          PROVE  g[i] = IF s[i] = path THEN g[i - 1] ELSE Append(g[i - 1], s[i])
      <4>1. CASE i = m
        BY <3>1, <3>3, <4>1
      <4>2. CASE i # m
        <5>1. i \in 1 .. m - 1 /\ g[i] = f[i] /\ g[i - 1] = f[i - 1]
          BY <3>1, <4>2
        <5> QED BY <3>2, <5>1
      <4> QED BY <4>1, <4>2
    <3>6. g \in Kept(s, path, m)
      BY <3>4, <3>5 DEF Kept
    <3> QED BY <3>6
  <2> QED BY <2>2, <2>3
<1>3. PICK f : f \in Kept(s, path, n)
  BY <1>1, <1>2
<1>4. f = Step(f)
  <2>1. f \in [0 .. n -> Seq(Paths)] /\ f[0] = <<>>
    BY <1>3 DEF Kept
  <2>2. \A i \in 1 .. n : f[i] = IF s[i] = path THEN f[i - 1] ELSE Append(f[i - 1], s[i])
    BY <1>3 DEF Kept
  <2>3. ASSUME NEW i \in 0 .. n PROVE f[i] = Step(f)[i]
    <3>1. CASE i = 0
      BY <2>1, <3>1
    <3>2. CASE i # 0
      <4>1. i \in 1 .. n
        BY <1>1, <3>2
      <4> QED BY <2>2, <3>2, <4>1
    <3> QED BY <3>1, <3>2
  <2> QED BY <2>1, <2>3
<1>5. ASSUME NEW h, h = Step(h) PROVE h \in Kept(s, path, n)
  <2>1. /\ h[0] = <<>>
        /\ \A i \in 1 .. n : h[i] = IF s[i] = path THEN h[i - 1] ELSE Append(h[i - 1], s[i])
    <3>1. \A i \in 0 .. n : h[i] = Step(h)[i]
      BY <1>5, Zenon
    <3>2. \A i \in 0 .. n : Step(h)[i] =
            IF i = 0 THEN <<>> ELSE IF s[i] = path THEN h[i - 1] ELSE Append(h[i - 1], s[i])
      OBVIOUS
    <3> HIDE DEF Step
    <3> QED BY <1>1, <3>1, <3>2
  <2> DEFINE Wrong == {i \in 0 .. n : h[i] \notin Seq(Paths)}
  <2>2. Wrong = {}
    <3> SUFFICES ASSUME Wrong # {} PROVE FALSE
      OBVIOUS
    <3>1. PICK m \in Wrong : \A k \in Wrong : m <= k
      <4>1. Wrong \subseteq Nat
        BY <1>1
      <4> HIDE DEF Wrong
      <4> QED BY <4>1, LeastNat
    <3>2. m # 0
      <4>1. <<>> \in Seq(Paths)
        OBVIOUS
      <4> QED BY <2>1, <4>1
    <3>3. m - 1 \in 0 .. n /\ m - 1 \notin Wrong /\ m \in 1 .. n
      BY <1>1, <3>1, <3>2
    <3>4. h[m - 1] \in Seq(Paths) /\ s[m] \in Paths
      BY <1>1, <3>3
    <3>5. Append(h[m - 1], s[m]) \in Seq(Paths)
      BY <3>4
    <3>6. h[m] \in Seq(Paths)
      BY <2>1, <3>3, <3>4, <3>5
    <3> QED BY <3>1, <3>6
  <2>3. DOMAIN h = 0 .. n /\ h = [i \in DOMAIN h |-> h[i]]
    BY <1>5
  <2> HIDE DEF Step
  <2> QED BY <2>1, <2>2, <2>3 DEF Kept
<1> DEFINE kept == CHOOSE h : h = Step(h)
<1>6. kept = Step(kept)
  <2> HIDE DEF Step
  <2> QED BY <1>4
<1>7. Without(s, path) = kept[n]
  BY DEF Without
<1> HIDE DEF kept, Step
<1> QED BY <1>5, <1>6, <1>7

\* Without keeps entries of the sequence, none of them the path, and repeats none
\* that the sequence does not repeat.
LEMMA WithoutKeeps ==
    ASSUME NEW s \in Seq(Paths), IsInjective(s), NEW path
    PROVE  /\ Without(s, path) \in Seq(Paths)
           /\ IsInjective(Without(s, path))
           /\ \A a \in DOMAIN Without(s, path) : Without(s, path)[a] # path
<1> DEFINE n == Len(s)
<1>1. PICK f \in Kept(s, path, n) : Without(s, path) = f[n]
  BY KeptExists
<1>2. /\ n \in Nat /\ f \in [0 .. n -> Seq(Paths)] /\ f[0] = <<>>
      /\ \A i \in 1 .. n : f[i] = IF s[i] = path THEN f[i - 1] ELSE Append(f[i - 1], s[i])
  BY DEF Kept
<1>0. n \in Nat /\ \A a, b \in 1 .. n : s[a] = s[b] => a = b
  BY DEF IsInjective
<1> HIDE DEF n
<1> DEFINE Good(i) ==
      /\ \A a \in 1 .. Len(f[i]) : \E j \in 1 .. i : f[i][a] = s[j] /\ s[j] # path
      /\ \A a, b \in 1 .. Len(f[i]) : f[i][a] = f[i][b] => a = b
    Bad == {i \in 0 .. n : ~Good(i)}
<1>3. Bad = {}
  <2> SUFFICES ASSUME Bad # {} PROVE FALSE
    OBVIOUS
  <2>1. PICK m \in Bad : \A k \in Bad : m <= k
    <3>1. Bad \subseteq Nat
      BY <1>2
    <3> HIDE DEF Bad
    <3> QED BY <3>1, LeastNat
  <2>2. m # 0
    <3>1. Good(0)
      BY <1>2
    <3> HIDE DEF Good
    <3> QED BY <2>1, <3>1
  <2>3. m \in 1 .. n /\ m - 1 \in 0 .. n /\ ~(m <= m - 1)
    BY <1>2, <2>1, <2>2
  <2>4. /\ Good(m - 1) /\ ~Good(m)
        /\ f[m - 1] \in Seq(Paths) /\ f[m] = IF s[m] = path THEN f[m - 1] ELSE Append(f[m - 1], s[m])
    <3> HIDE DEF Good
    <3> QED BY <1>2, <2>1, <2>3
  <2>5. CASE s[m] = path
    <3>1. f[m] = f[m - 1]
      BY <2>4, <2>5
    <3>2. \A a \in 1 .. Len(f[m]) : \E j \in 1 .. m - 1 : f[m][a] = s[j] /\ s[j] # path
      BY <2>4, <3>1
    <3>3. \A j \in 1 .. m - 1 : j \in 1 .. m
      BY <2>3
    <3>4. \A a \in 1 .. Len(f[m]) : \E j \in 1 .. m : f[m][a] = s[j] /\ s[j] # path
      BY <3>2, <3>3
    <3> QED BY <2>4, <3>1, <3>4
  <2>6. CASE s[m] # path
    <3>1. f[m] = Append(f[m - 1], s[m])
      BY <2>4, <2>6
    <3>2. PICK L \in Nat : L = Len(f[m - 1])
      BY <2>4
    <3>3. /\ Len(f[m]) = L + 1 /\ f[m][L + 1] = s[m]
          /\ \A a \in 1 .. L : f[m][a] = f[m - 1][a]
      BY <2>4, <3>1, <3>2
    <3>4. \A a \in 1 .. L : \E j \in 1 .. m - 1 : f[m][a] = s[j] /\ s[j] # path
      BY <2>4, <3>2, <3>3
    <3>5. \A j \in 1 .. m - 1 : s[j] # s[m]
      <4> SUFFICES ASSUME NEW j \in 1 .. m - 1, s[j] = s[m] PROVE FALSE
        OBVIOUS
      <4>1. j \in 1 .. n /\ m \in 1 .. n /\ j # m
        BY <1>0, <2>3
      <4> QED BY <1>0, <4>1
    <3>6. \A a \in 1 .. Len(f[m]) : \E j \in 1 .. m : f[m][a] = s[j] /\ s[j] # path
      <4> SUFFICES ASSUME NEW a \in 1 .. L + 1
                   PROVE  \E j \in 1 .. m : f[m][a] = s[j] /\ s[j] # path
        BY <3>3
      <4>1. CASE a = L + 1
        BY <2>3, <2>6, <3>3, <4>1
      <4>2. CASE a # L + 1
        <5>1. a \in 1 .. L
          BY <3>2, <4>2
        <5>2. PICK j \in 1 .. m - 1 : f[m][a] = s[j] /\ s[j] # path
          BY <3>4, <5>1
        <5>3. j \in 1 .. m
          BY <2>3
        <5> QED BY <5>2, <5>3
      <4> QED BY <4>1, <4>2
    <3>7. \A a, b \in 1 .. Len(f[m]) : f[m][a] = f[m][b] => a = b
      <4> SUFFICES ASSUME NEW a \in 1 .. L + 1, NEW b \in 1 .. L + 1, f[m][a] = f[m][b]
                   PROVE  a = b
        BY <3>3
      <4>1. CASE a \in 1 .. L /\ b \in 1 .. L
        BY <2>4, <3>2, <3>3, <4>1
      <4>2. CASE a = L + 1 /\ b \in 1 .. L
        BY <3>3, <3>4, <3>5, <4>2
      <4>3. CASE a \in 1 .. L /\ b = L + 1
        BY <3>3, <3>4, <3>5, <4>3
      <4>4. CASE a = L + 1 /\ b = L + 1
        BY <4>4
      <4>5. \A c \in 1 .. L + 1 : c \in 1 .. L \/ c = L + 1
        BY LastOrBefore
      <4> QED BY <4>1, <4>2, <4>3, <4>4, <4>5
    <3> QED BY <2>4, <3>6, <3>7
  <2> QED BY <2>5, <2>6
<1>4. Good(n) /\ f[n] \in Seq(Paths)
  <2> HIDE DEF Good
  <2>1. n \in 0 .. n
    BY <1>2
  <2> QED BY <1>2, <1>3, <2>1
<1>5. DOMAIN f[n] = 1 .. Len(f[n])
  BY <1>4
<1> QED BY <1>1, <1>4, <1>5 DEF IsInjective

\* The list stays within its length, without a page twice.
RecentOK(s) == s \in Seq(Paths) /\ Len(s) <= MaxRecent /\ IsInjective(s)

LEMMA RecentKept ==
    ASSUME RecentOK(recent), NEW path \in Paths
    PROVE  RecentOK(RecordRecent(path))
<1> DEFINE rest == Without(recent, path)
           moved == <<path>> \o rest
           m == IF Len(moved) < MaxRecent THEN Len(moved) ELSE MaxRecent
<1>1. rest \in Seq(Paths) /\ IsInjective(rest) /\ \A a \in DOMAIN rest : rest[a] # path
  BY WithoutKeeps DEF RecentOK
<1> HIDE DEF rest
<1>2. /\ moved \in Seq(Paths) /\ Len(moved) = Len(rest) + 1 /\ moved[1] = path
      /\ \A i \in 2 .. Len(moved) : moved[i] = rest[i - 1]
  BY <1>1
<1>3. \A i, j \in 1 .. Len(moved) : moved[i] = moved[j] => i = j
  BY <1>1, <1>2 DEF IsInjective
<1> HIDE DEF moved
<1>4. m \in 0 .. Len(moved) /\ m <= MaxRecent
  BY <1>2, WidgetAssumption
<1> HIDE DEF m
<1> DEFINE cut == SubSeq(moved, 1, m)
<1>5. /\ cut \in Seq(Paths) /\ Len(cut) = m /\ DOMAIN cut = 1 .. m
      /\ \A i \in 1 .. m : cut[i] = moved[i]
  BY <1>2, <1>4
<1>6. RecordRecent(path) = cut
  BY DEF RecordRecent, m, moved, rest
<1> HIDE DEF cut
<1>7. IsInjective(cut)
  BY <1>2, <1>3, <1>4, <1>5 DEF IsInjective
<1> QED BY <1>4, <1>5, <1>6, <1>7 DEF RecentOK

(***************************************************************************)
(* Types.                                                                  *)
(***************************************************************************)
AnyScore == Scores \cup {NoScore, 50, 100}
Entry == [path : Paths, score : AnyScore, old : BOOLEAN]
LearnedOK(map) == map \in [Texts -> Entry \cup {None}]

TypeInv ==
    /\ LearnedOK(learned) /\ RecentOK(recent)
    /\ input \in Texts /\ typed \in Texts
    /\ panel.items \subseteq Item /\ leaps \subseteq Item
    /\ debounce \in Queries \cup {None} /\ suggesting \in Queries \cup {None}
    /\ going \in Safe \cup {None} /\ fails \in 0 .. FailThreshold

LEMMA PanelItems ==
    /\ Status.items = {} /\ Status.shows = "status"
    /\ \A kind, items : Showing(kind, items).items = items /\ Showing(kind, items).shows = kind
BY DEF Status, Showing

LEMMA EntryOf ==
    ASSUME LearnedOK(learned), NEW t \in Texts, learned[t] # None
    PROVE  /\ learned[t] \in Entry
           /\ [path |-> learned[t].path, score |-> learned[t].score] \in Item
<1>1. learned[t] \in Entry
  BY DEF LearnedOK
<1> QED BY <1>1 DEF Entry, Item, AnyScore

LEMMA RecentItems ==
    ASSUME RecentOK(recent), NEW sc \in AnyScore
    PROVE  {[path |-> p, score |-> sc] : p \in ToSet(recent)} \subseteq Item
<1>1. ToSet(recent) \subseteq Paths
  BY DEF ToSet, RecentOK
<1> QED BY <1>1 DEF Item, AnyScore

LEMMA RecentPanelTyped == RecentOK(recent) => RecentPanel.items \subseteq Item
<1> SUFFICES ASSUME RecentOK(recent) PROVE RecentPanel.items \subseteq Item
  OBVIOUS
<1>1. 100 \in AnyScore
  BY DEF AnyScore
<1> QED BY <1>1, RecentItems, PanelItems DEF RecentPanel

LEMMA SavedPanelTyped ==
    ASSUME LearnedOK(learned), RecentOK(recent), NEW s \in SavedPanel
    PROVE  s.items \subseteq Item
<1>1. 50 \in AnyScore
  BY DEF AnyScore
<1>2. CASE s = IF recent = <<>> THEN Status
               ELSE Showing("recent", {[path |-> p, score |-> 50] : p \in ToSet(recent)})
  BY <1>1, <1>2, RecentItems, PanelItems
<1>3. ASSUME NEW es \in SUBSET {learned[t] : t \in {u \in Texts : Known(u)}},
             s = Showing("learned", {[path |-> e.path, score |-> e.score] : e \in es})
      PROVE  s.items \subseteq Item
  <2>1. ASSUME NEW e \in es PROVE [path |-> e.path, score |-> e.score] \in Item
    <3>1. PICK t \in Texts : Known(t) /\ e = learned[t]
      OBVIOUS
    <3> QED BY <3>1, EntryOf DEF Known
  <2> QED BY <1>3, <2>1, PanelItems
<1> QED BY <1>2, <1>3 DEF SavedPanel

LEMMA LearnTyped ==
    ASSUME NEW map, LearnedOK(map), NEW t \in Texts, NEW item \in Item
    PROVE  LearnedOK(LearnPath(map, t, item.path, item.score))
<1>1. item.path \in Paths /\ item.score \in AnyScore
  BY DEF Item, AnyScore
<1>2. [path |-> item.path, score |-> item.score, old |-> FALSE] \in Entry
  BY <1>1 DEF Entry
<1> QED BY <1>2 DEF LearnPath, LearnedOK

LEMMA AskTyped ==
    ASSUME TypeInv, NEW q \in Queries, NEW waiting, waiting.items \subseteq Item, AskFor(q, waiting)
    PROVE  LearnedOK(learned') /\ panel'.items \subseteq Item /\ leaps' \subseteq Item
<1>1. q \in Texts
  BY DEF Texts
<1>2. CASE Known(q)
  <2> DEFINE item == [path |-> learned[q].path, score |-> learned[q].score]
  <2>1. item \in Item /\ [item EXCEPT !.score = NoScore] \in Item
    <3>1. item \in Item
      BY <1>1, <1>2, EntryOf DEF TypeInv, Known
    <3> QED BY <3>1 DEF Item
  <2>2. learned' = learned
    BY <1>2 DEF AskFor
  <2>3. \/ panel' = Status /\ leaps' = leaps \cup {[item EXCEPT !.score = NoScore]}
        \/ panel' = Showing("learned", {item}) /\ leaps' = leaps
    BY <1>2 DEF AskFor
  <2> HIDE DEF item
  <2> QED BY <2>1, <2>2, <2>3, PanelItems DEF TypeInv
<1>3. CASE ~Known(q)
  <2>1. learned' = [learned EXCEPT ![q] = None] /\ panel' = waiting /\ leaps' = leaps
    BY <1>3 DEF AskFor
  <2> QED BY <1>1, <2>1 DEF TypeInv, LearnedOK
<1> QED BY <1>2, <1>3

LEMMA NavigateTyped ==
    ASSUME TypeInv, NEW item \in Item, Navigate(item), leaps' \subseteq leaps
    PROVE  TypeInv'
<1>1. item.path \in Paths
  BY DEF Item
<1>2. RecentOK(recent')
  BY <1>1, RecentKept DEF Navigate, TypeInv
<1>3. LearnedOK(learned')
  BY LearnTyped DEF Navigate, TypeInv
<1>4. /\ UNCHANGED <<input, typed, panel, suggesting, fails>>
      /\ debounce' \in {debounce, None} /\ going' \in {going} \cup Safe
  BY <1>1 DEF Navigate, net, service
<1> QED BY <1>2, <1>3, <1>4 DEF TypeInv

LEMMA TypeStep == TypeInv /\ [Next]_vars => TypeInv'
<1> SUFFICES ASSUME TypeInv, [Next]_vars PROVE TypeInv'
  OBVIOUS
<1> USE DEF stored, net, service
<1>0. Queries \subseteq Texts /\ Empty \in Texts
  BY DEF Texts
<1>1. CASE Open
  <2>1. /\ input' = Empty /\ panel' = RecentPanel
        /\ UNCHANGED <<stored, typed, leaps, debounce, suggesting, going, fails>>
    BY <1>1 DEF Open
  <2> QED BY <1>0, <2>1, RecentPanelTyped DEF TypeInv
<1>2. CASE Close
  BY <1>2 DEF Close, TypeInv
<1>3. CASE Debounced
  <2>1. /\ LearnedOK(learned') /\ panel'.items \subseteq Item /\ leaps' \subseteq Item
    BY <1>3, AskTyped DEF Debounced, TypeInv
  <2> QED BY <1>3, <2>1 DEF Debounced, TypeInv
<1>4. CASE Suggested
  <2>1. \A p \in Paths : [path |-> p, score |-> 50] \in Item
    BY DEF Item
  <2>2. panel'.items \subseteq Item
    <3>1. CASE panel' = panel
      BY <3>1 DEF TypeInv
    <3>2. ASSUME NEW p \in Paths, panel' = Showing("suggest", {[path |-> p, score |-> 50]})
          PROVE  panel'.items \subseteq Item
      BY <2>1, <3>2, PanelItems
    <3> QED BY <1>4, <3>1, <3>2 DEF Suggested
  <2> QED BY <1>4, <2>2 DEF Suggested, TypeInv
<1>5. CASE StartVoice \/ StopVoice
  <2>1. panel'.items \subseteq Item
    BY <1>5, PanelItems DEF StartVoice, StopVoice, TypeInv
  <2> QED BY <1>5, <2>1 DEF StartVoice, StopVoice, TypeInv
<1>6. CASE Choose
  <2>1. PICK item \in panel.items : Navigate(item)
    BY <1>6 DEF Choose
  <2> QED BY <1>6, <2>1, NavigateTyped DEF Choose, TypeInv
<1>7. CASE Leap
  <2>1. PICK item \in leaps : leaps' = leaps \ {item} /\ Navigate(item)
    BY <1>7 DEF Leap
  <2> QED BY <2>1, NavigateTyped DEF TypeInv
<1>8. CASE Age
  <2>1. PICK t \in Texts : Known(t) /\ learned' = [learned EXCEPT ![t].old = TRUE]
    BY <1>8 DEF Age
  <2>2. learned[t] \in Entry
    BY <2>1, EntryOf DEF Known, TypeInv
  <2>3. [learned[t] EXCEPT !.old = TRUE] \in Entry
    BY <2>2 DEF Entry
  <2>4. LearnedOK(learned')
    BY <2>1, <2>3 DEF LearnedOK, TypeInv
  <2> QED BY <1>8, <2>4 DEF Age, TypeInv
<1>9. CASE Load
  <2>1. LearnedOK(learned') /\ RecentOK(recent')
    <3>1. PICK bumped \in BOOLEAN :
            /\ learned' = IF bumped THEN [t \in Texts |-> None] ELSE learned
            /\ recent' = IF bumped THEN <<>> ELSE recent
      BY <1>9 DEF Load
    <3>2. LearnedOK([t \in Texts |-> None])
      BY DEF LearnedOK
    <3>3. RecentOK(<<>>)
      BY WidgetAssumption DEF RecentOK, IsInjective
    <3> QED BY <3>1, <3>2, <3>3 DEF TypeInv
  <2>2. fails' \in 0 .. FailThreshold
    BY <1>9, WidgetAssumption DEF Load
  <2> QED BY <1>0, <1>9, <2>1, <2>2, PanelItems DEF Load, TypeInv
<1>10. ASSUME NEW t \in Texts, Type(t) PROVE TypeInv'
  <2>1. panel'.items \subseteq Item
    BY <1>10, PanelItems, RecentPanelTyped DEF Type, TypeInv
  <2> QED BY <1>10, <2>1 DEF Type, TypeInv
<1>11. ASSUME NEW q \in Queries, Heard(q) PROVE TypeInv'
  <2>1. /\ input' = q /\ debounce' \in {debounce, None}
        /\ UNCHANGED <<recent, suggesting, service, going, typed>>
    BY <1>11 DEF Heard
  <2>2. CASE UNCHANGED <<learned, panel, leaps>>
    BY <1>0, <2>1, <2>2 DEF TypeInv
  <2>3. CASE AskFor(q, Status)
    <3>1. LearnedOK(learned') /\ panel'.items \subseteq Item /\ leaps' \subseteq Item
      <4>1. Status.items \subseteq Item
        BY PanelItems
      <4> QED BY <2>3, <4>1, AskTyped
    <3> QED BY <1>0, <2>1, <3>1 DEF TypeInv
  <2> QED BY <1>11, <2>2, <2>3 DEF Heard
<1>12. ASSUME NEW q \in Queries, Refused(q) \/ Missed(q) PROVE TypeInv'
  <2>1. /\ panel' \in {Status, panel} /\ fails' = 0
        /\ UNCHANGED <<learned, recent, input, typed, leaps, debounce, suggesting, going>>
    BY <1>12 DEF Refused, Missed, Reachable
  <2> QED BY <2>1, PanelItems, WidgetAssumption DEF TypeInv
<1>13. ASSUME NEW q \in Queries, Failed(q) PROVE TypeInv'
  <2>1. /\ fails' = IF fails < FailThreshold THEN fails + 1 ELSE fails
        /\ panel' \in SavedPanel \/ panel' = Status
        /\ UNCHANGED <<learned, recent, input, typed, leaps, debounce, suggesting, going>>
    BY <1>13 DEF Failed
  <2>2. fails' \in 0 .. FailThreshold
    BY <2>1, WidgetAssumption DEF TypeInv
  <2>3. panel'.items \subseteq Item
    BY <2>1, SavedPanelTyped, PanelItems DEF TypeInv
  <2> QED BY <2>1, <2>2, <2>3 DEF TypeInv
<1>14. ASSUME NEW q \in Queries, NEW p \in Paths, NEW s \in Scores,
              Found(q, [path |-> p, score |-> s])
       PROVE  TypeInv'
  <2> DEFINE item == [path |-> p, score |-> s]
  <2>1. item \in Item
    BY DEF Item
  <2> HIDE DEF item
  <2>2. Found(q, item)
    BY <1>14 DEF item
  <2>3. /\ fails' = 0 /\ UNCHANGED <<recent, input, typed, debounce, suggesting, going>>
        /\ \/ /\ learned' = LearnPath(learned, q, item.path, item.score)
              /\ panel' = Status /\ leaps' = leaps \cup {item}
           \/ panel' = Showing("answer", {item}) /\ UNCHANGED <<learned, leaps>>
    BY <2>2 DEF Found, Reachable
  <2>4. LearnedOK(learned') /\ panel'.items \subseteq Item /\ leaps' \subseteq Item
    BY <1>0, <2>1, <2>3, LearnTyped, PanelItems DEF TypeInv
  <2> QED BY <2>3, <2>4, WidgetAssumption DEF TypeInv
<1>15. CASE UNCHANGED vars
  BY <1>15 DEF vars, TypeInv
<1> QED
  BY <1>1, <1>2, <1>3, <1>4, <1>5, <1>6, <1>7, <1>8, <1>9, <1>10, <1>11, <1>12, <1>13, <1>14, <1>15
  DEF Next, Answers

LEMMA TypeInit == Init => TypeInv
<1> SUFFICES ASSUME Init PROVE TypeInv
  OBVIOUS
<1>1. LearnedOK(learned)
  <2>1. PICK q \in Queries, p \in Paths, s \in Scores, known \in BOOLEAN :
          learned = [t \in Texts |-> IF known /\ t = q /\ s >= LearnThreshold
                                     THEN [path |-> p, score |-> s, old |-> FALSE] ELSE None]
    BY DEF Init
  <2>2. [path |-> p, score |-> s, old |-> FALSE] \in Entry
    BY DEF Entry, AnyScore
  <2> QED BY <2>1, <2>2 DEF LearnedOK
<1>2. RecentOK(recent)
  <2>1. recent = <<>> \/ \E p \in Paths : recent = <<p>>
    BY DEF Init
  <2>2. RecentOK(<<>>)
    BY WidgetAssumption DEF RecentOK, IsInjective
  <2>3. ASSUME NEW p \in Paths PROVE RecentOK(<<p>>)
    BY WidgetAssumption DEF RecentOK, IsInjective
  <2> QED BY <2>1, <2>2, <2>3
<1>3. fails \in 0 .. FailThreshold
  BY WidgetAssumption DEF Init
<1> QED BY <1>1, <1>2, <1>3, PanelItems DEF Init, TypeInv, Texts

\* What is stored, displayed and pending is well formed: learned routes and items
\* lead to pages, and the recent pages are few and distinct.
THEOREM WidgetTypes == Spec => []TypeOK
<1>1. TypeInv => TypeOK
  <2> SUFFICES ASSUME TypeInv PROVE TypeOK
    OBVIOUS
  <2>1. \A t \in Texts : learned[t] # None => learned[t].path \in Paths
    BY EntryOf DEF TypeInv, Entry
  <2> QED BY <2>1 DEF TypeInv, TypeOK, RecentOK
<1> QED BY <1>1, TypeInit, TypeStep, PTL DEF Spec

(***************************************************************************)
(* A search that is announced is under way.  The panel that announces it   *)
(* lists nothing, so that a MISS ends it as well.                          *)
(***************************************************************************)
Announced == panel.shows = "searching"
UnderWay == debounce # None \/ \E q \in Queries : calls[q] > 0
SearchInv ==
    /\ calls \in [Queries -> Nat] /\ debounce \in Queries \cup {None}
    /\ Announced => panel.items = {}
    /\ isOpen /\ Announced => UnderWay

LEMMA OtherKinds ==
    /\ Status.shows # "searching" /\ RecentPanel.shows # "searching"
    /\ \A items : /\ Showing("learned", items).shows # "searching"
                  /\ Showing("recent", items).shows # "searching"
                  /\ Showing("answer", items).shows # "searching"
                  /\ Showing("suggest", items).shows # "searching"
BY DEF Status, RecentPanel, Showing

LEMMA SavedKinds == ASSUME NEW s \in SavedPanel PROVE s.shows # "searching"
BY OtherKinds DEF SavedPanel

\* Asking starts a request, unless the answer is saved and shown or followed.
LEMMA AskServes ==
    ASSUME NEW q \in Queries, NEW waiting, calls \in [Queries -> Nat], AskFor(q, waiting)
    PROVE  /\ calls' \in [Queries -> Nat]
           /\ \/ panel'.shows # "searching"
              \/ panel' = waiting /\ calls'[q] > 0
<1>1. CASE Known(q)
  BY <1>1, OtherKinds DEF AskFor
<1>2. CASE ~Known(q)
  BY <1>2 DEF AskFor
<1> QED BY <1>1, <1>2

LEMMA SearchStep == SearchInv /\ [Next]_vars => SearchInv'
<1> SUFFICES ASSUME SearchInv, [Next]_vars PROVE SearchInv'
  OBVIOUS
<1> USE DEF SearchInv, Announced, UnderWay, net
<1>1. CASE Open \/ Close \/ StartVoice \/ StopVoice \/ Age
  BY <1>1, OtherKinds DEF Open, Close, StartVoice, StopVoice, Age
<1>2. CASE Debounced
  <2>1. PICK q \in Queries : q = debounce
    BY <1>2 DEF Debounced
  <2>2. /\ debounce' = None /\ isOpen' = isOpen /\ calls' \in [Queries -> Nat]
        /\ panel'.shows # "searching" \/ (panel' = panel /\ calls'[q] > 0)
    BY <1>2, <2>1, AskServes DEF Debounced
  <2> QED BY <2>2
<1>3. CASE Suggested
  <2>1. panel' = panel \/ panel'.shows # "searching"
    BY <1>3, OtherKinds DEF Suggested
  <2> QED BY <1>3, <2>1 DEF Suggested
<1>4. CASE Choose \/ Leap
  <2>1. /\ isOpen' = FALSE /\ panel' = panel /\ calls' = calls
        /\ debounce' \in {debounce, None}
    BY <1>4 DEF Choose, Leap, Navigate
  <2> QED BY <2>1
<1>5. CASE Load
  BY <1>5, OtherKinds DEF Load
<1>6. ASSUME NEW t \in Texts, Type(t) PROVE SearchInv'
  <2>1. CASE t \in Queries
    BY <1>6, <2>1, WidgetAssumption, PanelItems DEF Type
  <2>2. CASE t \notin Queries
    <3>1. panel'.shows # "searching" /\ debounce' = None /\ calls' = calls
      BY <1>6, <2>2, OtherKinds DEF Type, Texts
    <3> QED BY <3>1
  <2> QED BY <2>1, <2>2
<1>7. ASSUME NEW q \in Queries, Heard(q) PROVE SearchInv'
  <2>1. isOpen' = isOpen
    BY <1>7 DEF Heard
  <2>2. CASE UNCHANGED <<panel, debounce, calls>>
    BY <2>1, <2>2
  <2>3. CASE debounce' = None /\ AskFor(q, Status)
    BY <2>3, AskServes, OtherKinds
  <2> QED BY <1>7, <2>2, <2>3 DEF Heard
<1>8. ASSUME NEW q \in Queries, Answers(q) PROVE SearchInv'
  <2>1. /\ calls' = [calls EXCEPT ![q] = @ - 1] /\ calls[q] > 0 /\ debounce' = debounce
    BY <1>8 DEF Answers, Refused, Missed, Failed, Found, Returns
  <2>2. calls' \in [Queries -> Nat]
    BY <2>1
  <2>3. panel'.shows # "searching"
    <3>1. CASE Missed(q)
      BY <3>1, OtherKinds DEF Missed
    <3>2. CASE Refused(q) \/ Failed(q)
      BY <3>2, OtherKinds, SavedKinds DEF Refused, Failed
    <3>3. CASE \E p \in Paths, s \in Scores : Found(q, [path |-> p, score |-> s])
      BY <3>3, OtherKinds DEF Found
    <3> QED BY <1>8, <3>1, <3>2, <3>3 DEF Answers
  <2> QED BY <2>1, <2>2, <2>3
<1>9. CASE UNCHANGED vars
  BY <1>9 DEF vars
<1> QED BY <1>1, <1>2, <1>3, <1>4, <1>5, <1>6, <1>7, <1>8, <1>9 DEF Next

\* A palette that says "searching" has a timer or a request that will end it.
THEOREM SearchIsAlwaysServed == Spec => []SearchIsServed
<1>1. Init => SearchInv
  BY OtherKinds DEF Init, SearchInv, Announced, UnderWay
<1>2. SearchInv => SearchIsServed
  BY DEF SearchInv, SearchIsServed, Announced, UnderWay
<1> QED BY <1>1, <1>2, SearchStep, PTL DEF Spec
=============================================================================
