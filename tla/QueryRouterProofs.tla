------------------------- MODULE QueryRouterProofs -------------------------
(***************************************************************************)
(* Theorems about QueryRouter, for every set of pages, every threshold,    *)
(* boost and range of scores, and every number of candidates.              *)
(***************************************************************************)
EXTENDS QueryRouter, HotPathScanProofs, FiniteSetTheorems, FunctionTheorems

(***************************************************************************)
(* The registry.  Whatever else the router does, to the scan it looks like *)
(* a lookup or nothing.                                                    *)
(***************************************************************************)
LEMMA RouterScans == [Next]_vars => [ScanNext]_scanVars
<1> SUFFICES ASSUME [Next]_vars PROVE [ScanNext]_scanVars
  OBVIOUS
<1>1. CASE Query \/ LookupCore
  BY <1>1 DEF Query, LookupCore, ScanNext
<1>2. CASE Scan
  BY <1>2 DEF Scan, ScanNext
<1>3. CASE HotPathHit \/ Search \/ RerankSkipped \/ Rerank \/ Keywords
  BY <1>3 DEF HotPathHit, Search, RerankSkipped, Rerank, Keywords
<1>4. CASE WeakCandidate \/ Redirect \/ Log \/ LogFail \/ UNCHANGED vars
  BY <1>4 DEF WeakCandidate, Redirect, Log, LogFail, vars
<1> QED BY <1>1, <1>2, <1>3, <1>4 DEF Next

LEMMA RouterIsScan == Spec => ScanSpec
<1>1. Init => ScanInit
  BY DEF Init
<1> QED BY <1>1, RouterScans, PTL DEF Spec, ScanSpec

\* Both lookups of a query answer as if they had scored every row.
THEOREM RoutingAnswersFirstBest == Spec => AnswersFirstBest
BY RouterIsScan, ScanAnswersFirstBest

(***************************************************************************)
(* Sorting.  A list of n scores has exactly one entry for each place.      *)
(***************************************************************************)
Ahead(s, i, j) == s[i] > s[j] \/ (s[i] = s[j] /\ i < j)
PlaceOf(s, n, i) == Cardinality({j \in 1 .. n : Ahead(s, j, i)}) + 1

LEMMA AheadSets ==
    ASSUME NEW n \in Nat, NEW s \in [1 .. n -> Int], NEW i \in 1 .. n
    PROVE  /\ IsFiniteSet({j \in 1 .. n : Ahead(s, j, i)})
           /\ Cardinality({j \in 1 .. n : Ahead(s, j, i)}) \in 0 .. n - 1
<1> DEFINE A == {j \in 1 .. n : Ahead(s, j, i)}
           T == (1 .. n) \ {i}
<1>1. IsFiniteSet(1 .. n) /\ Cardinality(1 .. n) = n
  BY FS_Interval
<1>2. IsFiniteSet(T) /\ Cardinality(T) = n - 1
  BY <1>1, FS_RemoveElement
<1>3. A \in SUBSET T
  BY DEF Ahead
<1> HIDE DEF A, T
<1>4. IsFiniteSet(A) /\ Cardinality(A) <= n - 1 /\ Cardinality(A) \in Nat
  BY <1>2, <1>3, FS_Subset, FS_CardinalityType
<1>5. IsFiniteSet(A) /\ Cardinality(A) \in 0 .. n - 1
  BY <1>4
<1> QED BY <1>5 DEF A

LEMMA PlacesGrow ==
    ASSUME NEW n \in Nat, NEW s \in [1 .. n -> Int], NEW i \in 1 .. n, NEW k \in 1 .. n, Ahead(s, i, k)
    PROVE  PlaceOf(s, n, i) < PlaceOf(s, n, k)
<1> DEFINE A(x) == {j \in 1 .. n : Ahead(s, j, x)}
<1>1. IsFiniteSet(A(i)) /\ Cardinality(A(i)) \in Nat /\ IsFiniteSet(A(k)) /\ Cardinality(A(k)) \in Nat
  BY AheadSets
<1>2. A(i) \in SUBSET A(k)
  BY DEF Ahead
<1>3. i \in A(k) /\ i \notin A(i)
  BY DEF Ahead
<1>4. PlaceOf(s, n, i) = Cardinality(A(i)) + 1 /\ PlaceOf(s, n, k) = Cardinality(A(k)) + 1
  BY DEF PlaceOf
<1>5. A(i) # A(k)
  BY <1>3
<1> HIDE DEF A
<1>6. Cardinality(A(i)) <= Cardinality(A(k)) /\ Cardinality(A(i)) # Cardinality(A(k))
  BY <1>1, <1>2, <1>5, FS_Subset
<1> QED BY <1>1, <1>4, <1>6

LEMMA PlacesTaken ==
    ASSUME NEW n \in Nat, NEW s \in [1 .. n -> Int], NEW k \in 1 .. n
    PROVE  \E i \in 1 .. n : PlaceOf(s, n, i) = k
<1> DEFINE f == [i \in 1 .. n |-> PlaceOf(s, n, i)]
<1>1. ASSUME NEW i \in 1 .. n PROVE PlaceOf(s, n, i) \in 1 .. n
  <2>1. PICK c \in 0 .. n - 1 : c = Cardinality({j \in 1 .. n : Ahead(s, j, i)})
    BY AheadSets
  <2>2. PlaceOf(s, n, i) = c + 1
    BY <2>1 DEF PlaceOf
  <2> QED BY <2>2
<1>2. f \in [1 .. n -> 1 .. n]
  BY <1>1
<1>3. ASSUME NEW i \in 1 .. n, NEW j \in 1 .. n, i # j PROVE f[i] # f[j]
  <2>1. Ahead(s, i, j) \/ Ahead(s, j, i)
    BY <1>3 DEF Ahead
  <2>2. f[i] \in Int /\ f[j] \in Int
    BY <1>1
  <2> QED BY <2>1, <2>2, PlacesGrow
<1> HIDE DEF f
<1>4. f \in Injection(1 .. n, 1 .. n)
  BY <1>2, <1>3, Fun_IsInj
<1>5. f \in Surjection(1 .. n, 1 .. n)
  BY <1>4, FS_Interval, FS_Injection
<1>6. \E i \in 1 .. n : f[i] = k
  BY <1>5 DEF Surjection
<1> QED BY <1>6 DEF f

\* The first place is taken by the first of the maxima.
LEMMA FirstPlace ==
    ASSUME NEW n \in Nat, NEW s \in [1 .. n -> Int], NEW i \in 1 .. n, PlaceOf(s, n, i) = 1
    PROVE  \A j \in 1 .. n : s[j] <= s[i] /\ (j < i => s[j] < s[i])
<1>1. IsFiniteSet({j \in 1 .. n : Ahead(s, j, i)}) /\ Cardinality({j \in 1 .. n : Ahead(s, j, i)}) = 0
  <2>1. PICK c \in 0 .. n - 1 : c = Cardinality({j \in 1 .. n : Ahead(s, j, i)})
    BY AheadSets
  <2>2. c + 1 = 1
    BY <2>1 DEF PlaceOf
  <2> QED BY <2>1, <2>2, AheadSets
<1>2. {j \in 1 .. n : Ahead(s, j, i)} = {}
  BY <1>1, FS_EmptySet
<1>3. \A j \in 1 .. n : ~Ahead(s, j, i)
  BY <1>2
<1> QED BY <1>3 DEF Ahead

\* Candidates whose scores may be any integers, as the cross-encoder's are.
Scored == [page : Pages, score : Int, near : BOOLEAN]
ScoredList == UNION {[1 .. n -> Scored] : n \in Nat}

\* A sorted list holds entries of the list it sorts, and begins with the first
\* of the best.
LEMMA Sorted ==
    ASSUME NEW n \in Nat, NEW cs \in [1 .. n -> Scored]
    PROVE  /\ ByScore(cs) \in [1 .. n -> Scored]
           /\ \A k \in 1 .. n : \E i \in 1 .. n : ByScore(cs)[k] = cs[i]
           /\ n > 0 => \E i \in 1 .. n : FirstBest(cs, i) /\ ByScore(cs)[1] = cs[i]
<1> DEFINE s == [i \in 1 .. n |-> cs[i].score]
           Raw(i) == {j \in DOMAIN cs : \/ cs[j].score > cs[i].score
                                        \/ cs[j].score = cs[i].score /\ j < i}
           at1(k) == CHOOSE i \in DOMAIN cs : Cardinality(Raw(i)) + 1 = k
<1>1. DOMAIN cs = 1 .. n /\ s \in [1 .. n -> Int]
  BY DEF Scored
<1>2. ASSUME NEW i \in 1 .. n PROVE Raw(i) = {j \in 1 .. n : Ahead(s, j, i)}
  BY <1>1 DEF Ahead
<1>3. ASSUME NEW k \in 1 .. n PROVE at1(k) \in 1 .. n /\ PlaceOf(s, n, at1(k)) = k
  <2> HIDE DEF Raw, s
  <2>1. PICK i \in 1 .. n : PlaceOf(s, n, i) = k
    BY <1>1, PlacesTaken
  <2>2. Cardinality(Raw(i)) + 1 = k
    BY <1>2, <2>1 DEF PlaceOf
  <2>3. at1(k) \in 1 .. n /\ Cardinality(Raw(at1(k))) + 1 = k
    BY <1>1, <2>2
  <2> HIDE DEF at1
  <2> QED BY <1>2, <2>3 DEF PlaceOf
<1>4. ByScore(cs) = [k \in 1 .. n |-> cs[at1(k)]]
  BY <1>1 DEF ByScore
<1> HIDE DEF at1, Raw
<1>5. ByScore(cs) \in [1 .. n -> Scored]
  BY <1>3, <1>4
<1>6. ASSUME NEW k \in 1 .. n PROVE \E i \in 1 .. n : ByScore(cs)[k] = cs[i]
  BY <1>3, <1>4
<1>7. ASSUME n > 0 PROVE \E i \in 1 .. n : FirstBest(cs, i) /\ ByScore(cs)[1] = cs[i]
  <2>1. 1 \in 1 .. n
    BY <1>7
  <2>2. PICK i \in 1 .. n : i = at1(1) /\ PlaceOf(s, n, i) = 1
    BY <1>3, <2>1
  <2> HIDE DEF s
  <2>3. \A j \in 1 .. n : s[j] <= s[i] /\ (j < i => s[j] < s[i])
    BY <1>1, <2>2, FirstPlace
  <2>4. \A j \in 1 .. n : s[j] = cs[j].score
    BY DEF s
  <2>5. FirstBest(cs, i)
    BY <1>1, <2>3, <2>4 DEF FirstBest
  <2>6. ByScore(cs)[1] = cs[i]
    BY <1>4, <2>1, <2>2
  <2> QED BY <2>5, <2>6
<1> QED BY <1>5, <1>6, <1>7

\* Boosting keeps every page, and every score outside the user's section.
LEMMA Boosts ==
    ASSUME NEW n \in Nat, NEW cs \in [1 .. n -> Candidate]
    PROVE  /\ BoostAll(cs) \in [1 .. n -> Scored]
           /\ \A i \in 1 .. n : /\ BoostAll(cs)[i].page = cs[i].page
                                /\ cs[i].near \/ BoostAll(cs)[i].score = cs[i].score
<1>1. DOMAIN cs = 1 .. n
  OBVIOUS
<1> DEFINE b(i) == IF cs[i].near THEN [cs[i] EXCEPT !.score = Boosted(@)] ELSE cs[i]
<1>2. ASSUME NEW i \in 1 .. n
      PROVE  b(i) \in Scored /\ b(i).page = cs[i].page /\ (cs[i].near \/ b(i).score = cs[i].score)
  <2>1. cs[i] \in Candidate /\ cs[i].score \in MinScore .. MaxScore
    BY DEF Candidate
  <2>2. Boosted(cs[i].score) \in Int /\ cs[i].score \in Int
    BY <2>1, LayerAssumption
  <2>3. cs[i].page \in Pages /\ cs[i].near \in BOOLEAN
    BY DEF Candidate
  <2>4. cs[i] = [page |-> cs[i].page, score |-> cs[i].score, near |-> cs[i].near]
    BY DEF Candidate
  <2> QED BY <2>2, <2>3, <2>4 DEF Scored
<1>3. BoostAll(cs) = [i \in 1 .. n |-> b(i)]
  BY <1>1 DEF BoostAll
<1> HIDE DEF b
<1> QED BY <1>2, <1>3

\* The head of a non-empty list of candidates is one of its entries.
LEMMA HeadOf ==
    ASSUME NEW cs \in ScoredList, cs # <<>>
    PROVE  /\ 1 \in DOMAIN cs /\ cs[1] \in Scored
           /\ \E n \in Nat \ {0} : DOMAIN cs = 1 .. n
<1>1. PICK n \in Nat : cs \in [1 .. n -> Scored]
  BY DEF ScoredList
<1>2. n # 0
  BY <1>1
<1> QED BY <1>1, <1>2

\* Some score of a non-empty list is the first of the maxima.
LEMMA BestExists ==
    ASSUME NEW n \in Nat \ {0}, NEW s \in [1 .. n -> Int]
    PROVE  \E i \in 1 .. n : \A j \in 1 .. n : s[j] <= s[i] /\ (j < i => s[j] < s[i])
<1>1. 1 \in 1 .. n
  OBVIOUS
<1>2. PICK i \in 1 .. n : PlaceOf(s, n, i) = 1
  BY <1>1, PlacesTaken
<1> QED BY <1>2, FirstPlace

(***************************************************************************)
(* The inductive invariant.  Whoever goes past L1 has no candidate that    *)
(* the context lifts to its threshold, and a list that still begins with   *)
(* the best page, whatever its scores have become; and what is decided is  *)
(* in order.                                                               *)
(***************************************************************************)
CandidateList == UNION {[1 .. n -> Candidate] : n \in Nat}
Lifted == BoostAll(searched)
NoneStrong == \A i \in DOMAIN Lifted : ~(Lifted[i].score >= L1Threshold)
Tops(i) == FirstBest(Lifted, i) /\ answer.page = Lifted[i].page
HeadIsBest == \E i \in DOMAIN Lifted : FirstBest(Lifted, i) /\ cands[1].page = Lifted[i].page
FromSearch == \A k \in DOMAIN cands : \E i \in DOMAIN searched : cands[k].page = searched[i].page

InOrder ==
    /\ answer.layer = "L1" <=> \E i \in DOMAIN Lifted : Lifted[i].score >= L1Threshold
    /\ answer.layer = "L1" =>
         \E i \in DOMAIN Lifted : /\ Tops(i) /\ answer.logged = Lifted[i].score
                                  /\ searched[i].near \/ searched[i].score >= L1Threshold
    /\ answer.layer = "L2" =>
         /\ answer.logged >= L2Threshold
         /\ \E i \in DOMAIN searched : answer.page = searched[i].page
    /\ answer.layer = "L4" => l4Enabled /\ \E i \in DOMAIN Lifted : Tops(i)
    /\ answer.layer \in {"L0", "MISS"} => searched = <<>> \/ ~l4Enabled

GoodAnswer ==
    /\ answer.layer \in Layers /\ answer.page \in Pages \cup {None}
    /\ answer.confidence = Rounded(IF answer.layer = "L4" THEN WeakConfidence(answer.logged)
                                   ELSE answer.logged)
    /\ InOrder

LoggedRow ==
    /\ Len(log) = 1 \/ (logFailed /\ log = <<>>)
    /\ \A i \in DOMAIN log :
         /\ log[i].layer = answer.layer /\ log[i].page = answer.page
         /\ answer.confidence =
              Rounded(IF log[i].layer = "L4" THEN WeakConfidence(log[i].confidence)
                      ELSE log[i].confidence)

RouteInv ==
    /\ at \in {"idle", "L0", "L0core", "L2", "L3", "L4", "redirect", "log"}
    /\ cands \in ScoredList /\ searched \in CandidateList
    /\ logFailed \in BOOLEAN
    /\ at = "L2" => cands # <<>>
    /\ at \in {"L0", "L0core"} => searched = <<>>
    /\ at \in {"L2", "L3", "L4", "redirect"} =>
         /\ NoneStrong /\ FromSearch
         /\ IF cands = <<>> THEN searched = <<>> ELSE HeadIsBest
    /\ at = "redirect" => searched = <<>> \/ ~l4Enabled
    /\ at \in {"log", "idle"} /\ answer # None => GoodAnswer
    /\ at \in {"log", "idle"} \/ answer = None
    /\ at # "idle" => log = <<>>
    /\ log = <<>> \/ Len(log) = 1
    /\ at = "idle" /\ answer # None => LoggedRow

LEMMA NothingSearched == searched = <<>> => NoneStrong
BY DEF NoneStrong, Lifted, BoostAll

\* What is said of the search alone does not change with the rest.
LEMMA SameSearch ==
    ASSUME UNCHANGED searched
    PROVE  /\ Lifted' = Lifted
           /\ NoneStrong' <=> NoneStrong
<1>1. Lifted' = Lifted
  BY DEF Lifted
<1> QED BY <1>1 DEF NoneStrong

\* The answer of a layer below L1, given when no candidate is strong.
LEMMA DecideKeeps ==
    ASSUME RouteInv, at \notin {"log", "idle"}, NoneStrong,
           UNCHANGED <<searched, log, l4Enabled, logFailed>>, cands' \in ScoredList,
           NEW layer \in Layers \ {"L1"}, NEW page \in Pages \cup {None}, NEW c, NEW l,
           c = IF layer = "L4" THEN WeakConfidence(l) ELSE l,
           layer = "L2" => l >= L2Threshold /\ \E i \in DOMAIN searched : page = searched[i].page,
           layer = "L4" => l4Enabled /\ \E i \in DOMAIN Lifted : FirstBest(Lifted, i) /\ page = Lifted[i].page,
           layer \in {"L0", "MISS"} => searched = <<>> \/ ~l4Enabled,
           Decide(layer, page, c, l)
    PROVE  RouteInv'
<1>1. at' = "log" /\ log' = <<>>
  BY DEF RouteInv, Decide
<1>2. /\ answer'.layer = layer /\ answer'.page = page
      /\ answer'.confidence = Rounded(c) /\ answer'.logged = l
  BY DEF Decide
<1>3. Lifted' = Lifted /\ NoneStrong
  BY SameSearch
<1> HIDE DEF Lifted
<1>4. InOrder'
  <2>1. (answer.layer = "L1" <=> \E i \in DOMAIN Lifted : Lifted[i].score >= L1Threshold)'
    BY <1>2, <1>3 DEF NoneStrong
  <2>2. layer = "L4" => (\E i \in DOMAIN Lifted : Tops(i))'
    BY <1>2, <1>3 DEF Tops, FirstBest
  <2> QED BY <1>2, <2>1, <2>2 DEF InOrder
<1>5. answer'.confidence = Rounded(IF answer'.layer = "L4" THEN WeakConfidence(answer'.logged)
                                   ELSE answer'.logged)
  BY <1>2
<1>6. GoodAnswer'
  BY <1>2, <1>4, <1>5 DEF GoodAnswer
<1> QED BY <1>1, <1>6 DEF RouteInv

\* Going on to a lower layer.  The list keeps its pages in their places.
LEMMA GoToKeeps ==
    ASSUME RouteInv, at \in {"L2", "L3", "L4"},
           UNCHANGED <<searched, log, l4Enabled, logFailed>>, cands' \in ScoredList,
           DOMAIN cands' = DOMAIN cands, cands = <<>> => cands' = <<>>,
           cands # <<>> => cands' # <<>> /\ 1 \in DOMAIN cands,
           \A k \in DOMAIN cands : cands'[k].page = cands[k].page,
           NEW step \in {"L3", "L4", "redirect"},
           step = "redirect" => cands = <<>> \/ ~l4Enabled,
           GoTo(step)
    PROVE  RouteInv'
<1>1. at' = step /\ log' = <<>> /\ answer' = None
  BY DEF RouteInv, GoTo
<1>2. NoneStrong' /\ Lifted' = Lifted
  BY SameSearch DEF RouteInv
<1> HIDE DEF Lifted
<1>3. FromSearch'
  BY DEF RouteInv, FromSearch
<1>4. IF cands' = <<>> THEN searched' = <<>> ELSE HeadIsBest'
  <2>1. CASE cands = <<>>
    BY <2>1 DEF RouteInv
  <2>2. CASE cands # <<>>
    <3>1. PICK i \in DOMAIN Lifted : FirstBest(Lifted, i) /\ cands[1].page = Lifted[i].page
      BY <2>2 DEF RouteInv, HeadIsBest
    <3>2. cands'[1].page = Lifted[i].page
      BY <2>2, <3>1
    <3>3. HeadIsBest'
      BY <1>2, <3>1, <3>2 DEF HeadIsBest, FirstBest
    <3> QED BY <2>2, <3>3
  <2> QED BY <2>1, <2>2
<1>5. at' = "redirect" => searched' = <<>> \/ ~l4Enabled'
  BY <1>1 DEF RouteInv
<1> QED BY <1>1, <1>2, <1>3, <1>4, <1>5 DEF RouteInv

LEMMA EmptyLists == <<>> \in ScoredList /\ <<>> \in CandidateList
<1>1. <<>> \in [1 .. 0 -> Scored] /\ <<>> \in [1 .. 0 -> Candidate]
  OBVIOUS
<1> QED BY <1>1 DEF ScoredList, CandidateList

LEMMA RouteInit == Init => RouteInv
BY EmptyLists DEF Init, RouteInv

LEMMA SearchKeeps == RouteInv /\ Search => RouteInv'
<1> SUFFICES ASSUME RouteInv, Search PROVE RouteInv'
  OBVIOUS
<1>1. PICK n \in 0 .. TopK : searched' \in [1 .. n -> Candidate]
  BY DEF Search, SearchResults
<1>2. n \in Nat
  BY LayerAssumption
<1> DEFINE lst == Lifted'
<1>3. lst = BoostAll(searched') /\ cands' = ByScore(lst)
  BY DEF Search, InContext, Lifted
<1>4. /\ lst \in [1 .. n -> Scored]
      /\ \A i \in 1 .. n : /\ lst[i].page = searched'[i].page
                           /\ searched'[i].near \/ lst[i].score = searched'[i].score
  BY <1>1, <1>2, <1>3, Boosts
<1> HIDE DEF lst
<1>5. /\ cands' \in [1 .. n -> Scored]
      /\ \A k \in 1 .. n : \E i \in 1 .. n : cands'[k] = lst[i]
      /\ n > 0 => \E i \in 1 .. n : FirstBest(lst, i) /\ cands'[1] = lst[i]
  BY <1>2, <1>3, <1>4, Sorted
<1>6. /\ cands' \in ScoredList /\ searched' \in CandidateList
      /\ log' = <<>> /\ logFailed' \in BOOLEAN /\ l4Enabled' = l4Enabled
  BY <1>1, <1>2, <1>5 DEF ScoredList, CandidateList, Search, RouteInv
<1>7. /\ DOMAIN lst = 1 .. n /\ DOMAIN cands' = 1 .. n /\ DOMAIN searched' = 1 .. n
      /\ n > 0 <=> cands' # <<>>
      /\ n = 0 => searched' = <<>>
  BY <1>1, <1>2, <1>4, <1>5
<1>8. \A j \in 1 .. n : lst[j].score \in Int
  BY <1>4 DEF Scored
<1>9. CASE cands' # <<>> /\ cands'[1].score >= L1Threshold
  <2>1. PICK i \in 1 .. n : FirstBest(lst, i) /\ cands'[1] = lst[i]
    BY <1>5, <1>7, <1>9
  <2>2. PICK r : r = lst[i]
    OBVIOUS
  <2>3. /\ at' = "log" /\ answer'.layer = "L1" /\ answer'.page = r.page
        /\ answer'.confidence = Rounded(r.score) /\ answer'.logged = r.score
    BY <1>9, <2>1, <2>2 DEF Search, Decide
  <2>4. r.score >= L1Threshold /\ r.page \in Pages /\ r \in Scored
    BY <1>4, <1>9, <2>1, <2>2 DEF Scored
  <2>5. searched'[i].near \/ searched'[i].score >= L1Threshold
    BY <1>4, <2>2, <2>4
  <2>6. Tops(i)' /\ i \in DOMAIN lst /\ answer'.logged = lst[i].score /\ lst[i].score >= L1Threshold
    BY <1>7, <2>1, <2>2, <2>3, <2>4 DEF Tops, lst, FirstBest
  <2>7. InOrder'
    <3>1. (\E k \in DOMAIN Lifted : /\ Tops(k) /\ answer.logged = Lifted[k].score
                                    /\ searched[k].near \/ searched[k].score >= L1Threshold)'
      BY <2>5, <2>6 DEF lst
    <3>2. (\E k \in DOMAIN Lifted : Lifted[k].score >= L1Threshold)'
      BY <2>6 DEF lst
    <3>3. /\ answer'.layer = "L1" /\ answer'.layer # "L2" /\ answer'.layer # "L4"
          /\ ~(answer'.layer \in {"L0", "MISS"})
      BY <2>3
    <3>4. (answer.layer = "L1" <=> \E k \in DOMAIN Lifted : Lifted[k].score >= L1Threshold)'
      BY <2>3, <3>2
    <3>5. (answer.layer = "L1" =>
             \E k \in DOMAIN Lifted : /\ Tops(k) /\ answer.logged = Lifted[k].score
                                      /\ searched[k].near \/ searched[k].score >= L1Threshold)'
      BY <3>1
    <3>6. /\ (answer.layer = "L2" =>
               /\ answer.logged >= L2Threshold
               /\ \E k \in DOMAIN searched : answer.page = searched[k].page)'
          /\ (answer.layer = "L4" => l4Enabled /\ \E k \in DOMAIN Lifted : Tops(k))'
          /\ (answer.layer \in {"L0", "MISS"} => searched = <<>> \/ ~l4Enabled)'
      BY <3>3
    <3> QED BY <3>4, <3>5, <3>6 DEF InOrder
  <2>8. GoodAnswer'
    BY <2>3, <2>4, <2>7 DEF GoodAnswer, Layers
  <2> QED BY <1>6, <2>3, <2>8 DEF RouteInv
<1>10. CASE ~(cands' # <<>> /\ cands'[1].score >= L1Threshold)
  <2>1. at' = (IF cands' # <<>> THEN "L2" ELSE "L3") /\ answer' = None
    BY <1>10 DEF Search, GoTo, RouteInv
  <2>2. ASSUME NEW j \in 1 .. n PROVE ~(lst[j].score >= L1Threshold)
    <3>1. n > 0 /\ cands' # <<>>
      BY <1>2, <1>7
    <3>2. PICK i \in 1 .. n : FirstBest(lst, i) /\ cands'[1] = lst[i]
      BY <1>5, <3>1
    <3>3. lst[i].score \in Int /\ L1Threshold \in Int /\ lst[j].score \in Int
      BY <1>8, LayerAssumption
    <3>4. lst[j].score <= lst[i].score /\ ~(lst[i].score >= L1Threshold)
      BY <1>7, <1>10, <3>1, <3>2 DEF FirstBest
    <3> QED BY <3>3, <3>4
  <2>3. NoneStrong'
    BY <1>7, <2>2 DEF NoneStrong, lst
  <2>4. FromSearch'
    <3>1. ASSUME NEW k \in 1 .. n PROVE \E i \in 1 .. n : cands'[k].page = searched'[i].page
      <4>1. PICK i \in 1 .. n : cands'[k] = lst[i]
        BY <1>5
      <4>2. lst[i].page = searched'[i].page
        BY <1>4
      <4> QED BY <4>1, <4>2
    <3> QED BY <1>7, <3>1 DEF FromSearch
  <2>5. IF cands' = <<>> THEN searched' = <<>> ELSE HeadIsBest'
    <3>1. CASE cands' = <<>>
      BY <1>2, <1>7, <3>1
    <3>2. CASE cands' # <<>>
      <4>1. PICK i \in 1 .. n : FirstBest(lst, i) /\ cands'[1] = lst[i]
        BY <1>5, <1>7, <3>2
      <4>2. HeadIsBest'
        BY <1>7, <4>1 DEF HeadIsBest, lst, FirstBest
      <4> QED BY <3>2, <4>2
    <3> QED BY <3>1, <3>2
  <2> QED BY <1>6, <2>1, <2>3, <2>4, <2>5 DEF RouteInv
<1> QED BY <1>9, <1>10

\* The gate of L2, for whichever candidate it looks at: the list may hold new
\* scores by then, but each page in its place.
LEMMA GateKeeps ==
    ASSUME RouteInv, at = "L2", UNCHANGED <<searched, log, l4Enabled, logFailed>>,
           cands' \in ScoredList, DOMAIN cands' = DOMAIN cands,
           \A k \in DOMAIN cands : cands'[k].page = cands[k].page,
           NEW b \in DOMAIN cands, NEW c \in Scored, c = cands'[b], Gate(c)
    PROVE  RouteInv'
<1>1. NoneStrong /\ at \notin {"log", "idle"} /\ cands # <<>> /\ FromSearch
  BY DEF RouteInv
<1>2. c.score \in Int /\ c.page \in Pages /\ c.page = cands[b].page
  BY DEF Scored
<1>3. CASE c.score >= L2Threshold
  <2>1. Decide("L2", c.page, c.score, c.score)
    BY <1>3 DEF Gate
  <2>2. "L2" \in Layers \ {"L1"} /\ c.page \in Pages \cup {None}
    BY <1>2 DEF Layers
  <2>3. \E i \in DOMAIN searched : c.page = searched[i].page
    BY <1>1, <1>2 DEF FromSearch
  <2> QED BY <1>1, <1>3, <2>1, <2>2, <2>3, DecideKeeps
<1>4. CASE ~(c.score >= L2Threshold)
  <2>1. GoTo("L3")
    BY <1>4 DEF Gate
  <2>2. cands' # <<>> /\ 1 \in DOMAIN cands
    BY <1>1, HeadOf DEF RouteInv
  <2> QED BY <1>1, <2>1, <2>2, GoToKeeps
<1> QED BY <1>3, <1>4

LEMMA RerankKeeps == RouteInv /\ Rerank => RouteInv'
<1> SUFFICES ASSUME RouteInv, Rerank PROVE RouteInv'
  OBVIOUS
<1>1. PICK scores \in [DOMAIN cands -> RerankScores] :
        LET best == CHOOSE i \in DOMAIN cands :
                       \A j \in DOMAIN cands : /\ scores[j] <= scores[i]
                                               /\ j < i => scores[j] < scores[i]
        IN  /\ cands' = [cands EXCEPT ![best].score = scores[best]]
            /\ Gate(cands'[best])
  BY DEF Rerank
<1>2. PICK n \in Nat : cands \in [1 .. n -> Scored]
  BY DEF RouteInv, ScoredList
<1>3. DOMAIN cands = 1 .. n /\ at = "L2" /\ cands # <<>>
  BY <1>2 DEF Rerank, RouteInv
<1>4. n \in Nat \ {0}
  BY <1>2, <1>3
<1>5. scores \in [1 .. n -> Int]
  BY <1>1, <1>3, LayerAssumption
<1> DEFINE best == CHOOSE i \in 1 .. n :
                      \A j \in 1 .. n : scores[j] <= scores[i] /\ (j < i => scores[j] < scores[i])
<1>6. best \in 1 .. n
  BY <1>4, <1>5, BestExists
<1>7. cands' = [cands EXCEPT ![best].score = scores[best]] /\ Gate(cands'[best])
  BY <1>1, <1>3
<1> HIDE DEF best
<1>8. cands[best] \in Scored /\ scores[best] \in Int
  BY <1>2, <1>5, <1>6
<1>9. [cands[best] EXCEPT !.score = scores[best]] \in Scored
  BY <1>8 DEF Scored
<1>10. cands' \in [1 .. n -> Scored]
  BY <1>2, <1>6, <1>7, <1>9
<1>11. cands' \in ScoredList /\ cands'[best] \in Scored /\ DOMAIN cands' = DOMAIN cands
  BY <1>2, <1>6, <1>10 DEF ScoredList
<1>12. \A k \in DOMAIN cands : cands'[k].page = cands[k].page
  <2>1. ASSUME NEW k \in 1 .. n PROVE cands'[k].page = cands[k].page
    <3>1. cands[k] \in Scored
      BY <1>2
    <3> QED BY <1>2, <1>6, <1>7, <3>1 DEF Scored
  <2> QED BY <1>3, <2>1
<1>13. UNCHANGED <<searched, log, l4Enabled, logFailed>>
  BY DEF Rerank
<1> QED BY <1>3, <1>6, <1>7, <1>11, <1>12, <1>13, GateKeeps

LEMMA WeakKeeps == RouteInv /\ WeakCandidate => RouteInv'
<1> SUFFICES ASSUME RouteInv, WeakCandidate PROVE RouteInv'
  OBVIOUS
<1>1. /\ at = "L4" /\ NoneStrong /\ cands' = cands /\ cands \in ScoredList
      /\ UNCHANGED <<searched, log, l4Enabled, logFailed>>
  BY DEF WeakCandidate, RouteInv
<1>2. cands # <<>> => HeadIsBest /\ cands[1] \in Scored /\ 1 \in DOMAIN cands
  BY <1>1, HeadOf DEF RouteInv
<1>3. CASE cands # <<>> /\ l4Enabled
  <2>1. PICK p, s : p = cands[1].page /\ s = cands[1].score
    OBVIOUS
  <2>2. Decide("L4", p, WeakConfidence(s), s)
    BY <1>3, <2>1 DEF WeakCandidate
  <2>3. PICK w : w = WeakConfidence(s)
    OBVIOUS
  <2>4. "L4" \in Layers \ {"L1"} /\ p \in Pages \cup {None}
    BY <1>2, <1>3, <2>1 DEF Layers, Scored
  <2>5. \E i \in DOMAIN Lifted : FirstBest(Lifted, i) /\ p = Lifted[i].page
    BY <1>2, <1>3, <2>1 DEF HeadIsBest
  <2>6. at \notin {"log", "idle"} /\ cands' \in ScoredList
    BY <1>1
  <2> QED BY <1>1, <1>3, <2>2, <2>3, <2>4, <2>5, <2>6, DecideKeeps
<1>4. CASE ~(cands # <<>> /\ l4Enabled)
  <2>1. GoTo("redirect")
    BY <1>4 DEF WeakCandidate
  <2> QED BY <1>1, <1>2, <1>4, <2>1, GoToKeeps
<1> QED BY <1>3, <1>4

LEMMA LogKeeps == RouteInv /\ (Log \/ LogFail) => RouteInv'
<1> SUFFICES ASSUME RouteInv, Log \/ LogFail PROVE RouteInv'
  OBVIOUS
<1>1. at' = "idle" /\ log = <<>> /\ UNCHANGED <<l4Enabled, cands, searched, answer>>
  BY DEF Log, LogFail, RouteInv
<1>2. /\ log' = <<LogRow>> \/ (log' = <<>> /\ logFailed' = TRUE)
      /\ logFailed' \in BOOLEAN
  <2>1. PICK r : r = LogRow
    OBVIOUS
  <2>2. Append(<<>>, r) = <<r>>
    OBVIOUS
  <2> QED BY <1>1, <2>1, <2>2 DEF Log, LogFail, RouteInv
<1>3. answer # None => GoodAnswer
  BY DEF RouteInv, Log, LogFail
<1>4. GoodAnswer' <=> GoodAnswer
  BY <1>1 DEF GoodAnswer, InOrder, Tops, Lifted
<1>5. ASSUME answer # None PROVE LoggedRow'
  <2>1. answer.confidence = Rounded(IF answer.layer = "L4" THEN WeakConfidence(answer.logged)
                                    ELSE answer.logged)
    BY <1>3, <1>5 DEF GoodAnswer
  <2>2. CASE log' = <<>> /\ logFailed'
    BY <2>2 DEF LoggedRow
  <2>3. CASE log' = <<LogRow>>
    <3>1. PICK r : r = LogRow
      OBVIOUS
    <3>2. Len(<<r>>) = 1 /\ <<r>>[1] = r /\ DOMAIN <<r>> = {1}
      OBVIOUS
    <3>3. r.layer = answer.layer /\ r.page = answer.page /\ r.confidence = answer.logged
      BY <3>1 DEF LogRow
    <3>4. Len(log') = 1 /\ DOMAIN log' = {1} /\ log'[1] = r
      BY <2>3, <3>1, <3>2
    <3> QED BY <1>1, <2>1, <3>3, <3>4 DEF LoggedRow
  <2> QED BY <1>2, <2>2, <2>3
<1>6. log' = <<>> \/ Len(log') = 1
  BY <1>2
<1> QED BY <1>1, <1>2, <1>3, <1>4, <1>5, <1>6 DEF RouteInv

LEMMA RouteStep == RouteInv /\ [Next]_vars => RouteInv'
<1> SUFFICES ASSUME RouteInv, [Next]_vars PROVE RouteInv'
  OBVIOUS
<1>1. CASE Query
  BY <1>1, EmptyLists DEF Query, RouteInv
<1>2. CASE Scan
  BY <1>2 DEF Scan, routeVars, RouteInv
<1>3. CASE HotPathHit
  <2>1. PICK page \in Pages, c \in 0 .. MaxScore : Decide("L0", page, c, c)
    BY <1>3 DEF HotPathHit
  <2>2. NoneStrong /\ at \notin {"log", "idle"} /\ searched = <<>>
    BY <1>3, NothingSearched DEF HotPathHit, RouteInv
  <2>3. UNCHANGED <<searched, log, l4Enabled, logFailed>> /\ cands' \in ScoredList
    BY <1>3 DEF HotPathHit, RouteInv
  <2>4. "L0" \in Layers \ {"L1"} /\ page \in Pages \cup {None}
    BY DEF Layers
  <2> QED BY <2>1, <2>2, <2>3, <2>4, DecideKeeps
<1>4. CASE LookupCore
  BY <1>4 DEF LookupCore, RouteInv
<1>5. CASE Search
  BY <1>5, SearchKeeps
<1>6. CASE RerankSkipped
  <2>1. cands[1] \in Scored /\ 1 \in DOMAIN cands
    BY <1>6, HeadOf DEF RerankSkipped, RouteInv
  <2>2. /\ UNCHANGED <<searched, log, l4Enabled, logFailed>> /\ cands' = cands
        /\ cands \in ScoredList /\ at = "L2" /\ Gate(cands[1])
    BY <1>6 DEF RerankSkipped, RouteInv
  <2> QED BY <2>1, <2>2, GateKeeps
<1>7. CASE Rerank
  BY <1>7, RerankKeeps
<1>8. CASE Keywords
  <2>1. PICK hit \in KeywordHits :
          IF hit # None THEN Decide("L3", hit, L3Confidence, L3Confidence) ELSE GoTo("L4")
    BY <1>8 DEF Keywords
  <2>2. /\ UNCHANGED <<searched, log, l4Enabled, logFailed>> /\ cands' = cands
        /\ cands \in ScoredList /\ at = "L3" /\ NoneStrong
    BY <1>8 DEF Keywords, RouteInv
  <2>3. CASE hit # None
    <3>1. Decide("L3", hit, L3Confidence, L3Confidence)
      BY <2>1, <2>3
    <3>2. "L3" \in Layers \ {"L1"} /\ hit \in Pages \cup {None}
      BY DEF Layers, KeywordHits
    <3> QED BY <2>2, <3>1, <3>2, DecideKeeps
  <2>4. CASE hit = None
    <3>1. cands # <<>> => 1 \in DOMAIN cands
      BY <2>2, HeadOf
    <3> QED BY <2>1, <2>2, <2>4, <3>1, GoToKeeps
  <2> QED BY <2>3, <2>4
<1>9. CASE WeakCandidate
  BY <1>9, WeakKeeps
<1>10. CASE Redirect
  <2>1. /\ UNCHANGED <<searched, log, l4Enabled, logFailed>> /\ cands' \in ScoredList
        /\ at \notin {"log", "idle"} /\ NoneStrong
        /\ searched = <<>> \/ ~l4Enabled
    BY <1>10 DEF Redirect, RouteInv
  <2>2. {"L0", "MISS"} \subseteq Layers \ {"L1"}
    BY DEF Layers
  <2>3. CASE \E page \in Pages : Decide("L0", page, RedirectConfidence, RedirectConfidence)
    <3>1. PICK page \in Pages : Decide("L0", page, RedirectConfidence, RedirectConfidence)
      BY <2>3
    <3>2. "L0" \in Layers \ {"L1"} /\ page \in Pages \cup {None}
      BY <2>2
    <3> QED BY <2>1, <3>1, <3>2, DecideKeeps
  <2>4. CASE Decide("MISS", None, 0, 0)
    <3>1. "MISS" \in Layers \ {"L1"} /\ None \in Pages \cup {None}
      BY <2>2
    <3> QED BY <2>1, <2>4, <3>1, DecideKeeps
  <2> QED BY <1>10, <2>3, <2>4 DEF Redirect
<1>11. CASE Log \/ LogFail
  BY <1>11, LogKeeps
<1>12. CASE UNCHANGED vars
  <2>1. UNCHANGED routeVars
    BY <1>12 DEF vars
  <2>2. /\ NoneStrong' = NoneStrong /\ GoodAnswer' = GoodAnswer /\ LoggedRow' = LoggedRow
        /\ HeadIsBest' = HeadIsBest /\ FromSearch' = FromSearch
    BY <2>1 DEF routeVars, NoneStrong, GoodAnswer, InOrder, Tops, Lifted, LoggedRow,
                HeadIsBest, FromSearch
  <2> QED BY <2>1, <2>2 DEF RouteInv, routeVars
<1> QED BY <1>1, <1>2, <1>3, <1>4, <1>5, <1>6, <1>7, <1>8, <1>9, <1>10, <1>11, <1>12 DEF Next

LEMMA RouteInvariant == Spec => []RouteInv
BY RouteInit, RouteStep, PTL DEF Spec

\* The layers answer in order, each with a page it may answer with: for every
\* boost, whatever the cross-encoder overwrites and whatever its scale.
THEOREM LayersAnswerInOrder == Spec => []LayersInOrder
<1>1. RouteInv => LayersInOrder
  <2> SUFFICES ASSUME RouteInv, Returned PROVE InOrder
    BY DEF LayersInOrder, InOrder, Tops, Lifted
  <2> QED BY DEF RouteInv, GoodAnswer, Returned
<1> QED BY <1>1, RouteInvariant, PTL

\* One row is logged for a query, or none when its transaction failed, for the
\* layer, page and confidence answered.
THEOREM LogTellsTheAnswer == Spec => []LogAgrees
<1>1. RouteInv => LogAgrees
  BY DEF RouteInv, LoggedRow, LogAgrees, Returned
<1> QED BY <1>1, RouteInvariant, PTL

(***************************************************************************)
(* Types.  What the scan returns is a place of a fetched list, because its *)
(* own invariant, ScanInv, holds of the router.                            *)
(***************************************************************************)
ScanType ==
    /\ l4Enabled \in BOOLEAN
    /\ scanning => at \in {"L0", "L0core"}
    /\ found \in 0 .. MaxRows

LEMMA ReturnsPlace == ScanInv /\ Return => found' \in 0 .. MaxRows
<1> SUFFICES ASSUME ScanInv, Return PROVE found' \in 0 .. MaxRows
  OBVIOUS
<1>1. MaxRows \in Nat
  BY ScaleAssumption
<1>2. PICK n \in 0 .. MaxRows : rows \in [1 .. n -> [text : 0 .. MaxText, home : BOOLEAN]]
  BY DEF ScanInv, Return, Answer!RowList, Answer!Row
<1>3. Len(rows) = n
  BY <1>1, <1>2
<1>4. bestRow = 0 \/ bestRow \in 1 .. n
  BY <1>3 DEF ScanInv, Return
<1>5. found' = 0 \/ found' = bestRow
  BY DEF Return
<1> QED BY <1>1, <1>4, <1>5

LEMMA ScanTypeStep == ScanInv /\ ScanType /\ [Next]_vars => ScanType'
<1> SUFFICES ASSUME ScanInv, ScanType, [Next]_vars PROVE ScanType'
  OBVIOUS
<1>1. 0 \in 0 .. MaxRows
  BY ScaleAssumption
<1>2. CASE Query \/ LookupCore
  BY <1>1, <1>2 DEF Query, LookupCore, Fetch, ScanType
<1>3. CASE Scan
  <2>1. UNCHANGED <<at, l4Enabled>> /\ at \in {"L0", "L0core"}
    BY <1>3 DEF Scan, routeVars
  <2>2. found' \in 0 .. MaxRows
    BY <1>3, ReturnsPlace DEF Scan, ScoreRow, ScanType
  <2> QED BY <2>1, <2>2 DEF ScanType
<1>4. CASE HotPathHit \/ Search \/ Redirect \/ Log \/ LogFail
  BY <1>4 DEF HotPathHit, Search, Redirect, Log, LogFail, scanVars, ScanType
<1>5. CASE RerankSkipped \/ Rerank \/ Keywords \/ WeakCandidate
  BY <1>5 DEF RerankSkipped, Rerank, Keywords, WeakCandidate, scanVars, ScanType
<1>6. CASE UNCHANGED vars
  BY <1>6 DEF vars, scanVars, routeVars, ScanType
<1> QED BY <1>2, <1>3, <1>4, <1>5, <1>6 DEF Next

\* Every variable keeps its type, and the scan runs in the two L0 steps only.
THEOREM RouterTypes == Spec => []TypeOK
<1>1. Init => ScanType
  BY ScaleAssumption DEF Init, ScanInit, ScanType
<1>2. Spec => []ScanInv
  BY RouterIsScan, ScanInvariant, PTL
<1>3. Spec => []ScanType
  BY <1>1, <1>2, ScanTypeStep, PTL DEF Spec
<1>4. RouteInv /\ ScanType => TypeOK
  <2> SUFFICES ASSUME RouteInv, ScanType PROVE TypeOK
    OBVIOUS
  <2>1. Len(log) <= 1 /\ logFailed \in BOOLEAN
    <3>1. Len(<<>>) = 0
      OBVIOUS
    <3>2. log = <<>> \/ Len(log) = 1
      BY DEF RouteInv
    <3>3. Len(log) <= 1
      BY <3>1, <3>2
    <3>4. logFailed \in BOOLEAN
      BY DEF RouteInv
    <3> QED BY <3>3, <3>4
  <2>2. answer # None => answer.layer \in Layers /\ answer.page \in Pages \cup {None}
    BY DEF RouteInv, GoodAnswer
  <2> QED BY <2>1, <2>2 DEF RouteInv, ScanType, TypeOK
<1> QED BY <1>3, <1>4, RouteInvariant, PTL
=============================================================================
