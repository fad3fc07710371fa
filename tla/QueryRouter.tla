---------------------------- MODULE QueryRouter ----------------------------
(***************************************************************************)
(* services/query_router.py, route_query(): one query on its way through   *)
(* the layers L0, L1, L2, L3, L4, redirect, MISS.  L0 is the scan of       *)
(* HotPathScan, run for the query and then for its corrected core.  What   *)
(* the database and the models answer is open: each layer chooses among    *)
(* all answers, and a layer that fails answers like one without a match.   *)
(***************************************************************************)
EXTENDS HotPathScan, FiniteSets

CONSTANTS
    Pages,          \* paths of nav_index
    MinScore,       \* the worst score of a search: a cosine may be negative
    MaxScore,       \* the score 1.0
    L1Threshold, L2Threshold, L3Confidence, WeakCap,
    RedirectConfidence,   \* 0.95
    Boosted(_),     \* a score times CONTEXT_BOOST_FACTOR, at most MaxScore
    Rounded(_),     \* a confidence as the client is sent it, to four places
    RerankScores,   \* what the cross-encoder may return
    TopK,           \* candidates asked of the embedding search
    None

ASSUME LayerAssumption ==
    /\ MinScore \in Int /\ MaxScore \in Nat /\ TopK \in Nat
    /\ {L1Threshold, L2Threshold, L3Confidence, WeakCap, RedirectConfidence} \subseteq Int
    /\ RerankScores \subseteq Int
    /\ \A s \in MinScore .. MaxScore : Boosted(s) \in Int

VARIABLES
    at,          \* the next step of route_query, "idle" between queries
    l4Enabled,   \* L4_ENABLED of this deployment
    cands,       \* the local list "candidates"
    searched,    \* history: the candidates as the search returned them
    answer,      \* the result decided on, None before
    log,         \* the rows this query inserted into nav_query_log
    logFailed    \* history: the transaction of its row reported a failure

routeVars == <<at, l4Enabled, cands, searched, answer, log, logFailed>>
vars == <<scanVars, routeVars>>

Candidate == [page : Pages, score : MinScore .. MaxScore, near : BOOLEAN]
Layers == {"L0", "L1", "L2", "L3", "L4", "MISS"}

\* The search answers in order of score, at most TopK; <<>> also when there is
\* no model or the SELECT fails.  Two sites of a scope may hold the same path.
\* "near" is told by the context path alone.
SearchResults ==
    {cs \in UNION {[1 .. n -> Candidate] : n \in 0 .. TopK} :
        \A i, j \in DOMAIN cs : i < j => cs[i].score >= cs[j].score}

\* Python's stable sort by descending score.
ByScore(cs) ==
    LET Before(i, j) == \/ cs[i].score > cs[j].score
                        \/ cs[i].score = cs[j].score /\ i < j
        Place(i) == Cardinality({j \in DOMAIN cs : Before(j, i)}) + 1
    IN  [k \in DOMAIN cs |-> cs[CHOOSE i \in DOMAIN cs : Place(i) = k]]

BoostAll(cs) ==
    [i \in DOMAIN cs |-> IF cs[i].near THEN [cs[i] EXCEPT !.score = Boosted(@)] ELSE cs[i]]

\* The boosted list left in the order of the search.
InContext_NotSorted(cs) == BoostAll(cs)
InContext(cs) == ByScore(BoostAll(cs))

Init ==
    /\ ScanInit
    /\ at = "idle" /\ l4Enabled \in BOOLEAN
    /\ cands = <<>> /\ searched = <<>> /\ answer = None /\ log = <<>>
    /\ logFailed = FALSE

\* A layer decides: the result, its confidence rounded as it is sent, and the
\* confidence that will be logged.
Decide(layer, page, confidence, logged) ==
    /\ answer' = [layer |-> layer, page |-> page, confidence |-> Rounded(confidence),
                  logged |-> logged]
    /\ at' = "log"

GoTo(step) == at' = step /\ UNCHANGED answer

Query ==
    /\ at = "idle"
    /\ at' = "L0" /\ answer' = None /\ cands' = <<>> /\ searched' = <<>> /\ log' = <<>>
    /\ logFailed' = FALSE
    /\ Fetch
    /\ UNCHANGED l4Enabled

Scan == at \in {"L0", "L0core"} /\ (ScoreRow \/ Return) /\ UNCHANGED routeVars

\* A row was found.  Its page and its score, as HotPathScan counts it, are open.
HotPathHit ==
    /\ at \in {"L0", "L0core"} /\ ~scanning /\ found # 0
    /\ \E page \in Pages, c \in 0 .. MaxScore : Decide("L0", page, c, c)
    /\ UNCHANGED <<l4Enabled, cands, searched, log, logFailed, scanVars>>

\* No row for the query: once more for the core, if that differs.
LookupCore ==
    /\ at = "L0" /\ ~scanning /\ found = 0
    /\ at' = "L0core" /\ Fetch
    /\ UNCHANGED <<l4Enabled, cands, searched, answer, log, logFailed>>

Search ==
    /\ at \in {"L0", "L0core"} /\ ~scanning /\ found = 0
    /\ searched' \in SearchResults
    /\ cands' = InContext(searched')
    /\ IF cands' # <<>> /\ cands'[1].score >= L1Threshold
       THEN Decide("L1", cands'[1].page, cands'[1].score, cands'[1].score)
       ELSE GoTo(IF cands' # <<>> THEN "L2" ELSE "L3")
    /\ UNCHANGED <<l4Enabled, log, logFailed, scanVars>>

Gate(c) == IF c.score >= L2Threshold
           THEN Decide("L2", c.page, c.score, c.score)
           ELSE GoTo("L3")

\* rerank() without a model, or when it raises: the first candidate.
RerankSkipped ==
    /\ at = "L2"
    /\ Gate(cands[1])
    /\ UNCHANGED <<l4Enabled, cands, searched, log, logFailed, scanVars>>

\* rerank() overwrites the score of the candidate it finds best, the first of
\* the maxima, also when that is too low to answer with.
Rerank ==
    /\ at = "L2"
    /\ \E scores \in [DOMAIN cands -> RerankScores] :
         LET best == CHOOSE i \in DOMAIN cands :
                        \A j \in DOMAIN cands : /\ scores[j] <= scores[i]
                                                /\ j < i => scores[j] < scores[i]
         IN  /\ cands' = [cands EXCEPT ![best].score = scores[best]]
             /\ Gate(cands'[best])
    /\ UNCHANGED <<l4Enabled, searched, log, logFailed, scanVars>>

\* The best page by keywords, None when none has any or the SELECT fails.
KeywordHits == Pages \cup {None}

Keywords ==
    /\ at = "L3"
    /\ \E hit \in KeywordHits :
         IF hit # None THEN Decide("L3", hit, L3Confidence, L3Confidence) ELSE GoTo("L4")
    /\ UNCHANGED <<l4Enabled, cands, searched, log, logFailed, scanVars>>

\* The first candidate, whatever its score; L4 returns at most WeakCap.
WeakConfidence(s) == IF s < WeakCap THEN s ELSE WeakCap

WeakCandidate ==
    /\ at = "L4"
    /\ IF cands # <<>> /\ l4Enabled
       THEN Decide("L4", cands[1].page, WeakConfidence(cands[1].score), cands[1].score)
       ELSE GoTo("redirect")
    /\ UNCHANGED <<l4Enabled, cands, searched, log, logFailed, scanVars>>

Redirect ==
    /\ at = "redirect"
    /\ \/ \E page \in Pages : Decide("L0", page, RedirectConfidence, RedirectConfidence)
       \/ Decide("MISS", None, 0, 0)
    /\ UNCHANGED <<l4Enabled, cands, searched, log, logFailed, scanVars>>

LogRow == [layer |-> answer.layer, page |-> answer.page, confidence |-> answer.logged]

\* _log() is a transaction of its own.  A failure, which may also come when the
\* row is committed, is swallowed; in the variant it is tried again.
Log ==
    /\ at = "log" /\ at' = "idle"
    /\ log' = Append(log, LogRow)
    /\ UNCHANGED <<l4Enabled, cands, searched, answer, logFailed, scanVars>>

LogFail_Retried ==
    /\ at = "log" /\ log' \in {log, Append(log, LogRow)} /\ logFailed' = TRUE
    /\ UNCHANGED <<at, l4Enabled, cands, searched, answer, scanVars>>
LogFail ==
    /\ at = "log" /\ at' = "idle"
    /\ log' \in {log, Append(log, LogRow)} /\ logFailed' = TRUE
    /\ UNCHANGED <<l4Enabled, cands, searched, answer, scanVars>>

Next ==
    \/ Query \/ Scan \/ HotPathHit \/ LookupCore \/ Search \/ RerankSkipped \/ Rerank
    \/ Keywords \/ WeakCandidate \/ Redirect \/ Log \/ LogFail

Spec == Init /\ [][Next]_vars

-----------------------------------------------------------------------------

TypeOK ==
    /\ at \in {"idle", "L0", "L0core", "L2", "L3", "L4", "redirect", "log"}
    /\ l4Enabled \in BOOLEAN
    /\ scanning => at \in {"L0", "L0core"}
    /\ found \in 0 .. MaxRows
    /\ answer # None => answer.layer \in Layers /\ answer.page \in Pages \cup {None}
    /\ Len(log) <= 1 /\ logFailed \in BOOLEAN

\* Done: route_query has returned an answer.
Returned == at = "idle" /\ answer # None

\* The first of the best candidates.
FirstBest(cs, i) ==
    /\ i \in DOMAIN cs
    /\ \A j \in DOMAIN cs : cs[j].score <= cs[i].score /\ (j < i => cs[j].score < cs[i].score)

\* The layers are tried in order, on one list that the boost reorders and the
\* cross-encoder overwrites in place.  L1 answers whenever a boosted candidate
\* reaches its threshold, and only then: with the best of them, which stands in
\* the user's own section or reaches the threshold by itself.  L2 answers with a
\* candidate at its threshold.  L4, when the deployment has it, leaves no
\* candidate without an answer, and answers with the best boosted one whichever
\* score the cross-encoder overwrote.
LayersInOrder ==
    LET boosted == BoostAll(searched)
        Best(i) == FirstBest(boosted, i) /\ answer.page = boosted[i].page
    IN  Returned =>
        /\ answer.layer = "L1" <=> \E i \in DOMAIN boosted : boosted[i].score >= L1Threshold
        /\ answer.layer = "L1" =>
             \E i \in DOMAIN boosted : /\ Best(i) /\ answer.logged = boosted[i].score
                                       /\ searched[i].near \/ searched[i].score >= L1Threshold
        /\ answer.layer = "L2" =>
             /\ answer.logged >= L2Threshold
             /\ \E i \in DOMAIN searched : answer.page = searched[i].page
        /\ answer.layer = "L4" => l4Enabled /\ \E i \in DOMAIN boosted : Best(i)
        /\ answer.layer \in {"L0", "MISS"} => searched = <<>> \/ ~l4Enabled

\* The query log tells what the user was told: one row, of the layer and the
\* page answered, whose confidence is the one answered once L4's is capped and
\* it is rounded.  A transaction that failed may have left no row, never two.
LogAgrees ==
    Returned =>
        /\ Len(log) = 1 \/ (logFailed /\ log = <<>>)
        /\ \A i \in DOMAIN log :
             /\ log[i].layer = answer.layer /\ log[i].page = answer.page
             /\ answer.confidence =
                  Rounded(IF log[i].layer = "L4" THEN WeakConfidence(log[i].confidence)
                          ELSE log[i].confidence)
=============================================================================
