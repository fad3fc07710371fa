----------------------------- MODULE PageIndex -----------------------------
(***************************************************************************)
(* The page index (L1): the table nav_index and everything that writes it. *)
(*                                                                         *)
(*   - discover_page (services/discovery.py): a page reports itself; the   *)
(*     hash check, index_page and the hash store are three transactions;   *)
(*   - POST /admin/index and reindex-all (routes/admin.py): index_page for *)
(*     one page, or for every row a SELECT returned, one transaction each; *)
(*   - bulk_index and crawl_sitemap (services/crawler.py): index_page for  *)
(*     a list of pages, where one that fails is skipped;                   *)
(*   - DELETE /admin/index/{id}.                                           *)
(*                                                                         *)
(* A page's label, description and tags are one content, always written    *)
(* together with the embedding made from them.  The audit row that follows *)
(* an administrator's write is in HotPaths: nothing here reads it.         *)
(***************************************************************************)
EXTENDS Integers, Sequences, FiniteSets, Functions

CONSTANTS
    Workers,            \* requests in flight, one per Lambda instance
    Sites, Paths,
    Contents, Hashes,
    HashOf,             \* [Contents -> Hashes], content_hash
    Batches,            \* lists of pages an administrator may send or crawl
    MaxBatch,           \* MAX_PAGES_PER_CRAWL
    Limit,              \* the limit of a reindex-all call
    NoPage, NoHash,
    MaxVisits, MaxWrites, MaxReindexes  \* bounds on the requests of a behaviour

Key == Sites \X Paths                   \* UNIQUE (site_id, path)
Page == [content : Contents, hash : Hashes \cup {NoHash}]
Job == [key : Key, content : Contents]

ASSUME SizesAssumption ==
    /\ MaxBatch \in Nat \ {0} /\ Limit \in Nat \ {0}
    /\ MaxVisits \in Nat /\ MaxWrites \in Nat /\ MaxReindexes \in Nat
    /\ IsFiniteSet(Sites) /\ IsFiniteSet(Paths)
ASSUME ContentAssumption ==
    /\ HashOf \in [Contents -> Hashes]
    /\ NoHash \notin Hashes /\ NoPage \notin Page
    /\ Batches \subseteq Seq([path : Paths, content : Contents])

VARIABLES
    page,       \* nav_index: the row of each key, or NoPage
    pc,         \* what each request does next
    todo,       \* the pages it has yet to index, the current one first
    reported,   \* history: the jobs that came from visitors and administrators
    calm,       \* history: keys on which no two requests met and none failed
    last,       \* history: the content last stored for a key, or found there by a visit
    mixed,      \* history: requests that met others on a key, or had no vector for it
    astray,     \* history: keys whose row is not known to be what was last reported
    visits, writes, reindexes               \* requests so far

bounds == <<visits, writes, reindexes>>
history == <<last, mixed, astray>>
vars == <<page, pc, todo, reported, calm, history, bounds>>

Live(k) == page[k] # NoPage
Now(w) == Head(todo[w])
KeysOf(jobs) == {j.key : j \in Range(jobs)}
On(w, k) == k \in KeysOf(todo[w])
Busy(k) == \E w \in Workers : On(w, k)

Init ==
    /\ page = [k \in Key |-> NoPage]
    /\ pc = [w \in Workers |-> "idle"]
    /\ todo = [w \in Workers |-> <<>>]
    /\ reported = {}
    /\ calm = Key
    /\ last = [k \in Key |-> NoPage] /\ mixed = {} /\ astray = {}
    /\ visits = 0 /\ writes = 0 /\ reindexes = 0

Meet(w, keys) ==
    {m \in Workers \X keys : Busy(m[2]) /\ (m[1] = w \/ On(m[1], m[2]))}
Start(w, at, jobs) ==
    /\ pc[w] = "idle"
    /\ jobs # <<>>
    /\ pc' = [pc EXCEPT ![w] = at]
    /\ todo' = [todo EXCEPT ![w] = jobs]
    /\ calm' = {k \in calm : ~(k \in KeysOf(jobs) /\ Busy(k))}
    /\ mixed' = mixed \cup Meet(w, KeysOf(jobs))
    /\ UNCHANGED <<page, last, astray>>
Goto(w, at) == pc' = [pc EXCEPT ![w] = at] /\ UNCHANGED todo
Rid(w) == {m \in mixed : m[1] # w}
Done(w) ==
    /\ pc' = [pc EXCEPT ![w] = "idle"]
    /\ todo' = [todo EXCEPT ![w] = <<>>]
    /\ mixed' = Rid(w)
(* On to the next page of a list.                                          *)
Advance(w) ==
    /\ todo' = [todo EXCEPT ![w] = Tail(@)]
    /\ IF Len(todo[w]) = 1 THEN pc' = [pc EXCEPT ![w] = "idle"] /\ mixed' = Rid(w)
       ELSE UNCHANGED <<pc, mixed>>
Spoilt(w) == calm' = calm \ {Now(w).key}
Aborted(w) == calm' = calm \ KeysOf(todo[w])
Alone(w) == <<w, Now(w).key>> \notin mixed
Reports(w) == last' = [last EXCEPT ![Now(w).key] = Now(w).content]
(* A visit that ends between its content and its hash.                     *)
Halved(w) == astray' = IF pc[w] = "hash" THEN astray \cup {Now(w).key} ELSE astray

-----------------------------------------------------------------------------
(* index_page's upsert: the content and its embedding; never the hash.     *)
Upserted_Null(p, c) == NoHash
Upserted(p, c) ==
    IF p = NoPage THEN [content |-> c, hash |-> NoHash] ELSE [p EXCEPT !.content = c]
Stored(w) == page' = [page EXCEPT ![Now(w).key] = Upserted(@, Now(w).content)]

(* discover_page: a visitor's browser reports its page.                    *)
Discover(w) ==
    /\ visits < MaxVisits
    /\ visits' = visits + 1
    /\ \E j \in Job : Start(w, "check", <<j>>) /\ reported' = reported \cup {j}
    /\ UNCHANGED <<writes, reindexes>>

(* The hash check; a SELECT that fails counts as a change.                 *)
Same_OrMissing(w) ==
    LET p == page[Now(w).key] IN p # NoPage => p.hash = HashOf[Now(w).content]
Same_Visited(w) == LET p == page[Now(w).key] IN p # NoPage /\ p.hash # NoHash
Same(w) == LET p == page[Now(w).key] IN p # NoPage /\ p.hash = HashOf[Now(w).content]

Unchanged(w) ==
    /\ pc[w] = "check" /\ Same(w)
    /\ Reports(w)
    /\ Done(w)
    /\ UNCHANGED <<page, reported, calm, astray, bounds>>
Changed(w) ==
    /\ pc[w] = "check" /\ ~Same(w)
    /\ Goto(w, "index")
    /\ UNCHANGED <<page, reported, calm, history, bounds>>
CheckFails(w) ==
    /\ pc[w] = "check"
    /\ Goto(w, "index")
    /\ Spoilt(w)
    /\ UNCHANGED <<page, reported, history, bounds>>

DiscoverIndex(w) ==
    /\ pc[w] = "index"
    /\ Stored(w) /\ Reports(w)
    /\ Goto(w, "hash")
    /\ UNCHANGED <<reported, calm, mixed, astray, bounds>>
(* encode gives nothing (no model, or it failed): index_page returns as if *)
(* it had stored the page, and discover_page goes on to store the hash.    *)
DiscoverNoVector(w) ==
    /\ pc[w] = "index"
    /\ Goto(w, "hash")
    /\ Spoilt(w) /\ mixed' = mixed \cup {<<w, Now(w).key>>}
    /\ UNCHANGED <<page, reported, last, astray, bounds>>
DiscoverFails(w) ==
    /\ pc[w] \in {"index", "hash"}
    /\ Done(w)
    /\ Spoilt(w) /\ Halved(w)
    /\ UNCHANGED <<page, reported, last, bounds>>

StoreHash(w) ==
    /\ pc[w] = "hash"
    /\ LET k == Now(w).key
       IN  /\ page' = IF Live(k) THEN [page EXCEPT ![k].hash = HashOf[Now(w).content]] ELSE page
           /\ astray' = IF Alone(w) THEN astray \ {k} ELSE astray \cup {k}
    /\ Done(w)
    /\ UNCHANGED <<reported, calm, last, bounds>>

-----------------------------------------------------------------------------
(* POST /admin/index: one page.  bulk_index and crawl_sitemap: the first   *)
(* MAX_PAGES_PER_CRAWL of a list.                                          *)
FirstN(s, n) == SubSeq(s, 1, IF Len(s) > n THEN n ELSE Len(s))
JobsOf(site, pages) ==
    [i \in DOMAIN pages |-> [key |-> <<site, pages[i].path>>, content |-> pages[i].content]]
Write(w, at, jobs) ==
    /\ writes < MaxWrites
    /\ writes' = writes + 1
    /\ Start(w, at, jobs)
    /\ reported' = reported \cup Range(jobs)
    /\ UNCHANGED <<visits, reindexes>>
PostPage(w) == \E j \in Job : Write(w, "post", <<j>>)
Bulk(w) == \E site \in Sites, b \in Batches : Write(w, "bulk", JobsOf(site, FirstN(b, MaxBatch)))

(* reindex-all: the rows of one site, or of all, LIMIT and OFFSET without  *)
(* an ORDER BY: any rows, but for their number.  Each is then written back *)
(* as it was read, under the site it was read from.                        *)
Orders(S) == {s \in [1 .. Cardinality(S) -> S] : Range(s) = S}
Scans(scope, offset) ==
    LET rows == {k \in Key : Live(k) /\ k[1] \in scope}
        left == Cardinality(rows) - offset
        size == IF left < 0 THEN 0 ELSE IF left > Limit THEN Limit ELSE left
    IN  UNION {Orders(S) : S \in {T \in SUBSET rows : Cardinality(T) = size}}
Scanned_AskedSite(s, scope) ==
    [i \in DOMAIN s |-> [key |-> <<CHOOSE x \in scope : TRUE, s[i][2]>>,
                         content |-> page[s[i]].content]]
Scanned(s, scope) == [i \in DOMAIN s |-> [key |-> s[i], content |-> page[s[i]].content]]
ReindexAll(w) ==
    /\ reindexes < MaxReindexes
    /\ reindexes' = reindexes + 1
    /\ \E scope \in {{s} : s \in Sites} \cup {Sites}, offset \in {0, Limit} :
         \E s \in Scans(scope, offset) : Start(w, "reindex", Scanned(s, scope))
    /\ UNCHANGED <<reported, visits, writes>>

(* One page of a list: stored, or passed over without a vector.  Stored    *)
(* over a page that was visited, it keeps the hash of that visit.          *)
Hashed(k) == Live(k) /\ page[k].hash # NoHash
ListIndex(w) ==
    /\ pc[w] \in {"post", "bulk", "reindex"}
    /\ Stored(w)
    /\ Advance(w)
    /\ IF pc[w] = "reindex" THEN last' = last ELSE Reports(w)
    /\ LET k == Now(w).key
       IN  astray' = IF Alone(w) /\ (pc[w] = "reindex" \/ ~Hashed(k)) THEN astray
                     ELSE astray \cup {k}
    /\ UNCHANGED <<reported, calm, bounds>>
ListNoVector(w) ==
    /\ pc[w] \in {"post", "bulk", "reindex"}
    /\ Advance(w)
    /\ Spoilt(w)
    /\ UNCHANGED <<page, reported, last, astray, bounds>>
(* index_page raises: a bulk load or a crawl skips the page, the others    *)
(* end with it.                                                            *)
ListFails(w) ==
    /\ pc[w] \in {"post", "bulk", "reindex"}
    /\ IF pc[w] = "bulk" THEN Advance(w) /\ Spoilt(w) ELSE Done(w) /\ Aborted(w)
    /\ UNCHANGED <<page, reported, last, astray, bounds>>

DeletePage(w) ==
    /\ pc[w] = "idle"
    /\ writes < MaxWrites
    /\ writes' = writes + 1
    /\ \E k \in Key :
         /\ Live(k)
         /\ page' = [page EXCEPT ![k] = NoPage]
         /\ calm' = IF Busy(k) THEN calm \ {k} ELSE calm
         /\ mixed' = mixed \cup {m \in Workers \X {k} : On(m[1], k)}
         /\ astray' = IF Busy(k) THEN astray ELSE astray \ {k}
    /\ UNCHANGED <<pc, todo, reported, last, visits, reindexes>>

(* The instance is stopped or times out: what was committed stays.         *)
Crash(w) ==
    /\ pc[w] # "idle"
    /\ Done(w)
    /\ Aborted(w) /\ Halved(w)
    /\ UNCHANGED <<page, reported, last, bounds>>

Step(w) ==
    \/ Unchanged(w) \/ Changed(w) \/ CheckFails(w)
    \/ DiscoverIndex(w) \/ DiscoverNoVector(w) \/ DiscoverFails(w) \/ StoreHash(w)
    \/ ListIndex(w) \/ ListNoVector(w) \/ ListFails(w)
Request(w) == Discover(w) \/ PostPage(w) \/ Bulk(w) \/ ReindexAll(w) \/ DeletePage(w)
Next == \E w \in Workers : Step(w) \/ Request(w) \/ Crash(w)

Spec == Init /\ [][Next]_vars
(* An instance that is running a request goes on with it.                  *)
FairSpec == Spec /\ \A w \in Workers : WF_vars(Step(w))
-----------------------------------------------------------------------------
(* Every variable has its type. *)
TypeOK ==
    /\ page \in [Key -> Page \cup {NoPage}]
    /\ pc \in [Workers -> {"idle", "check", "index", "hash", "post", "bulk", "reindex"}]
    /\ todo \in [Workers -> Seq(Job)]
    /\ \A w \in Workers : pc[w] = "idle" <=> todo[w] = <<>>
    /\ reported \subseteq Job
    /\ calm \subseteq Key /\ astray \subseteq Key
    /\ last \in [Key -> Contents \cup {NoPage}]
    /\ mixed \subseteq Workers \X Key
    /\ visits \in Nat /\ writes \in Nat /\ reindexes \in Nat

(* No site's index shows, for a path, a content that was not reported by a *)
(* visitor of that page or sent for it: reindex-all writes back rows of    *)
(* several sites that it read some time before, while pages come, change   *)
(* and go.                                                                 *)
ContentVouched ==
    \A k \in Key : Live(k) => [key |-> k, content |-> page[k].content] \in reported

(* What the index shows of a page, and the hash by which the next visit    *)
(* is told that nothing changed, are those of its last report (as far as   *)
(* content_hash tells contents apart), but between a visit's content and   *)
(* its hash.  Failed checks, failed or skipped pages, re-embeddings and    *)
(* requests on other pages never change that.  A page goes astray only     *)
(* where two requests on it met, a visit found no vector or ended between  *)
(* content and hash, or an administrator's page was put over a visited     *)
(* one; and one visit by itself that goes through puts it right again.     *)
Halfway(k) == \E w \in Workers : pc[w] = "hash" /\ Now(w).key = k
ShowsLastReport ==
    \A k \in Key \ astray : (Live(k) /\ ~Halfway(k)) =>
        /\ HashOf[page[k].content] = HashOf[last[k]]
        /\ page[k].hash \in {NoHash, HashOf[last[k]]}

(* A page that reports itself gets into the index, unless a request on it  *)
(* fails or two requests on it meet.                                       *)
Reporting(k) == \E w \in Workers : pc[w] = "check" /\ Now(w).key = k
ReportedIsIndexed == \A k \in Key : Reporting(k) ~> (Live(k) \/ k \notin calm)

(* What discover_page's docstring says: it indexes a page "if it is new or *)
(* its content changed".  So when it answers "unchanged" the index has     *)
(* the content just reported (administrators' writes aside).               *)
UnchangedIsIndexed ==
    [][\A w \in Workers : Unchanged(w) => page[Now(w).key].content = Now(w).content]_vars
=============================================================================
