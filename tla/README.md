# portal-nav-api in TLA+

A verification project kept beside the portal navigation service: TLA+ models
of what the service stores and of how its requests interleave, TLC runs on
small instances, and proofs that TLAPS checks for all instances.

## 1. The system

The service answers "where do I ...?" queries of portal users with a page to go
to. It runs as AWS Lambda instances. One instance serves one request at a time
(a batch request uses up to five threads), keeps settings, a redirect cache, a
vocabulary cache, two neural models and a connection pool in memory, and can be
started or stopped at any moment. All instances share one Postgres database at
READ COMMITTED. A browser widget sends queries, navigations and page reports; an
administrator's console sends the `/admin` requests. No transaction of the code
takes an explicit lock: what keeps the tables right is the order of statements,
`ON CONFLICT` clauses and unique keys.

### Inventory

| Component | Source | State it keeps | Operations | What makes it correct |
|---|---|---|---|---|
| Feedback loop | `services/feedback.py` | `nav_navigate_log`, aliases and rows of `nav_hot_paths` | `record_navigation`: log, `_learn_alias`, `_maybe_promote`, three transactions | learned phrasings belong to the page, stay distinct and capped, are not lost; popular pages are promoted, and promotion overwrites nothing |
| Hot-path registry, L0 | `services/hot_path.py` | `nav_hot_paths` | `lookup`, `_increment_hit`, `upsert_path`, `evict_cold_paths` | the early exit of the scan loses no better row; popularity is kept |
| Administration | `routes/admin.py` | all tables, `nav_audit_log`, settings | hot paths, index, configuration, redirects, each followed by `_audit` | no write audited twice, and none unaudited but for a failure; writes confined to their tenant |
| Self-discovery | `services/discovery.py`, `routes/discover.py` | `nav_index` and its `content_hash` | hash check, `index_page`, hash store: three transactions | a page is indexed when new or changed, and only then said to be unchanged |
| Page index, L1 | `services/embedding.py` | `nav_index`, the model | `index_page`, `search`, `encode` | a row's content is its page's; embedding and text agree |
| Crawler, bulk load | `services/crawler.py` | none | `crawl_sitemap`, `bulk_index` | one failing page does not stop or disturb the others |
| Instance memory | `core/db.py`, `core/config.py`, `handler.py` | pool, settings, `SITE_OVERRIDES`, `ALIAS_CACHE` | `init_pool`, `_load_config_overrides`, `load_alias_cache` | memory differs from the database only when it must; no setting out of bounds |
| Migrations, retention | `core/db.py` | the schema, ages of log rows | `_run_migrations` at every cold start | concurrent cold starts agree; logs are purged per tenant |
| Query router | `services/query_router.py` | `nav_query_log` | `route_query`: L0, L1, L2, L3, L4, redirect, MISS | layers in order, each answer above its threshold, one log row per query |
| Reranker, L2 | `services/reranker.py` | the model | `rerank` | its answer clears the L2 gate; a score it overwrites and rejects never makes L4 navigate |
| Intent, spelling | `services/intent.py`, `services/spelling.py` | vocabulary cache per site | `intent_core`, `get_vocab`, `correct_query` | one rebuild per TTL; a failed build must not stick |
| Batch and pool | `routes/query.py`, `core/db.py` | pool slots | `handle_batch`, `get_conn`, `_close_pool` | answers in the order of the queries; pool slots returned |
| Widget | `widget/nav-widget.js` | learned routes, recent pages, timers, requests in flight | query, suggest, navigate, open, close, crawl | the user goes where the current query leads, once |
| Reports | `services/analytics.py`, `services/miss_mining.py` | none | read-only | - |
| Dispatch, authentication | `handler.py`, `core/auth.py` | none | routes and key scopes | - |

Components interact through the database (all services), through settings in
the memory of one instance (administration, instance memory, router), and by
call (the router calls lookup, search, rerank and `_alias_lookup`; discovery,
crawler and administration call `index_page`; the navigate route calls
`record_navigation`).

What is hard: statements of different instances interleave between any two
transactions of one request; a request can stop after any commit; failures of
single statements are logged and swallowed; memory of one instance is not told
of the writes of another; widget answers arrive late. The list of hazards, each
at its line, is in `PROJECT.json`.

## 2. Modules

| Module | What it is |
|---|---|
| `HotPaths` | the hot-path registry: feedback loop, lookups, administrator, audit |
| `Registry` | abstract: the registry's tables without requests; `HotPaths` implements it |
| `HotPathsProofs` | theorems about `HotPaths`, that refinement included |
| `PageIndex` | the page index: discovery, administrator's pages, bulk loads, reindex-all |
| `PageIndexProofs` | theorems about `PageIndex` |
| `ReindexSweep` | `PageIndex` with a client that pages through reindex-all |
| `LambdaInstances` | cold start, redirect cache and settings of several instances |
| `LambdaInstancesProofs` | theorems about `LambdaInstances` |
| `HotPathAnswer` | abstract: what a lookup promises, in one step |
| `HotPathScan` | `lookup`'s scan, row by row with its early exit; implements `HotPathAnswer` |
| `HotPathScanProofs` | that refinement, as a theorem |
| `QueryRouter` | one query through all layers; extends `HotPathScan` |
| `QueryRouterProofs` | theorems about `QueryRouter`, sorting included |
| `QueryBatch` | the threads of a batch, the connection pool, the vocabulary lock |
| `BatchAnswer` | abstract: a batch answered in one piece; `QueryBatch` implements it |
| `QueryBatchProofs` | theorems about `QueryBatch`, that refinement included |
| `Widget` | the palette of one browser tab |
| `WidgetProofs` | theorems about `Widget` |
| `Migrations` | the table locks of concurrent cold starts |
| `MigrationsProofs` | theorems about `Migrations` |
| `MCHotPaths`, `MCPageIndex`, `MCReindexSweep`, `MCLambdaInstances`, `MCQueryRouter`, `MCQueryBatch`, `MCWidget`, `MCMigrations` | constants for TLC |

An operator named `X_Something` just before `X` is `X` with a plausible bug: the
properties are run against these variants to see that they can fail.

### HotPaths

`hot` is `nav_hot_paths` as a function from (site, path) - the table's unique
key - to a row or `NoRow`; `id` is the primary key, `nextId` a source of fresh
ones. `navLog` is the part of `nav_navigate_log` inside the promotion window.
`pc`, `req` and `seen` are one request per worker: the next statement, the
navigation, and what an earlier SELECT returned.

| Actions | Code |
|---|---|
| `Navigate` | first transaction of `record_navigation` |
| `LearnSkip`, `LearnRead`, `LearnUpdate`, `LearnInsert`, `LearnFail` | `_learn_alias`: its early returns, SELECT with the duplicate check, UPDATE by id, INSERT ... DO NOTHING, exception |
| `PromoteCount`, `PromoteUpsert`, `PromoteFail` | `_maybe_promote`: the COUNT, the upsert that refreshes only the label, exception |
| `Lookup`, `IncrementHit`, `IncrementFail` | `lookup` and its second transaction |
| `UpsertPath`, `PutPath`, `DeletePath`, `PinPath`, `WriteNothing` | administrator's statements, also those that match no row |
| `Audit`, `AuditFail` | `_audit`, a transaction of its own, failures swallowed |
| `Crash`, `WindowSlides` | the instance stops; a navigation gets too old, or retention deletes it |

Text is abstract: `CoreOf` is `intent_core` with its length limit, `Similar` the
pairs of phrases with a Levenshtein ratio of `ALIAS_DUP_RATIO` or more; nothing is
assumed of `Similar`, not even symmetry. How the exponential decay orders rows
that have hits is left open: `Cut` allows every order in which a pinned row comes
before an unpinned one of fewer than `PinBonus` hits, and rows with hits before rows
without. `taught`, `listed`, `lapsed` and
`lostAudit` are history and guard nothing. `trail` counts the audit rows of each
administrator's write. A commit that is applied although its acknowledgement or the
return of its connection fails ends the request there: that is `Crash`. A failed statement before the first commit
of a request changes nothing and is a stuttering step.

`Registry` is what is left when requests are taken away: the rows, and what has
been recorded and listed so far. It has no snapshot and no program counter; a step
records a navigation, or does one thing to one row by what is recorded *now*:
`Learn` leaves a list whose phrases all belong to the page and of which the last was
learned, `Create`, `Relabel`, `Hit`, and the administrator's `Put`, `Pin`, `Remove`.
`ActsAsRegistry` is its specification, with the variables of the same names: a read
of an older state, a row replaced between SELECT and UPDATE, or a stop between
two statements never lets a statement do what could not be justified by itself.
(A learned phrase may be lost on the way, and `Registry` allows it; that is
`OnlyOldestEvicted`.) `PutPath` on a missing row and every failure are stutters.

### PageIndex and ReindexSweep

`page` is `nav_index`: a content (label, description, tags and the embedding
made from them, always written together) and the stored `content_hash`. `NoHash`
is NULL or the empty string that the migration fills in: neither equals any
hash. `todo` is the list of pages a request has yet to index; a discovery is a
list of one. `index_page` has three outcomes everywhere it is called: stored,
silently not stored because there was no vector, and raised. Discovery ignores
the second and goes on to store the hash; a bulk load or crawl skips a page
that raises; POST and reindex-all end with it.

The rest is history and guards nothing. `last` is what was last stored for a page by a
visitor or an administrator, or found there by a visit. `mixed` are the requests that
met another on a page, or had no vector for it. `astray` are the pages whose row is not
known to show the last report: requests met on them, a visit had no vector or ended
between content and hash, or an administrator's page was put over a visited one. One
visit that goes through by itself takes a page off `astray`. `calm` are the pages on
which no requests met and none failed.

`ReindexSweep` adds a client that calls reindex-all, advances its offset by the
limit while the answer has `has_more`, and remembers what was re-embedded. SQL
gives no order to rows without ORDER BY, and an UPDATE moves a row in Postgres's
heap: `Scans` allows any rows, of the right number.

### LambdaInstances

`aliases` and `conf` are `nav_path_aliases` and `nav_config`; `cache`, `globals`
and `overrides` the memory of each instance. `at` orders a cold start (pool and
migrations, settings, redirects) and the second half of a write (reload after a
redirect, persist after settings). A start that fails leaves an instance without a
pool for its life. `Answers` is the set of answers `_alias_lookup` may give: from the
cache, site by site, or, when that is empty, from the table, all sites at once with
LIMIT 1, or none at all because the SELECT failed (`Selected`). A redirect's write that
is applied may still end in a 500 without a reload (`Committed`): the acknowledgement
was lost, or the connection could not be given back. `PerSite` are the settings
the router reads per tenant, which `MAX_HOT_PATHS` is not.

### HotPathAnswer, HotPathScan and QueryRouter

`HotPathScan` scores the fetched rows in rank order as `lookup` does: a row
replaces the best so far only if strictly better, the ceiling of the early exit is
computed from the rank of the row just scored, and the threshold is compared at
the end. Scores are exact: `0.8 * text + 0.2 * rank`, with the cross-site
penalty, is multiplied by everything it is divided by, and becomes an integer.
`HotPathAnswer` states the promise in one step: the first row with the best score,
if it clears the threshold. `AnswersFirstBest` is the abstract specification with
`asking` mapped to `scanning` and `offer` to `found`.

`QueryRouter` runs the scan for the query and then for its corrected core, and then
one action per layer. `at` is where `route_query` is, `cands` its list of
candidates, `answer` the result decided on and `log` the rows inserted for the
query. The search may return any list in descending order; `InContext` boosts
and sorts it again; `Rerank` lets the cross-encoder give any scores, overwrites the
score of the first of the maxima and passes it through the gate; `RerankSkipped` is
the way without a model. Every layer that fails in the code answers as one
without a match, which is among the choices. Scores may be negative, as a cosine may,
and a page may come up twice, for two sites. `WeakCandidate` logs the score before
the cap, as the code does; `Rounded` is the rounding of the answer that is sent, which
the log does not share. `LogFail` is a transaction of the log that reports a failure:
its row may be there all the same, and nobody tries again. The functions that boost
and round are parameters: nothing is assumed of them but the range.

### QueryBatch

`handle_batch`'s executor: `Take(w)` starts the next distinct query on a free
thread (or rejects one that is too long), `Answer` fans the results out. Queries are
the same when they are stripped and lower-cased to the same `Key`, but the length
limit is applied to the spelling that came first, outer spaces included (`Refused`). A
thread's query asks for the vocabulary or not (`CheckVocab`), takes the lock
(`TakeLock`), and makes its statements, each as `Borrow`, `Execute`, `GiveBack`:
`get_conn.__enter__`, the statement with its commit, and `__exit__`. A commit may
be followed by a failure of its own acknowledgement. `Sigterm` is `_close_pool` at any
moment; afterwards every statement fails. `Expire` is the vocabulary's TTL. The
reads of a query before its log row are counted, not told apart (`Reads` bounds
them; `QueryRouter` tells them apart).

`BatchAnswer` knows no threads: a batch is submitted, a query in it that is not refused
may leave one log row, and the batch is answered in one step, one spelling of each query
speaking for all. `AnswersInOnePiece` is its specification, with `logged` the rows
per key (`LoggedRows`); everything else of `QueryBatch` stutters. It allows a query
without a row (`_log` swallows its failures), and whichever spelling to speak: a query
refused for the length of its padded duplicate is within the promise.

### Widget

`input` is the text in the box, `panel` what is displayed, `debounce`, `leaps` the
timers, `suggesting` and `calls` the requests in flight, `learned` and `recent`
local storage. Only a suggest request is aborted by newer input; query requests
and the 400 ms navigation timers are not, and go on when the palette closes.
`NoScore` is JavaScript's `undefined`, for which every comparison is false.
`Heard` sets the text without an input event. `Load` is the page that `navigate`
assigned: everything but local storage starts anew. `typed`, `shownFor` and
`answered` are history.

### Migrations

`Script` lists the table locks of `_run_migrations` on a database that has its
schema, in the order the transaction first takes them: CREATE INDEX takes SHARE
even when the index is there, ALTER TABLE takes ACCESS EXCLUSIVE. Requests of other
instances (`Clients`) run transactions meanwhile: a read of one table (ACCESS SHARE,
which alone holds up an ALTER TABLE), a write of one (ROW EXCLUSIVE), or the
promotion's, which reads the navigations and writes the registry. A lock is granted when
nobody holds a conflicting one (`Holders`) and nobody waits in front for one
(`InFront`); `waiting` and `ahead` are the queues. `Abort` is the lock timeout or
Postgres's choice of a deadlock's victim; `init_pool` then leaves the instance without a
pool. A deadlock has one victim: Postgres looks for one after a second
(`deadlock_timeout`), and `lock_timeout` is three, so the victim's locks are gone before
another wait ends. `heldUp` remembers that a start gave up with a request in its way,
and guards nothing.

## 3. Runs

| Run | Configuration | Result |
|---|---|---|
| `hotpaths` | 2 workers, 2 sites, 1 path, 2 queries, 2 navigations, 1 lookup, 1 write; lists of at most 2, threshold 2, fairness | 816 thousand states; nine properties hold, one of them the refinement of `Registry` |
| `hotpaths_lost` | 1 site and path, 3 queries, 3 navigations, safety only | `OnlyOldestEvicted` fails: a lost update |
| `page_index` | 2 workers, 2 sites, 1 path, 2 contents, 3 visits, 1 write, 1 reindex, fairness | 718 thousand states; four properties hold |
| `discovery_stale` | 1 worker, 3 visits | `UnchangedIsIndexed` fails: hash without content |
| `reindex_gaps` | 2 pages, limit 1 | `AllReembedded` fails: a page passed over |
| `instances` | 2 instances, 2 sites, 2 old paths of one form, 2 settings, 2 writes, 1 stop | 350 thousand states; five properties hold |
| `query_router` | 2 pages, lists of at most 2 candidates, scores -1 to 2, 3 registry rows with texts out of 4 and both sites, a log that may fail | 23 thousand states, 5 million steps; four properties hold, one of them the refinement |
| `query_batch` | 2 threads, 2 connections, batches of 3 and 5 queries with two spellings of one, one of them too long, 2 reads, fairness | 43 thousand states; seven properties hold, one of them the refinement of `BatchAnswer` |
| `widget` | 2 queries, an empty and a short text, 1 page, 2 confidences, 5 moves of the user, fairness | 501 thousand states; six properties hold |
| `widget_late` | the same, 4 moves, safety only | `LearnedWasAnswered` fails: a page learned for another query |
| `cold_starts` | 3 cold starts, 1 request at a time that reads or writes, fairness | 483 thousand states; four properties hold |
| `migrations` | 2 cold starts, 1 request at a time, safety only | `StartsDoNotDeadlock` fails: each waits for the other |

Bounds. Requests per behaviour are bounded (`MaxNavs`, `MaxVisits`, `MaxWrites`
and the like), so a behaviour ends when they are used up: deadlock is not
checked. Two workers are enough for every pair of statements to interleave; two
navigations with a threshold of two are enough for both to cross it together,
and two with lists of two, for eviction together with an administrator's list
of two; one query has a phrase to learn and the other has none, so that both ways
through the learner meet. Two sites are needed to see a write that reaches the wrong tenant.
`page_index` takes three visits so that a content can come, change and come
back. In `instances` two writes make one instance overtake the other between
its commit and its reload, and one stop puts a restart anywhere. Worker
symmetry is used in `instances` only, where all properties are symmetric in the
workers and none is a liveness property or a refinement. In `query_router` a text
similarity out of 4 is the least at which an early exit with the ceiling of a wrong rank
passes over a better row; two candidates are enough for the boost to
reorder them and for the cross-encoder to spoil the order again. `query_batch` has
as many connections as threads, as the defaults have; with fewer, `PoolSuffices`
fails as it should. Two threads and up to three routed queries make a query wait for a
free thread and two threads meet at the lock; that more threads change nothing is proved.
Three starts in `cold_starts` let one wait for a second that waits for a third, a
start survive two others, and one queue behind another that waits for a request. The
scores of `query_router` put one value below zero, one that the boost lifts to the L1
threshold, and one that reaches it by itself; the cross-encoder answers below or above
its gate. Five moves in `widget` allow: type, wait, close, open, type; answers,
errors and timers are not moves and come at will (a user's moves bound the
requests they can be about). A behaviour of `widget` ends when the moves are used
up and everything has arrived, and one of `migrations` or `cold_starts` may end when all
instances have started, so deadlock is not checked there. In `query_router` and `query_batch`
there is always a next query or batch, and deadlock is checked.

Fairness. `FairSpec` asks weak fairness of `Step(w)`, the next statement of a
request under way: a Lambda instance is frozen only between requests, and every
statement ends (success or failure) within the function's time limit. Nothing
asks that requests arrive, that instances stop or do not, or that a statement
succeeds: the failing alternative is in `Step` too, and the liveness properties
name failure as a way out. In `query_batch` each thread takes its next step and
the main thread collects the results: threads of a running function are
scheduled, and a statement or the pool answers or fails. Neither SIGTERM nor the
expiry of the vocabulary is asked for. In `widget` the debounce timer fires and
every query request ends, by an answer, an error or the widget's own
ten-second timeout; nothing is asked of the user, nor of suggestions. In `cold_starts` each
start takes its next step, which may be the end of its patience: Postgres enforces
`lock_timeout`. (The transaction of CREATE EXTENSION before it, db.py:63-67, has none, and
is not modelled: `StartsEnd` is about `_run_migrations`.) Nothing is asked of the requests
that run meanwhile, not even that they end.

### What the passing runs say

- `RowsVouched`: no row carries an alias or a label that was not navigated to, or
  listed, for that very path of that very site, although learners write by an id
  they read before.
- `LearnedDistinct`, `LearnedCapped`: duplicates and lists above the limit are an
  administrator's alone, entry by entry.
- `ActsAsRegistry`: with requests taken away, each statement is one that the navigations
  and lists recorded until then justify by themselves, on one row.
- `NoMissedPromotion`, `PopularBecomesHot`: requests that cross the threshold
  together cannot all miss it.
- `PopularityKept`: learners and promotions never lower hits nor change a pin.
- `AuditExact`: a committed write has exactly one audit row, or is about to, or lost it to
  a failure between the two commits; none is audited that was not committed.
- `ContentVouched`, `ReportedIsIndexed`: contents stay with their page and tenant;
  reported pages get in.
- `ShowsLastReport`: what the index shows of a page, and the hash by which the next
  visit is told that nothing changed, are those of its last report. Failed checks, failed
  or skipped pages, re-embeddings and requests on other pages do not change that; what
  does is named (`astray`), and one visit that goes through by itself puts it right.
- `StaleOnlyIfBehind`, `WriterSeesItsWrite`: a redirect answer differs from the
  table only after a write the instance has not loaded, or is "none" because a live
  lookup failed with nothing in memory; the instance that acknowledged the last write
  never answers with what it replaced.
- `RestartKeepsConfig`, `SettingsInBounds`: an instance's settings are those of a
  restart but for the named reasons, and never out of bounds.

- `AnswersFirstBest`: neither the early exit of the scan nor its strict
  comparison loses the best row, or the highest ranked of equals.
- `LayersInOrder`: L1 answers exactly when a boosted candidate reaches its threshold,
  with the best of them, which is in the user's own section or reached the threshold by
  itself; L2 with a candidate at its threshold; L4 with the best boosted candidate whatever
  score the cross-encoder overwrote, and leaves none unanswered where it is enabled. The
  list must be sorted again after the boost for this; later layers look at its head only.
- `LogAgrees`: a query leaves one log row, of what was answered, or none if its
  insertion reported a failure; never two. The confidence is the one sent, before the cap of
  L4 and before rounding.
- `AnswersInPlace`: duplicates included, every position of a batch has the result
  of its own query, in whatever order the threads finish and whatever fails.
- `AnswersInOnePiece`: to its client a batch is answered in one step; all spellings of a
  query get one result, and what is refused for its length is not logged, what is
  routed at most once.
- `PoolSuffices`, `OneRebuildPerTTL`, `BatchNeverStuck`, `BatchAnswered`: failed
  statements, SIGTERM between a commit and its return, and threads meeting at
  the vocabulary neither leak or exhaust connections, rebuild twice, nor stop or keep a
  batch waiting.
- `SuggestionsAreCurrent`, `TimerIsCurrent`: late suggestions never replace those for the
  text last typed, and the debounce timer never asks for another. That is all: opening the
  palette empties the box and a transcript changes it without an input event, and
  neither property speaks of the box then.
- `LimitedModeShown`: the limited mode, its banner and the count of failures agree in any
  order of answers.
- `SearchIsServed`, `SearchEnds`: a palette that says "searching" has a request or a
  timer under way that will end it, and it ends.
- `OneAltersAtATime`: from its first ALTER TABLE on a cold start has the schema for itself, so
  what its DO blocks test still holds when they act on it.
- `SomeStartSurvives`, `StartsEnd`: every cold start ends, and starts that lock each other
  out never all end without a pool, unless a request, reading or writing, held or waited
  for a lock in the way of one that gave up.

### What the failing runs say

Each is a disagreement between a sentence of the repository and its code, quoted
in `PROJECT.json` under `findings`: phrasings lost to a concurrent update
(`hotpaths_lost`); a hash stored for a content that was not (`discovery_stale`);
pages never re-embedded by paging (`reindex_gaps`); a page learned for a query it
did not answer (`widget_late`); cold starts that wait for each other (`migrations`).

### Remarks

Seen while modelling; each is told by reading a few lines, so no run is spent on
it.

- `LIMIT MAX_HOT_PATHS` cuts rows by hits, and only rows that are read earn hits:
  a learned row can stay cut off (`hot_path.py:46`).
- A redirect is looked up in the cache when the cache has anything at all, so a warm
  cache hides a redirect that the table has (`query_router.py:266-272`), where
  `query_router.py:254-256` and `db.py:361-362` promise a live lookup "on a cache miss".
- An administrator's committed write may have no audit row, because `_audit` is another
  transaction whose failure is swallowed (`admin.py:65-66`); `db.py:286-287` calls the table
  an "immutable record of every admin write operation" and speaks of a "complete trail", as
  do `RUNBOOK.md:195` and `197`. Nothing makes the table immutable either.
  `AuditExact` says when a row is missing.
- An administrator's page over a visited one leaves the visit's hash in place
  (`embedding.py:99-107` does not write it), so a later visit with the old content is
  told "unchanged" while the index shows another. `db.py:192` calls it the "hash of
  last-indexed content", and `discovery.py:63` promises to index what changed.
- `content_hash` joins label, description and tags with "|" (`discovery.py:58`), so two
  contents that contain that character may have one hash; `HashOf` need not be injective.
- A query whose log row fails to be inserted has none (`query_router.py:313-314`), where
  `tests/CATALOGUE.md:36` (ROUTE-09) says "exactly once".
- L3's confidence is "below the auto-navigate threshold" by its comments
  (`query_router.py:126-127`, `config.py:56-57`); `L3_CONFIDENCE` may be set up to 1.0
  (`config.py:58`) and the widget's `data-threshold` to any number. No property relies on
  their order.
- A late answer to an earlier query navigates, or replaces the results of a newer one
  (`nav-widget.js:467`): nothing in the widget prevents it, `Found` models it, and
  no property excludes it.
- `PUT /admin/config` for one site also sets and persists the global value
  (`admin.py:278-291`).
- The boost does lift candidates over `L1_THRESHOLD`, against the comment at
  `query_router.py:96-97` ("can't promote a low-confidence result past the L1 threshold on
  its own"). `LayersInOrder` holds with that: it says what is then answered.
- A learned route the widget follows by itself is learned again without its
  confidence (`nav-widget.js:474`: the argument has no `score`).
- The 90-day sweep of retention runs before the tenants' own (`db.py:258`), so a
  longer retention has no effect.
- A cross-encoder may return raw logits, so a confidence may lie outside 0..1;
  `RerankScores` holds a negative score.

## 4. Proofs

TLAPS checks the following for every value of the constants, from the named
assumptions of each module.

**HotPathsProofs**, for every set of instances, sites, paths, queries and
phrases, every `Similar`, every list an administrator may send and every bound
(`SizesAssumption`, `TextAssumption`, `NullAssumption`; only the finiteness of
`Queries` is more than typing):

- `TypeCorrect`, `TypeSafe`: typing. `TypeInv` adds to `TypeOK` that a request
  past its first commit has a navigation, and that one about to write an alias
  has a phrase.
- `Vouching`: the inductive invariant `VouchInv`. `RowsVouched`, `LearnedDistinct`
  and `LearnedCapped` are not inductive: `LearnUpdate` writes a list read in an
  earlier state. `VouchInv` adds unique primary keys below `nextId` (`Ids`), that
  the navigation of each request is recorded (`Pending`), and of each pending
  UPDATE that its list was good for its path when read and still is, that its
  core is like none of it, and that whatever row now has its id is a row of that
  path (`Snapshots`). The step proof follows rows by primary key (`Lineage`): a
  row after a step is a row from before with the same id, or is new with a fresh
  one, at one key only.
- `AliasesAreVouched`, `AliasesStayDistinct`, `AliasesStayCapped` follow from it.
- `NoPromotionIsMissed`: `NoMissedPromotion` with the typing is inductive. A path
  gets popular only by `Navigate`, whose request then owes the promotion, and a
  request that owes it finds the path popular when it counts.
- `AuditStaysExact`: `AuditExact` with `AuditInv`, that the number of each write under
  audit is that of a committed write, is not among the lost ones and is no other request's.
- `RegistryImplemented`: the refinement. Each statement is one lemma: under `VouchInv` an
  UPDATE by id touches no row or the row of its own path (`LearnUpdateActs`,
  `IncrementActs`), a list extended from a snapshot is `Learnable` now
  (`GoodIsLearnable`), an INSERT or upsert is a `Create`, `Relabel` or nothing.
- `PopularityIsKept`: an action property; `KindTo` is shown of each step and row.

**HotPathScanProofs**, for every scale of scores, penalty not above 1, threshold and number of
rows (`ScaleAssumption`): `ScanInvariant` says that while the scan runs no row
before `idx` beats the best so far and the best is the first to have its score;
`CeilingBounds` that no later row exceeds the ceiling of the early exit; so a
`Return` is a `Reply`, and `ScanAnswersFirstBest` is the refinement.

**QueryRouterProofs**, for every set of pages, boost, rounding, threshold, range of scores
and number of candidates (`LayerAssumption` gives types only): `RoutingAnswersFirstBest`
transfers the refinement to the router, whose other steps the scan sees as stutters.
`Sorted`, that sorting keeps the entries and puts the first of the maxima first, rests on
counting: the entries before each one number 0 to n - 1 (`AheadSets`), differently for
different entries (`PlacesGrow`), so every place is taken (`PlacesTaken`). `RouteInv` is
the inductive invariant: past L1 no boosted candidate is at the threshold, what is decided is good, the
log is empty until the end. `LayersAnswerInOrder`, `LogTellsTheAnswer` and
`RouterTypes` follow.

**QueryBatchProofs**, for every set of threads, batch, number of reads and
connections (`PoolAssumption`: no more threads than connections, which the defaults
5 and 5 satisfy and `DB_POOL_MAXCONN` can be set to break; `BatchAssumption`):
`PoolAlwaysSuffices` from `PoolInv`, since a thread that asks for a connection holds
none; `VocabularyRebuiltOnce` from `VocabInv`, that a builder holds the lock and
nothing was built since the expiry; `EachLoggedAtMostOnce` (which no run checks by itself:
`AnswersInOnePiece` contains it) from `RowsInv`, that
no two threads work on one query, and that a row is there only when its thread has
executed its insertion or is gone; `EveryPositionAnswered` from `ResultsInv` with lemmas on
numbering the distinct queries by first occurrence, by well-founded induction on
the naturals.

- `BatchTypes`: the typing, by `ThreadType` and `PoolInv`.
- `NeverStuck`: `WorkInv` says that the vocabulary's lock is held by a thread that
  builds, and that a query taken and not answered is in some thread's hands. So if
  nobody can go on nobody is busy, all queries are taken, and all are answered.
- `AnsweredInOnePiece`: `OutcomeInv` adds that each result is the outcome of the spelling that
  came first. The map needs that numbers and keys of distinct queries correspond
  (`NumberOfKey`, by `RankOnto`: every number up to their count is taken). `Submit`
  and `Answer` map to their namesakes, a committed insertion to `Log`, the rest to stutters.

**WidgetProofs**, for every set of texts and paths, every threshold and any
number of moves: `SuggestionsStayCurrent` (strengthened by `RequestIsCurrent`: the
live suggest request is for the text last typed), `TimerStaysCurrent`,
`LimitedModeStaysShown`; `WidgetTypes`, by lemmas on what `RecordRecent` keeps of a list
(`WithoutKeeps`, `RecentKept`: bounded and free of repetitions); `SearchIsAlwaysServed`,
from `SearchInv`, which every way to display "searching" starts with a request or a timer, and
every end of one removes the display or leaves another under way.

**MigrationsProofs**, for any number of starts and requests (`StartsAssumption`: at least
one start): `StartTypes`; `SchemaAlteredByOne` by `TheDoor`, that a start past its first
ALTER TABLE holds the exclusive lock on `nav_index` to its end, which nobody else can then take;
`StartSurvives` from `QueueInv`, that who stands in a queue is a transaction under way and
stands behind such only: what is in the way of a start that gives up is a request, or another
start that goes on (`BlockersGoOn`).

**PageIndexProofs**, for every set of sites, paths, contents and requests, finite sites and
paths (`SizesAssumption`, `ContentAssumption`): `IndexTypes`; `ContentsAreVouched`, where
`VouchInv` adds that every page a request has yet to index was sent for its key;
`LastReportsAreShown`, whose invariant adds to `ShowsLastReport` that requests that share a
page are in `mixed`, and what a request alone on its page has left there at each of its
steps.

**LambdaInstancesProofs**, for every set of instances, sites, old paths, settings, bounds and
scopes (`AliasAssumption`, `ConfigAssumption`): `InstanceTypes` and
`SettingsStayInBounds` by typing the settings within the bounds, which a PUT refused
half-way keeps because each setting is checked before it is set. `CacheInv` (a cache is
empty or as a load of the table could have filled it, unless the instance is behind;
the last writer's also, unless it has yet to reload) gives `StaleOnlyWhenBehind` and
`WritersSeeTheirWrites`, by `FreshIsFaithful`: such a cache answers as the table does, and an
empty one as the table does or not at all. `RestartsKeepConfig` needs `ConfigInv`, which speaks of the
global settings and the tenants' apart, for their combination alone is not
inductive: memory has what `nav_config` has (`Restored`), or, between a PUT and its
commit, what the commit is about to write (`Ahead`); `OverOver` then shows that
setting in memory and loading after the commit lead to the same.

Every safety and action property of the passing runs is stated by a theorem. Only
model-checked: liveness (`PopularBecomesHot`, `ReportedIsIndexed`, `BatchAnswered`,
`SearchEnds`, `StartsEnd`), which is out of reach of the installed provers.

## 5. Not modelled

- Eviction of cold paths: `POST /admin/hot-paths/evict` is caught by the branch for
  `/admin/hot-paths/{id}`, whose `_validate_uuid("evict")` raises, so the program
  never evicts.
- The widget's crawl of a site, focus and keyboard handling.
- Retention: its DELETEs are plain functions of the age of rows. `WindowSlides`
  stands for their effect on `nav_navigate_log`. Also the first creation of the
  schema: `Migrations` starts from a database that has it.
- Dispatch and authentication: stateless, one branch per request.
- Text functions (normalising, intent core, edit distance, correction): abstract
  sets and relations, or open choices, wherever they matter to a decision.
- Reports, metrics, suggest and health: read-only.
- A SIGTERM that arrives while the main thread holds psycopg2's own pool lock.
- Sitemap fetching, logging, PII scrubbing, demo portals and deployment: no state the
  properties depend on.

## 6. What is left

In order of importance: a condition under which the paging of `ReindexSweep` does
re-embed every page (a stable order of the rows), and its proof; the widget's crawl;
retention with the ages of rows; the dispatcher of admin URLs.
