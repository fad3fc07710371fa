------------------------------ MODULE HotPaths ------------------------------
(***************************************************************************)
(* The hot-path registry (L0): the table nav_hot_paths and everything that *)
(* writes it while requests run side by side in several Lambda instances.  *)
(*                                                                         *)
(*   - record_navigation (services/feedback.py): the feedback loop, three  *)
(*     transactions one after the other: log the navigation, learn its     *)
(*     phrasing as an alias, promote the path if it is popular;            *)
(*   - lookup (services/hot_path.py): read the top rows, answer, then      *)
(*     count the hit in a second transaction;                              *)
(*   - the administrator's POST, PUT, DELETE and pin (routes/admin.py),    *)
(*     each followed by its audit row in a transaction of its own.         *)
(*                                                                         *)
(* Postgres runs at READ COMMITTED: one action is one statement that takes *)
(* effect, with the COMMIT that follows it, and a SELECT whose result is   *)
(* used by a later statement is an action of its own.  Text is abstract:   *)
(* CoreOf gives a query's intent core (NoCore when it is empty or longer   *)
(* than ALIAS_MAX_LEN) and Similar the pairs at or above ALIAS_DUP_RATIO.  *)
(* A navigation is "sure" when its confidence reaches                      *)
(* PROMOTE_MIN_CONFIDENCE.                                                 *)
(***************************************************************************)
EXTENDS Integers, Sequences, FiniteSets, Functions

CONSTANTS
    Workers,        \* requests in flight, one per Lambda instance
    Sites, Paths,   \* tenants and portal paths
    Queries,        \* raw queries
    Phrases,        \* intent cores, labels in lower case, administrators' aliases
    CoreOf,         \* [Queries -> Phrases \cup {NoCore}]
    Labels,         \* page labels
    LowerOf,        \* [Labels -> Phrases]: the label lowered and stripped
    Similar,        \* pairs of phrases that count as the same alias
    AliasLists,     \* the alias lists an administrator may send
    MaxAliases, PromoteUnique, MaxHotPaths,
    NoCore, NoRow, NoReq,
    MaxNavs, MaxLookups, MaxWrites      \* bounds on the requests of a behaviour

ASSUME SizesAssumption ==
    /\ MaxAliases \in Nat \ {0}
    /\ PromoteUnique \in Nat \ {0}
    /\ MaxHotPaths \in Nat \ {0}
    /\ MaxNavs \in Nat /\ MaxLookups \in Nat /\ MaxWrites \in Nat
ASSUME TextAssumption ==
    /\ CoreOf \in [Queries -> Phrases \cup {NoCore}]
    /\ NoCore \notin Phrases
    /\ LowerOf \in [Labels -> Phrases]
    /\ Similar \subseteq Phrases \X Phrases
    /\ AliasLists \subseteq Seq(Phrases)
    /\ IsFiniteSet(Queries)

Key == Sites \X Paths                   \* UNIQUE (site_id, path)

Row == [id : Nat \ {0}, label : Labels, aliases : Seq(Phrases),
        hits : Nat, pinned : BOOLEAN]

Navigation == [key : Key, query : Queries, label : Labels, sure : BOOLEAN]

ASSUME NullAssumption == NoRow \notin Row /\ NoReq \notin Navigation

VARIABLES
    hot,        \* nav_hot_paths: the row of each key, or NoRow
    nextId,     \* the next primary key; a UUID is never used twice
    navLog,     \* nav_navigate_log inside the promotion window
    pc,         \* the statement each request executes next
    req,        \* its navigation
    seen,       \* the row it read: its id and aliases
    learned,    \* what its _learn_alias returned
    trail,      \* nav_audit_log: how many rows each administrator's write has
    taught,     \* history: the navigations ever recorded
    listed,     \* history: the label and alias list of every administrator's write
    lapsed,     \* history: keys whose promotion check failed, or whose row was deleted
    lostAudit,  \* history: the writes whose audit row was never inserted
    navs, lookups, writes               \* requests so far

hotVars == <<hot, nextId>>
bounds == <<navs, lookups, writes>>
history == <<taught, listed, lapsed, lostAudit>>
vars == <<hot, nextId, navLog, pc, req, seen, learned, trail, history, bounds>>

LastN_OffByOne(s, n) == SubSeq(s, IF Len(s) > n THEN Len(s) - n ELSE 1, Len(s))
LastN(s, n) == SubSeq(s, IF Len(s) > n THEN Len(s) - n + 1 ELSE 1, Len(s))

Live(k) == hot[k] # NoRow
NoSeen == [id |-> 0, aliases |-> <<>>]
Seen == [id : Nat, aliases : Seq(Phrases)]

(* A row as INSERT makes it: hit_count is 0 and last_hit_at NULL.          *)
NewRow(label, aliases, pinned) ==
    [id |-> nextId, label |-> label, aliases |-> aliases, hits |-> 0, pinned |-> pinned]

Insert(k, row) == hot' = [hot EXCEPT ![k] = row] /\ nextId' = nextId + 1
Update(k, row) == hot' = [hot EXCEPT ![k] = row] /\ UNCHANGED nextId
IsRow(k, id) == Live(k) /\ hot[k].id = id

(* COUNT(DISTINCT raw_query) of the promotion check.                       *)
SureQueries(k) == {e.query : e \in {n \in navLog : n.key = k /\ n.sure}}
Popular(k) == Cardinality(SureQueries(k)) >= PromoteUnique

Core(w) == CoreOf[req[w].query]

Init ==
    /\ hot = [k \in Key |-> NoRow]
    /\ nextId = 1
    /\ navLog = {}
    /\ pc = [w \in Workers |-> "idle"]
    /\ req = [w \in Workers |-> NoReq]
    /\ seen = [w \in Workers |-> NoSeen]
    /\ learned = [w \in Workers |-> FALSE]
    /\ trail = [n \in 1 .. MaxWrites |-> 0]
    /\ taught = {} /\ listed = {} /\ lapsed = {} /\ lostAudit = {}
    /\ navs = 0 /\ lookups = 0 /\ writes = 0

Goto(w, l) == pc' = [pc EXCEPT ![w] = l]
Done(w) ==
    /\ Goto(w, "idle")
    /\ req' = [req EXCEPT ![w] = NoReq]
    /\ seen' = [seen EXCEPT ![w] = NoSeen]
    /\ learned' = [learned EXCEPT ![w] = FALSE]

-----------------------------------------------------------------------------
(* record_navigation.  The first transaction; if it fails the request ends *)
(* and nothing has changed.                                                *)
Navigate(w) ==
    /\ pc[w] = "idle"
    /\ navs < MaxNavs
    /\ \E n \in Navigation :
         /\ navLog' = navLog \cup {n}
         /\ taught' = taught \cup {n}
         /\ req' = [req EXCEPT ![w] = n]
    /\ Goto(w, "learn")
    /\ navs' = navs + 1
    /\ UNCHANGED <<hotVars, seen, learned, trail, listed, lapsed, lostAudit,
                   lookups, writes>>

(* _learn_alias: nothing worth learning, or the label already says it.     *)
LearnSkip(w) ==
    /\ pc[w] = "learn"
    /\ Core(w) \in {NoCore, LowerOf[req[w].label]}
    /\ Goto(w, "count")
    /\ UNCHANGED <<hotVars, navLog, req, seen, learned, trail, history, bounds>>

(* Its SELECT, and the duplicate check on what the SELECT returned.        *)
Known_Exact(w, row) == Core(w) \in Range(row.aliases)
Known(w, row) == \E x \in Range(row.aliases) : <<Core(w), x>> \in Similar
LearnRead(w) ==
    /\ pc[w] = "learn"
    /\ Core(w) \notin {NoCore, LowerOf[req[w].label]}
    /\ LET row == hot[req[w].key]
       IN  \/ row = NoRow /\ Goto(w, "insert") /\ UNCHANGED seen
           \/ row # NoRow /\ Known(w, row) /\ Goto(w, "count") /\ UNCHANGED seen
           \/ /\ row # NoRow /\ ~Known(w, row) /\ Goto(w, "update")
              /\ seen' = [seen EXCEPT ![w] = [id |-> row.id, aliases |-> row.aliases]]
    /\ UNCHANGED <<hotVars, navLog, req, learned, trail, history, bounds>>

(* Its UPDATE ... WHERE id: the list read earlier with the core appended,  *)
(* the oldest phrasings dropped above MAX_ALIASES.  A row deleted since is *)
(* not matched, and the function returns True all the same.                *)
ById_ByPath(w) ==
    {k \in Key : IsRow(k, seen[w].id) \/ (pc[w] = "update" /\ Live(k) /\ k[2] = req[w].key[2])}
ById(w) == {k \in Key : IsRow(k, seen[w].id)}
Extended(w) == LastN(Append(seen[w].aliases, Core(w)), MaxAliases)
LearnUpdate(w) ==
    /\ pc[w] = "update"
    /\ hot' = [k \in Key |-> IF k \in ById(w) THEN [hot[k] EXCEPT !.aliases = Extended(w)]
                             ELSE hot[k]]
    /\ learned' = [learned EXCEPT ![w] = TRUE]
    /\ seen' = [seen EXCEPT ![w] = NoSeen]
    /\ Goto(w, "count")
    /\ UNCHANGED <<nextId, navLog, req, trail, history, bounds>>

(* Its INSERT ... ON CONFLICT DO NOTHING: True even when a row was there.  *)
LearnInsert(w) ==
    /\ pc[w] = "insert"
    /\ IF Live(req[w].key)
       THEN UNCHANGED hotVars
       ELSE Insert(req[w].key, NewRow(req[w].label, <<Core(w)>>, FALSE))
    /\ learned' = [learned EXCEPT ![w] = TRUE]
    /\ Goto(w, "count")
    /\ UNCHANGED <<navLog, req, seen, trail, history, bounds>>

(* A statement of _learn_alias raises: logged, False, and on to promotion. *)
LearnFail(w) ==
    /\ pc[w] \in {"learn", "update", "insert"}
    /\ Core(w) \notin {NoCore, LowerOf[req[w].label]}
    /\ seen' = [seen EXCEPT ![w] = NoSeen]
    /\ Goto(w, "count")
    /\ UNCHANGED <<hotVars, navLog, req, learned, trail, history, bounds>>

(* _maybe_promote: the confidence guard, and the COUNT.                    *)
Due_Strict(w) == req[w].sure /\ Cardinality(SureQueries(req[w].key)) > PromoteUnique
Due(w) == req[w].sure /\ Popular(req[w].key)
PromoteCount(w) ==
    /\ pc[w] = "count"
    /\ IF Due(w)
       THEN Goto(w, "promote") /\ UNCHANGED <<req, seen, learned>>
       ELSE Done(w)
    /\ UNCHANGED <<hotVars, navLog, trail, history, bounds>>

(* Its upsert: a new row, or only the label of the row that is there.      *)
Refreshed_Overwrite(row, label) == [NewRow(label, <<>>, FALSE) EXCEPT !.id = row.id]
Refreshed_Null(row, label) == [row EXCEPT !.label = label, !.aliases = NoRow]
Refreshed(row, label) == [row EXCEPT !.label = label]
PromoteUpsert(w) ==
    /\ pc[w] = "promote"
    /\ LET n == req[w]
       IN  IF Live(n.key)
           THEN Update(n.key, Refreshed(hot[n.key], n.label))
           ELSE Insert(n.key, NewRow(n.label, <<>>, FALSE))
    /\ Done(w)
    /\ UNCHANGED <<navLog, trail, history, bounds>>

PromoteFail(w) ==
    /\ pc[w] = "promote" \/ (pc[w] = "count" /\ req[w].sure)
    /\ lapsed' = lapsed \cup {req[w].key}
    /\ Done(w)
    /\ UNCHANGED <<hotVars, navLog, trail, taught, listed, lostAudit, bounds>>

-----------------------------------------------------------------------------
(* lookup.  The SELECT keeps MAX_HOT_PATHS rows in the order of their      *)
(* decayed hit counts, a pin counting as PinBonus hits that do not decay.  *)
(* How far hits have decayed is left open: a row outranks another for sure *)
(* when it does so whatever the decay.                                     *)
PinBonus == 10000
Outranks(a, b) ==
    \/ a.pinned /\ ~b.pinned /\ b.hits < PinBonus
    \/ a.pinned = b.pinned /\ a.hits > 0 /\ b.hits = 0

Candidates(scope) == {k \in Key : k[1] \in scope /\ Live(k)}
Cut(rows) ==
    {top \in SUBSET rows :
        /\ Cardinality(top) = IF Cardinality(rows) > MaxHotPaths THEN MaxHotPaths
                              ELSE Cardinality(rows)
        /\ \A k \in top, j \in rows \ top : ~Outranks(hot[j], hot[k])}

(* Which of the top rows scores best depends on the query: any may.        *)
Lookup(w) ==
    /\ pc[w] = "idle"
    /\ lookups < MaxLookups
    /\ \E scope \in SUBSET Sites \ {{}} :
         \E top \in Cut(Candidates(scope)) :
           \E k \in top : seen' = [seen EXCEPT ![w] = [NoSeen EXCEPT !.id = hot[k].id]]
    /\ Goto(w, "hit")
    /\ lookups' = lookups + 1
    /\ UNCHANGED <<hotVars, navLog, req, learned, trail, history, navs, writes>>

(* _increment_hit: by id, no effect on a row that is gone.                 *)
IncrementHit(w) ==
    /\ pc[w] = "hit"
    /\ hot' = [k \in Key |-> IF k \in ById(w) THEN [hot[k] EXCEPT !.hits = @ + 1] ELSE hot[k]]
    /\ Done(w)
    /\ UNCHANGED <<nextId, navLog, trail, history, bounds>>

IncrementFail(w) ==
    /\ pc[w] = "hit"
    /\ Done(w)
    /\ UNCHANGED <<hotVars, navLog, trail, history, bounds>>

-----------------------------------------------------------------------------
(* The administrator.  A write is one statement; the request then goes on  *)
(* to _audit, whose row is known by the number of the write.               *)
AdminWrite(w) ==
    /\ pc[w] = "idle"
    /\ writes < MaxWrites
    /\ writes' = writes + 1
    /\ seen' = [seen EXCEPT ![w] = [NoSeen EXCEPT !.id = writes + 1]]
    /\ Goto(w, "audit")
    /\ UNCHANGED <<navLog, req, learned, trail, taught, lostAudit, navs, lookups>>

(* POST /admin/hot-paths: upsert_path overwrites label, aliases and pin.   *)
UpsertPath(w) ==
    /\ AdminWrite(w)
    /\ \E k \in Key, label \in Labels, aliases \in AliasLists, pinned \in BOOLEAN :
         /\ IF Live(k)
            THEN Update(k, [hot[k] EXCEPT !.label = label, !.aliases = aliases,
                                          !.pinned = pinned])
            ELSE Insert(k, NewRow(label, aliases, pinned))
         /\ listed' = listed \cup {[key |-> k, label |-> label, aliases |-> aliases]}
    /\ UNCHANGED lapsed

(* PUT /admin/hot-paths/{id}: the same columns of the row with this id, if *)
(* it exists in the site named by the request.  The list is the one the    *)
(* console last showed, whatever has been learned since.                   *)
PutPath(w) ==
    /\ AdminWrite(w)
    /\ \E k \in Key, label \in Labels, aliases \in AliasLists, pinned \in BOOLEAN :
         /\ Live(k)
         /\ Update(k, [hot[k] EXCEPT !.label = label, !.aliases = aliases, !.pinned = pinned])
         /\ listed' = listed \cup {[key |-> k, label |-> label, aliases |-> aliases]}
    /\ UNCHANGED lapsed

DeletePath(w) ==
    /\ AdminWrite(w)
    /\ \E k \in Key :
         /\ Live(k)
         /\ Update(k, NoRow)
         /\ lapsed' = lapsed \cup {k}
    /\ UNCHANGED listed

PinPath(w) ==
    /\ AdminWrite(w)
    /\ \E k \in Key : Live(k) /\ Update(k, [hot[k] EXCEPT !.pinned = TRUE])
    /\ UNCHANGED <<listed, lapsed>>

(* The console's id is stale, or of another site: no row is matched, the   *)
(* answer is 200 and the audit row is written as for any other write.      *)
WriteNothing(w) ==
    /\ AdminWrite(w)
    /\ UNCHANGED <<hotVars, listed, lapsed>>

(* _audit: its row is inserted.  The function returns alike whether or not *)
(* the commit is acknowledged and the connection given back.               *)
Audit(w) ==
    /\ pc[w] = "audit"
    /\ trail' = [trail EXCEPT ![seen[w].id] = @ + 1]
    /\ Done(w)
    /\ UNCHANGED <<hotVars, navLog, history, bounds>>

(* Its INSERT fails: swallowed, and not tried again.                       *)
AuditFail_Retried(w) ==
    /\ pc[w] = "audit" /\ trail' = [trail EXCEPT ![seen[w].id] = @ + 1]
    /\ UNCHANGED <<hotVars, navLog, pc, req, seen, learned, history, bounds>>
AuditFail(w) ==
    /\ pc[w] = "audit"
    /\ lostAudit' = lostAudit \cup {seen[w].id}
    /\ Done(w)
    /\ UNCHANGED <<hotVars, navLog, trail, taught, listed, lapsed, bounds>>

-----------------------------------------------------------------------------
(* The Lambda instance is stopped, or times out, in the middle of a        *)
(* request: what was committed stays, the rest is rolled back.  The same   *)
(* step is the request that ends with an error because the return of its   *)
(* connection, or the answer to its COMMIT, failed after the commit.       *)
Crash(w) ==
    /\ pc[w] # "idle"
    /\ Done(w)
    /\ lapsed' = IF pc[w] \notin {"hit", "audit"} /\ req[w].sure
                 THEN lapsed \cup {req[w].key} ELSE lapsed
    /\ lostAudit' = IF pc[w] = "audit" THEN lostAudit \cup {seen[w].id} ELSE lostAudit
    /\ UNCHANGED <<hotVars, navLog, trail, taught, listed, bounds>>

(* A navigation leaves the promotion window.                               *)
WindowSlides ==
    /\ \E n \in navLog : navLog' = navLog \ {n}
    /\ UNCHANGED <<hotVars, pc, req, seen, learned, trail, history, bounds>>

Step(w) ==
    \/ LearnSkip(w) \/ LearnRead(w) \/ LearnUpdate(w) \/ LearnInsert(w) \/ LearnFail(w)
    \/ PromoteCount(w) \/ PromoteUpsert(w) \/ PromoteFail(w)
    \/ IncrementHit(w) \/ IncrementFail(w)
    \/ Audit(w) \/ AuditFail(w)

Request(w) ==
    \/ Navigate(w) \/ Lookup(w)
    \/ UpsertPath(w) \/ PutPath(w) \/ DeletePath(w) \/ PinPath(w) \/ WriteNothing(w)

Next == WindowSlides \/ \E w \in Workers : Step(w) \/ Request(w) \/ Crash(w)

Spec == Init /\ [][Next]_vars
(* An instance that is running a request goes on with it: it is frozen     *)
(* only between requests, and every wait on the database is bounded.       *)
FairSpec == Spec /\ \A w \in Workers : WF_vars(Step(w))
-----------------------------------------------------------------------------
(* Every variable has its type. *)
TypeOK ==
    /\ hot \in [Key -> Row \cup {NoRow}]
    /\ nextId \in Nat \ {0}
    /\ navLog \subseteq Navigation
    /\ pc \in [Workers -> {"idle", "learn", "update", "insert", "count", "promote",
                           "hit", "audit"}]
    /\ req \in [Workers -> Navigation \cup {NoReq}]
    /\ seen \in [Workers -> Seen]
    /\ learned \in [Workers -> BOOLEAN]
    /\ trail \in [1 .. MaxWrites -> Nat] /\ lostAudit \subseteq Nat
    /\ taught \subseteq Navigation
    /\ listed \subseteq [key : Key, label : Labels, aliases : AliasLists]
    /\ lapsed \subseteq Key
    /\ navs \in Nat /\ lookups \in Nat /\ writes \in Nat

Taught(k, a) == \E n \in taught : n.key = k /\ CoreOf[n.query] = a
Listed(k, a) == \E e \in listed : e.key = k /\ a \in Range(e.aliases)

(* No path of any site ever carries an alias or a label that did not come  *)
(* from a navigation to that very path of that very site, or from an       *)
(* administrator's write to it: the learner writes by primary key a list   *)
(* it read in an earlier statement, and the row may have been deleted and  *)
(* the path inserted anew in between (_learn_alias, _maybe_promote).       *)
RowsVouched ==
    \A k \in Key : Live(k) =>
        /\ \A a \in Range(hot[k].aliases) : Taught(k, a) \/ Listed(k, a)
        /\ \/ \E n \in taught : n.key = k /\ n.label = hot[k].label
           \/ \E e \in listed : e.key = k /\ e.label = hot[k].label

(* Whatever learners and administrators interleave, two similar aliases on *)
(* one row are both the administrator's doing: the duplicate check of      *)
(* _learn_alias holds on the list that is written, not only on the one     *)
(* that was read.                                                          *)
LearnedDistinct ==
    \A k \in Key : Live(k) =>
        \A j \in DOMAIN hot[k].aliases : \A i \in 1 .. j - 1 :
            LET newer == hot[k].aliases[j]
                older == hot[k].aliases[i]
            IN  <<newer, older>> \in Similar => Listed(k, newer) /\ Listed(k, older)

(* A list longer than MAX_ALIASES is, entry by entry, an administrator's.  *)
LearnedCapped ==
    \A k \in Key : Live(k) =>
        \/ Len(hot[k].aliases) <= MaxAliases
        \/ \A a \in Range(hot[k].aliases) : Listed(k, a)

(* No popular path is missed: each request counts in a statement after its *)
(* own navigation committed, so of several that reach the threshold        *)
(* together at least one sees it.  A path with enough distinct sure        *)
(* queries in the window is hot, or a request that will promote it is      *)
(* under way, or a promotion of it failed or its row was deleted.          *)
Promoting(k) ==
    \E w \in Workers : /\ pc[w] \in {"learn", "update", "insert", "count", "promote"}
                       /\ req[w].key = k /\ req[w].sure
NoMissedPromotion ==
    \A k \in Key : Popular(k) => Live(k) \/ Promoting(k) \/ k \in lapsed

(* Every write of an administrator has exactly one audit row, or none yet  *)
(* because its request is about to insert it, or none because the INSERT   *)
(* failed or the request ended between the two commits (_audit): no write  *)
(* is audited twice, and nothing is audited that was not committed.        *)
Auditing(n) == \E w \in Workers : pc[w] = "audit" /\ seen[w].id = n
AuditExact ==
    \A n \in 1 .. MaxWrites :
        trail[n] = IF n > writes \/ n \in lostAudit \/ Auditing(n) THEN 0 ELSE 1

(* While a row lives, learners and promotions take nothing from it: its    *)
(* hits never go down, and only an administrator's statement changes its   *)
(* pin.  (The lists and labels they write were computed from older reads.) *)
PopularityKept ==
    [][\A k \in Key : (Live(k) /\ Live(k)' /\ hot[k].id = hot'[k].id) =>
          /\ hot'[k].hits >= hot[k].hits
          /\ writes' = writes => hot'[k].pinned = hot[k].pinned]_vars

(* Whatever requests read before they write, and whatever happens between  *)
(* the two, the table changes as Registry says: one row at a time, by what *)
(* has been recorded for that row.                                         *)
Abstract == INSTANCE Registry
ActsAsRegistry == Abstract!Spec

(* A popular path becomes hot, unless its promotion fails, its row is      *)
(* deleted, or its navigations leave the window first.                     *)
PopularBecomesHot ==
    \A k \in Key : Popular(k) ~> (Live(k) \/ k \in lapsed \/ ~Popular(k))

(* What the docstring of _learn_alias says: aliases are "capped at         *)
(* MAX_ALIASES, evicting the oldest learned phrasing first".  Only the     *)
(* oldest phrasing of a full list ever goes, but for an administrator.     *)
OnlyOldestEvicted ==
    [][\A k \in Key : (Live(k) /\ Live(k)' /\ writes' = writes) =>
          \A i \in DOMAIN hot[k].aliases :
             hot[k].aliases[i] \in Range(hot'[k].aliases)
             \/ (i = 1 /\ Len(hot[k].aliases) = MaxAliases)]_vars
=============================================================================
