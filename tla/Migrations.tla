----------------------------- MODULE Migrations -----------------------------
(***************************************************************************)
(* core/db.py, init_pool() and _run_migrations(): cold starts of several   *)
(* instances against a database that has its schema already, while other   *)
(* instances serve requests.  Each start runs the same DDL in one          *)
(* transaction, which changes nothing and locks all the same: CREATE INDEX *)
(* IF NOT EXISTS takes SHARE on its table before it sees that the index is *)
(* there, ALTER TABLE takes ACCESS EXCLUSIVE, and both are kept until the  *)
(* end.  A lock is granted when nobody holds, or waits in front for, one   *)
(* that conflicts with it.                                                 *)
(***************************************************************************)
EXTENDS Integers, Sequences, FiniteSets

CONSTANTS
    Starts,      \* instances that start
    Clients      \* transactions of requests that run at the same time

ASSUME StartsAssumption == Starts # {} /\ Starts \cap Clients = {}

Parties == Starts \cup Clients
Tables == {"hot_paths", "index", "query_log", "navigate_log", "audit_log", "path_aliases"}

VARIABLES
    status,      \* "starting", "up" or "down": without a pool for good
    request,     \* per client: the locks its transaction takes, <<>> between two
    next,        \* per party: the next of its locks
    waiting,     \* the parties in the queue of a table
    ahead,       \* per party that waits: who waited before it
    heldUp       \* history: a start has given up with a request in its way

vars == <<status, request, next, waiting, ahead, heldUp>>

Read(t) == [table |-> t, mode |-> "access_share"]
Write(t) == [table |-> t, mode |-> "row_exclusive"]
Share(t) == [table |-> t, mode |-> "share"]
Exclusive(t) == [table |-> t, mode |-> "access_exclusive"]

\* The table locks of the DDL on an existing schema, in its order, each where
\* its transaction first takes it.
Script == <<
    Share("hot_paths"), Share("query_log"), Share("navigate_log"),
    Exclusive("index"), Exclusive("hot_paths"), Exclusive("query_log"), Exclusive("navigate_log"),
    Share("audit_log"), Share("path_aliases") >>

\* A request reads or writes one table in a transaction; the promotion counts
\* navigations and then writes the registry.
Requests ==
    {<<Read(t)>> : t \in Tables} \cup {<<Write(t)>> : t \in Tables}
    \cup {<<Read("navigate_log"), Write("hot_paths")>>}

Plan(p) == IF p \in Starts THEN Script ELSE request[p]
Active(p) == IF p \in Starts THEN status[p] = "starting" ELSE request[p] # <<>>
Wants(p) == Active(p) /\ next[p] <= Len(Plan(p))
Wanted(p) == Plan(p)[next[p]]

\* The variant commits after every statement and keeps the last lock only.
Held_Autocommit(p) ==
    IF Active(p) THEN {Plan(p)[k] : k \in {next[p] - 1} \ {0}} ELSE {}
Held(p) == IF Active(p) THEN {Plan(p)[k] : k \in 1 .. next[p] - 1} ELSE {}

Conflict(a, b) ==
    /\ a.table = b.table
    /\ \/ "access_exclusive" \in {a.mode, b.mode}
       \/ {a.mode, b.mode} = {"share", "row_exclusive"}

\* Who holds a lock that p's next one conflicts with.  In the variant every
\* statement has a connection of its own from the pool, and waits for the
\* start's other ones.
Holders_OwnConnections(p) == {q \in Parties : \E l \in Held(q) : Conflict(Wanted(p), l)}
Holders(p) == {q \in Parties \ {p} : \E l \in Held(q) : Conflict(Wanted(p), l)}

\* Who waits in front of p for a lock that p's conflicts with.
Earlier(p) == IF p \in waiting THEN ahead[p] ELSE waiting
InFront(p) == {q \in Earlier(p) \ {p} : Conflict(Wanted(p), Wanted(q))}

Blockers(p) == Holders(p) \cup InFront(p)

Leave(p) ==
    /\ waiting' = waiting \ {p}
    /\ ahead' = [q \in Parties |-> IF q = p THEN {} ELSE ahead[q] \ {p}]

Init ==
    /\ status = [i \in Starts |-> "starting"]
    /\ request = [c \in Clients |-> <<>>]
    /\ next = [p \in Parties |-> 1]
    /\ waiting = {} /\ ahead = [p \in Parties |-> {}]
    /\ heldUp = FALSE

Lock(p) ==
    /\ Wants(p) /\ Blockers(p) = {}
    /\ next' = [next EXCEPT ![p] = @ + 1]
    /\ Leave(p)
    /\ UNCHANGED <<status, request, heldUp>>

Wait(p) ==
    /\ Wants(p) /\ p \notin waiting /\ Blockers(p) # {}
    /\ waiting' = waiting \cup {p}
    /\ ahead' = [ahead EXCEPT ![p] = waiting]
    /\ UNCHANGED <<status, request, next, heldUp>>

\* The variant commits before the last statement.
Commit_Early(i) ==
    /\ status[i] = "starting" /\ next[i] >= Len(Script) /\ i \notin waiting
    /\ status' = [status EXCEPT ![i] = "up"]
    /\ UNCHANGED <<request, next, waiting, ahead, heldUp>>
Commit(i) ==
    /\ status[i] = "starting" /\ next[i] > Len(Script)
    /\ status' = [status EXCEPT ![i] = "up"]
    /\ UNCHANGED <<request, next, waiting, ahead, heldUp>>

\* lock_timeout, or the choice as the victim of a deadlock: the exception ends
\* in init_pool, which leaves the instance without a pool.  Postgres looks for a
\* deadlock after one second, lock_timeout is three: a cycle has one victim, and
\* its locks are gone before another wait ends.  The variant sets no lock_timeout.
Abort_NoTimeout(i) ==
    /\ i \in waiting /\ \E j \in Holders(i) : j \in waiting /\ i \in Holders(j)
    /\ status' = [status EXCEPT ![i] = "down"]
    /\ heldUp' = (heldUp \/ Blockers(i) \cap Clients # {})
    /\ Leave(i)
    /\ UNCHANGED <<request, next>>
Abort(i) ==
    /\ i \in waiting /\ Blockers(i) # {}
    /\ status' = [status EXCEPT ![i] = "down"]
    /\ heldUp' = (heldUp \/ Blockers(i) \cap Clients # {})
    /\ Leave(i)
    /\ UNCHANGED <<request, next>>

\* A transaction of a request begins, and ends: it commits, fails, is chosen as
\* the victim of a deadlock, or its instance stops.
BeginRequest(c) ==
    /\ request[c] = <<>>
    /\ \E r \in Requests : request' = [request EXCEPT ![c] = r]
    /\ UNCHANGED <<status, next, waiting, ahead, heldUp>>

EndRequest(c) ==
    /\ request[c] # <<>>
    /\ request' = [request EXCEPT ![c] = <<>>]
    /\ next' = [next EXCEPT ![c] = 1]
    /\ Leave(c)
    /\ UNCHANGED <<status, heldUp>>

Step(i) == Lock(i) \/ Wait(i) \/ Commit(i) \/ Abort(i)
Serve(c) == BeginRequest(c) \/ Lock(c) \/ Wait(c) \/ EndRequest(c)

Next == (\E i \in Starts : Step(i)) \/ (\E c \in Clients : Serve(c))

Spec == Init /\ [][Next]_vars

\* lock_timeout ends every wait.
FairSpec == Spec /\ \A i \in Starts : WF_vars(Step(i))

-----------------------------------------------------------------------------

\* core/db.py:109: the schema is "safe to run on every cold start", so two cold
\* starts may wait for one another in turn but never each for the other.
StartsDoNotDeadlock ==
    \A i, j \in Starts \cap waiting : ~(j \in Holders(i) /\ i \in Holders(j))

TypeOK ==
    /\ status \in [Starts -> {"starting", "up", "down"}]
    /\ request \in [Clients -> Requests \cup {<<>>}]
    /\ next \in [Parties -> 1 .. Len(Script) + 1]
    /\ \A i \in Starts : status[i] = "up" => next[i] = Len(Script) + 1
    /\ waiting \subseteq Parties /\ ahead \in [Parties -> SUBSET Parties]
    /\ heldUp \in BOOLEAN

\* Starts interleave up to the first ALTER TABLE only: from there to its end one
\* start has the schema for itself, so that what a DO block tests (db.py:205-229)
\* still holds when it acts on it.
Altering(i) ==
    /\ status[i] = "starting"
    /\ \E k \in 1 .. next[i] - 1 : Script[k].mode = "access_exclusive"
OneAltersAtATime == \A i, j \in Starts : Altering(i) /\ Altering(j) => i = j

\* The pool is lost to a wait for somebody who got through: unless a request was
\* in the way of one of them, starts that lock each other out never all end
\* without a pool.  To be in the way is to hold a lock, a reader's included, or
\* to wait for one in front.
SomeStartSurvives == heldUp \/ \E i \in Starts : status[i] # "down"

\* A wait in a cold start does not last: every start ends, with a pool or without.
StartsEnd == \A i \in Starts : status[i] = "starting" ~> status[i] # "starting"
=============================================================================
