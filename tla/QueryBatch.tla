----------------------------- MODULE QueryBatch -----------------------------
(***************************************************************************)
(* routes/query.py, handle_batch(): the distinct queries of one request    *)
(* are routed by a few threads, which share the instance's connection pool *)
(* (core/db.py) and its vocabulary (services/spelling.py).  SIGTERM closes *)
(* the pool under them.  QueryRouter says what routing answers; here a     *)
(* query is a number of database reads, any of which may find its answer   *)
(* or fail, and the insertion of its log row.                              *)
(***************************************************************************)
EXTENDS Integers, Sequences, FiniteSets

CONSTANTS
    Threads,     \* workers of the executor
    Batches,     \* sequences of queries as they are written
    Key,         \* a written query, stripped and in lower case
    TooLong,     \* the written queries longer than MAX_QUERY_LENGTH, outer spaces included
    MaxConn,     \* DB_POOL_MAXCONN
    Reads,       \* database reads of one query before it is a MISS
    None

ASSUME PoolAssumption ==
    /\ MaxConn \in Nat /\ Reads \in Nat \ {0}
    /\ IsFiniteSet(Threads) /\ Cardinality(Threads) <= MaxConn
    /\ None \notin Threads /\ Threads # {}

ASSUME BatchAssumption == \A b \in Batches :
    /\ Len(b) \in Nat /\ DOMAIN b = 1 .. Len(b)
    /\ \A p \in DOMAIN b : \A o \in {"routed", "too long"} : None # [query |-> b[p], outcome |-> o]

VARIABLES
    batch, running, nextTask, results, response,
    task,      \* per thread: number of its query among the distinct ones, 0 if free
    pc,        \* per thread: "free", "vocab", "wait", "build", "read" or "log"
    reads,     \* per thread: reads done for its query
    conn,      \* per thread: its connection, "none", "held", "ok" or "failed"
    pool, used, refused,
    lock, vocab, builds,
    rows       \* log rows committed, per distinct query of the batch

mainVars == <<batch, running, nextTask, results, response>>
poolVars == <<pool, used, refused>>
vocabVars == <<lock, vocab, builds>>
threadVars == <<task, pc, reads, conn>>
vars == <<mainVars, poolVars, vocabVars, threadVars, rows>>

\* The distinct queries are numbered by their first occurrence.
Firsts(b) == {p \in DOMAIN b : \A r \in 1 .. p - 1 : Key[b[r]] # Key[b[p]]}
TaskOf_Position(b, p) == CHOOSE f \in Firsts(b) : Key[b[f]] = Key[b[p]]
TaskOf(b, p) == Cardinality({f \in Firsts(b) : f <= TaskOf_Position(b, p)})
Tasks(b) == 1 .. Cardinality(Firsts(b))
QueryOf(i) == batch[CHOOSE f \in Firsts(batch) : Cardinality({g \in Firsts(batch) : g <= f}) = i]

Init ==
    /\ batch = <<>> /\ running = FALSE /\ nextTask = 1 /\ results = <<>> /\ response = <<>>
    /\ task = [w \in Threads |-> 0] /\ pc = [w \in Threads |-> "free"]
    /\ reads = [w \in Threads |-> 0] /\ conn = [w \in Threads |-> "none"]
    /\ pool \in {"open", "closed"} /\ used = {} /\ refused = FALSE
    /\ lock = None /\ vocab = "none" /\ builds = 0
    /\ rows = <<>>

Submit ==
    /\ ~running /\ running' = TRUE
    /\ batch' \in Batches
    /\ nextTask' = 1 /\ response' = <<>>
    /\ results' = [i \in Tasks(batch') |-> None]
    /\ rows' = [i \in Tasks(batch') |-> 0]
    /\ UNCHANGED <<threadVars, poolVars, vocabVars>>

\* list(executor.map(...)) waits for all; then every position gets the result of
\* its query.
Answer ==
    /\ running /\ \A i \in DOMAIN results : results[i] # None
    /\ running' = FALSE
    /\ response' = [p \in DOMAIN batch |-> LET i == TaskOf(batch, p) IN
                      IF i \in DOMAIN results THEN results[i] ELSE None]
    /\ UNCHANGED <<batch, nextTask, results, threadVars, poolVars, vocabVars, rows>>

Finish(i, outcome) ==
    results' = [results EXCEPT ![i] = [query |-> QueryOf(i), outcome |-> outcome]]

\* The length is that of the spelling that came first; the variant forgets to look.
Refused_Never(i) == FALSE
Refused(i) == QueryOf(i) \in TooLong

Take(w) ==
    /\ running /\ pc[w] = "free" /\ nextTask \in DOMAIN results
    /\ nextTask' = nextTask + 1
    /\ IF Refused(nextTask)
       THEN Finish(nextTask, "too long") /\ UNCHANGED <<task, pc>>
       ELSE /\ task' = [task EXCEPT ![w] = nextTask]
            /\ pc' = [pc EXCEPT ![w] = "vocab"]
            /\ UNCHANGED results
    /\ UNCHANGED <<batch, running, response, reads, conn, poolVars, vocabVars, rows>>

\* get_vocab before the lock.  A query of short words does not ask for it.
CheckVocab(w) ==
    /\ pc[w] = "vocab"
    /\ \E asks \in BOOLEAN :
         pc' = [pc EXCEPT ![w] = IF asks /\ vocab # "fresh" THEN "wait" ELSE "read"]
    /\ UNCHANGED <<mainVars, poolVars, vocabVars, task, reads, conn, rows>>

\* The test is repeated under the lock; the variant trusts the first one.
MustBuild_NoRecheck == TRUE
MustBuild == vocab # "fresh"

TakeLock(w) ==
    /\ pc[w] = "wait" /\ lock = None
    /\ lock' = IF MustBuild THEN w ELSE None
    /\ pc' = [pc EXCEPT ![w] = IF MustBuild THEN "build" ELSE "read"]
    /\ UNCHANGED <<mainVars, poolVars, vocab, builds, task, reads, conn, rows>>

\* What a thread does when its statement has ended, well or not.  A failed build
\* leaves a vocabulary of synonyms that counts as fresh; the variant leaves the
\* lock as well.
AfterBuild_LockKept(w, ok) ==
    /\ lock' = IF ok THEN None ELSE lock
    /\ vocab' = "fresh" /\ builds' = builds + 1
    /\ pc' = [pc EXCEPT ![w] = "read"]
    /\ UNCHANGED <<task, reads, results>>
AfterBuild(w, ok) ==
    /\ lock' = None /\ vocab' = "fresh" /\ builds' = builds + 1
    /\ pc' = [pc EXCEPT ![w] = "read"]
    /\ UNCHANGED <<task, reads, results>>

\* A failed read is one without a match; the variant reads once too often.
AfterRead_OneMore(w, ok) ==
    /\ \E match \in (IF ok THEN BOOLEAN ELSE {FALSE}) :
         pc' = [pc EXCEPT ![w] = IF match \/ reads[w] = Reads THEN "log" ELSE "read"]
    /\ reads' = [reads EXCEPT ![w] = @ + 1]
    /\ UNCHANGED <<task, results, vocabVars>>
AfterRead(w, ok) ==
    /\ \E match \in (IF ok THEN BOOLEAN ELSE {FALSE}) :
         pc' = [pc EXCEPT ![w] = IF match \/ reads[w] + 1 = Reads THEN "log" ELSE "read"]
    /\ reads' = [reads EXCEPT ![w] = @ + 1]
    /\ UNCHANGED <<task, results, vocabVars>>

Routed(w) ==
    /\ Finish(task[w], "routed")
    /\ task' = [task EXCEPT ![w] = 0] /\ reads' = [reads EXCEPT ![w] = 0]
    /\ pc' = [pc EXCEPT ![w] = "free"]
    /\ UNCHANGED vocabVars

\* A failed insertion is forgotten; in the variant it is tried again.
AfterLog_Retried(w, ok) ==
    IF ok THEN Routed(w) ELSE UNCHANGED <<results, task, reads, pc, vocabVars>>
AfterLog(w, ok) == Routed(w)

AfterStatement(w, ok) ==
    \/ pc[w] = "build" /\ AfterBuild(w, ok)
    \/ pc[w] = "read" /\ AfterRead(w, ok)
    \/ pc[w] = "log" /\ AfterLog(w, ok)

\* get_conn.__enter__: fails at once without a pool, and when all are lent.
Borrow(w) ==
    /\ pc[w] \in {"build", "read", "log"} /\ conn[w] = "none"
    /\ IF pool = "open" /\ Cardinality(used) < MaxConn
       THEN /\ used' = used \cup {w} /\ conn' = [conn EXCEPT ![w] = "held"]
            /\ UNCHANGED <<task, pc, reads, results, vocabVars, refused>>
       ELSE /\ refused' = (refused \/ pool = "open")
            /\ AfterStatement(w, FALSE)
            /\ UNCHANGED <<used, conn>>
    /\ UNCHANGED <<pool, batch, running, nextTask, response, rows>>

\* The statement and its commit.  A commit whose answer is lost counts as failed.
Execute(w) ==
    /\ conn[w] = "held"
    /\ \E ok, done \in BOOLEAN :
         /\ ok => done
         /\ done => pool = "open"
         /\ conn' = [conn EXCEPT ![w] = IF ok THEN "ok" ELSE "failed"]
         /\ rows' = IF done /\ pc[w] = "log" THEN [rows EXCEPT ![task[w]] = @ + 1] ELSE rows
    /\ UNCHANGED <<mainVars, poolVars, vocabVars, task, pc, reads>>

\* get_conn.__exit__ gives the connection back after a failure too.
Lent_AfterFailure(w) == IF conn[w] = "ok" THEN used \ {w} ELSE used
Lent(w) == used \ {w}

\* Without a pool __exit__ raises, even after a commit.
GiveBack(w) ==
    /\ conn[w] \in {"ok", "failed"}
    /\ used' = Lent(w)
    /\ conn' = [conn EXCEPT ![w] = "none"]
    /\ AfterStatement(w, conn[w] = "ok" /\ pool = "open")
    /\ UNCHANGED <<pool, refused, batch, running, nextTask, response, rows>>

\* _close_pool: connections in use are closed too.
Sigterm ==
    /\ pool = "open" /\ pool' = "closed" /\ used' = {}
    /\ UNCHANGED <<mainVars, threadVars, vocabVars, refused, rows>>

\* VOCAB_TTL_SECONDS is longer than any build.
Expire ==
    /\ vocab = "fresh" /\ \A w \in Threads : pc[w] # "build"
    /\ vocab' = "stale" /\ builds' = 0
    /\ UNCHANGED <<mainVars, threadVars, poolVars, lock, rows>>

Step(w) ==
    Take(w) \/ CheckVocab(w) \/ TakeLock(w) \/ Borrow(w) \/ Execute(w) \/ GiveBack(w)

Next == Submit \/ Answer \/ Sigterm \/ Expire \/ \E w \in Threads : Step(w)

Spec == Init /\ [][Next]_vars
FairSpec == Spec /\ WF_vars(Answer) /\ \A w \in Threads : WF_vars(Step(w))

-----------------------------------------------------------------------------

TypeOK ==
    /\ \A w \in Threads :
         /\ pc[w] \in {"free", "vocab", "wait", "build", "read", "log"}
         /\ conn[w] \in {"none", "held", "ok", "failed"}
         /\ (pc[w] = "free") = (task[w] = 0)
         /\ reads[w] \in 0 .. Reads
    /\ pool \in {"open", "closed"} /\ used \subseteq Threads
    /\ lock \in Threads \cup {None} /\ vocab \in {"none", "stale", "fresh"}

\* Every position of the answer has the result of its own query, other spellings
\* included, in whatever order the threads finish and whatever fails.
AnswersInPlace ==
    ~running /\ response # <<>> =>
        /\ DOMAIN response = DOMAIN batch
        /\ \A p \in DOMAIN batch : response[p] # None /\ Key[response[p].query] = Key[batch[p]]

\* A distinct query is logged at most once, although a commit may be followed by
\* a failure of its own answer or of the pool that SIGTERM took away.
LoggedAtMostOnce == \A i \in DOMAIN rows : rows[i] <= 1

\* With a connection for every thread no thread is turned away, and the pool
\* counts as lent exactly what threads hold: no path leaks a connection.
PoolSuffices ==
    /\ ~refused
    /\ pool = "open" => used = {w \in Threads : conn[w] # "none"}

\* Threads that see an expired vocabulary together rebuild it once.
OneRebuildPerTTL == builds <= 1

\* While an answer is missing, some thread can take its next step: nobody waits
\* for a lock whose owner is gone, and no query is lost between two threads.
CanGoOn(w) ==
    \/ pc[w] \in {"vocab", "build", "read", "log"}
    \/ pc[w] = "wait" /\ lock = None
    \/ pc[w] = "free" /\ nextTask \in DOMAIN results
BatchNeverStuck ==
    running => \/ \A i \in DOMAIN results : results[i] # None
               \/ \E w \in Threads : CanGoOn(w)

\* To its client the batch is answered in one piece, as BatchAnswer says: one
\* spelling speaks for all of a query's, and a query refused for its length is not
\* logged.
KeysOf(b) == {Key[b[p]] : p \in DOMAIN b}
NumberIn(b, k) == TaskOf(b, CHOOSE p \in DOMAIN b : Key[b[p]] = k)
LoggedRows == [k \in KeysOf(batch) |-> rows[NumberIn(batch, k)]]
Abstract == INSTANCE BatchAnswer WITH logged <- LoggedRows
AnswersInOnePiece == Abstract!Spec

\* Every batch is answered, through failures, SIGTERM and waiting for the lock.
BatchAnswered == running ~> ~running
=============================================================================
