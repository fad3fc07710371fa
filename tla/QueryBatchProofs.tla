-------------------------- MODULE QueryBatchProofs --------------------------
(***************************************************************************)
(* Theorems about QueryBatch, for every number of threads that the pool    *)
(* has connections for, and every batch.                                   *)
(***************************************************************************)
EXTENDS QueryBatch, FiniteSetTheorems, WellFoundedInduction, TLAPS

Stages == {"free", "vocab", "wait", "build", "read", "log"}
States == {"none", "held", "ok", "failed"}

ThreadType ==
    /\ task \in [Threads -> Nat] /\ pc \in [Threads -> Stages]
    /\ reads \in [Threads -> Nat] /\ conn \in [Threads -> States]
    /\ nextTask \in Nat

\* What the end of a statement does to the thread: it goes on with its query, or
\* the query is answered and the thread is free.
GoesOn(w) ==
    /\ task' = task /\ results' = results
    /\ \E s \in {"read", "log"} : pc' = [pc EXCEPT ![w] = s]
    /\ \E n \in Nat : reads' = [reads EXCEPT ![w] = n]
IsAnswered(w) ==
    /\ task' = [task EXCEPT ![w] = 0] /\ pc' = [pc EXCEPT ![w] = "free"]
    /\ reads' = [reads EXCEPT ![w] = 0]
    /\ results' = [results EXCEPT ![task[w]] = [query |-> QueryOf(task[w]), outcome |-> "routed"]]

LEMMA StatementEnds ==
    ASSUME NEW w \in Threads, NEW ok, ThreadType, AfterStatement(w, ok)
    PROVE  /\ pc[w] \in {"build", "read"} => GoesOn(w)
           /\ pc[w] = "log" => IsAnswered(w)
<1>1. CASE pc[w] = "build" /\ AfterBuild(w, ok)
  <2>1. reads[w] \in Nat /\ reads = [reads EXCEPT ![w] = reads[w]]
    BY DEF ThreadType
  <2> QED BY <1>1, <2>1 DEF AfterBuild, GoesOn
<1>2. CASE pc[w] = "read" /\ AfterRead(w, ok)
  <2>1. reads[w] + 1 \in Nat /\ reads' = [reads EXCEPT ![w] = reads[w] + 1]
    BY <1>2 DEF ThreadType, AfterRead
  <2>2. \E s \in {"read", "log"} : pc' = [pc EXCEPT ![w] = s]
    BY <1>2 DEF AfterRead
  <2> QED BY <1>2, <2>1, <2>2 DEF AfterRead, GoesOn
<1>3. CASE pc[w] = "log" /\ AfterLog(w, ok)
  BY <1>3 DEF AfterLog, Routed, Finish, IsAnswered
<1> QED BY <1>1, <1>2, <1>3 DEF AfterStatement

LEMMA ThreadTypeStep == ThreadType /\ [Next]_vars => ThreadType'
<1> SUFFICES ASSUME ThreadType, [Next]_vars PROVE ThreadType'
  OBVIOUS
<1> USE DEF ThreadType, Stages, States
<1>1. CASE Submit
  BY <1>1 DEF Submit, threadVars
<1>2. CASE Answer \/ Sigterm \/ Expire \/ UNCHANGED vars
  <2>1. UNCHANGED <<task, pc, reads, conn>> /\ nextTask' = nextTask
    BY <1>2 DEF Answer, Sigterm, Expire, vars, threadVars, mainVars
  <2> QED BY <2>1
<1>3. ASSUME NEW w \in Threads, Take(w) PROVE ThreadType'
  <2>1. nextTask' = nextTask + 1 /\ reads' = reads /\ conn' = conn
    BY <1>3, Zenon DEF Take
  <2>2. \/ UNCHANGED <<task, pc>>
        \/ task' = [task EXCEPT ![w] = nextTask] /\ pc' = [pc EXCEPT ![w] = "vocab"]
    BY <1>3, Zenon DEF Take
  <2> QED BY <2>1, <2>2
<1>4. ASSUME NEW w \in Threads, CheckVocab(w) PROVE ThreadType'
  <2>1. \E s \in {"wait", "read"} : pc' = [pc EXCEPT ![w] = s]
    BY <1>4 DEF CheckVocab
  <2> QED BY <1>4, <2>1 DEF CheckVocab, mainVars
<1>5. ASSUME NEW w \in Threads, TakeLock(w) PROVE ThreadType'
  <2>1. \E s \in {"build", "read"} : pc' = [pc EXCEPT ![w] = s]
    BY <1>5 DEF TakeLock
  <2> QED BY <1>5, <2>1 DEF TakeLock, mainVars
<1>6. ASSUME NEW w \in Threads, Borrow(w) PROVE ThreadType'
  <2>1. nextTask' = nextTask
    BY <1>6 DEF Borrow
  <2>2. CASE UNCHANGED <<task, pc, reads>> /\ conn' = [conn EXCEPT ![w] = "held"]
    BY <2>1, <2>2
  <2>3. CASE AfterStatement(w, FALSE) /\ UNCHANGED conn
    <3>1. GoesOn(w) \/ IsAnswered(w)
      BY <1>6, <2>3, StatementEnds DEF Borrow
    <3> QED BY <2>1, <2>3, <3>1 DEF GoesOn, IsAnswered
  <2> QED BY <1>6, <2>2, <2>3 DEF Borrow
<1>7. ASSUME NEW w \in Threads, Execute(w) PROVE ThreadType'
  <2>1. \E c \in {"ok", "failed"} : conn' = [conn EXCEPT ![w] = c]
    BY <1>7 DEF Execute
  <2> QED BY <1>7, <2>1 DEF Execute, mainVars
<1>8. ASSUME NEW w \in Threads, GiveBack(w) PROVE ThreadType'
  <2>1. PICK ok : AfterStatement(w, ok)
    BY <1>8 DEF GiveBack
  <2>2. GoesOn(w) \/ IsAnswered(w)
    BY <2>1, StatementEnds DEF AfterStatement
  <2> QED BY <1>8, <2>2 DEF GiveBack, GoesOn, IsAnswered
<1> QED BY <1>1, <1>2, <1>3, <1>4, <1>5, <1>6, <1>7, <1>8 DEF Next, Step

(***************************************************************************)
(* The pool.                                                               *)
(***************************************************************************)
PoolInv ==
    /\ used \subseteq Threads /\ pool \in {"open", "closed"} /\ refused = FALSE
    /\ pool = "open" => used = {w \in Threads : conn[w] # "none"}

\* A thread without a connection always finds one: the others, even if all of
\* them hold one, are fewer than the pool has.
LEMMA OneIsLeft ==
    ASSUME NEW w \in Threads, used \subseteq Threads, w \notin used
    PROVE  Cardinality(used) < MaxConn
<1>1. IsFiniteSet(Threads) /\ Cardinality(Threads) \in Nat /\ Cardinality(Threads) <= MaxConn
  BY PoolAssumption, FS_CardinalityType
<1>2. IsFiniteSet(Threads \ {w}) /\ Cardinality(Threads \ {w}) = Cardinality(Threads) - 1
  BY <1>1, FS_RemoveElement
<1>3. Cardinality(used) <= Cardinality(Threads \ {w}) /\ Cardinality(used) \in Nat
  <2>1. used \subseteq Threads \ {w}
    OBVIOUS
  <2> QED BY <1>2, <2>1, FS_Subset, FS_CardinalityType
<1> QED BY <1>1, <1>2, <1>3, PoolAssumption

LEMMA PoolStep == ThreadType /\ PoolInv /\ [Next]_vars => PoolInv'
<1> SUFFICES ASSUME ThreadType, PoolInv, [Next]_vars PROVE PoolInv'
  OBVIOUS
<1> USE DEF PoolInv, poolVars, threadVars, vocabVars, mainVars
<1>0. conn \in [Threads -> States]
  BY DEF ThreadType
<1>1. CASE Submit \/ Answer \/ Expire \/ UNCHANGED vars
  BY <1>1 DEF Submit, Answer, Expire, vars
<1>2. CASE Sigterm
  BY <1>2 DEF Sigterm
<1>3. ASSUME NEW w \in Threads, Take(w) \/ CheckVocab(w) \/ TakeLock(w) PROVE PoolInv'
  <2>1. UNCHANGED <<used, pool, refused, conn>>
    BY <1>3 DEF Take, CheckVocab, TakeLock
  <2> QED BY <2>1
<1>4. ASSUME NEW w \in Threads, Borrow(w) PROVE PoolInv'
  <2>1. conn[w] = "none" /\ pool' = pool
    BY <1>4 DEF Borrow
  <2>2. CASE pool = "open"
    <3>1. Cardinality(used) < MaxConn
      BY <2>1, <2>2, OneIsLeft
    <3>2. used' = used \cup {w} /\ conn' = [conn EXCEPT ![w] = "held"] /\ refused' = refused
      BY <1>4, <2>2, <3>1 DEF Borrow
    <3>3. \A v \in Threads : conn'[v] = IF v = w THEN "held" ELSE conn[v]
      BY <1>0, <3>2
    <3> QED BY <2>1, <2>2, <3>2, <3>3
  <2>3. CASE pool # "open"
    <3>1. used' = used /\ refused' = (refused \/ pool = "open")
      BY <1>4, <2>3 DEF Borrow
    <3> QED BY <2>1, <2>3, <3>1
  <2> QED BY <2>2, <2>3
<1>5. ASSUME NEW w \in Threads, Execute(w) PROVE PoolInv'
  <2>1. UNCHANGED <<used, pool, refused>> /\ conn[w] = "held"
    BY <1>5 DEF Execute
  <2>2. \E c \in {"ok", "failed"} : conn' = [conn EXCEPT ![w] = c]
    BY <1>5 DEF Execute
  <2>3. \A v \in Threads : (conn'[v] = "none") = (conn[v] = "none")
    BY <1>0, <2>1, <2>2
  <2> QED BY <2>1, <2>3
<1>6. ASSUME NEW w \in Threads, GiveBack(w) PROVE PoolInv'
  <2>1. /\ used' = used \ {w} /\ conn' = [conn EXCEPT ![w] = "none"]
        /\ pool' = pool /\ refused' = refused
    BY <1>6 DEF GiveBack, Lent
  <2>2. \A v \in Threads : conn'[v] = IF v = w THEN "none" ELSE conn[v]
    BY <1>0, <2>1
  <2> QED BY <2>1, <2>2
<1> QED BY <1>1, <1>2, <1>3, <1>4, <1>5, <1>6 DEF Next, Step

(***************************************************************************)
(* The vocabulary.  A build is under way only while its thread has the     *)
(* lock and no fresh vocabulary is there.                                  *)
(***************************************************************************)
VocabInv ==
    /\ builds \in {0, 1}
    /\ builds = 1 => vocab = "fresh"
    /\ \A w \in Threads : pc[w] = "build" => lock = w /\ vocab # "fresh"

LEMMA VocabStatement ==
    ASSUME NEW w \in Threads, NEW ok, ThreadType, VocabInv, AfterStatement(w, ok)
    PROVE  VocabInv'
<1> USE DEF VocabInv, vocabVars
<1>0. pc \in [Threads -> Stages]
  BY DEF ThreadType
<1>1. CASE pc[w] = "build" /\ AfterBuild(w, ok)
  <2>1. builds' = builds + 1 /\ vocab' = "fresh" /\ builds = 0
    BY <1>1 DEF AfterBuild
  <2>2. \A v \in Threads : pc'[v] # "build"
    BY <1>0, <1>1 DEF AfterBuild
  <2> QED BY <2>1, <2>2
<1>2. CASE pc[w] \in {"read", "log"} /\ UNCHANGED vocabVars
  <2>1. \A v \in Threads : pc'[v] = "build" => pc[v] = "build"
    <3>1. GoesOn(w) \/ IsAnswered(w)
      BY <1>2, StatementEnds
    <3> QED BY <1>0, <3>1 DEF GoesOn, IsAnswered
  <2> QED BY <1>2, <2>1
<1> QED BY <1>1, <1>2 DEF AfterStatement, AfterRead, AfterLog, Routed

LEMMA VocabStep == ThreadType /\ VocabInv /\ [Next]_vars => VocabInv'
<1> SUFFICES ASSUME ThreadType, VocabInv, [Next]_vars PROVE VocabInv'
  OBVIOUS
<1> USE DEF VocabInv, poolVars, threadVars, vocabVars, mainVars
<1>0. pc \in [Threads -> Stages]
  BY DEF ThreadType
<1>1. CASE Submit \/ Answer \/ Sigterm \/ UNCHANGED vars
  BY <1>1 DEF Submit, Answer, Sigterm, vars
<1>2. CASE Expire
  BY <1>2 DEF Expire
<1>3. ASSUME NEW w \in Threads, Take(w) PROVE VocabInv'
  <2>1. \A v \in Threads : pc'[v] = "build" => pc[v] = "build"
    BY <1>0, <1>3 DEF Take
  <2> QED BY <1>3, <2>1 DEF Take
<1>4. ASSUME NEW w \in Threads, CheckVocab(w) PROVE VocabInv'
  <2>1. \A v \in Threads : pc'[v] = "build" => pc[v] = "build"
    BY <1>0, <1>4 DEF CheckVocab
  <2> QED BY <1>4, <2>1 DEF CheckVocab
<1>5. ASSUME NEW w \in Threads, TakeLock(w) PROVE VocabInv'
  <2>1. \A v \in Threads : pc[v] # "build"
    BY <1>5, PoolAssumption DEF TakeLock
  <2>2. CASE MustBuild
    BY <1>0, <1>5, <2>1, <2>2 DEF TakeLock, MustBuild
  <2>3. CASE ~MustBuild
    BY <1>0, <1>5, <2>1, <2>3 DEF TakeLock
  <2> QED BY <2>2, <2>3
<1>6. ASSUME NEW w \in Threads, Borrow(w) PROVE VocabInv'
  <2>1. CASE AfterStatement(w, FALSE)
    BY <2>1, VocabStatement
  <2>2. CASE UNCHANGED <<pc, vocabVars>>
    BY <2>2
  <2> QED BY <1>6, <2>1, <2>2 DEF Borrow
<1>7. ASSUME NEW w \in Threads, Execute(w) PROVE VocabInv'
  BY <1>7 DEF Execute
<1>8. ASSUME NEW w \in Threads, GiveBack(w) PROVE VocabInv'
  <2>1. PICK ok : AfterStatement(w, ok)
    BY <1>8 DEF GiveBack
  <2> QED BY <2>1, VocabStatement
<1> QED BY <1>1, <1>2, <1>3, <1>4, <1>5, <1>6, <1>7, <1>8 DEF Next, Step

(***************************************************************************)
(* The log.  A thread that has not run its INSERT to the end has no row,   *)
(* queries not yet taken have none, and no two threads have the same one.  *)
(***************************************************************************)
Busy(w) == pc[w] # "free"
Inserted(w) == pc[w] = "log" /\ conn[w] \in {"ok", "failed"}

RowsInv ==
    /\ DOMAIN results \subseteq Nat /\ rows \in [DOMAIN results -> {0, 1}]
    /\ \A i \in DOMAIN results : i >= nextTask => rows[i] = 0 /\ results[i] = None
    /\ \A w \in Threads : Busy(w) =>
         /\ running /\ task[w] \in DOMAIN results /\ task[w] < nextTask
         /\ results[task[w]] = None
         /\ ~Inserted(w) => rows[task[w]] = 0
    /\ \A v, w \in Threads : Busy(v) /\ Busy(w) /\ v # w => task[v] # task[w]
    /\ \A w \in Threads : conn[w] # "none" => pc[w] \in {"build", "read", "log"}

LEMMA RowsStatement ==
    ASSUME NEW w \in Threads, NEW ok, ThreadType, RowsInv, AfterStatement(w, ok),
           rows' = rows, running' = running, nextTask' = nextTask,
           conn' = [conn EXCEPT ![w] = "none"]
    PROVE  RowsInv'
<1> USE DEF RowsInv, Busy, Inserted
<1>0. /\ pc \in [Threads -> Stages] /\ conn \in [Threads -> States]
      /\ task \in [Threads -> Nat] /\ nextTask \in Nat
  BY DEF ThreadType
<1>1. \A v \in Threads : conn'[v] = IF v = w THEN "none" ELSE conn[v]
  BY <1>0
<1>2. CASE pc[w] \in {"build", "read"}
  <2>1. PICK s \in {"read", "log"} : pc' = [pc EXCEPT ![w] = s]
    BY <1>2, StatementEnds DEF GoesOn
  <2>2. task' = task /\ results' = results
    BY <1>2, StatementEnds DEF GoesOn
  <2>3. \A v \in Threads : pc'[v] = IF v = w THEN s ELSE pc[v]
    BY <1>0, <2>1
  <2> QED BY <1>1, <1>2, <2>2, <2>3
<1>3. CASE pc[w] = "log"
  <2>1. /\ task' = [task EXCEPT ![w] = 0] /\ pc' = [pc EXCEPT ![w] = "free"]
        /\ \E r : results' = [results EXCEPT ![task[w]] = r]
    BY <1>3, StatementEnds DEF IsAnswered
  <2>2. \A v \in Threads : /\ pc'[v] = IF v = w THEN "free" ELSE pc[v]
                           /\ v # w => task'[v] = task[v]
    BY <1>0, <2>1
  <2>3. /\ DOMAIN results' = DOMAIN results
        /\ \A i \in DOMAIN results : i # task[w] => results'[i] = results[i]
    BY <2>1
  <2>4. task[w] < nextTask
    BY <1>3
  <2>5. \A i \in DOMAIN results' : i >= nextTask' => rows'[i] = 0 /\ results'[i] = None
    BY <1>0, <2>3, <2>4
  <2>6. ASSUME NEW v \in Threads, v # w, Busy(v)
        PROVE  task'[v] = task[v] /\ results'[task[v]] = None /\ task[v] # task[w]
    BY <1>3, <2>2, <2>3, <2>6
  <2>7. \A v \in Threads : Busy(v)' => v # w /\ Busy(v) /\ (Inserted(v)' <=> Inserted(v))
    BY <1>1, <2>2
  <2> QED BY <1>1, <2>2, <2>3, <2>5, <2>6, <2>7
<1> QED BY <1>2, <1>3 DEF AfterStatement

LEMMA TasksType == ASSUME NEW b \in Batches PROVE Tasks(b) \subseteq Nat
<1>1. PICK n \in Nat : DOMAIN b = 1 .. n
  BY BatchAssumption
<1>2. IsFiniteSet(1 .. n)
  BY <1>1, FS_Interval
<1>3. Firsts(b) \subseteq 1 .. n
  BY <1>1 DEF Firsts
<1>4. Cardinality(Firsts(b)) \in Nat
  BY <1>2, <1>3, FS_Subset, FS_CardinalityType
<1> QED BY <1>4 DEF Tasks

LEMMA RowsStep == ThreadType /\ RowsInv /\ [Next]_vars => RowsInv'
<1> SUFFICES ASSUME ThreadType, RowsInv, [Next]_vars PROVE RowsInv'
  OBVIOUS
<1> USE DEF RowsInv, Busy, Inserted, poolVars, threadVars, vocabVars, mainVars
<1>0. /\ pc \in [Threads -> Stages] /\ conn \in [Threads -> States]
      /\ task \in [Threads -> Nat] /\ nextTask \in Nat
  BY DEF ThreadType
<1>1. CASE Submit
  <2>1. \A w \in Threads : ~Busy(w)
    BY <1>1 DEF Submit
  <2>2. batch' \in Batches /\ results' = [i \in Tasks(batch') |-> None]
        /\ rows' = [i \in Tasks(batch') |-> 0]
    BY <1>1 DEF Submit
  <2>3. PICK b \in Batches : results' = [i \in Tasks(b) |-> None] /\ rows' = [i \in Tasks(b) |-> 0]
    BY <2>2
  <2>4. DOMAIN results' \subseteq Nat
    BY <2>3, TasksType
  <2>5. UNCHANGED <<pc, task, conn>>
    BY <1>1 DEF Submit
  <2> QED BY <2>1, <2>3, <2>4, <2>5
<1>2. CASE Answer
  <2>1. \A w \in Threads : ~Busy(w)
    BY <1>2 DEF Answer
  <2>2. UNCHANGED <<pc, task, conn, results, rows, nextTask>>
    BY <1>2 DEF Answer
  <2> QED BY <2>1, <2>2
<1>3. CASE Sigterm \/ Expire \/ UNCHANGED vars
  <2>1. UNCHANGED <<pc, task, conn, results, rows, nextTask, running>>
    BY <1>3 DEF Sigterm, Expire, vars
  <2> QED BY <2>1
<1>4. ASSUME NEW w \in Threads, Take(w) PROVE RowsInv'
  <2>1. /\ running /\ pc[w] = "free" /\ nextTask \in DOMAIN results /\ nextTask' = nextTask + 1
        /\ UNCHANGED <<running, conn, rows>>
    BY <1>4 DEF Take
  <2>2. CASE Refused(nextTask)
    <3>1. UNCHANGED <<task, pc>>
      BY <1>4, <2>2 DEF Take
    <3>2. \E r : results' = [results EXCEPT ![nextTask] = r]
      BY <1>4, <2>2 DEF Take, Finish
    <3>3. /\ DOMAIN results' = DOMAIN results
          /\ \A i \in DOMAIN results : i # nextTask => results'[i] = results[i]
      BY <3>2
    <3> QED BY <1>0, <2>1, <3>1, <3>3
  <2>3. CASE ~Refused(nextTask)
    <3>1. /\ task' = [task EXCEPT ![w] = nextTask] /\ pc' = [pc EXCEPT ![w] = "vocab"]
          /\ results' = results
      BY <1>4, <2>3 DEF Take
    <3>2. \A v \in Threads : /\ pc'[v] = IF v = w THEN "vocab" ELSE pc[v]
                             /\ task'[v] = IF v = w THEN nextTask ELSE task[v]
      BY <1>0, <3>1
    <3>3. conn[w] = "none"
      BY <2>1
    <3>4. rows[nextTask] = 0 /\ results[nextTask] = None
      BY <1>0, <2>1
    <3> QED BY <1>0, <2>1, <3>1, <3>2, <3>3, <3>4
  <2> QED BY <2>2, <2>3
<1>5. ASSUME NEW w \in Threads, CheckVocab(w) \/ TakeLock(w) PROVE RowsInv'
  <2>1. /\ pc[w] \in {"vocab", "wait"}
        /\ \E s \in {"wait", "build", "read"} : pc' = [pc EXCEPT ![w] = s]
        /\ UNCHANGED <<task, conn, results, rows, nextTask, running>>
    BY <1>5 DEF CheckVocab, TakeLock
  <2>2. PICK s \in {"wait", "build", "read"} : pc' = [pc EXCEPT ![w] = s]
    BY <2>1
  <2>3. \A v \in Threads : pc'[v] = IF v = w THEN s ELSE pc[v]
    BY <1>0, <2>2
  <2> QED BY <2>1, <2>3
<1>6. ASSUME NEW w \in Threads, Borrow(w) PROVE RowsInv'
  <2>1. /\ pc[w] \in {"build", "read", "log"} /\ conn[w] = "none"
        /\ UNCHANGED <<running, nextTask, rows>>
    BY <1>6 DEF Borrow
  <2>2. CASE AfterStatement(w, FALSE) /\ conn' = conn
    <3>1. conn' = [conn EXCEPT ![w] = "none"]
      BY <1>0, <2>1, <2>2
    <3> QED BY <2>1, <2>2, <3>1, RowsStatement
  <2>3. CASE UNCHANGED <<task, pc, results>> /\ conn' = [conn EXCEPT ![w] = "held"]
    <3>1. \A v \in Threads : conn'[v] = IF v = w THEN "held" ELSE conn[v]
      BY <1>0, <2>3
    <3> QED BY <2>1, <2>3, <3>1
  <2> QED BY <1>6, <2>2, <2>3 DEF Borrow
<1>7. ASSUME NEW w \in Threads, Execute(w) PROVE RowsInv'
  <2>1. conn[w] = "held" /\ UNCHANGED <<pc, task, results, nextTask, running>>
    BY <1>7 DEF Execute
  <2>2. PICK c \in {"ok", "failed"} : conn' = [conn EXCEPT ![w] = c]
    BY <1>7 DEF Execute
  <2>3. \A v \in Threads : conn'[v] = IF v = w THEN c ELSE conn[v]
    BY <1>0, <2>2
  <2>4. \/ rows' = rows
        \/ pc[w] = "log" /\ rows' = [rows EXCEPT ![task[w]] = rows[task[w]] + 1]
    BY <1>7 DEF Execute
  <2>5. task[w] \in DOMAIN results /\ task[w] < nextTask /\ rows[task[w]] = 0
    BY <2>1
  <2>6. CASE rows' = rows
    BY <2>1, <2>3, <2>6
  <2>7. CASE pc[w] = "log" /\ rows' = [rows EXCEPT ![task[w]] = rows[task[w]] + 1]
    <3>1. rows' = [rows EXCEPT ![task[w]] = 1]
      BY <2>5, <2>7
    <3>2. \A i \in DOMAIN results : rows'[i] = IF i = task[w] THEN 1 ELSE rows[i]
      BY <3>1
    <3>3. rows' \in [DOMAIN results -> {0, 1}]
      BY <3>1
    <3>4. \A v \in Threads : Busy(v) /\ v # w => task[v] # task[w]
      BY <2>7
    <3> QED BY <1>0, <2>1, <2>3, <2>5, <2>7, <3>2, <3>3, <3>4
  <2> QED BY <2>4, <2>6, <2>7
<1>8. ASSUME NEW w \in Threads, GiveBack(w) PROVE RowsInv'
  <2>1. PICK ok : AfterStatement(w, ok)
    BY <1>8 DEF GiveBack
  <2> QED BY <1>8, <2>1, RowsStatement DEF GiveBack
<1> QED BY <1>1, <1>2, <1>3, <1>4, <1>5, <1>6, <1>7, <1>8 DEF Next, Step

(***************************************************************************)
(* The answer.  Queries are numbered by their first occurrences, and the   *)
(* number of a position leads back to its query.                           *)
(***************************************************************************)
Rank(b, f) == Cardinality({g \in Firsts(b) : g <= f})

LEMMA FirstsFinite ==
    ASSUME NEW b \in Batches
    PROVE  /\ \E n \in Nat : DOMAIN b = 1 .. n
           /\ IsFiniteSet(Firsts(b)) /\ Firsts(b) \subseteq DOMAIN b /\ Cardinality(Firsts(b)) \in Nat
           /\ DOMAIN b \subseteq Nat
<1>1. PICK n \in Nat : DOMAIN b = 1 .. n
  BY BatchAssumption
<1>2. IsFiniteSet(1 .. n)
  BY FS_Interval
<1>3. Firsts(b) \subseteq 1 .. n
  BY <1>1 DEF Firsts
<1>4. IsFiniteSet(Firsts(b)) /\ Cardinality(Firsts(b)) \in Nat
  BY <1>2, <1>3, FS_Subset, FS_CardinalityType
<1> QED BY <1>1, <1>3, <1>4

\* Every query has a first occurrence.
LEMMA FirstOccurrence ==
    ASSUME NEW b \in Batches, NEW p \in DOMAIN b
    PROVE  TaskOf_Position(b, p) \in Firsts(b) /\ Key[b[TaskOf_Position(b, p)]] = Key[b[p]]
<1> DEFINE Same == {r \in DOMAIN b : Key[b[r]] = Key[b[p]]}
<1>1. Same \subseteq Nat /\ Same # {}
  BY FirstsFinite
<1>2. PICK m \in Same : \A r \in Same : m <= r
  <2> DEFINE Less == {ss \in Nat \X Nat : ss[1] < ss[2]}
  <2>0. IsWellFoundedOn(Less, Nat)
    BY NatLessThanWellFounded DEF OpToRel
  <2>1. PICK x \in Same : \A y \in Same : <<y, x>> \notin Less
    <3> HIDE DEF Same, Less
    <3> QED BY <1>1, <2>0, WFMin
  <2>2. \A y \in Same : ~(y < x)
    BY <1>1, <2>1
  <2> QED BY <1>1, <2>2
<1>3. PICK n \in Nat : DOMAIN b = 1 .. n
  BY BatchAssumption
<1>4. \A r \in 1 .. m - 1 : Key[b[r]] # Key[b[m]]
  <2> SUFFICES ASSUME NEW r \in 1 .. m - 1, Key[b[r]] = Key[b[m]] PROVE FALSE
    OBVIOUS
  <2>1. m \in 1 .. n /\ Key[b[m]] = Key[b[p]]
    BY <1>3
  <2>2. r \in Same
    BY <1>3, <2>1
  <2> QED BY <1>2, <2>1, <2>2
<1>5. m \in Firsts(b) /\ Key[b[m]] = Key[b[p]]
  BY <1>4 DEF Firsts
<1> QED BY <1>5 DEF TaskOf_Position

\* The numbers of two first occurrences differ.
LEMMA RankGrows ==
    ASSUME NEW b \in Batches, NEW f \in Firsts(b), NEW h \in Firsts(b)
    PROVE  /\ Rank(b, f) \in Tasks(b)
           /\ f < h => Rank(b, f) < Rank(b, h)
<1> DEFINE Upto(x) == {g \in Firsts(b) : g <= x}
<1>1. Firsts(b) \subseteq Nat /\ IsFiniteSet(Firsts(b)) /\ Cardinality(Firsts(b)) \in Nat
  BY FirstsFinite
<1>2. ASSUME NEW x \in Firsts(b)
      PROVE  /\ IsFiniteSet(Upto(x)) /\ Cardinality(Upto(x)) \in Nat
             /\ Cardinality(Upto(x)) <= Cardinality(Firsts(b))
             /\ x \in Upto(x)
  <2>1. Upto(x) \in SUBSET Firsts(b)
    OBVIOUS
  <2>2. IsFiniteSet(Upto(x)) /\ Cardinality(Upto(x)) <= Cardinality(Firsts(b))
    BY <1>1, <2>1, FS_Subset
  <2>3. x \in Upto(x)
    BY <1>1
  <2> QED BY <2>2, <2>3, FS_CardinalityType
<1>3. Cardinality(Upto(f)) # 0
  BY <1>2, FS_EmptySet
<1>4. ASSUME f < h PROVE Cardinality(Upto(f)) < Cardinality(Upto(h))
  <2>1. Upto(f) \in SUBSET Upto(h) /\ h \in Upto(h) /\ h \notin Upto(f)
    BY <1>1, <1>4
  <2>2. /\ Cardinality(Upto(f)) <= Cardinality(Upto(h))
        /\ Cardinality(Upto(h)) = Cardinality(Upto(f)) => Upto(h) = Upto(f)
    BY <1>2, <2>1, FS_Subset
  <2>3. Upto(h) # Upto(f)
    BY <2>1
  <2> HIDE DEF Upto
  <2> QED BY <1>2, <2>2, <2>3
<1>5. Cardinality(Upto(f)) \in Nat /\ Cardinality(Upto(f)) <= Cardinality(Firsts(b))
  BY <1>2
<1>6. Rank(b, f) = Cardinality(Upto(f)) /\ Rank(b, h) = Cardinality(Upto(h))
  BY DEF Rank
<1> HIDE DEF Upto
<1>7. Rank(b, f) \in 1 .. Cardinality(Firsts(b))
  BY <1>1, <1>3, <1>5, <1>6
<1> QED BY <1>4, <1>6, <1>7 DEF Tasks

LEMMA QueryOfTask ==
    ASSUME batch \in Batches, NEW p \in DOMAIN batch
    PROVE  /\ TaskOf(batch, p) \in Tasks(batch)
           /\ Key[QueryOf(TaskOf(batch, p))] = Key[batch[p]]
<1> DEFINE f == TaskOf_Position(batch, p)
<1>1. f \in Firsts(batch) /\ Key[batch[f]] = Key[batch[p]]
  BY FirstOccurrence
<1>2. TaskOf(batch, p) = Rank(batch, f)
  BY DEF TaskOf, Rank
<1>3. QueryOf(TaskOf(batch, p)) = batch[CHOOSE x \in Firsts(batch) : Rank(batch, x) = Rank(batch, f)]
  BY <1>2 DEF QueryOf, Rank
<1> HIDE DEF f
<1>4. ASSUME NEW x \in Firsts(batch), Rank(batch, x) = Rank(batch, f) PROVE x = f
  <2>1. x \in Nat /\ f \in Nat
    BY <1>1, FirstsFinite
  <2>2. Rank(batch, f) \in Int /\ Rank(batch, x) \in Int
    <3>1. Rank(batch, f) \in Tasks(batch) /\ Rank(batch, x) \in Tasks(batch)
      BY <1>1, RankGrows
    <3> QED BY <3>1, TasksType
  <2>3. ~(x < f) /\ ~(f < x)
    BY <1>1, <1>4, <2>2, RankGrows
  <2> QED BY <2>1, <2>3
<1>5. (CHOOSE x \in Firsts(batch) : Rank(batch, x) = Rank(batch, f)) = f
  BY <1>1, <1>4
<1> QED BY <1>1, <1>2, <1>3, <1>5, RankGrows

\* While a batch runs, each result there is belongs to its distinct query.
ResultsInv ==
    /\ AnswersInPlace
    /\ running => /\ batch \in Batches /\ DOMAIN results = Tasks(batch)
                  /\ \A i \in DOMAIN results : results[i] # None => results[i].query = QueryOf(i)

LEMMA ResultsKept ==
    ASSUME ResultsInv, batch' = batch, running' = running, response' = response, running,
           NEW i \in DOMAIN results, NEW outcome,
           results' = [results EXCEPT ![i] = [query |-> QueryOf(i), outcome |-> outcome]]
    PROVE  ResultsInv'
<1>1. \A j \in Nat : QueryOf(j)' = QueryOf(j)
  BY DEF QueryOf
<1>2. DOMAIN results' = DOMAIN results
  OBVIOUS
<1>3. batch \in Batches /\ DOMAIN results = Tasks(batch)
  BY DEF ResultsInv
<1>4. \A j \in DOMAIN results : results'[j] # None => results'[j].query = QueryOf(j)
  BY DEF ResultsInv
<1>5. DOMAIN results \subseteq Nat
  BY <1>3, TasksType
<1>6. AnswersInPlace'
  BY DEF AnswersInPlace
<1> QED BY <1>1, <1>2, <1>3, <1>4, <1>5, <1>6 DEF ResultsInv

LEMMA ResultsUnchanged == ResultsInv /\ UNCHANGED mainVars => ResultsInv'
BY DEF ResultsInv, AnswersInPlace, mainVars, QueryOf

LEMMA ResultsStatement ==
    ASSUME NEW w \in Threads, NEW ok, ThreadType, RowsInv, ResultsInv, AfterStatement(w, ok),
           batch' = batch, running' = running, response' = response, nextTask' = nextTask
    PROVE  ResultsInv'
<1>1. CASE GoesOn(w)
  BY <1>1, ResultsUnchanged DEF GoesOn, mainVars
<1>2. CASE IsAnswered(w) /\ pc[w] = "log"
  <2>1. running /\ task[w] \in DOMAIN results
    BY <1>2 DEF RowsInv, Busy
  <2> QED BY <1>2, <2>1, ResultsKept DEF IsAnswered
<1> QED BY <1>1, <1>2, StatementEnds DEF AfterStatement

LEMMA ResultsStep == ThreadType /\ RowsInv /\ ResultsInv /\ [Next]_vars => ResultsInv'
<1> SUFFICES ASSUME ThreadType, RowsInv, ResultsInv, [Next]_vars PROVE ResultsInv'
  OBVIOUS
<1>1. CASE Submit
  <2>1. /\ running' /\ batch' \in Batches
        /\ results' = [i \in Tasks(batch') |-> None]
    BY <1>1 DEF Submit
  <2>2. AnswersInPlace'
    BY <2>1 DEF AnswersInPlace
  <2> QED BY <2>1, <2>2 DEF ResultsInv
<1>2. CASE Answer
  <2>1. /\ running /\ ~running' /\ batch' = batch
        /\ \A i \in DOMAIN results : results[i] # None
        /\ response' = [p \in DOMAIN batch |-> LET i == TaskOf(batch, p) IN
                           IF i \in DOMAIN results THEN results[i] ELSE None]
    BY <1>2 DEF Answer
  <2>2. batch \in Batches /\ DOMAIN results = Tasks(batch)
    BY <2>1 DEF ResultsInv
  <2>3. ASSUME NEW p \in DOMAIN batch
        PROVE  response'[p] # None /\ Key[response'[p].query] = Key[batch[p]]
    <3>1. /\ TaskOf(batch, p) \in DOMAIN results
          /\ Key[QueryOf(TaskOf(batch, p))] = Key[batch[p]]
      BY <2>2, QueryOfTask
    <3>2. response'[p] = results[TaskOf(batch, p)]
      BY <2>1, <3>1
    <3> QED BY <2>1, <3>1, <3>2 DEF ResultsInv
  <2>4. DOMAIN response' = DOMAIN batch
    BY <2>1
  <2> QED BY <2>1, <2>3, <2>4 DEF ResultsInv, AnswersInPlace
<1>3. CASE Sigterm \/ Expire \/ UNCHANGED vars
  <2>1. UNCHANGED mainVars
    BY <1>3 DEF Sigterm, Expire, vars
  <2> QED BY <2>1, ResultsUnchanged
<1>4. ASSUME NEW w \in Threads, Take(w) PROVE ResultsInv'
  <2>1. running /\ nextTask \in DOMAIN results /\ UNCHANGED <<batch, running, response>>
    BY <1>4 DEF Take
  <2>2. \/ results' = results
        \/ results' = [results EXCEPT ![nextTask] = [query |-> QueryOf(nextTask), outcome |-> "too long"]]
    BY <1>4, Zenon DEF Take, Finish
  <2>3. CASE results' = results
    BY <2>1, <2>3 DEF ResultsInv, AnswersInPlace, QueryOf
  <2> QED BY <2>1, <2>2, <2>3, ResultsKept
<1>5. ASSUME NEW w \in Threads, CheckVocab(w) \/ TakeLock(w) \/ Execute(w) PROVE ResultsInv'
  <2>1. UNCHANGED mainVars
    BY <1>5 DEF CheckVocab, TakeLock, Execute
  <2> QED BY <2>1, ResultsUnchanged
<1>6. ASSUME NEW w \in Threads, Borrow(w) PROVE ResultsInv'
  <2>1. UNCHANGED <<batch, running, nextTask, response>>
    BY <1>6 DEF Borrow
  <2>2. CASE AfterStatement(w, FALSE)
    BY <2>1, <2>2, ResultsStatement
  <2>3. CASE UNCHANGED results
    BY <2>1, <2>3, ResultsUnchanged DEF mainVars
  <2> QED BY <1>6, <2>2, <2>3 DEF Borrow
<1>7. ASSUME NEW w \in Threads, GiveBack(w) PROVE ResultsInv'
  <2>1. PICK ok : AfterStatement(w, ok)
    BY <1>7 DEF GiveBack
  <2>2. UNCHANGED <<batch, running, nextTask, response>>
    BY <1>7 DEF GiveBack
  <2> QED BY <2>1, <2>2, ResultsStatement
<1> QED BY <1>1, <1>2, <1>3, <1>4, <1>5, <1>6, <1>7 DEF Next, Step

(***************************************************************************)
(* The numbering of the distinct queries is one to one.                    *)
(***************************************************************************)
LEMMA FirstsDiffer ==
    ASSUME NEW b \in Batches, NEW f \in Firsts(b), NEW h \in Firsts(b), Key[b[f]] = Key[b[h]]
    PROVE  f = h
<1>1. f \in Nat /\ h \in Nat /\ f >= 1 /\ h >= 1
  <2>1. PICK n \in Nat : DOMAIN b = 1 .. n
    BY BatchAssumption
  <2> QED BY <2>1 DEF Firsts
<1>2. ~(f < h) /\ ~(h < f)
  BY <1>1 DEF Firsts
<1> QED BY <1>1, <1>2

LEMMA RankOnto ==
    ASSUME NEW b \in Batches, NEW i \in Tasks(b)
    PROVE  \E f \in Firsts(b) : Rank(b, f) = i
<1> DEFINE rank == [f \in Firsts(b) |-> Rank(b, f)]
<1>1. IsFiniteSet(Firsts(b)) /\ Firsts(b) \subseteq Nat /\ Cardinality(Firsts(b)) \in Nat
  BY FirstsFinite
<1>2. \A f \in Firsts(b) : Rank(b, f) \in Tasks(b)
  BY RankGrows
<1>3. ASSUME NEW f \in Firsts(b), NEW h \in Firsts(b), Rank(b, f) = Rank(b, h) PROVE f = h
  <2>1. Rank(b, f) \in Nat /\ Rank(b, h) \in Nat
    BY <1>2, TasksType
  <2>2. ~(f < h) /\ ~(h < f)
    BY <1>3, <2>1, RankGrows
  <2> QED BY <1>1, <2>2
<1>4. rank \in Injection(Firsts(b), Tasks(b))
  BY <1>2, <1>3 DEF Injection, IsInjective
<1>5. IsFiniteSet(Tasks(b)) /\ Cardinality(Tasks(b)) = Cardinality(Firsts(b))
  BY <1>1, FS_Interval DEF Tasks
<1>6. rank \in Surjection(Firsts(b), Tasks(b))
  BY <1>4, <1>5, FS_Injection
<1> QED BY <1>6 DEF Surjection

\* A number stands for one query: for some spelling in the batch, and for exactly
\* the positions of its spellings.
LEMMA NumberStandsFor ==
    ASSUME batch \in Batches, NEW i \in Tasks(batch)
    PROVE  /\ \E f \in DOMAIN batch : QueryOf(i) = batch[f]
           /\ \A p \in DOMAIN batch :
                Key[batch[p]] = Key[QueryOf(i)] <=> TaskOf(batch, p) = i
<1>1. PICK f \in Firsts(batch) : Rank(batch, f) = i
  BY RankOnto
<1>2. ASSUME NEW h \in Firsts(batch), Rank(batch, h) = i PROVE h = f
  <2>1. f \in Nat /\ h \in Nat /\ i \in Nat
    BY FirstsFinite, TasksType
  <2>2. ~(f < h) /\ ~(h < f)
    BY <1>1, <1>2, <2>1, RankGrows
  <2> QED BY <2>1, <2>2
<1>3. QueryOf(i) = batch[f]
  <2>1. (CHOOSE h \in Firsts(batch) : Rank(batch, h) = i) = f
    BY <1>1, <1>2
  <2> QED BY <2>1 DEF QueryOf, Rank
<1>4. f \in DOMAIN batch
  BY DEF Firsts
<1>5. ASSUME NEW p \in DOMAIN batch
      PROVE  Key[batch[p]] = Key[QueryOf(i)] <=> TaskOf(batch, p) = i
  <2> DEFINE h == TaskOf_Position(batch, p)
  <2>1. h \in Firsts(batch) /\ Key[batch[h]] = Key[batch[p]]
    BY FirstOccurrence
  <2>2. TaskOf(batch, p) = Rank(batch, h)
    BY DEF TaskOf, Rank
  <2> HIDE DEF h
  <2>3. CASE Key[batch[p]] = Key[QueryOf(i)]
    <3>1. h = f
      BY <1>3, <2>1, <2>3, FirstsDiffer
    <3> QED BY <1>1, <2>2, <2>3, <3>1
  <2>4. CASE TaskOf(batch, p) = i
    <3>1. h = f
      BY <1>2, <2>1, <2>2, <2>4
    <3> QED BY <1>3, <2>1, <2>4, <3>1
  <2> QED BY <2>3, <2>4
<1> QED BY <1>3, <1>4, <1>5

(***************************************************************************)
(* Progress.  The lock is held by a thread that builds; a query taken and  *)
(* not answered is some thread's; only a thread with a query has read.     *)
(***************************************************************************)
WorkInv ==
    /\ nextTask >= 1
    /\ \A w \in Threads : /\ Busy(w) <=> task[w] # 0
                          /\ reads[w] <= Reads
                          /\ pc[w] # "log" => reads[w] < Reads
    /\ lock = None \/ (lock \in Threads /\ pc[lock] = "build")
    /\ vocab \in {"none", "stale", "fresh"}
    /\ running => \A i \in DOMAIN results :
         i < nextTask /\ results[i] = None => \E w \in Threads : task[w] = i

BatchInv == ThreadType /\ RowsInv /\ ResultsInv

\* An answer is told from a missing one.
LEMMA OutcomeIsSome ==
    ASSUME batch \in Batches, NEW i \in Tasks(batch), NEW o \in {"routed", "too long"}
    PROVE  [query |-> QueryOf(i), outcome |-> o] # None
BY NumberStandsFor, BatchAssumption

LEMMA WorkStatement ==
    ASSUME NEW w \in Threads, NEW ok, BatchInv, WorkInv, AfterStatement(w, ok),
           running' = running, nextTask' = nextTask
    PROVE  WorkInv'
<1> USE DEF WorkInv, Busy
<1>0. /\ pc \in [Threads -> Stages] /\ reads \in [Threads -> Nat]
      /\ task \in [Threads -> Nat] /\ nextTask \in Nat /\ Reads \in Nat
  BY PoolAssumption DEF BatchInv, ThreadType
<1>1. CASE pc[w] = "build" /\ AfterBuild(w, ok)
  <2>1. lock' = None /\ vocab' = "fresh" /\ UNCHANGED <<task, reads, results>>
    BY <1>1 DEF AfterBuild
  <2>2. \A v \in Threads : pc'[v] = IF v = w THEN "read" ELSE pc[v]
    BY <1>0, <1>1 DEF AfterBuild
  <2> QED BY <1>1, <2>1, <2>2
<1>2. CASE pc[w] = "read" /\ AfterRead(w, ok)
  <2>1. UNCHANGED <<task, results, lock, vocab>>
    BY <1>2 DEF AfterRead, vocabVars
  <2>2. PICK s \in {"read", "log"} : pc' = [pc EXCEPT ![w] = s] /\ (reads[w] + 1 = Reads => s = "log")
    BY <1>2 DEF AfterRead
  <2>3. reads' = [reads EXCEPT ![w] = reads[w] + 1]
    BY <1>2 DEF AfterRead
  <2>4. \A v \in Threads : /\ pc'[v] = IF v = w THEN s ELSE pc[v]
                           /\ reads'[v] = IF v = w THEN reads[w] + 1 ELSE reads[v]
    BY <1>0, <2>2, <2>3
  <2>5. \A v \in Threads : reads'[v] <= Reads /\ (pc'[v] # "log" => reads'[v] < Reads)
    BY <1>0, <1>2, <2>2, <2>4
  <2>6. lock # None => lock # w
    BY <1>2
  <2> QED BY <1>2, <2>1, <2>2, <2>4, <2>5, <2>6
<1>3. CASE pc[w] = "log" /\ AfterLog(w, ok)
  <2>1. /\ IsAnswered(w) /\ UNCHANGED <<lock, vocab>>
    BY <1>3, StatementEnds DEF BatchInv, AfterLog, AfterStatement, Routed, vocabVars
  <2>2. \A v \in Threads : /\ pc'[v] = IF v = w THEN "free" ELSE pc[v]
                           /\ task'[v] = IF v = w THEN 0 ELSE task[v]
                           /\ reads'[v] = IF v = w THEN 0 ELSE reads[v]
    BY <1>0, <2>1 DEF IsAnswered
  <2>3. \A v \in Threads : reads'[v] <= Reads /\ (pc'[v] # "log" => reads'[v] < Reads)
    BY <1>0, <2>2, PoolAssumption
  <2>4. lock # None => lock # w
    BY <1>3
  <2>5. running /\ batch \in Batches /\ DOMAIN results = Tasks(batch) /\ task[w] \in DOMAIN results
    BY <1>3 DEF BatchInv, RowsInv, ResultsInv
  <2>6. /\ DOMAIN results' = DOMAIN results /\ results'[task[w]] # None
        /\ \A i \in DOMAIN results : i # task[w] => results'[i] = results[i]
    BY <2>1, <2>5, OutcomeIsSome DEF IsAnswered
  <2>7. ASSUME NEW i \in DOMAIN results', i < nextTask, results'[i] = None
        PROVE  \E v \in Threads : task'[v] = i
    <3>1. PICK v \in Threads : task[v] = i
      BY <2>5, <2>6, <2>7
    <3> QED BY <2>2, <2>6, <2>7, <3>1
  <2> QED BY <1>0, <2>1, <2>2, <2>3, <2>4, <2>7
<1> QED BY <1>1, <1>2, <1>3 DEF AfterStatement

LEMMA WorkStep == BatchInv /\ WorkInv /\ [Next]_vars => WorkInv'
<1> SUFFICES ASSUME BatchInv, WorkInv, [Next]_vars PROVE WorkInv'
  OBVIOUS
<1> USE DEF WorkInv, Busy, poolVars, threadVars, vocabVars, mainVars
<1>0. /\ pc \in [Threads -> Stages] /\ reads \in [Threads -> Nat]
      /\ task \in [Threads -> Nat] /\ nextTask \in Nat
  BY DEF BatchInv, ThreadType
<1>1. CASE Submit
  <2>1. /\ nextTask' = 1 /\ UNCHANGED <<task, pc, reads, lock, vocab>>
        /\ results' = [i \in Tasks(batch') |-> None] /\ batch' \in Batches
    BY <1>1 DEF Submit
  <2>2. DOMAIN results' \subseteq Nat \ {0}
    <3>1. PICK b \in Batches : b = batch'
      BY <2>1
    <3>2. Cardinality(Firsts(b)) \in Nat
      BY FirstsFinite
    <3> QED BY <2>1, <3>1, <3>2 DEF Tasks
  <2> QED BY <2>1, <2>2
<1>2. CASE Answer
  BY <1>2 DEF Answer
<1>3. CASE Sigterm \/ Expire \/ UNCHANGED vars
  <2>1. /\ UNCHANGED <<nextTask, task, pc, reads, lock, running, results>>
        /\ vocab' \in {vocab, "stale"}
    BY <1>3 DEF Sigterm, Expire, vars
  <2> QED BY <2>1
<1>4. ASSUME NEW w \in Threads, Take(w) PROVE WorkInv'
  <2>1. /\ running /\ pc[w] = "free" /\ nextTask \in DOMAIN results /\ nextTask' = nextTask + 1
        /\ UNCHANGED <<reads, running, lock, vocab>>
    BY <1>4 DEF Take
  <2>2. task[w] = 0
    BY <2>1
  <2>3. CASE Refused(nextTask)
    <3>1. /\ results' = [results EXCEPT ![nextTask] = [query |-> QueryOf(nextTask), outcome |-> "too long"]]
          /\ UNCHANGED <<task, pc>>
      BY <1>4, <2>3 DEF Take, Finish
    <3>2. results'[nextTask] # None
      BY <2>1, <3>1, OutcomeIsSome DEF BatchInv, ResultsInv
    <3>3. /\ DOMAIN results' = DOMAIN results
          /\ \A i \in DOMAIN results : i # nextTask => results'[i] = results[i]
      BY <3>1
    <3>4. ASSUME NEW i \in DOMAIN results', i < nextTask', results'[i] = None
          PROVE  \E v \in Threads : task'[v] = i
      <4>1. i # nextTask /\ i \in Nat
        BY <3>2, <3>3, <3>4 DEF BatchInv, RowsInv
      <4>2. i < nextTask /\ results[i] = None
        BY <1>0, <2>1, <3>3, <3>4, <4>1
      <4> QED BY <2>1, <3>1, <3>3, <4>2
    <3>5. UNCHANGED <<task, pc, reads, lock, vocab>>
      BY <2>1, <3>1
    <3>6. nextTask' >= 1
      BY <1>0, <2>1
    <3> QED BY <3>4, <3>5, <3>6
  <2>4. CASE ~Refused(nextTask)
    <3>1. /\ task' = [task EXCEPT ![w] = nextTask] /\ pc' = [pc EXCEPT ![w] = "vocab"]
          /\ UNCHANGED results
      BY <1>4, <2>4 DEF Take
    <3>2. \A v \in Threads : /\ pc'[v] = IF v = w THEN "vocab" ELSE pc[v]
                             /\ task'[v] = IF v = w THEN nextTask ELSE task[v]
      BY <1>0, <3>1
    <3>3. ASSUME NEW i \in DOMAIN results', i < nextTask', results'[i] = None
          PROVE  \E v \in Threads : task'[v] = i
      <4>1. i \in Nat
        BY <3>1 DEF BatchInv, RowsInv
      <4>2. CASE i = nextTask
        BY <3>2, <4>2
      <4>3. CASE i # nextTask
        <5>1. PICK v \in Threads : task[v] = i
          BY <1>0, <2>1, <3>1, <3>3, <4>1, <4>3
        <5>2. i # 0
          <6>1. PICK b \in Batches : DOMAIN results = Tasks(b)
            BY <2>1 DEF BatchInv, ResultsInv
          <6>2. Cardinality(Firsts(b)) \in Nat
            BY FirstsFinite
          <6> QED BY <3>1, <6>1, <6>2 DEF Tasks
        <5> QED BY <2>2, <3>2, <5>1, <5>2
      <4> QED BY <4>2, <4>3
    <3>4. pc[w] # "log" /\ pc[w] # "build" /\ nextTask # 0
      BY <1>0, <2>1
    <3> QED BY <1>0, <2>1, <3>1, <3>2, <3>3, <3>4
  <2> QED BY <2>3, <2>4
<1>5. ASSUME NEW w \in Threads, CheckVocab(w) \/ TakeLock(w) PROVE WorkInv'
  <2>1. /\ pc[w] \in {"vocab", "wait"}
        /\ UNCHANGED <<task, reads, results, nextTask, running, vocab>>
    BY <1>5 DEF CheckVocab, TakeLock
  <2>2. PICK s \in {"wait", "build", "read"} :
          /\ pc' = [pc EXCEPT ![w] = s]
          /\ lock' = lock \/ lock' = None \/ (lock' = w /\ s = "build")
    <3>1. CASE CheckVocab(w)
      BY <3>1 DEF CheckVocab
    <3>2. CASE TakeLock(w)
      BY <3>2 DEF TakeLock
    <3> QED BY <1>5, <3>1, <3>2
  <2>3. \A v \in Threads : pc'[v] = IF v = w THEN s ELSE pc[v]
    BY <1>0, <2>2
  <2> QED BY <2>1, <2>2, <2>3
<1>6. ASSUME NEW w \in Threads, Borrow(w) PROVE WorkInv'
  <2>1. UNCHANGED <<running, nextTask>>
    BY <1>6 DEF Borrow
  <2>2. CASE AfterStatement(w, FALSE)
    BY <2>1, <2>2, WorkStatement
  <2>3. CASE UNCHANGED <<task, pc, reads, results, lock, vocab>>
    BY <2>1, <2>3
  <2> QED BY <1>6, <2>2, <2>3 DEF Borrow
<1>7. ASSUME NEW w \in Threads, Execute(w) PROVE WorkInv'
  BY <1>7 DEF Execute
<1>8. ASSUME NEW w \in Threads, GiveBack(w) PROVE WorkInv'
  <2>1. PICK ok : AfterStatement(w, ok)
    BY <1>8 DEF GiveBack
  <2> QED BY <1>8, <2>1, WorkStatement DEF GiveBack
<1> QED BY <1>1, <1>2, <1>3, <1>4, <1>5, <1>6, <1>7, <1>8 DEF Next, Step

\* Whoever waits, the owner of the lock builds; if nobody holds a query, the next
\* one is there to be taken.
LEMMA WorkGoesOn == BatchInv /\ WorkInv => BatchNeverStuck
<1> SUFFICES ASSUME BatchInv, WorkInv, running, NEW i \in DOMAIN results, results[i] = None,
                    \A w \in Threads : ~CanGoOn(w)
             PROVE  FALSE
  BY DEF BatchNeverStuck
<1>1. \A w \in Threads : pc[w] = "free"
  <2> SUFFICES ASSUME NEW w \in Threads, pc[w] # "free" PROVE FALSE
    OBVIOUS
  <2>1. pc[w] = "wait" /\ lock # None
    BY DEF CanGoOn, BatchInv, ThreadType, Stages
  <2> QED BY <2>1 DEF WorkInv, CanGoOn
<1>2. i >= nextTask
  <2>1. i \in Nat /\ nextTask \in Nat
    BY DEF BatchInv, RowsInv, ThreadType
  <2>2. \A w \in Threads : task[w] = 0
    BY <1>1 DEF WorkInv, Busy
  <2>3. i # 0
    <3>1. PICK b \in Batches : DOMAIN results = Tasks(b)
      BY DEF BatchInv, ResultsInv
    <3>2. Cardinality(Firsts(b)) \in Nat
      BY FirstsFinite
    <3> QED BY <3>1, <3>2 DEF Tasks
  <2> QED BY <2>1, <2>2, <2>3 DEF WorkInv
<1>3. nextTask \in DOMAIN results
  <2>1. PICK b \in Batches : DOMAIN results = Tasks(b)
    BY DEF BatchInv, ResultsInv
  <2>2. Cardinality(Firsts(b)) \in Nat /\ nextTask \in Nat /\ nextTask >= 1
    BY FirstsFinite DEF BatchInv, ThreadType, WorkInv
  <2> QED BY <1>2, <2>1, <2>2 DEF Tasks
<1> QED BY <1>1, <1>3, PoolAssumption DEF CanGoOn

(***************************************************************************)
(* The outcomes.  A query refused for its length has no thread and no row, *)
(* and an answered one has the outcome of the spelling that came first.    *)
(***************************************************************************)
OutcomeOf(i) == [query |-> QueryOf(i), outcome |-> IF Refused(i) THEN "too long" ELSE "routed"]

OutcomeInv == \A i \in DOMAIN results :
    /\ \A w \in Threads : Busy(w) /\ task[w] = i => ~Refused(i)
    /\ results[i] # None => results[i] = OutcomeOf(i)
    /\ Refused(i) => rows[i] = 0

LEMMA OutcomeKept ==
    batch' = batch => \A i : (Refused(i)' <=> Refused(i)) /\ OutcomeOf(i)' = OutcomeOf(i)
BY DEF OutcomeOf, Refused, QueryOf

LEMMA OutcomeStatement ==
    ASSUME NEW w \in Threads, NEW ok, BatchInv, OutcomeInv, AfterStatement(w, ok),
           batch' = batch, rows' = rows
    PROVE  OutcomeInv'
<1> USE DEF OutcomeInv, Busy
<1>0. ThreadType /\ pc \in [Threads -> Stages] /\ task \in [Threads -> Nat]
  BY DEF BatchInv, ThreadType
<1>1. CASE pc[w] \in {"build", "read"}
  <2>1. PICK s \in {"read", "log"} : pc' = [pc EXCEPT ![w] = s] /\ UNCHANGED <<task, results>>
    BY <1>0, <1>1, StatementEnds DEF GoesOn
  <2>2. \A v \in Threads : pc'[v] # "free" => pc[v] # "free"
    BY <1>0, <1>1, <2>1
  <2> QED BY <2>1, <2>2, OutcomeKept
<1>2. CASE pc[w] = "log"
  <2>1. /\ pc' = [pc EXCEPT ![w] = "free"] /\ task' = [task EXCEPT ![w] = 0]
        /\ results' = [results EXCEPT ![task[w]] = [query |-> QueryOf(task[w]), outcome |-> "routed"]]
    BY <1>0, <1>2, StatementEnds DEF IsAnswered
  <2>2. \A v \in Threads : pc'[v] # "free" => pc[v] # "free" /\ task'[v] = task[v]
    BY <1>0, <2>1
  <2>3. task[w] \in DOMAIN results /\ ~Refused(task[w])
    BY <1>2 DEF BatchInv, RowsInv
  <2>4. DOMAIN results' = DOMAIN results
    BY <2>1
  <2>5. ASSUME NEW i \in DOMAIN results, results'[i] # None PROVE results'[i] = OutcomeOf(i)
    <3>1. CASE i = task[w]
      BY <2>1, <2>3, <3>1 DEF OutcomeOf
    <3>2. CASE i # task[w]
      BY <2>1, <2>5, <3>2
    <3> QED BY <3>1, <3>2
  <2> QED BY <2>2, <2>4, <2>5, OutcomeKept
<1> QED BY <1>1, <1>2 DEF AfterStatement

LEMMA OutcomeStep == BatchInv /\ OutcomeInv /\ [Next]_vars => OutcomeInv'
<1> SUFFICES ASSUME BatchInv, OutcomeInv, [Next]_vars PROVE OutcomeInv'
  OBVIOUS
<1> USE DEF OutcomeInv, Busy, poolVars, threadVars, vocabVars, mainVars
<1>0. /\ pc \in [Threads -> Stages] /\ task \in [Threads -> Nat] /\ nextTask \in Nat
  BY DEF BatchInv, ThreadType
<1>1. CASE Submit
  <2>1. /\ ~running /\ UNCHANGED <<task, pc>>
        /\ results' = [i \in Tasks(batch') |-> None] /\ rows' = [i \in Tasks(batch') |-> 0]
    BY <1>1 DEF Submit
  <2>2. \A w \in Threads : ~(pc'[w] # "free")
    BY <2>1 DEF BatchInv, RowsInv
  <2> QED BY <2>1, <2>2
<1>2. CASE Answer
  BY <1>2, OutcomeKept DEF Answer
<1>3. CASE Sigterm \/ Expire \/ UNCHANGED vars
  <2>1. UNCHANGED <<batch, task, pc, results, rows>>
    BY <1>3 DEF Sigterm, Expire, vars
  <2> QED BY <2>1, OutcomeKept
<1>4. ASSUME NEW w \in Threads, Take(w) PROVE OutcomeInv'
  <2>1. /\ pc[w] = "free" /\ nextTask \in DOMAIN results /\ UNCHANGED <<batch, rows>>
    BY <1>4 DEF Take
  <2>2. CASE Refused(nextTask)
    <3>1. /\ UNCHANGED <<task, pc>>
          /\ results' = [results EXCEPT ![nextTask] = [query |-> QueryOf(nextTask), outcome |-> "too long"]]
      BY <1>4, <2>2 DEF Take, Finish
    <3>2. DOMAIN results' = DOMAIN results
      BY <3>1
    <3>3. ASSUME NEW i \in DOMAIN results, results'[i] # None PROVE results'[i] = OutcomeOf(i)
      <4>1. CASE i = nextTask
        BY <2>2, <3>1, <4>1 DEF OutcomeOf
      <4>2. CASE i # nextTask
        BY <3>1, <3>3, <4>2
      <4> QED BY <4>1, <4>2
    <3> QED BY <2>1, <3>1, <3>2, <3>3, OutcomeKept
  <2>3. CASE ~Refused(nextTask)
    <3>1. /\ task' = [task EXCEPT ![w] = nextTask] /\ pc' = [pc EXCEPT ![w] = "vocab"]
          /\ UNCHANGED results
      BY <1>4, <2>3 DEF Take
    <3>2. \A v \in Threads : /\ pc'[v] = IF v = w THEN "vocab" ELSE pc[v]
                             /\ task'[v] = IF v = w THEN nextTask ELSE task[v]
      BY <1>0, <3>1
    <3> QED BY <2>1, <2>3, <3>1, <3>2, OutcomeKept
  <2> QED BY <2>2, <2>3
<1>5. ASSUME NEW w \in Threads, CheckVocab(w) \/ TakeLock(w) PROVE OutcomeInv'
  <2>1. pc[w] # "free" /\ UNCHANGED <<batch, task, results, rows>>
    BY <1>5 DEF CheckVocab, TakeLock
  <2>2. \A v \in Threads : v # w => pc'[v] = pc[v]
    BY <1>0, <1>5 DEF CheckVocab, TakeLock
  <2> QED BY <2>1, <2>2, OutcomeKept
<1>6. ASSUME NEW w \in Threads, Borrow(w) PROVE OutcomeInv'
  <2>1. UNCHANGED <<batch, rows>>
    BY <1>6 DEF Borrow
  <2>2. CASE AfterStatement(w, FALSE)
    BY <2>1, <2>2, OutcomeStatement
  <2>3. CASE UNCHANGED <<task, pc, results>>
    BY <2>1, <2>3, OutcomeKept
  <2> QED BY <1>6, <2>2, <2>3 DEF Borrow
<1>7. ASSUME NEW w \in Threads, Execute(w) PROVE OutcomeInv'
  <2>1. conn[w] = "held" /\ UNCHANGED <<batch, task, pc, results>>
    BY <1>7 DEF Execute
  <2>2. pc[w] # "free" /\ rows \in [DOMAIN results -> {0, 1}]
    BY <2>1 DEF BatchInv, RowsInv
  <2>3. rows' = rows \/ rows' = [rows EXCEPT ![task[w]] = rows[task[w]] + 1]
    BY <1>7 DEF Execute
  <2>4. \A i \in DOMAIN results : i # task[w] => rows'[i] = rows[i]
    BY <2>2, <2>3
  <2> QED BY <2>1, <2>2, <2>3, <2>4, OutcomeKept
<1>8. ASSUME NEW w \in Threads, GiveBack(w) PROVE OutcomeInv'
  <2>1. PICK ok : AfterStatement(w, ok)
    BY <1>8 DEF GiveBack
  <2> QED BY <1>8, <2>1, OutcomeStatement DEF GiveBack
<1> QED BY <1>1, <1>2, <1>3, <1>4, <1>5, <1>6, <1>7, <1>8 DEF Next, Step

(***************************************************************************)
(* The batch as its client sees it.                                        *)
(***************************************************************************)
LEMMA NumberIsTask ==
    ASSUME NEW b \in Batches, NEW k \in KeysOf(b)
    PROVE  NumberIn(b, k) \in Tasks(b)
<1>1. PICK p \in DOMAIN b : p = CHOOSE r \in DOMAIN b : Key[b[r]] = k
  BY DEF KeysOf
<1>2. TaskOf(b, p) = Rank(b, TaskOf_Position(b, p))
  BY DEF TaskOf, Rank
<1> QED BY <1>1, <1>2, FirstOccurrence, RankGrows DEF NumberIn

LEMMA NumberOfKey ==
    ASSUME batch \in Batches, NEW k \in KeysOf(batch)
    PROVE  /\ Key[QueryOf(NumberIn(batch, k))] = k
           /\ QueryOf(NumberIn(batch, k)) \in {batch[p] : p \in DOMAIN batch}
           /\ \A p \in DOMAIN batch : Key[batch[p]] = k => TaskOf(batch, p) = NumberIn(batch, k)
           /\ \A i \in Tasks(batch) : Key[QueryOf(i)] = k => i = NumberIn(batch, k)
<1>1. PICK p \in DOMAIN batch : p = (CHOOSE r \in DOMAIN batch : Key[batch[r]] = k) /\ Key[batch[p]] = k
  BY DEF KeysOf
<1>2. NumberIn(batch, k) = TaskOf(batch, p)
  BY <1>1 DEF NumberIn
<1>3. Key[QueryOf(TaskOf(batch, p))] = k
  BY <1>1, QueryOfTask
<1>4. NumberIn(batch, k) \in Tasks(batch)
  BY NumberIsTask
<1>5. \A i \in Tasks(batch) : Key[QueryOf(i)] = k => TaskOf(batch, p) = i
  BY <1>1, NumberStandsFor
<1> QED BY <1>2, <1>3, <1>4, <1>5, NumberStandsFor

LEMMA AbstractNames ==
    ASSUME NEW b
    PROVE  /\ Abstract!Keys(b) = KeysOf(b)
           /\ Abstract!Range(b) = {b[p] : p \in DOMAIN b}
BY DEF Abstract!Keys, Abstract!Range, KeysOf

LEMMA AnswerInit == Init => Abstract!Init
<1> SUFFICES ASSUME Init PROVE Abstract!Init
  OBVIOUS
<1>1. DOMAIN batch = {}
  BY DEF Init
<1>2. Abstract!Keys(batch) = {}
  BY <1>1, AbstractNames DEF KeysOf
<1>3. LoggedRows = [k \in Abstract!Keys(batch) |-> 0]
  BY <1>1, <1>2 DEF LoggedRows, KeysOf
<1> QED BY <1>3 DEF Init, Abstract!Init

\* Threads that only work leave the client's view alone.
LEMMA AnswerStutter ==
    UNCHANGED <<batch, running, response, rows>> => UNCHANGED Abstract!vars
BY DEF Abstract!vars, LoggedRows, KeysOf, NumberIn, TaskOf, TaskOf_Position, Firsts

LEMMA AnswerSubmit == Submit => Abstract!Submit
<1> SUFFICES ASSUME Submit PROVE Abstract!Submit
  OBVIOUS
<1>1. PICK b \in Batches : b = batch'
  BY DEF Submit
<1>2. rows' = [i \in Tasks(b) |-> 0]
  BY <1>1 DEF Submit
<1>3. \A k \in KeysOf(b) : rows'[NumberIn(b, k)] = 0
  BY <1>2, NumberIsTask
<1>4. LoggedRows' = [k \in KeysOf(b) |-> rows'[NumberIn(b, k)]]
  BY <1>1 DEF LoggedRows, KeysOf, NumberIn, TaskOf, TaskOf_Position, Firsts
<1>5. LoggedRows' = [k \in Abstract!Keys(b) |-> 0]
  BY <1>3, <1>4, AbstractNames
<1> QED BY <1>1, <1>5 DEF Submit, Abstract!Submit

LEMMA AnswerAnswer == BatchInv /\ OutcomeInv /\ Answer => Abstract!Answer
<1> SUFFICES ASSUME BatchInv, OutcomeInv, Answer PROVE Abstract!Answer
  OBVIOUS
<1>1. /\ running /\ running' = FALSE /\ UNCHANGED <<batch, rows>>
      /\ \A i \in DOMAIN results : results[i] # None
      /\ batch \in Batches /\ DOMAIN results = Tasks(batch)
  BY DEF Answer, BatchInv, ResultsInv
<1> DEFINE speaker == [k \in KeysOf(batch) |-> QueryOf(NumberIn(batch, k))]
<1>2. ASSUME NEW k \in KeysOf(batch)
      PROVE  /\ Key[speaker[k]] = k /\ speaker[k] \in Abstract!Range(batch)
             /\ (speaker[k] \in TooLong => LoggedRows[k] = 0)
  <2>1. NumberIn(batch, k) \in DOMAIN results
    BY <1>1, NumberIsTask
  <2> QED BY <1>1, <2>1, NumberOfKey, AbstractNames DEF OutcomeInv, Refused, LoggedRows
<1>3. ASSUME NEW p \in DOMAIN batch
      PROVE  response'[p] = Abstract!Outcome(speaker[Key[batch[p]]])
  <2>1. Key[batch[p]] \in KeysOf(batch)
    BY DEF KeysOf
  <2>2. TaskOf(batch, p) = NumberIn(batch, Key[batch[p]]) /\ TaskOf(batch, p) \in DOMAIN results
    BY <1>1, <2>1, NumberOfKey, NumberIsTask
  <2>3. response'[p] = OutcomeOf(TaskOf(batch, p))
    BY <1>1, <2>2 DEF Answer, OutcomeInv
  <2> QED BY <2>1, <2>2, <2>3 DEF OutcomeOf, Refused, Abstract!Outcome
<1>4. response' = [p \in DOMAIN batch |-> Abstract!Outcome(speaker[Key[batch[p]]])]
  <2>1. response' = [p \in DOMAIN batch |-> response'[p]]
    BY DEF Answer
  <2> HIDE DEF speaker
  <2> QED BY <1>3, <2>1
<1>5. /\ speaker \in [Abstract!Keys(batch) -> Abstract!Range(batch)]
      /\ \A k \in Abstract!Keys(batch) :
           /\ speaker[k] \in Abstract!Written(k)
           /\ speaker[k] \in TooLong => LoggedRows[k] = 0
  BY <1>2, AbstractNames DEF Abstract!Written
<1>6. UNCHANGED LoggedRows
  BY <1>1 DEF LoggedRows, KeysOf, NumberIn, TaskOf, TaskOf_Position, Firsts
<1> HIDE DEF speaker
<1> QED BY <1>1, <1>4, <1>5, <1>6 DEF Abstract!Answer

LEMMA AnswerLog ==
    ASSUME BatchInv, OutcomeInv, NEW w \in Threads, Execute(w)
    PROVE  UNCHANGED <<batch, running, response, rows>> \/ \E k : Abstract!Log(k) /\ k \in KeysOf(batch)
<1> DEFINE i == task[w]
<1>1. /\ conn[w] = "held" /\ UNCHANGED <<batch, running, response>>
      /\ rows' = rows \/ (pc[w] = "log" /\ rows' = [rows EXCEPT ![i] = rows[i] + 1])
  BY DEF Execute, mainVars
<1>2. CASE pc[w] = "log" /\ rows' = [rows EXCEPT ![i] = rows[i] + 1]
  <2>1. /\ running /\ i \in DOMAIN results /\ rows[i] = 0
        /\ rows \in [DOMAIN results -> {0, 1}]
    BY <1>1, <1>2 DEF BatchInv, RowsInv, Busy, Inserted
  <2>2. batch \in Batches /\ DOMAIN results = Tasks(batch)
    BY <2>1 DEF BatchInv, ResultsInv
  <2>3. QueryOf(i) \notin TooLong
    BY <1>2, <2>1 DEF OutcomeInv, Refused, Busy
  <2> DEFINE k == Key[QueryOf(i)]
  <2>4. \E f \in DOMAIN batch : QueryOf(i) = batch[f]
    BY <2>1, <2>2, NumberStandsFor
  <2>5. k \in KeysOf(batch) /\ QueryOf(i) \in Abstract!Written(k)
    BY <2>4, AbstractNames DEF KeysOf, Abstract!Written
  <2> HIDE DEF i, k
  <2>6. i = NumberIn(batch, k)
    BY <2>1, <2>2, <2>5, NumberOfKey DEF k
  <2>7. ASSUME NEW h \in KeysOf(batch)
        PROVE  /\ NumberIn(batch, h) \in DOMAIN results
               /\ h # k => NumberIn(batch, h) # i
    BY <2>2, <2>7, NumberIsTask, NumberOfKey DEF k
  <2>8. rows' = [rows EXCEPT ![i] = 1]
    BY <1>2, <2>1
  <2>9. LoggedRows' = [h \in KeysOf(batch) |-> rows'[NumberIn(batch, h)]]
    BY <1>1 DEF LoggedRows, KeysOf, NumberIn, TaskOf, TaskOf_Position, Firsts
  <2>10. \A h \in KeysOf(batch) :
            rows'[NumberIn(batch, h)] = IF h = k THEN 1 ELSE rows[NumberIn(batch, h)]
    BY <2>1, <2>6, <2>7, <2>8
  <2>11. LoggedRows' = [LoggedRows EXCEPT ![k] = 1] /\ LoggedRows[k] = 0
    BY <2>1, <2>5, <2>6, <2>9, <2>10 DEF LoggedRows
  <2>12. Abstract!Written(k) \ TooLong # {}
    BY <2>3, <2>5
  <2>13. Abstract!Log(k)
    BY <1>1, <2>1, <2>11, <2>12 DEF Abstract!Log
  <2> QED BY <2>5, <2>13
<1> QED BY <1>1, <1>2

LEMMA AnswerStep ==
    BatchInv /\ OutcomeInv /\ [Next]_vars => [Abstract!Next]_Abstract!vars
<1> SUFFICES ASSUME BatchInv, OutcomeInv, [Next]_vars
             PROVE  Abstract!Next \/ UNCHANGED Abstract!vars
  OBVIOUS
<1>1. CASE Submit
  BY <1>1, AnswerSubmit DEF Abstract!Next
<1>2. CASE Answer
  BY <1>2, AnswerAnswer DEF Abstract!Next
<1>3. ASSUME NEW w \in Threads, Execute(w) PROVE Abstract!Next \/ UNCHANGED Abstract!vars
  <2>1. CASE UNCHANGED <<batch, running, response, rows>>
    BY <2>1, AnswerStutter
  <2>2. CASE \E k : Abstract!Log(k) /\ k \in KeysOf(batch)
    <3>1. DOMAIN LoggedRows = KeysOf(batch)
      BY DEF LoggedRows
    <3> QED BY <2>2, <3>1 DEF Abstract!Next
  <2> QED BY <1>3, <2>1, <2>2, AnswerLog
<1>4. CASE \/ Sigterm \/ Expire \/ UNCHANGED vars
           \/ \E w \in Threads :
                Take(w) \/ CheckVocab(w) \/ TakeLock(w) \/ Borrow(w) \/ GiveBack(w)
  <2>1. UNCHANGED <<batch, running, response, rows>>
    BY <1>4 DEF Sigterm, Expire, vars, mainVars, Take, CheckVocab, TakeLock, Borrow, GiveBack
  <2> QED BY <2>1, AnswerStutter
<1> QED BY <1>1, <1>2, <1>3, <1>4 DEF Next, Step

(***************************************************************************)
(* The theorems.                                                           *)
(***************************************************************************)
LEMMA AllInit == Init => ThreadType /\ PoolInv /\ VocabInv /\ RowsInv
<1> SUFFICES ASSUME Init PROVE ThreadType /\ PoolInv /\ VocabInv /\ RowsInv
  OBVIOUS
<1>1. ThreadType
  BY DEF Init, ThreadType, Stages, States
<1>2. PoolInv
  BY DEF Init, PoolInv
<1>3. VocabInv
  BY DEF Init, VocabInv
<1>4. RowsInv
  <2>1. DOMAIN results = {} /\ rows = results
    BY DEF Init
  <2>2. rows \in [DOMAIN results -> {0, 1}]
    BY <2>1 DEF Init
  <2> QED BY <2>1, <2>2 DEF Init, RowsInv, Busy, Inserted
<1> QED BY <1>1, <1>2, <1>3, <1>4

LEMMA ThreadsTyped == Spec => []ThreadType
BY AllInit, ThreadTypeStep, PTL DEF Spec

\* No thread is ever refused a connection, and none is leaked.
THEOREM PoolAlwaysSuffices == Spec => []PoolSuffices
<1>1. PoolInv => PoolSuffices
  BY DEF PoolInv, PoolSuffices
<1> QED BY <1>1, AllInit, PoolStep, ThreadsTyped, PTL DEF Spec

\* Threads that find the vocabulary expired together rebuild it once.
THEOREM VocabularyRebuiltOnce == Spec => []OneRebuildPerTTL
<1>1. VocabInv => OneRebuildPerTTL
  BY DEF VocabInv, OneRebuildPerTTL
<1> QED BY <1>1, AllInit, VocabStep, ThreadsTyped, PTL DEF Spec

\* No distinct query of a batch is logged twice, whatever fails after a commit.
THEOREM EachLoggedAtMostOnce == Spec => []LoggedAtMostOnce
<1>1. RowsInv => LoggedAtMostOnce
  BY DEF RowsInv, LoggedAtMostOnce
<1> QED BY <1>1, AllInit, RowsStep, ThreadsTyped, PTL DEF Spec

\* Every position of an answer has the result of its own query.
THEOREM EveryPositionAnswered == Spec => []AnswersInPlace
<1>1. Init => ResultsInv
  BY DEF Init, ResultsInv, AnswersInPlace
<1>2. ResultsInv => AnswersInPlace
  BY DEF ResultsInv
<1>3. Spec => []RowsInv
  BY AllInit, RowsStep, ThreadsTyped, PTL DEF Spec
<1> QED BY <1>1, <1>2, <1>3, ResultsStep, ThreadsTyped, PTL DEF Spec

LEMMA BatchTyped == Spec => [](BatchInv /\ WorkInv /\ OutcomeInv)
<1>1. Init => BatchInv /\ WorkInv /\ OutcomeInv
  <2> SUFFICES ASSUME Init PROVE BatchInv /\ WorkInv /\ OutcomeInv
    OBVIOUS
  <2>1. ResultsInv
    BY DEF Init, ResultsInv, AnswersInPlace
  <2>2. WorkInv
    BY PoolAssumption DEF Init, WorkInv, Busy
  <2>3. OutcomeInv
    <3>1. DOMAIN results = {}
      BY DEF Init
    <3> QED BY <3>1 DEF OutcomeInv
  <2> QED BY <2>1, <2>2, <2>3, AllInit DEF BatchInv
<1>2. BatchInv /\ [Next]_vars => BatchInv'
  BY ThreadTypeStep, RowsStep, ResultsStep DEF BatchInv
<1> QED BY <1>1, <1>2, WorkStep, OutcomeStep, PTL DEF Spec

\* Threads, connections, lock and vocabulary are in one of their states, a thread
\* has a query exactly when it is not free, and no query is read too often.
THEOREM BatchTypes == Spec => []TypeOK
<1>1. BatchInv /\ WorkInv /\ PoolInv => TypeOK
  <2> SUFFICES ASSUME BatchInv, WorkInv, PoolInv PROVE TypeOK
    OBVIOUS
  <2>1. ASSUME NEW w \in Threads
        PROVE  /\ pc[w] \in Stages /\ conn[w] \in States
               /\ (pc[w] = "free") = (task[w] = 0)
               /\ reads[w] \in 0 .. Reads
    BY PoolAssumption DEF BatchInv, ThreadType, WorkInv, Busy
  <2>2. lock \in Threads \cup {None} /\ vocab \in {"none", "stale", "fresh"}
    BY DEF WorkInv
  <2> QED BY <2>1, <2>2 DEF TypeOK, PoolInv, Stages, States
<1> QED BY <1>1, AllInit, PoolStep, BatchTyped, ThreadsTyped, PTL DEF Spec

\* While an answer is missing some thread can go on: waiting for the vocabulary's
\* lock never becomes waiting for each other, whatever fails under the lock.
THEOREM NeverStuck == Spec => []BatchNeverStuck
BY WorkGoesOn, BatchTyped, PTL

\* Threads, pool, vocabulary and failures stay hidden from the client: the batch
\* is answered in one step, one spelling speaking for all of a query's.
THEOREM AnsweredInOnePiece == Spec => AnswersInOnePiece
<1>1. Spec => Abstract!Spec
  BY AnswerInit, AnswerStep, BatchTyped, PTL DEF Spec, Abstract!Spec
<1> QED BY <1>1 DEF AnswersInOnePiece
=============================================================================
