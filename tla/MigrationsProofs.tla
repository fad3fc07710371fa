-------------------------- MODULE MigrationsProofs --------------------------
(***************************************************************************)
(* Any number of instances start together, among any number of requests.   *)
(* The first lock of the DDL that excludes everybody, on nav_index, is the *)
(* door: whoever is past it holds that lock to the end, so nobody else     *)
(* gets past.                                                              *)
(***************************************************************************)
EXTENDS Migrations, TLAPS

LEMMA ScriptFacts ==
    /\ Len(Script) = 9
    /\ Script[4] = Exclusive("index")
    /\ \A k \in 1 .. 3 : Script[k].mode = "share"
BY DEF Script, Share, Exclusive

LEMMA RequestFacts ==
    \A r \in Requests \cup {<<>>} : Len(r) \in 0 .. 2
BY DEF Requests, Read, Write, Tables

LEMMA PlanFacts ==
    ASSUME TypeOK, NEW p \in Parties
    PROVE  Len(Plan(p)) \in 0 .. 9
<1>1. CASE p \in Starts
  BY <1>1, ScriptFacts DEF Plan
<1>2. CASE p \in Clients /\ p \notin Starts
  <2>1. request[p] \in Requests \cup {<<>>}
    BY <1>2 DEF TypeOK
  <2>2. Len(request[p]) \in 0 .. 2
    BY <2>1, RequestFacts
  <2> QED
    BY <1>2, <2>2 DEF Plan
<1> QED
  BY <1>1, <1>2 DEF Parties

\* Who is altering has taken the fourth lock, and holds it.
LEMMA TheDoor ==
    ASSUME TypeOK, NEW i \in Starts, Altering(i)
    PROVE  next[i] > 4 /\ Exclusive("index") \in Held(i)
<1>1. next[i] \in 1 .. 10
  BY ScriptFacts DEF TypeOK, Parties
<1>2. PICK k \in 1 .. next[i] - 1 : Script[k].mode = "access_exclusive"
  BY DEF Altering
<1>3. k > 3
  BY <1>1, <1>2, ScriptFacts
<1>4. 4 \in 1 .. next[i] - 1
  BY <1>1, <1>3
<1>5. Active(i) /\ Plan(i) = Script
  BY DEF Altering, Active, Plan
<1> QED
  BY <1>1, <1>3, <1>4, <1>5, ScriptFacts DEF Held

-----------------------------------------------------------------------------

LEMMA LockType == ASSUME TypeOK, NEW p \in Parties, Lock(p) PROVE TypeOK'
<1>1. PICK n \in 0 .. 9 : n = Len(Plan(p))
  BY PlanFacts
<1>2. next[p] \in 1 .. 10 /\ next[p] <= n
  BY <1>1, ScriptFacts DEF Lock, Wants, TypeOK
<1>3. next' \in [Parties -> 1 .. Len(Script) + 1]
  <2>1. next[p] \in 1 .. 9
    BY <1>2
  <2>2. next[p] + 1 \in 1 .. Len(Script) + 1
    BY <2>1, ScriptFacts
  <2>3. next' = [next EXCEPT ![p] = next[p] + 1] /\ next \in [Parties -> 1 .. Len(Script) + 1]
    BY DEF Lock, TypeOK
  <2> QED
    BY <2>2, <2>3
<1>4. \A i \in Starts : status'[i] = "up" => next'[i] = Len(Script) + 1
  BY DEF Lock, Wants, Active, TypeOK
<1> QED
  BY <1>3, <1>4 DEF Lock, Leave, TypeOK

LEMMA WaitType == ASSUME TypeOK, NEW p \in Parties, Wait(p) PROVE TypeOK'
BY DEF Wait, TypeOK

LEMMA HeldUpType == ASSUME TypeOK, NEW i \in Starts, Abort(i) PROVE heldUp' \in BOOLEAN
<1>1. heldUp' = (heldUp \/ Blockers(i) \cap Clients # {})
  BY DEF Abort
<1> QED
  BY <1>1, Zenon

LEMMA NextType == ASSUME TypeOK, [Next]_vars PROVE TypeOK'
<1>1. ASSUME NEW p \in Parties, Lock(p) PROVE TypeOK'
  BY <1>1, LockType
<1>2. ASSUME NEW p \in Parties, Wait(p) PROVE TypeOK'
  BY <1>2, WaitType
<1>3. ASSUME NEW i \in Starts, Commit(i) PROVE TypeOK'
  <2>1. next[i] = Len(Script) + 1
    BY <1>3, ScriptFacts DEF Commit, TypeOK, Parties
  <2> QED
    BY <1>3, <2>1 DEF Commit, TypeOK
<1>4. ASSUME NEW i \in Starts, Abort(i) PROVE TypeOK'
  BY <1>4, HeldUpType DEF Abort, Leave, TypeOK
<1>5. ASSUME NEW c \in Clients, BeginRequest(c) PROVE TypeOK'
  BY <1>5 DEF BeginRequest, TypeOK
<1>6. ASSUME NEW c \in Clients, EndRequest(c) PROVE TypeOK'
  <2>1. 1 \in 1 .. Len(Script) + 1 /\ c \in Parties /\ c \notin Starts
    BY <1>6, ScriptFacts, StartsAssumption DEF Parties
  <2>2. next' \in [Parties -> 1 .. Len(Script) + 1]
    BY <1>6, <2>1 DEF EndRequest, TypeOK
  <2> QED
    BY <1>6, <2>1, <2>2 DEF EndRequest, Leave, TypeOK
<1>7. CASE UNCHANGED vars
  BY <1>7 DEF vars, TypeOK
<1> QED
  BY <1>1, <1>2, <1>3, <1>4, <1>5, <1>6, <1>7 DEF Next, Step, Serve, Parties

LEMMA InitType == Init => TypeOK
<1> SUFFICES ASSUME Init PROVE TypeOK
  OBVIOUS
<1>1. 1 \in 1 .. Len(Script) + 1
  BY ScriptFacts
<1>2. heldUp \in BOOLEAN
  BY Zenon DEF Init
<1> QED
  BY <1>1, <1>2 DEF Init, TypeOK

\* The types of the cold starts: core/db.py, init_pool and _run_migrations.
THEOREM StartTypes == Spec => []TypeOK
BY InitType, NextType, PTL DEF Spec

-----------------------------------------------------------------------------

\* Only a lock of its own brings a start nearer to the end of the DDL.
LEMMA OnlyALockAdvances ==
    ASSUME TypeOK, [Next]_vars, NEW s \in Starts, status'[s] = "starting"
    PROVE  status[s] = "starting" /\ (next'[s] = next[s] \/ Lock(s))
<1>1. s \in Parties /\ s \notin Clients
  BY StartsAssumption DEF Parties
<1>2. ASSUME NEW p \in Parties, Lock(p)
      PROVE  status' = status /\ (next'[s] = next[s] \/ p = s)
  BY <1>1, <1>2 DEF Lock, TypeOK
<1>3. ASSUME NEW p \in Parties, Wait(p) PROVE status' = status /\ next' = next
  BY <1>3 DEF Wait
<1>4. ASSUME NEW i \in Starts, Commit(i) \/ Abort(i)
      PROVE  next' = next /\ status[s] = "starting"
  BY <1>4 DEF Commit, Abort, TypeOK
<1>5. ASSUME NEW c \in Clients, BeginRequest(c) \/ EndRequest(c)
      PROVE  status' = status /\ next'[s] = next[s]
  BY <1>1, <1>5 DEF BeginRequest, EndRequest, TypeOK
<1>6. CASE UNCHANGED vars
  BY <1>6 DEF vars
<1> QED
  BY <1>2, <1>3, <1>4, <1>5, <1>6 DEF Next, Step, Serve, Parties

\* To begin altering is to take the lock of the door, which waits for everybody
\* who holds it.
LEMMA NextAlters ==
    ASSUME TypeOK, OneAltersAtATime, [Next]_vars
    PROVE  OneAltersAtATime'
<1> SUFFICES ASSUME NEW i \in Starts, NEW j \in Starts, Altering(i)', Altering(j)'
             PROVE  i = j
  BY DEF OneAltersAtATime
<1>1. ASSUME NEW s \in Starts, Altering(s)', ~Altering(s)
      PROVE  Lock(s) /\ next[s] = 4
  <2>1. status'[s] = "starting"
    BY <1>1 DEF Altering
  <2>2. status[s] = "starting" /\ (next'[s] = next[s] \/ Lock(s))
    BY <2>1, OnlyALockAdvances
  <2>3. Lock(s)
    BY <1>1, <2>1, <2>2 DEF Altering
  <2>4. next[s] \in 1 .. 9
    <3>1. next[s] \in 1 .. 10
      BY ScriptFacts DEF TypeOK, Parties
    <3>2. next[s] <= 9
      BY <2>3, ScriptFacts DEF Lock, Wants, Plan
    <3> QED
      BY <3>1, <3>2
  <2>5. next'[s] = next[s] + 1
    BY <2>3 DEF Lock, TypeOK, Parties
  <2>6. PICK k \in 1 .. next[s] : Script[k].mode = "access_exclusive"
    BY <1>1, <2>4, <2>5 DEF Altering
  <2>7. k = next[s]
    <3>1. ~ (k \in 1 .. next[s] - 1)
      BY <1>1, <2>2, <2>6 DEF Altering
    <3> QED
      BY <2>4, <2>6, <3>1
  <2>8. ~ (4 \in 1 .. next[s] - 1)
    BY <1>1, <2>2, ScriptFacts DEF Altering, Exclusive
  <2>9. next[s] > 3
    BY <2>4, <2>6, <2>7, ScriptFacts
  <2> QED
    BY <2>3, <2>4, <2>8, <2>9
<1>2. ASSUME NEW s \in Starts, NEW o \in Starts, s # o, Lock(s), next[s] = 4, Altering(o)
      PROVE  FALSE
  <2>1. Exclusive("index") \in Held(o)
    BY <1>2, TheDoor
  <2>2. Wanted(s) = Exclusive("index")
    BY <1>2, ScriptFacts DEF Wanted, Plan
  <2>3. Conflict(Wanted(s), Exclusive("index"))
    BY <2>2 DEF Conflict, Exclusive
  <2>4. o \in Holders(s)
    BY <1>2, <2>1, <2>3 DEF Holders, Parties
  <2> QED
    BY <1>2, <2>4 DEF Lock, Blockers
<1>3. ASSUME NEW s \in Starts, NEW o \in Starts, s # o, Lock(s)
      PROVE  ~Lock(o)
  <2>1. s \in Parties /\ o \in Parties
    BY DEF Parties
  <2>2. next'[o] = next[o] /\ next[o] \in Nat
    BY <1>3, <2>1 DEF Lock, TypeOK
  <2>3. Lock(o) => next'[o] = next[o] + 1
    BY <2>1 DEF Lock, TypeOK
  <2> QED
    BY <2>2, <2>3
<1>4. CASE Altering(i) /\ Altering(j)
  BY <1>4 DEF OneAltersAtATime
<1>5. CASE ~Altering(i) /\ Altering(j)
  BY <1>1, <1>2, <1>5
<1>6. CASE Altering(i) /\ ~Altering(j)
  BY <1>1, <1>2, <1>6
<1>7. CASE ~Altering(i) /\ ~Altering(j)
  BY <1>1, <1>3, <1>7
<1> QED
  BY <1>4, <1>5, <1>6, <1>7

\* core/db.py:192-317: from its first ALTER TABLE on, a start is alone with the
\* schema, however many others started with it.
THEOREM SchemaAlteredByOne == Spec => []OneAltersAtATime
<1>1. Init => OneAltersAtATime
  <2> SUFFICES ASSUME Init, NEW i \in Starts PROVE ~Altering(i)
    BY DEF OneAltersAtATime
  <2>1. next[i] = 1
    BY DEF Init, Parties
  <2> QED
    BY <2>1 DEF Altering
<1>2. TypeOK /\ OneAltersAtATime /\ [Next]_vars => OneAltersAtATime'
  BY NextAlters
<1> QED
  BY <1>1, <1>2, StartTypes, PTL DEF Spec

-----------------------------------------------------------------------------

\* Who stands in the queue of a table is on its way.
QueueInv ==
    /\ \A i \in Starts \cap waiting : status[i] = "starting" /\ next[i] <= Len(Script)
    /\ \A p \in Parties : ahead[p] \subseteq waiting

LEMMA InitQueue == Init => QueueInv
BY DEF Init, QueueInv

LEMMA LeaveQueue ==
    ASSUME TypeOK, QueueInv, NEW p \in Parties, Leave(p)
    PROVE  \A q \in Parties : ahead'[q] \subseteq waiting'
BY DEF Leave, QueueInv, TypeOK

LEMMA NextQueue ==
    ASSUME TypeOK, QueueInv, [Next]_vars
    PROVE  QueueInv'
<1>0. \A s \in Starts : s \in Parties /\ s \notin Clients
  BY StartsAssumption DEF Parties
<1>1. ASSUME NEW p \in Parties, Lock(p) PROVE QueueInv'
  <2>1. \A q \in Parties : ahead'[q] \subseteq waiting'
    BY <1>1, LeaveQueue DEF Lock
  <2>2. ASSUME NEW i \in Starts \cap waiting'
        PROVE  status'[i] = "starting" /\ next'[i] <= Len(Script)
    BY <1>0, <1>1, <2>2 DEF Lock, Leave, QueueInv, TypeOK
  <2> QED
    BY <2>1, <2>2 DEF QueueInv
<1>2. ASSUME NEW p \in Parties, Wait(p) PROVE QueueInv'
  <2>1. \A q \in Parties : ahead'[q] \subseteq waiting'
    BY <1>2 DEF Wait, QueueInv, TypeOK
  <2>2. ASSUME NEW i \in Starts \cap waiting'
        PROVE  status'[i] = "starting" /\ next'[i] <= Len(Script)
    BY <1>2, <2>2 DEF Wait, Wants, Active, Plan, QueueInv
  <2> QED
    BY <2>1, <2>2 DEF QueueInv
<1>3. ASSUME NEW i \in Starts, Commit(i) PROVE QueueInv'
  <2>1. i \notin waiting
    BY <1>0, <1>3, ScriptFacts DEF Commit, QueueInv, TypeOK
  <2> QED
    BY <1>3, <2>1 DEF Commit, QueueInv, TypeOK
<1>4. ASSUME NEW i \in Starts, Abort(i) PROVE QueueInv'
  <2>1. \A q \in Parties : ahead'[q] \subseteq waiting'
    BY <1>0, <1>4, LeaveQueue DEF Abort
  <2>2. ASSUME NEW s \in Starts \cap waiting'
        PROVE  status'[s] = "starting" /\ next'[s] <= Len(Script)
    BY <1>4, <2>2 DEF Abort, Leave, QueueInv, TypeOK
  <2> QED
    BY <2>1, <2>2 DEF QueueInv
<1>5. ASSUME NEW c \in Clients, BeginRequest(c) PROVE QueueInv'
  BY <1>5 DEF BeginRequest, QueueInv
<1>6. ASSUME NEW c \in Clients, EndRequest(c) PROVE QueueInv'
  <2>1. \A q \in Parties : ahead'[q] \subseteq waiting'
    BY <1>6, LeaveQueue DEF EndRequest, Parties
  <2>2. ASSUME NEW s \in Starts \cap waiting'
        PROVE  status'[s] = "starting" /\ next'[s] <= Len(Script)
    BY <1>0, <1>6, <2>2 DEF EndRequest, Leave, QueueInv, TypeOK
  <2> QED
    BY <2>1, <2>2 DEF QueueInv
<1>7. CASE UNCHANGED vars
  BY <1>7 DEF vars, QueueInv
<1> QED
  BY <1>1, <1>2, <1>3, <1>4, <1>5, <1>6, <1>7 DEF Next, Step, Serve, Parties

\* Who is in the way of a waiting start, and no request, is another start that
\* goes on: it holds a lock or waits for one.
LEMMA BlockersGoOn ==
    ASSUME TypeOK, QueueInv, NEW i \in Starts, i \in waiting,
           NEW j \in Blockers(i) \ Clients
    PROVE  j \in Starts \ {i} /\ status[j] = "starting"
<1>1. CASE j \in Holders(i)
  <2>1. j \in Starts \ {i} /\ Held(j) # {}
    BY <1>1 DEF Holders, Parties
  <2>2. Active(j)
    BY <2>1 DEF Held
  <2> QED
    BY <2>1, <2>2 DEF Active
<1>2. CASE j \in InFront(i)
  <2>1. j \in ahead[i] /\ j # i /\ i \in Parties
    BY <1>2 DEF InFront, Earlier, Parties
  <2>2. j \in waiting
    BY <2>1 DEF QueueInv
  <2>3. j \in Starts
    BY <2>2 DEF TypeOK, Parties
  <2> QED
    BY <2>1, <2>2, <2>3 DEF QueueInv
<1> QED
  BY <1>1, <1>2 DEF Blockers

LEMMA NextSurvives ==
    ASSUME TypeOK, QueueInv, SomeStartSurvives, [Next]_vars
    PROVE  SomeStartSurvives'
<1>1. ASSUME NEW i \in Starts, Abort(i) PROVE SomeStartSurvives'
  <2>1. heldUp' = (heldUp \/ Blockers(i) \cap Clients # {})
    BY <1>1 DEF Abort
  <2>2. CASE heldUp \/ Blockers(i) \cap Clients # {}
    BY <2>1, <2>2, Zenon DEF SomeStartSurvives
  <2>3. CASE Blockers(i) \cap Clients = {}
    <3>1. PICK j \in Blockers(i) : TRUE
      BY <1>1 DEF Abort
    <3>2. j \in Starts \ {i} /\ status[j] = "starting"
      BY <1>1, <2>3, <3>1, BlockersGoOn DEF Abort
    <3>3. status'[j] # "down"
      BY <1>1, <3>2 DEF Abort, TypeOK
    <3> QED
      BY <3>2, <3>3 DEF SomeStartSurvives
  <2> QED
    BY <2>2, <2>3
<1>2. ASSUME NEW i \in Starts, Commit(i) PROVE SomeStartSurvives'
  BY <1>2 DEF Commit, SomeStartSurvives, TypeOK
<1>3. ASSUME NEW p \in Parties, Lock(p) \/ Wait(p) PROVE SomeStartSurvives'
  BY <1>3 DEF Lock, Wait, SomeStartSurvives
<1>4. ASSUME NEW c \in Clients, BeginRequest(c) \/ EndRequest(c) PROVE SomeStartSurvives'
  BY <1>4 DEF BeginRequest, EndRequest, SomeStartSurvives
<1>5. CASE UNCHANGED vars
  BY <1>5 DEF vars, SomeStartSurvives
<1> QED
  BY <1>1, <1>2, <1>3, <1>4, <1>5 DEF Next, Step, Serve, Parties

\* core/db.py:72-74: starts that lock each other out never all end without a pool,
\* unless a request, reading or writing, was in the way of one that gave up.
THEOREM StartSurvives ==
    Spec => []SomeStartSurvives
<1>1. Init => QueueInv /\ SomeStartSurvives
  BY InitQueue, StartsAssumption DEF Init, SomeStartSurvives
<1>2. TypeOK /\ QueueInv /\ SomeStartSurvives /\ [Next]_vars
        => QueueInv' /\ SomeStartSurvives'
  BY NextQueue, NextSurvives
<1> QED
  BY <1>1, <1>2, StartTypes, PTL DEF Spec
=============================================================================
