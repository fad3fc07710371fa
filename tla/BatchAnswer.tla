---------------------------- MODULE BatchAnswer ----------------------------
(***************************************************************************)
(* What POST /query/batch promises, without threads, pool or vocabulary:   *)
(* a batch is answered in one piece, spellings of one query get one        *)
(* result, and a query that is routed leaves at most one row in the log    *)
(* while its batch is under way.                                           *)
(***************************************************************************)
EXTENDS Functions

CONSTANTS
    Batches,     \* sequences of queries as written
    Key,         \* what makes two written queries the same query
    TooLong      \* the written queries that are refused

VARIABLES batch, running, response,
          logged     \* rows in the log, per query of the batch

vars == <<batch, running, response, logged>>

Written(k) == {q \in Range(batch) : Key[q] = k}
Keys(b) == {Key[q] : q \in Range(b)}
Outcome(q) == [query |-> q, outcome |-> IF q \in TooLong THEN "too long" ELSE "routed"]

Init ==
    /\ batch = <<>> /\ running = FALSE /\ response = <<>>
    /\ logged = [k \in Keys(batch) |-> 0]

Submit ==
    /\ ~running /\ running' = TRUE
    /\ batch' \in Batches /\ response' = <<>>
    /\ logged' = [k \in Keys(batch') |-> 0]

\* One of the spellings of k is routed and its row is written.
Log(k) ==
    /\ running /\ logged[k] = 0 /\ Written(k) \ TooLong # {}
    /\ logged' = [logged EXCEPT ![k] = 1]
    /\ UNCHANGED <<batch, running, response>>

\* One spelling speaks for all of them.
Answer ==
    /\ running /\ running' = FALSE
    /\ \E speaker \in [Keys(batch) -> Range(batch)] :
         /\ \A k \in Keys(batch) : speaker[k] \in Written(k)
         /\ \A k \in Keys(batch) : speaker[k] \in TooLong => logged[k] = 0
         /\ response' = [p \in DOMAIN batch |-> Outcome(speaker[Key[batch[p]]])]
    /\ UNCHANGED <<batch, logged>>

Next == Submit \/ Answer \/ \E k \in DOMAIN logged : Log(k)

Spec == Init /\ [][Next]_vars
=============================================================================
