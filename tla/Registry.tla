------------------------------ MODULE Registry ------------------------------
(***************************************************************************)
(* What the hot-path registry promises, without requests: no worker has    *)
(* read anything, nothing is half done.  Each step does one thing to one   *)
(* row, and does it by what has been recorded so far.                      *)
(***************************************************************************)
EXTENDS Integers, Sequences

CONSTANTS
    Key,            \* a tenant and a path
    Navigation,     \* [key, query, label, sure]
    Phrases, Labels,
    CoreOf, Similar,
    AliasLists,     \* what an administrator may send
    MaxAliases, NoRow

VARIABLES hot, nextId, taught, listed

vars == <<hot, nextId, taught, listed>>

Learned(k, x) == \E n \in taught : n.key = k /\ CoreOf[n.query] = x
Listed(k, x) == \E e \in listed : e.key = k /\ \E i \in DOMAIN e.aliases : e.aliases[i] = x

\* A list the learner may leave on k: its phrases belong to k, the last one has
\* been learned, and of two similar ones both are the administrator's.
Lists == UNION {[1 .. m -> Phrases] : m \in 0 .. MaxAliases}
Learnable(k, s) ==
    /\ s # <<>> /\ Learned(k, s[Len(s)])
    /\ \A i \in DOMAIN s : Learned(k, s[i]) \/ Listed(k, s[i])
    /\ \A j \in DOMAIN s : \A i \in 1 .. j - 1 :
          <<s[j], s[i]>> \in Similar => Listed(k, s[j]) /\ Listed(k, s[i])

Write(k, row) == hot' = [hot EXCEPT ![k] = row] /\ UNCHANGED nextId
Insert(k, label, aliases, pinned) ==
    /\ hot' = [hot EXCEPT ![k] = [id |-> nextId, label |-> label, aliases |-> aliases,
                                  hits |-> 0, pinned |-> pinned]]
    /\ nextId' = nextId + 1

Init ==
    /\ hot = [k \in Key |-> NoRow] /\ nextId = 1
    /\ taught = {} /\ listed = {}

Record ==
    /\ \E n \in Navigation : taught' = taught \cup {n}
    /\ UNCHANGED <<hot, nextId, listed>>

Learn(k) ==
    /\ hot[k] # NoRow
    /\ \E s \in Lists : Write(k, [hot[k] EXCEPT !.aliases = s]) /\ Learnable(k, s)
    /\ UNCHANGED <<taught, listed>>

\* By the learner with its phrase, or by the promotion without one.
Create(k) ==
    /\ hot[k] = NoRow
    /\ \E n \in taught : /\ n.key = k
                         /\ \E s \in {<<>>, <<CoreOf[n.query]>>} \cap Lists :
                              Insert(k, n.label, s, FALSE)
    /\ UNCHANGED <<taught, listed>>

Relabel(k) ==
    /\ hot[k] # NoRow
    /\ \E n \in taught : n.key = k /\ Write(k, [hot[k] EXCEPT !.label = n.label])
    /\ UNCHANGED <<taught, listed>>

Hit(k) ==
    /\ hot[k] # NoRow /\ Write(k, [hot[k] EXCEPT !.hits = @ + 1])
    /\ UNCHANGED <<taught, listed>>

\* The administrator's three.
Put(k, label, aliases, pinned) ==
    /\ listed' = listed \cup {[key |-> k, label |-> label, aliases |-> aliases]}
    /\ IF hot[k] = NoRow
       THEN Insert(k, label, aliases, pinned)
       ELSE Write(k, [hot[k] EXCEPT !.label = label, !.aliases = aliases, !.pinned = pinned])
    /\ UNCHANGED taught

Pin(k) ==
    /\ hot[k] # NoRow /\ Write(k, [hot[k] EXCEPT !.pinned = TRUE])
    /\ UNCHANGED <<taught, listed>>

Remove(k) == hot[k] # NoRow /\ Write(k, NoRow) /\ UNCHANGED <<taught, listed>>

Administer(k) ==
    \/ Pin(k) \/ Remove(k)
    \/ \E label \in Labels, aliases \in AliasLists, pinned \in BOOLEAN :
          Put(k, label, aliases, pinned)

Change(k) == Learn(k) \/ Create(k) \/ Relabel(k) \/ Hit(k) \/ Administer(k)

Next == Record \/ \E k \in Key : Change(k)

Spec == Init /\ [][Next]_vars
=============================================================================
