--------------------------- MODULE HotPathsProofs ---------------------------
(***************************************************************************)
(* Proofs about HotPaths for every set of workers, sites, paths, queries   *)
(* and phrases and every bound.                                            *)
(***************************************************************************)
EXTENDS HotPaths, TLAPS, FiniteSetTheorems, SequenceTheorems

Stage == {"idle", "learn", "update", "insert", "count", "promote", "hit", "audit"}
Navigating == {"learn", "update", "insert", "count", "promote"}

-----------------------------------------------------------------------------
(* Dropping the first d entries of a list. *)
LEMMA SuffixType ==
    ASSUME NEW S, NEW s \in Seq(S), NEW d \in Nat, d <= Len(s)
    PROVE  /\ SubSeq(s, d + 1, Len(s)) \in Seq(S)
           /\ Len(SubSeq(s, d + 1, Len(s))) = Len(s) - d
           /\ \A i \in 1 .. Len(s) - d : SubSeq(s, d + 1, Len(s))[i] = s[d + i]
<1>1. Len(s) \in Int /\ d + 1 \in Int /\ \A i \in d + 1 .. Len(s) : s[i] \in S
  OBVIOUS
<1>2. /\ SubSeq(s, d + 1, Len(s)) \in Seq(S)
      /\ Len(SubSeq(s, d + 1, Len(s))) = IF d + 1 <= Len(s) THEN Len(s) - (d + 1) + 1 ELSE 0
      /\ \A i \in 1 .. Len(s) - (d + 1) + 1 :
            SubSeq(s, d + 1, Len(s))[i] = s[(d + 1) + i - 1]
  BY <1>1, SubSeqProperties
<1>3. Len(SubSeq(s, d + 1, Len(s))) = Len(s) - d
  BY <1>1, <1>2
<1>4. ASSUME NEW i \in 1 .. Len(s) - d
      PROVE  SubSeq(s, d + 1, Len(s))[i] = s[d + i]
  <2>1. i \in 1 .. Len(s) - (d + 1) + 1 /\ (d + 1) + i - 1 = d + i
    BY <1>1
  <2> QED BY <1>2, <2>1
<1> QED BY <1>2, <1>3, <1>4

(* What the slice aliases[-MAX_ALIASES:] keeps is a list of the same kind, *)
(* no longer than n: the list without its first entries.                   *)
Dropped(s, n) == IF Len(s) > n THEN Len(s) - n ELSE 0
(* The slice is a list of the same kind and no longer than n.              *)
LEMMA LastNType ==
    ASSUME NEW S, NEW s \in Seq(S), NEW n \in Nat \ {0}
    PROVE  /\ LastN(s, n) \in Seq(S)
           /\ Len(LastN(s, n)) = Len(s) - Dropped(s, n)
           /\ Len(LastN(s, n)) <= n
           /\ \A i \in 1 .. Len(s) - Dropped(s, n) : LastN(s, n)[i] = s[Dropped(s, n) + i]
<1>1. Dropped(s, n) \in Nat /\ Dropped(s, n) <= Len(s) /\ Len(s) - Dropped(s, n) <= n
  BY DEF Dropped
<1>2. LastN(s, n) = SubSeq(s, Dropped(s, n) + 1, Len(s))
  BY DEF LastN, Dropped
<1> QED BY <1>1, <1>2, SuffixType

(* The extended list holds phrases of the list that was read, and the core. *)
LEMMA ExtendedType ==
    ASSUME NEW s \in Seq(Phrases), NEW x \in Phrases
    PROVE  LET t == LastN(Append(s, x), MaxAliases)
           IN  t \in Seq(Phrases) /\ Range(t) \subseteq Range(s) \cup {x}
<1> DEFINE u == Append(s, x)
           d == Dropped(u, MaxAliases)
           t == LastN(u, MaxAliases)
<1>1. u \in Seq(Phrases) /\ Len(u) = Len(s) + 1 /\ Len(s) \in Nat
  OBVIOUS
<1>2. \A i \in 1 .. Len(u) : u[i] \in Range(s) \cup {x}
  BY <1>1 DEF Range
<1>3. d \in Nat
  BY <1>1, SizesAssumption DEF Dropped
<1> HIDE DEF u, d
<1>4. /\ t \in Seq(Phrases) /\ Len(t) = Len(u) - d
      /\ \A i \in 1 .. Len(u) - d : t[i] = u[d + i]
  BY <1>1, LastNType, SizesAssumption DEF d
<1>5. \A i \in 1 .. Len(t) : t[i] \in Range(s) \cup {x}
  BY <1>1, <1>2, <1>3, <1>4
<1> QED BY <1>4, <1>5 DEF Range, u

-----------------------------------------------------------------------------
(* Typing.  A request that is past its first transaction holds a           *)
(* navigation, and one about to write an alias holds a phrase.             *)
TypeInv ==
    /\ TypeOK
    /\ \A w \in Workers : pc[w] \in Navigating => req[w] \in Navigation
    /\ \A w \in Workers : pc[w] \in {"update", "insert"} => Core(w) \in Phrases

(* An inserted row is a row.                                               *)
LEMMA NewRowType ==
    ASSUME TypeOK, NEW label \in Labels, NEW aliases \in Seq(Phrases), NEW pinned \in BOOLEAN
    PROVE  NewRow(label, aliases, pinned) \in Row
  BY DEF TypeOK, NewRow, Row

(* A row an administrator overwrote is a row.                              *)
LEMMA EditedRowType ==
    ASSUME NEW row \in Row, NEW label \in Labels, NEW aliases \in Seq(Phrases),
           NEW pinned \in BOOLEAN
    PROVE  [row EXCEPT !.label = label, !.aliases = aliases, !.pinned = pinned] \in Row
  BY DEF Row

(* What a request remembers of a row: its id alone, or with its aliases.   *)
LEMMA SeenType ==
    /\ NoSeen \in Seen
    /\ \A n \in Nat : [NoSeen EXCEPT !.id = n] \in Seen
    /\ \A row \in Row : [id |-> row.id, aliases |-> row.aliases] \in Seen
<1>1. <<>> \in Seq(Phrases)
  OBVIOUS
<1>2. NoSeen \in Seen /\ \A n \in Nat : [NoSeen EXCEPT !.id = n] \in Seen
  BY <1>1 DEF NoSeen, Seen
<1>3. ASSUME NEW row \in Row PROVE [id |-> row.id, aliases |-> row.aliases] \in Seen
  BY DEF Row, Seen
<1> QED BY <1>2, <1>3

(* INSERT and UPDATE of one row keep the table's type.                     *)
LEMMA InsertType ==
    ASSUME TypeOK, NEW k \in Key, NEW row \in Row \cup {NoRow},
           Insert(k, row) \/ Update(k, row)
    PROVE  hot' \in [Key -> Row \cup {NoRow}] /\ nextId' \in Nat \ {0}
  BY DEF TypeOK, Insert, Update

(* A finished request leaves its worker idle and typed.                    *)
LEMMA DoneType ==
    ASSUME TypeInv, NEW w \in Workers, Done(w)
    PROVE  /\ pc' \in [Workers -> Stage] /\ req' \in [Workers -> Navigation \cup {NoReq}]
           /\ seen' \in [Workers -> Seen] /\ learned' \in [Workers -> BOOLEAN]
           /\ \A v \in Workers : pc'[v] \in Navigating => req'[v] \in Navigation
           /\ \A v \in Workers : pc'[v] \in {"update", "insert"} => CoreOf[req'[v].query] \in Phrases
<1>1. NoSeen \in Seen
  BY DEF NoSeen, Seen
<1>2. pc' \in [Workers -> Stage] /\ req' \in [Workers -> Navigation \cup {NoReq}]
      /\ seen' \in [Workers -> Seen] /\ learned' \in [Workers -> BOOLEAN]
  BY <1>1 DEF TypeInv, TypeOK, Done, Goto, Stage
<1>3. \A v \in Workers : v # w => pc'[v] = pc[v] /\ req'[v] = req[v]
  BY DEF TypeInv, TypeOK, Done, Goto
<1>4. pc'[w] = "idle"
  BY DEF TypeInv, TypeOK, Done, Goto
<1> QED BY <1>2, <1>3, <1>4 DEF TypeInv, Core, Navigating

(* Moving on to another statement of the same request keeps the typing.    *)
LEMMA GotoType ==
    ASSUME TypeInv, NEW w \in Workers, NEW l \in Navigating, Goto(w, l), UNCHANGED req,
           req[w] \in Navigation, l \in {"update", "insert"} => Core(w) \in Phrases
    PROVE  /\ pc' \in [Workers -> Stage] /\ req' \in [Workers -> Navigation \cup {NoReq}]
           /\ \A v \in Workers : pc'[v] \in Navigating => req'[v] \in Navigation
           /\ \A v \in Workers : pc'[v] \in {"update", "insert"} => CoreOf[req'[v].query] \in Phrases
<1>1. pc' \in [Workers -> Stage] /\ req' \in [Workers -> Navigation \cup {NoReq}]
  BY DEF TypeInv, TypeOK, Goto, Stage, Navigating
<1>2. \A v \in Workers : v # w => pc'[v] = pc[v]
  BY DEF TypeInv, TypeOK, Goto
<1>3. pc'[w] = l
  BY DEF TypeInv, TypeOK, Goto
<1> QED BY <1>1, <1>2, <1>3 DEF TypeInv, Core

(* The core of a navigation's query is a phrase, or none.                  *)
LEMMA CoreType ==
    ASSUME NEW w \in Workers, req[w] \in Navigation
    PROVE  Core(w) \in Phrases \cup {NoCore}
  BY TextAssumption DEF Core, Navigation

(* The empty registry is typed.                                            *)
LEMMA InitType == Init => TypeInv
  BY DEF Init, TypeInv, TypeOK, NoSeen, Seen, Navigating

(* record_navigation's first transaction keeps the typing.                 *)
LEMMA NavigateType == ASSUME TypeInv, NEW w \in Workers, Navigate(w) PROVE TypeInv'
<1> USE DEF Navigate
<1>1. PICK n \in Navigation : /\ navLog' = navLog \cup {n} /\ taught' = taught \cup {n}
                              /\ req' = [req EXCEPT ![w] = n]
  OBVIOUS
<1>2. TypeOK'
  <2>1. /\ navLog' \subseteq Navigation /\ taught' \subseteq Navigation
        /\ req' \in [Workers -> Navigation \cup {NoReq}]
        /\ pc' \in [Workers -> Stage]
    BY <1>1 DEF TypeInv, TypeOK, Goto, Stage
  <2>2. /\ navs' \in Nat
        /\ UNCHANGED <<hot, nextId, seen, learned, trail, listed, lapsed, lostAudit,
                       lookups, writes>>
    BY DEF TypeInv, TypeOK, hotVars
  <2> HIDE DEF Navigate
  <2> QED BY <2>1, <2>2 DEF TypeInv, TypeOK, Stage
<1>3. \A v \in Workers : /\ pc'[v] \in Navigating => req'[v] \in Navigation
                         /\ pc'[v] \in {"update", "insert"} => CoreOf[req'[v].query] \in Phrases
  <2>1. \A v \in Workers : v # w => pc'[v] = pc[v] /\ req'[v] = req[v]
    BY <1>1 DEF TypeInv, TypeOK, Goto
  <2>2. pc'[w] = "learn" /\ req'[w] = n
    BY <1>1 DEF TypeInv, TypeOK, Goto
  <2> QED BY <2>1, <2>2 DEF TypeInv, Core
<1> QED BY <1>2, <1>3 DEF TypeInv, Core

(* The steps of _learn_alias that write nothing keep the typing.           *)
LEMMA LearnType ==
    ASSUME TypeInv, NEW w \in Workers, LearnSkip(w) \/ LearnRead(w) \/ LearnFail(w)
    PROVE  TypeInv'
<1>1. req[w] \in Navigation /\ Core(w) \in Phrases \cup {NoCore}
  BY CoreType DEF LearnSkip, LearnRead, LearnFail, TypeInv, Navigating
<1>2. PICK l \in Navigating : Goto(w, l) /\ (l \in {"update", "insert"} => Core(w) \in Phrases)
  BY <1>1 DEF LearnSkip, LearnRead, LearnFail, Navigating
<1>3. req[w].key \in Key /\ UNCHANGED <<hot, nextId, navLog, req, learned, trail, taught,
                                        listed, lapsed, lostAudit, navs, lookups, writes>>
  BY <1>1 DEF LearnSkip, LearnRead, LearnFail, hotVars, history, bounds, Navigation
<1>4. seen' \in [Workers -> Seen]
  <2>1. PICK r \in Seen : seen' = seen \/ seen' = [seen EXCEPT ![w] = r]
    <3>1. CASE LearnRead(w)
      <4>1. hot[req[w].key] \in Row \cup {NoRow}
        BY <1>3 DEF TypeInv, TypeOK
      <4> QED BY <3>1, <4>1, SeenType DEF LearnRead
    <3>2. CASE LearnSkip(w) \/ LearnFail(w)
      BY <3>2, SeenType DEF LearnSkip, LearnFail
    <3> QED BY <3>1, <3>2
  <2> QED BY <2>1 DEF TypeInv, TypeOK
<1>5. TypeOK' /\ \A v \in Workers :
                    /\ pc'[v] \in Navigating => req'[v] \in Navigation
                    /\ pc'[v] \in {"update", "insert"} => CoreOf[req'[v].query] \in Phrases
  BY <1>1, <1>2, <1>3, <1>4, GotoType DEF TypeInv, TypeOK, Stage
<1> QED BY <1>5 DEF TypeInv, Core

(* _learn_alias's UPDATE and INSERT keep the typing.                       *)
LEMMA LearnWriteType ==
    ASSUME TypeInv, NEW w \in Workers, LearnUpdate(w) \/ LearnInsert(w)
    PROVE  TypeInv'
<1>1. /\ req[w] \in Navigation /\ req[w].key \in Key /\ req[w].label \in Labels
      /\ Core(w) \in Phrases
  BY DEF LearnUpdate, LearnInsert, TypeInv, Navigating, Navigation
<1>2. hot' \in [Key -> Row \cup {NoRow}] /\ nextId' \in Nat \ {0} /\ seen' \in [Workers -> Seen]
  <2>1. CASE LearnUpdate(w)
    <3>1. Extended(w) \in Seq(Phrases)
      BY <1>1, ExtendedType DEF Extended, TypeInv, TypeOK, Seen
    <3>2. \A k \in Key : hot'[k] \in Row \cup {NoRow}
      <4> TAKE k \in Key
      <4>1. CASE k \in ById(w)
        <5>1. hot[k] \in Row /\ hot'[k] = [hot[k] EXCEPT !.aliases = Extended(w)]
          BY <2>1, <4>1 DEF LearnUpdate, ById, IsRow, Live, TypeInv, TypeOK
        <5> QED BY <3>1, <5>1 DEF Row
      <4>2. CASE k \notin ById(w)
        BY <2>1, <4>2 DEF LearnUpdate, TypeInv, TypeOK
      <4> QED BY <4>1, <4>2
    <3>3. hot' = [k \in Key |-> hot'[k]]
      BY <2>1 DEF LearnUpdate
    <3>4. nextId' = nextId /\ seen' = [seen EXCEPT ![w] = NoSeen]
      BY <2>1 DEF LearnUpdate
    <3> QED BY <3>2, <3>3, <3>4 DEF TypeInv, TypeOK, Seen, NoSeen
  <2>2. CASE LearnInsert(w)
    <3>1. <<Core(w)>> \in Seq(Phrases)
      BY <1>1
    <3>2. NewRow(req[w].label, <<Core(w)>>, FALSE) \in Row
      BY <1>1, <3>1, NewRowType DEF TypeInv
    <3>3. UNCHANGED hotVars \/ Insert(req[w].key, NewRow(req[w].label, <<Core(w)>>, FALSE))
      BY <2>2 DEF LearnInsert
    <3>4. seen' = seen
      BY <2>2 DEF LearnInsert
    <3> QED BY <1>1, <3>2, <3>3, <3>4, InsertType DEF TypeInv, TypeOK, hotVars
  <2> QED BY <2>1, <2>2
<1>3. /\ Goto(w, "count") /\ learned' = [learned EXCEPT ![w] = TRUE]
      /\ UNCHANGED <<navLog, req, trail, taught, listed, lapsed, lostAudit, navs, lookups, writes>>
  BY DEF LearnUpdate, LearnInsert, history, bounds
<1>4. /\ pc' \in [Workers -> Stage] /\ req' \in [Workers -> Navigation \cup {NoReq}]
      /\ \A v \in Workers : pc'[v] \in Navigating => req'[v] \in Navigation
      /\ \A v \in Workers : pc'[v] \in {"update", "insert"} => CoreOf[req'[v].query] \in Phrases
  BY <1>1, <1>3, GotoType DEF Navigating
<1>5. TypeOK'
  BY <1>2, <1>3, <1>4 DEF TypeInv, TypeOK, Stage
<1> QED BY <1>4, <1>5 DEF TypeInv, Core

(* The steps of _maybe_promote keep the typing.                            *)
LEMMA PromoteType ==
    ASSUME TypeInv, NEW w \in Workers, PromoteCount(w) \/ PromoteUpsert(w) \/ PromoteFail(w)
    PROVE  TypeInv'
<1>1. /\ req[w] \in Navigation /\ req[w].key \in Key /\ req[w].label \in Labels
  BY DEF PromoteCount, PromoteUpsert, PromoteFail, TypeInv, Navigating, Navigation
<1>2. hot' \in [Key -> Row \cup {NoRow}] /\ nextId' \in Nat \ {0} /\ lapsed' \subseteq Key
  <2>1. CASE PromoteUpsert(w)
    <3>1. <<>> \in Seq(Phrases)
      OBVIOUS
    <3>2. NewRow(req[w].label, <<>>, FALSE) \in Row
      BY <1>1, <3>1, NewRowType DEF TypeInv
    <3>3. Live(req[w].key) => Refreshed(hot[req[w].key], req[w].label) \in Row
      BY <1>1 DEF Live, Refreshed, TypeInv, TypeOK, Row
    <3>4. PICK row \in Row : Insert(req[w].key, row) \/ Update(req[w].key, row)
      BY <2>1, <3>2, <3>3 DEF PromoteUpsert
    <3> QED BY <1>1, <2>1, <3>4, InsertType DEF TypeInv, TypeOK, PromoteUpsert, history
  <2>2. CASE PromoteCount(w) \/ PromoteFail(w)
    BY <1>1, <2>2 DEF PromoteCount, PromoteFail, TypeInv, TypeOK, hotVars, history
  <2> QED BY <2>1, <2>2
<1>3. UNCHANGED <<navLog, trail, taught, listed, lostAudit, navs, lookups, writes>>
  BY DEF PromoteCount, PromoteUpsert, PromoteFail, history, bounds
<1>4. \/ Done(w)
      \/ Goto(w, "promote") /\ UNCHANGED <<req, seen, learned>>
  BY DEF PromoteCount, PromoteUpsert, PromoteFail
<1>5. /\ pc' \in [Workers -> Stage] /\ req' \in [Workers -> Navigation \cup {NoReq}]
      /\ seen' \in [Workers -> Seen] /\ learned' \in [Workers -> BOOLEAN]
      /\ \A v \in Workers : pc'[v] \in Navigating => req'[v] \in Navigation
      /\ \A v \in Workers : pc'[v] \in {"update", "insert"} => CoreOf[req'[v].query] \in Phrases
  BY <1>1, <1>4, DoneType, GotoType DEF Navigating, TypeInv, TypeOK
<1>6. TypeOK'
  BY <1>2, <1>3, <1>5 DEF TypeInv, TypeOK, Stage
<1> QED BY <1>5, <1>6 DEF TypeInv, Core

(* A lookup keeps the typing.                                              *)
LEMMA LookupType ==
    ASSUME TypeInv, NEW w \in Workers, Lookup(w)
    PROVE  TypeInv'
<1>1. PICK k \in Key : /\ Live(k)
                       /\ seen' = [seen EXCEPT ![w] = [NoSeen EXCEPT !.id = hot[k].id]]
  BY DEF Lookup, Cut, Candidates
<1>2. seen' \in [Workers -> Seen]
  <2>1. hot[k].id \in Nat
    BY <1>1 DEF TypeInv, TypeOK, Live, Row
  <2> QED BY <1>1, <2>1, SeenType DEF TypeInv, TypeOK
<1>3. /\ Goto(w, "hit") /\ lookups' = lookups + 1
      /\ UNCHANGED <<hot, nextId, navLog, req, learned, trail, taught, listed, lapsed,
                     lostAudit, navs, writes>>
  BY DEF Lookup, hotVars, history
<1>4. pc' \in [Workers -> Stage] /\ pc'[w] = "hit" /\ \A v \in Workers : v # w => pc'[v] = pc[v]
  BY <1>3 DEF TypeInv, TypeOK, Goto, Stage
<1>5. TypeOK'
  BY <1>2, <1>3, <1>4 DEF TypeInv, TypeOK, Stage
<1> QED BY <1>3, <1>4, <1>5 DEF TypeInv, Core, Navigating

(* Counting a hit, auditing and crashing keep the typing.                  *)
LEMMA HitType ==
    ASSUME TypeInv, NEW w \in Workers,
           IncrementHit(w) \/ IncrementFail(w) \/ Audit(w) \/ AuditFail(w) \/ Crash(w)
    PROVE  TypeInv'
<1>1. hot' \in [Key -> Row \cup {NoRow}] /\ nextId' = nextId
  <2>1. CASE IncrementHit(w)
    <3>1. hot \in [Key -> Row \cup {NoRow}]
      BY DEF TypeInv, TypeOK
    <3>2. \A k \in Key : hot'[k] \in Row \cup {NoRow}
      BY <2>1, <3>1 DEF IncrementHit, ById, IsRow, Live, Row
    <3> QED BY <2>1, <3>2 DEF IncrementHit
  <2>2. CASE ~IncrementHit(w)
    BY <2>2 DEF IncrementFail, Audit, AuditFail, Crash, hotVars, TypeInv, TypeOK
  <2> QED BY <2>1, <2>2
<1>2. /\ Done(w)
      /\ UNCHANGED <<navLog, taught, listed, navs, lookups, writes>>
  BY DEF IncrementHit, IncrementFail, Audit, AuditFail, Crash, history, bounds
<1>3. trail' \in [1 .. MaxWrites -> Nat] /\ lostAudit' \subseteq Nat /\ lapsed' \subseteq Key
  <2>1. seen[w].id \in Nat
    BY DEF TypeInv, TypeOK, Seen
  <2>2. pc[w] \notin {"idle", "hit", "audit"} => req[w].key \in Key
    BY DEF TypeInv, TypeOK, Navigating, Navigation
  <2> QED BY <2>1, <2>2 DEF IncrementHit, IncrementFail, Audit, AuditFail, Crash, history,
                            TypeInv, TypeOK
<1>4. TypeOK' /\ \A v \in Workers :
                    /\ pc'[v] \in Navigating => req'[v] \in Navigation
                    /\ pc'[v] \in {"update", "insert"} => CoreOf[req'[v].query] \in Phrases
  <2>1. /\ pc' \in [Workers -> Stage] /\ req' \in [Workers -> Navigation \cup {NoReq}]
        /\ seen' \in [Workers -> Seen] /\ learned' \in [Workers -> BOOLEAN]
        /\ \A v \in Workers : pc'[v] \in Navigating => req'[v] \in Navigation
        /\ \A v \in Workers : pc'[v] \in {"update", "insert"} => CoreOf[req'[v].query] \in Phrases
    BY <1>2, DoneType
  <2> QED BY <1>1, <1>2, <1>3, <2>1 DEF TypeInv, TypeOK, Stage
<1> QED BY <1>4 DEF TypeInv, Core

(* An administrator's writes keep the typing.                              *)
LEMMA AdminType ==
    ASSUME TypeInv, NEW w \in Workers,
           UpsertPath(w) \/ PutPath(w) \/ DeletePath(w) \/ PinPath(w) \/ WriteNothing(w)
    PROVE  TypeInv'
<1>1. AdminWrite(w)
  BY DEF UpsertPath, PutPath, DeletePath, PinPath, WriteNothing
<1>2. /\ hot' \in [Key -> Row \cup {NoRow}] /\ nextId' \in Nat \ {0}
      /\ listed' \subseteq [key : Key, label : Labels, aliases : AliasLists]
      /\ lapsed' \subseteq Key
  <2>1. CASE UpsertPath(w)
    <3>1. PICK k \in Key, label \in Labels, aliases \in AliasLists, pinned \in BOOLEAN :
            /\ IF Live(k)
               THEN Update(k, [hot[k] EXCEPT !.label = label, !.aliases = aliases,
                                             !.pinned = pinned])
               ELSE Insert(k, NewRow(label, aliases, pinned))
            /\ listed' = listed \cup {[key |-> k, label |-> label, aliases |-> aliases]}
      BY <2>1 DEF UpsertPath
    <3>2. aliases \in Seq(Phrases)
      BY TextAssumption
    <3>3. PICK row \in Row : Insert(k, row) \/ Update(k, row)
      <4>1. NewRow(label, aliases, pinned) \in Row
        BY <3>2, NewRowType DEF TypeInv
      <4>2. Live(k) => [hot[k] EXCEPT !.label = label, !.aliases = aliases,
                                      !.pinned = pinned] \in Row
        BY <3>2, EditedRowType DEF Live, TypeInv, TypeOK
      <4> QED BY <3>1, <4>1, <4>2
    <3>4. listed' \subseteq [key : Key, label : Labels, aliases : AliasLists] /\ lapsed' = lapsed
      <4>1. lapsed' = lapsed
        BY <2>1 DEF UpsertPath
      <4>2. listed \subseteq [key : Key, label : Labels, aliases : AliasLists]
        BY DEF TypeInv, TypeOK
      <4> QED BY <3>1, <4>1, <4>2
    <3> QED BY <3>3, <3>4, InsertType DEF TypeInv, TypeOK
  <2>2. CASE PutPath(w)
    <3>1. PICK k \in Key, label \in Labels, aliases \in AliasLists, pinned \in BOOLEAN :
            /\ Live(k)
            /\ Update(k, [hot[k] EXCEPT !.label = label, !.aliases = aliases,
                                        !.pinned = pinned])
            /\ listed' = listed \cup {[key |-> k, label |-> label, aliases |-> aliases]}
      BY <2>2 DEF PutPath
    <3>2. aliases \in Seq(Phrases)
      BY TextAssumption
    <3>3. PICK row \in Row : Insert(k, row) \/ Update(k, row)
      <4>1. [hot[k] EXCEPT !.label = label, !.aliases = aliases, !.pinned = pinned] \in Row
        BY <3>1, <3>2, EditedRowType DEF Live, TypeInv, TypeOK
      <4> QED BY <3>1, <4>1
    <3>4. listed' \subseteq [key : Key, label : Labels, aliases : AliasLists] /\ lapsed' = lapsed
      <4>1. lapsed' = lapsed
        BY <2>2 DEF PutPath
      <4>2. listed \subseteq [key : Key, label : Labels, aliases : AliasLists]
        BY DEF TypeInv, TypeOK
      <4> QED BY <3>1, <4>1, <4>2
    <3> QED BY <3>3, <3>4, InsertType DEF TypeInv, TypeOK
  <2>3. CASE DeletePath(w)
    BY <2>3 DEF DeletePath, Update, TypeInv, TypeOK
  <2>4. CASE PinPath(w)
    BY <2>4 DEF PinPath, Update, Live, TypeInv, TypeOK, Row
  <2>5. CASE WriteNothing(w)
    BY <2>5 DEF WriteNothing, hotVars, TypeInv, TypeOK
  <2> QED BY <2>1, <2>2, <2>3, <2>4, <2>5
<1>3. /\ seen' \in [Workers -> Seen] /\ writes' \in Nat
      /\ UNCHANGED <<navLog, req, learned, trail, taught, lostAudit, navs, lookups>>
  <2>1. writes + 1 \in Nat /\ [NoSeen EXCEPT !.id = writes + 1] \in Seen
    BY SeenType DEF TypeInv, TypeOK
  <2> QED BY <1>1, <2>1 DEF AdminWrite, TypeInv, TypeOK
<1>4. pc' \in [Workers -> Stage] /\ pc'[w] = "audit" /\ \A v \in Workers : v # w => pc'[v] = pc[v]
  BY <1>1 DEF AdminWrite, TypeInv, TypeOK, Goto, Stage
<1>5. TypeOK'
  BY <1>2, <1>3, <1>4 DEF TypeInv, TypeOK, Stage
<1> QED BY <1>3, <1>4, <1>5 DEF TypeInv, Core, Navigating

(* A navigation that leaves the window keeps the typing.                   *)
LEMMA SlideType == ASSUME TypeInv, WindowSlides PROVE TypeInv'
<1>1. UNCHANGED <<hot, nextId, pc, req, seen, learned, trail, taught, listed, lapsed,
                  lostAudit, navs, lookups, writes>>
  BY DEF WindowSlides, hotVars, history, bounds
<1>2. navLog' \subseteq Navigation
  BY DEF WindowSlides, TypeInv, TypeOK
<1> QED BY <1>1, <1>2 DEF TypeInv, TypeOK, Core

(* So does a step of something else.                                       *)
LEMMA StutterType == ASSUME TypeInv, UNCHANGED vars PROVE TypeInv'
  BY DEF TypeInv, TypeOK, Core, vars, history, bounds

(* Every step keeps the typing.                                            *)
LEMMA NextType == ASSUME TypeInv, [Next]_vars PROVE TypeInv'
<1>1. CASE WindowSlides
  BY <1>1, SlideType
<1>2. CASE UNCHANGED vars
  BY <1>2, StutterType
<1>3. ASSUME NEW w \in Workers, Step(w) \/ Request(w) \/ Crash(w)
      PROVE  TypeInv'
  BY <1>3, LearnType, LearnWriteType, PromoteType, HitType, NavigateType, LookupType, AdminType
     DEF Step, Request
<1> QED BY <1>1, <1>2, <1>3 DEF Next

(* Every reachable state is typed, for all values of the constants. *)
THEOREM TypeCorrect == Spec => []TypeInv
<1>1. TypeInv /\ [Next]_vars => TypeInv'
  BY NextType
<1> QED BY InitType, <1>1, PTL DEF Spec

(* The type invariant TLC checks holds for every instance: lists stay lists*)
(* of phrases and every column keeps its type, whoever writes the row.     *)
THEOREM TypeSafe == Spec => []TypeOK
<1>1. TypeInv => TypeOK
  BY DEF TypeInv
<1> QED BY TypeCorrect, <1>1, PTL

-----------------------------------------------------------------------------
(* Primary keys.  In one step a row is kept under its id, or born under    *)
(* the next one; at most one row is born.                                  *)
Kept(k) == hot[k] # NoRow /\ hot'[k].id = hot[k].id
Born(k) == hot'[k].id = nextId /\ nextId' = nextId + 1
Lineage ==
    /\ nextId' \in {nextId, nextId + 1}
    /\ \A k \in Key : hot'[k] # NoRow => Kept(k) \/ Born(k)
    /\ \A j, k \in Key : hot'[j] # NoRow /\ hot'[k] # NoRow /\ Born(j) /\ Born(k)
                            => Kept(j) \/ Kept(k) \/ j = k

(* What the typing says of rows and of the next primary key.               *)
LEMMA RowFacts ==
    ASSUME TypeOK
    PROVE  /\ nextId \in Nat \ {0} /\ nextId + 1 # nextId
           /\ DOMAIN hot = Key
           /\ \A k \in Key : hot[k] # NoRow => hot[k] \in Row
           /\ NoRow \notin Row
           /\ \A row \in Row : row = [row EXCEPT !.id = row.id] /\ row.id \in Nat \ {0}
  BY NullAssumption DEF TypeOK, Row

(* A step that gives no key a new row.                                     *)
LEMMA KeptLineage ==
    ASSUME TypeOK, nextId' = nextId,
           \A k \in Key : hot'[k] = NoRow \/ (hot[k] # NoRow /\ hot'[k].id = hot[k].id)
    PROVE  Lineage
  BY RowFacts DEF Lineage, Kept, Born

(* A step that inserts one row.                                            *)
LEMMA InsertLineage ==
    ASSUME TypeOK, NEW f \in Key, NEW row, Insert(f, row), row.id = nextId
    PROVE  Lineage
<1>1. nextId' = nextId + 1 /\ hot'[f] = row /\ \A k \in Key : k # f => hot'[k] = hot[k]
  BY RowFacts DEF Insert
<1> QED BY <1>1 DEF Lineage, Kept, Born

(* A step that changes or deletes one row.                                 *)
LEMMA UpdateLineage ==
    ASSUME TypeOK, NEW f \in Key, NEW row, Update(f, row),
           row = NoRow \/ (Live(f) /\ row.id = hot[f].id)
    PROVE  Lineage
<1>1. nextId' = nextId /\ hot'[f] = row /\ \A k \in Key : k # f => hot'[k] = hot[k]
  BY RowFacts DEF Update
<1> QED BY <1>1, KeptLineage DEF Live

(* A step that writes no row.                                              *)
LEMMA SameLineage == ASSUME TypeOK, UNCHANGED hotVars PROVE Lineage
  BY KeptLineage DEF hotVars

(* Steps that write rows by primary key. *)
LEMMA ByIdLineage ==
    ASSUME TypeOK, NEW w \in Workers, LearnUpdate(w) \/ IncrementHit(w)
    PROVE  Lineage
<1>1. \A k \in Key : k \in ById(w) => hot[k] \in Row
  BY RowFacts DEF ById, IsRow, Live
<1>2. \A k \in Key : hot'[k] = NoRow \/ (hot[k] # NoRow /\ hot'[k].id = hot[k].id)
  <2> TAKE k \in Key
  <2>1. CASE k \in ById(w)
    <3>1. hot[k] \in Row /\ hot[k] # NoRow
      BY <1>1, <2>1, RowFacts
    <3>2. hot'[k] = [hot[k] EXCEPT !.aliases = Extended(w)]
          \/ hot'[k] = [hot[k] EXCEPT !.hits = hot[k].hits + 1]
      BY <2>1 DEF LearnUpdate, IncrementHit
    <3> QED BY <3>1, <3>2 DEF Row
  <2>2. CASE k \notin ById(w)
    BY <2>2 DEF LearnUpdate, IncrementHit
  <2> QED BY <2>1, <2>2
<1>3. nextId' = nextId
  BY DEF LearnUpdate, IncrementHit
<1> QED BY <1>2, <1>3, KeptLineage

(* The primary key of an inserted row is a fresh one.                      *)
LEMMA NewRowId ==
    ASSUME NEW label, NEW aliases, NEW pinned
    PROVE  NewRow(label, aliases, pinned).id = nextId
  BY DEF NewRow

(* The learner's and the promotion's upserts.                              *)
LEMMA UpsertLineage ==
    ASSUME TypeInv, NEW w \in Workers, LearnInsert(w) \/ PromoteUpsert(w)
    PROVE  Lineage
<1>1. TypeOK /\ req[w].key \in Key
  BY DEF LearnInsert, PromoteUpsert, TypeInv, Navigating, Navigation
<1>2. CASE LearnInsert(w)
  <2>1. UNCHANGED hotVars \/ Insert(req[w].key, NewRow(req[w].label, <<Core(w)>>, FALSE))
    BY <1>2 DEF LearnInsert
  <2> QED BY <1>1, <2>1, NewRowId, InsertLineage, SameLineage
<1>3. CASE PromoteUpsert(w)
  <2>1. \/ Insert(req[w].key, NewRow(req[w].label, <<>>, FALSE))
        \/ Live(req[w].key) /\ Update(req[w].key, Refreshed(hot[req[w].key], req[w].label))
    BY <1>3 DEF PromoteUpsert
  <2>2. Live(req[w].key) => Refreshed(hot[req[w].key], req[w].label).id = hot[req[w].key].id
    BY <1>1, RowFacts DEF Live, Refreshed, Row
  <2> QED BY <1>1, <2>1, <2>2, NewRowId, InsertLineage, UpdateLineage
<1> QED BY <1>2, <1>3

(* The administrator's statements.                                         *)
LEMMA AdminLineage ==
    ASSUME TypeOK, NEW w \in Workers,
           UpsertPath(w) \/ PutPath(w) \/ DeletePath(w) \/ PinPath(w) \/ WriteNothing(w)
    PROVE  Lineage
<1>1. \A k \in Key : \A pinned : Live(k) => [hot[k] EXCEPT !.pinned = pinned].id = hot[k].id
  BY RowFacts DEF Live, Row
<1>2. CASE UpsertPath(w)
  <2>1. PICK k \in Key, label \in Labels, aliases \in AliasLists, pinned \in BOOLEAN :
          IF Live(k)
          THEN Update(k, [hot[k] EXCEPT !.label = label, !.aliases = aliases, !.pinned = pinned])
          ELSE Insert(k, NewRow(label, aliases, pinned))
    BY <1>2 DEF UpsertPath
  <2>2. CASE Live(k)
    <3>1. [hot[k] EXCEPT !.label = label, !.aliases = aliases, !.pinned = pinned].id = hot[k].id
      BY <2>2, RowFacts DEF Live, Row
    <3>2. Update(k, [hot[k] EXCEPT !.label = label, !.aliases = aliases, !.pinned = pinned])
      BY <2>1, <2>2
    <3> QED BY <2>2, <3>1, <3>2, UpdateLineage
  <2>3. CASE ~Live(k)
    BY <2>1, <2>3, NewRowId, InsertLineage
  <2> QED BY <2>2, <2>3
<1>3. CASE PutPath(w)
  <2>1. PICK k \in Key, label \in Labels, aliases \in AliasLists, pinned \in BOOLEAN :
          /\ Live(k)
          /\ Update(k, [hot[k] EXCEPT !.label = label, !.aliases = aliases, !.pinned = pinned])
    BY <1>3 DEF PutPath
  <2>2. [hot[k] EXCEPT !.label = label, !.aliases = aliases, !.pinned = pinned].id = hot[k].id
    BY <2>1, RowFacts DEF Live, Row
  <2> QED BY <2>1, <2>2, UpdateLineage
<1>4. CASE DeletePath(w)
  BY <1>4, UpdateLineage DEF DeletePath
<1>5. CASE PinPath(w)
  <2>1. PICK k \in Key : Live(k) /\ Update(k, [hot[k] EXCEPT !.pinned = TRUE])
    BY <1>5 DEF PinPath
  <2> QED BY <1>1, <2>1, UpdateLineage
<1>6. CASE WriteNothing(w)
  BY <1>6, SameLineage DEF WriteNothing
<1> QED BY <1>2, <1>3, <1>4, <1>5, <1>6

(* Every step relates rows before and after it by primary key.             *)
LEMMA NextLineage == ASSUME TypeInv, [Next]_vars PROVE Lineage
<1>1. TypeOK
  BY DEF TypeInv
<1>2. CASE WindowSlides \/ UNCHANGED vars
  BY <1>1, <1>2, SameLineage DEF WindowSlides, vars, hotVars
<1>3. ASSUME NEW w \in Workers, Step(w) \/ Request(w) \/ Crash(w)
      PROVE  Lineage
  <2>1. CASE \/ LearnSkip(w) \/ LearnRead(w) \/ LearnFail(w) \/ PromoteCount(w)
             \/ PromoteFail(w) \/ IncrementFail(w) \/ Audit(w) \/ AuditFail(w)
             \/ Navigate(w) \/ Lookup(w) \/ Crash(w)
    BY <1>1, <2>1, SameLineage
       DEF LearnSkip, LearnRead, LearnFail, PromoteCount, PromoteFail, IncrementFail, Audit,
           AuditFail, Navigate, Lookup, Crash
  <2> QED BY <1>1, <1>3, <2>1, ByIdLineage, UpsertLineage, AdminLineage DEF Step, Request
<1> QED BY <1>2, <1>3 DEF Next

(* Primary keys below nextId, and no two rows with the same one.           *)
Ids ==
    /\ \A k \in Key : hot[k] # NoRow => hot[k].id < nextId
    /\ \A j, k \in Key : hot[j] # NoRow /\ hot[k] # NoRow /\ hot[j].id = hot[k].id => j = k

(* Primary keys stay unique and below the next one.                        *)
LEMMA NextIds == ASSUME TypeInv, Ids, [Next]_vars PROVE Ids'
<1>1. Lineage /\ TypeOK /\ TypeOK'
  BY NextLineage, NextType DEF TypeInv
<1>2. /\ nextId \in Nat
      /\ \A k \in Key : hot[k] # NoRow => hot[k].id \in Nat
      /\ \A k \in Key : hot'[k] # NoRow => hot'[k].id \in Nat
  BY <1>1 DEF TypeOK, Row
<1>3. \A k \in Key : hot'[k] # NoRow => hot'[k].id < nextId'
  BY <1>1, <1>2 DEF Lineage, Kept, Born, Ids
<1>4. \A j, k \in Key : hot'[j] # NoRow /\ hot'[k] # NoRow /\ hot'[j].id = hot'[k].id => j = k
  BY <1>1, <1>2 DEF Lineage, Kept, Born, Ids
<1> QED BY <1>3, <1>4 DEF Ids

-----------------------------------------------------------------------------
(* Where labels and aliases come from.  GoodList says of a list what       *)
(* RowsVouched, LearnedDistinct and LearnedCapped say of a row's aliases;  *)
(* it also holds of the list a request read and will write back.           *)
TaughtIn(k, x, T) == \E n \in T : n.key = k /\ CoreOf[n.query] = x
ListedIn(k, x, L) == \E e \in L : e.key = k /\ x \in Range(e.aliases)
GoodIn(k, s, T, L) ==
    /\ \A i \in DOMAIN s : TaughtIn(k, s[i], T) \/ ListedIn(k, s[i], L)
    /\ \A j \in DOMAIN s : \A i \in 1 .. j - 1 :
          <<s[j], s[i]>> \in Similar => ListedIn(k, s[j], L) /\ ListedIn(k, s[i], L)
    /\ Len(s) <= MaxAliases \/ \A i \in DOMAIN s : ListedIn(k, s[i], L)
LabelIn(k, l, T, L) ==
    \/ \E n \in T : n.key = k /\ n.label = l
    \/ \E e \in L : e.key = k /\ e.label = l
GoodList(k, s) == GoodIn(k, s, taught, listed)
GoodLabel(k, l) == LabelIn(k, l, taught, listed)

Pending == \A w \in Workers : pc[w] \in Navigating => req[w] \in taught
Snapshot(n, s) ==
    /\ s.id < nextId
    /\ \A k \in Key : hot[k] # NoRow /\ hot[k].id = s.id => k = n.key
    /\ GoodList(n.key, s.aliases)
    /\ \A i \in DOMAIN s.aliases : <<CoreOf[n.query], s.aliases[i]>> \notin Similar
Snapshots == \A w \in Workers : pc[w] = "update" => Snapshot(req[w], seen[w])
GoodRows ==
    \A k \in Key : hot[k] # NoRow => GoodList(k, hot[k].aliases) /\ GoodLabel(k, hot[k].label)

VouchInv == TypeInv /\ Ids /\ Pending /\ Snapshots /\ GoodRows

(* The inductive invariant says what the three checked invariants say.     *)
LEMMA VouchImplies == VouchInv => RowsVouched /\ LearnedDistinct /\ LearnedCapped
<1> SUFFICES ASSUME VouchInv PROVE RowsVouched /\ LearnedDistinct /\ LearnedCapped
  OBVIOUS
<1>1. \A k \in Key : Live(k) => GoodList(k, hot[k].aliases) /\ GoodLabel(k, hot[k].label)
  BY DEF VouchInv, GoodRows, Live
<1>2. RowsVouched
  BY <1>1 DEF RowsVouched, GoodList, GoodIn, GoodLabel, LabelIn, Taught, Listed, TaughtIn,
             ListedIn, Range
<1>3. LearnedDistinct
  BY <1>1 DEF LearnedDistinct, GoodList, GoodIn, Listed, ListedIn
<1>4. LearnedCapped
  BY <1>1 DEF LearnedCapped, GoodList, GoodIn, Listed, ListedIn, Range
<1> QED BY <1>2, <1>3, <1>4

(* History only grows, so what has been vouched for stays vouched for.     *)
History == taught \subseteq taught' /\ listed \subseteq listed'

(* Navigations and administrators' lists are never forgotten.              *)
LEMMA NextHistory == ASSUME [Next]_vars PROVE History
<1>1. CASE WindowSlides \/ UNCHANGED vars
  BY <1>1 DEF WindowSlides, vars, history, History
<1>2. ASSUME NEW w \in Workers, Step(w) PROVE History
  BY <1>2 DEF Step, LearnSkip, LearnRead, LearnUpdate, LearnInsert, LearnFail, PromoteCount,
              PromoteUpsert, PromoteFail, IncrementHit, IncrementFail, Audit, AuditFail,
              history, History
<1>3. ASSUME NEW w \in Workers, Request(w) \/ Crash(w) PROVE History
  BY <1>3 DEF Request, Navigate, Lookup, UpsertPath, PutPath, DeletePath, PinPath,
              WriteNothing, AdminWrite, Crash, history, History
<1> QED BY <1>1, <1>2, <1>3 DEF Next

(* A list or label once vouched for stays vouched for.                     *)
LEMMA GoodGrows ==
    ASSUME History, NEW k, NEW s, NEW l
    PROVE  /\ GoodList(k, s) => GoodList(k, s)'
           /\ GoodLabel(k, l) => GoodLabel(k, l)'
<1>1. \A x : /\ TaughtIn(k, x, taught) => TaughtIn(k, x, taught')
             /\ ListedIn(k, x, listed) => ListedIn(k, x, listed')
  BY DEF History, ListedIn, TaughtIn
<1>2. GoodIn(k, s, taught, listed) => GoodIn(k, s, taught', listed')
  BY <1>1 DEF GoodIn
<1>3. LabelIn(k, l, taught, listed) => LabelIn(k, l, taught', listed')
  BY DEF History, LabelIn
<1> QED BY <1>2, <1>3 DEF GoodList, GoodLabel

(* The list _learn_alias writes is good if the list it read was.           *)
LEMMA ExtendedGood ==
    ASSUME NEW k, NEW T, NEW L, NEW s \in Seq(Phrases), NEW x \in Phrases,
           GoodIn(k, s, T, L), TaughtIn(k, x, T),
           \A i \in DOMAIN s : <<x, s[i]>> \notin Similar
    PROVE  GoodIn(k, LastN(Append(s, x), MaxAliases), T, L)
<1> DEFINE u == Append(s, x)
           d == Dropped(u, MaxAliases)
           t == LastN(u, MaxAliases)
<1>1. u \in Seq(Phrases) /\ Len(u) = Len(s) + 1 /\ Len(s) \in Nat
  OBVIOUS
<1>2. /\ \A i \in 1 .. Len(s) : u[i] = s[i] /\ i \in DOMAIN s
      /\ u[Len(s) + 1] = x
  BY <1>1
<1>3. d \in Nat
  BY <1>1, SizesAssumption DEF Dropped
<1> HIDE DEF u, d
<1>4. /\ t \in Seq(Phrases) /\ Len(t) = Len(u) - d /\ Len(t) <= MaxAliases
      /\ \A i \in 1 .. Len(u) - d : t[i] = u[d + i]
  BY <1>1, LastNType, SizesAssumption DEF d
<1> HIDE DEF t
<1>5. DOMAIN t = 1 .. Len(u) - d
  BY <1>4
<1>6. \A i \in 1 .. Len(u) : TaughtIn(k, u[i], T) \/ ListedIn(k, u[i], L)
  BY <1>1, <1>2 DEF GoodIn
<1>7. \A j \in 1 .. Len(u) : \A i \in 1 .. j - 1 :
        <<u[j], u[i]>> \in Similar => ListedIn(k, u[j], L) /\ ListedIn(k, u[i], L)
  <2> TAKE j \in 1 .. Len(u)
  <2> TAKE i \in 1 .. j - 1
  <2>1. i \in 1 .. Len(s)
    BY <1>1
  <2>2. CASE j = Len(s) + 1
    BY <1>2, <2>1, <2>2
  <2>3. CASE j \in 1 .. Len(s)
    BY <1>2, <2>1, <2>3 DEF GoodIn
  <2> QED BY <1>1, <2>2, <2>3
<1>8. \A i \in DOMAIN t : TaughtIn(k, t[i], T) \/ ListedIn(k, t[i], L)
  <2> TAKE i \in DOMAIN t
  <2>1. d + i \in 1 .. Len(u) /\ t[i] = u[d + i]
    BY <1>1, <1>3, <1>4, <1>5
  <2> QED BY <1>6, <2>1
<1>9. \A j \in DOMAIN t : \A i \in 1 .. j - 1 :
        <<t[j], t[i]>> \in Similar => ListedIn(k, t[j], L) /\ ListedIn(k, t[i], L)
  <2> TAKE j \in DOMAIN t
  <2> TAKE i \in 1 .. j - 1
  <2>1. d + j \in 1 .. Len(u) /\ d + i \in 1 .. (d + j) - 1 /\ t[j] = u[d + j] /\ t[i] = u[d + i]
    <3>1. Len(u) \in Nat /\ j \in 1 .. Len(u) - d /\ i \in 1 .. Len(u) - d
      BY <1>1, <1>3, <1>5
    <3>2. t[j] = u[d + j] /\ t[i] = u[d + i]
      BY <1>4, <3>1
    <3>3. d + j \in 1 .. Len(u) /\ d + i \in 1 .. (d + j) - 1
      BY <1>3, <3>1
    <3> QED BY <3>2, <3>3
  <2> QED BY <1>7, <2>1
<1> QED BY <1>4, <1>8, <1>9 DEF GoodIn, t, u

(* A step of one request leaves the others where they are.                 *)
LEMMA Others ==
    ASSUME TypeInv, NEW w \in Workers, Step(w) \/ Request(w) \/ Crash(w),
           NEW v \in Workers, v # w
    PROVE  pc'[v] = pc[v] /\ req'[v] = req[v] /\ seen'[v] = seen[v]
<1> USE DEF TypeInv, TypeOK, Done, Goto
<1>1. CASE Navigate(w) \/ Lookup(w)
  BY <1>1 DEF Navigate, Lookup
<1>2. CASE LearnSkip(w) \/ LearnRead(w) \/ LearnUpdate(w) \/ LearnInsert(w) \/ LearnFail(w)
  BY <1>2 DEF LearnSkip, LearnRead, LearnUpdate, LearnInsert, LearnFail
<1>3. CASE PromoteCount(w) \/ PromoteUpsert(w) \/ PromoteFail(w) \/ Crash(w)
  BY <1>3 DEF PromoteCount, PromoteUpsert, PromoteFail, Crash
<1>4. CASE IncrementHit(w) \/ IncrementFail(w) \/ Audit(w) \/ AuditFail(w)
  BY <1>4 DEF IncrementHit, IncrementFail, Audit, AuditFail
<1>5. CASE UpsertPath(w) \/ PutPath(w) \/ DeletePath(w) \/ PinPath(w) \/ WriteNothing(w)
  BY <1>5 DEF UpsertPath, PutPath, DeletePath, PinPath, WriteNothing, AdminWrite
<1> QED BY <1>1, <1>2, <1>3, <1>4, <1>5 DEF Step, Request

(* A request is about to write a list only because it has just read it,    *)
(* and it is past its first transaction only because it committed it.      *)
LEMMA Own ==
    ASSUME TypeInv, NEW w \in Workers, Step(w) \/ Request(w) \/ Crash(w)
    PROVE  /\ pc'[w] = "update" => LearnRead(w)
           /\ pc'[w] \in Navigating =>
                Navigate(w) \/ (pc[w] \in Navigating /\ req'[w] = req[w])
<1> USE DEF TypeInv, TypeOK, Done, Goto, Navigating
<1>1. CASE Navigate(w) \/ Lookup(w)
  BY <1>1 DEF Navigate, Lookup
<1>2. CASE LearnSkip(w) \/ LearnRead(w) \/ LearnUpdate(w) \/ LearnInsert(w) \/ LearnFail(w)
  BY <1>2 DEF LearnSkip, LearnRead, LearnUpdate, LearnInsert, LearnFail
<1>3. CASE PromoteCount(w) \/ PromoteUpsert(w) \/ PromoteFail(w) \/ Crash(w)
  BY <1>3 DEF PromoteCount, PromoteUpsert, PromoteFail, Crash
<1>4. CASE IncrementHit(w) \/ IncrementFail(w) \/ Audit(w) \/ AuditFail(w)
  BY <1>4 DEF IncrementHit, IncrementFail, Audit, AuditFail
<1>5. CASE UpsertPath(w) \/ PutPath(w) \/ DeletePath(w) \/ PinPath(w) \/ WriteNothing(w)
  BY <1>5 DEF UpsertPath, PutPath, DeletePath, PinPath, WriteNothing, AdminWrite
<1> QED BY <1>1, <1>2, <1>3, <1>4, <1>5 DEF Step, Request

(* The navigation of a request under way has been recorded.                *)
LEMMA NextPending == ASSUME TypeInv, Pending, [Next]_vars PROVE Pending'
<1>1. CASE WindowSlides \/ UNCHANGED vars
  BY <1>1 DEF WindowSlides, vars, history, Pending
<1>2. ASSUME NEW w \in Workers, Step(w) \/ Request(w) \/ Crash(w),
             NEW v \in Workers, pc'[v] \in Navigating
      PROVE  req'[v] \in taught'
  <2>1. taught \subseteq taught'
    BY NextHistory DEF History
  <2>2. CASE v # w
    BY <1>2, <2>1, <2>2, Others DEF Pending
  <2>3. CASE v = w /\ Navigate(w)
    BY <1>2, <2>3 DEF Navigate, TypeInv, TypeOK
  <2>4. CASE v = w /\ ~Navigate(w)
    BY <1>2, <2>1, <2>4, Own DEF Pending
  <2> QED BY <2>2, <2>3, <2>4
<1> QED BY <1>1, <1>2 DEF Next, Pending

(* A list that was read stays good, and its id still means the same path,  *)
(* however long the request waits before it writes.                        *)
LEMMA SnapshotStays ==
    ASSUME TypeOK, History, Lineage, NEW n, NEW s, s.id \in Nat, Snapshot(n, s)
    PROVE  Snapshot(n, s)'
<1>1. nextId \in Nat /\ s.id < nextId
  BY DEF TypeOK, Snapshot
<1>2. s.id < nextId'
  BY <1>1 DEF Lineage
<1>3. \A k \in Key : hot'[k] # NoRow /\ hot'[k].id = s.id => k = n.key
  BY <1>1 DEF Lineage, Kept, Born, Snapshot
<1>4. GoodList(n.key, s.aliases)'
  BY GoodGrows DEF Snapshot
<1> QED BY <1>2, <1>3, <1>4 DEF Snapshot

(* What _learn_alias's SELECT and duplicate check establish of its snapshot.*)
LEMMA SnapshotStarts ==
    ASSUME TypeInv, Ids, GoodRows, NEW w \in Workers, LearnRead(w), pc'[w] = "update"
    PROVE  Snapshot(req[w], seen'[w])
<1> DEFINE k == req[w].key
           row == hot[k]
<1>1. req[w] \in Navigation /\ k \in Key
  BY DEF LearnRead, TypeInv, Navigating, Navigation
<1>2. /\ row # NoRow /\ ~Known(w, row)
      /\ seen'[w] = [id |-> row.id, aliases |-> row.aliases]
  BY DEF LearnRead, Goto, TypeInv, TypeOK
<1>3. seen'[w].id = row.id /\ seen'[w].aliases = row.aliases
  BY <1>2
<1>4. row.id < nextId /\ \A j \in Key : hot[j] # NoRow /\ hot[j].id = row.id => j = k
  BY <1>1, <1>2 DEF Ids
<1>5. GoodList(k, row.aliases)
  BY <1>1, <1>2 DEF GoodRows
<1>6. \A i \in DOMAIN row.aliases : <<CoreOf[req[w].query], row.aliases[i]>> \notin Similar
  BY <1>2 DEF Known, Core, Range
<1> HIDE DEF k, row
<1>7. Snapshot(req[w], seen'[w])
  BY <1>3, <1>4, <1>5, <1>6 DEF Snapshot, k
<1> QED BY <1>7

(* A snapshot stays good however long its UPDATE takes to come.            *)
LEMMA NextSnapshots ==
    ASSUME TypeInv, Ids, Snapshots, GoodRows, [Next]_vars PROVE Snapshots'
<1>1. TypeOK /\ History /\ Lineage
  BY NextHistory, NextLineage DEF TypeInv
<1>2. ASSUME NEW v \in Workers, pc[v] = "update", req'[v] = req[v], seen'[v] = seen[v]
      PROVE  Snapshot(req[v], seen[v])'
  <2>1. PICK n, s : n = req[v] /\ s = seen[v] /\ s.id \in Nat
    BY DEF TypeInv, TypeOK, Seen
  <2>2. Snapshot(n, s)'
    BY <1>1, <1>2, <2>1, SnapshotStays DEF Snapshots
  <2> QED BY <1>2, <2>1, <2>2
<1>3. ASSUME NEW w \in Workers, LearnRead(w), pc'[w] = "update"
      PROVE  Snapshot(req[w], seen[w])'
  <2>1. PICK n, s : n = req[w] /\ s = seen'[w] /\ s.id \in Nat
    BY NextType DEF TypeInv, TypeOK, Seen
  <2>2. Snapshot(n, s) /\ req' = req
    BY <1>3, <2>1, SnapshotStarts DEF LearnRead
  <2>3. Snapshot(n, s)'
    BY <1>1, <2>1, <2>2, SnapshotStays
  <2> QED BY <2>1, <2>2, <2>3
<1>4. CASE WindowSlides \/ UNCHANGED vars
  BY <1>2, <1>4 DEF WindowSlides, vars, Snapshots
<1>5. ASSUME NEW w \in Workers, Step(w) \/ Request(w) \/ Crash(w),
             NEW v \in Workers, pc'[v] = "update"
      PROVE  Snapshot(req[v], seen[v])'
  BY <1>2, <1>3, <1>5, Others, Own
<1> QED BY <1>4, <1>5 DEF Next, Snapshots

(* What a step writes in a row is good, or was in the row already.         *)
GoodWrites ==
    \A k \in Key : hot'[k] # NoRow =>
        /\ (hot[k] # NoRow /\ hot'[k].aliases = hot[k].aliases) \/ GoodList(k, hot[k].aliases)'
        /\ (hot[k] # NoRow /\ hot'[k].label = hot[k].label) \/ GoodLabel(k, hot[k].label)'

(* No aliases, or the one just learned, make a good list.                  *)
LEMMA GoodShort ==
    ASSUME NEW k
    PROVE  GoodList(k, <<>>) /\ \A x \in Phrases : Taught(k, x) => GoodList(k, <<x>>)
<1>1. GoodList(k, <<>>)
  BY SizesAssumption DEF GoodList, GoodIn
<1>2. ASSUME NEW x \in Phrases, Taught(k, x) PROVE GoodList(k, <<x>>)
  <2> DEFINE s == <<x>>
  <2>1. DOMAIN s = {1} /\ s[1] = x /\ Len(s) = 1
    OBVIOUS
  <2> HIDE DEF s
  <2>2. GoodList(k, s)
    BY <1>2, <2>1, SizesAssumption DEF GoodList, GoodIn, Taught, TaughtIn
  <2> QED BY <2>2 DEF s
<1> QED BY <1>1, <1>2

(* A list an administrator sent is good as it is.                          *)
LEMMA GoodListed ==
    ASSUME NEW e, e \in listed, NEW k, NEW s \in Seq(Phrases), e.key = k, e.aliases = s
    PROVE  GoodList(k, s) /\ GoodLabel(k, e.label)
<1>1. \A i \in DOMAIN s : ListedIn(k, s[i], listed)
  BY DEF ListedIn, Range
<1>2. \A j \in DOMAIN s : \A i \in 1 .. j - 1 :
          <<s[j], s[i]>> \in Similar => ListedIn(k, s[j], listed) /\ ListedIn(k, s[i], listed)
  <2> TAKE j \in DOMAIN s
  <2> TAKE i \in 1 .. j - 1
  <2>1. i \in DOMAIN s
    OBVIOUS
  <2> QED BY <1>1, <2>1
<1> QED BY <1>1, <1>2 DEF GoodList, GoodIn, GoodLabel, LabelIn

(* A step that changes no list and no label.                               *)
LEMMA SameGood ==
    ASSUME \A k \in Key : hot'[k] # NoRow =>
              hot[k] # NoRow /\ hot'[k].aliases = hot[k].aliases /\ hot'[k].label = hot[k].label
    PROVE  GoodWrites
  BY DEF GoodWrites

(* A step that writes one row, its list and label kept or vouched for.     *)
LEMMA OneGood ==
    ASSUME TypeOK, NEW f \in Key, NEW row, Insert(f, row) \/ Update(f, row), row # NoRow,
           (hot[f] # NoRow /\ row.aliases = hot[f].aliases) \/ GoodList(f, row.aliases)',
           (hot[f] # NoRow /\ row.label = hot[f].label) \/ GoodLabel(f, row.label)'
    PROVE  GoodWrites
<1>1. hot'[f] = row /\ \A k \in Key : k # f => hot'[k] = hot[k]
  BY RowFacts DEF Insert, Update
<1> QED BY <1>1 DEF GoodWrites, GoodList, GoodLabel

(* _learn_alias's UPDATE writes a good list to the row it read, or to none.*)
LEMMA LearnUpdateGood ==
    ASSUME TypeInv, Pending, Snapshots, History, NEW w \in Workers, LearnUpdate(w)
    PROVE  GoodWrites
<1>1. /\ req[w] \in Navigation /\ req[w] \in taught /\ Core(w) \in Phrases
      /\ seen[w].aliases \in Seq(Phrases) /\ Snapshot(req[w], seen[w])
  BY DEF LearnUpdate, TypeInv, TypeOK, Navigating, Pending, Snapshots, Seen
<1>2. TaughtIn(req[w].key, Core(w), taught)
  BY <1>1 DEF TaughtIn, Core
<1>3. GoodList(req[w].key, Extended(w))
  BY <1>1, <1>2, ExtendedGood DEF Extended, Snapshot, Core, GoodList
<1>4. PICK k0, s0 : k0 = req[w].key /\ s0 = Extended(w)
  OBVIOUS
<1>5. GoodList(k0, s0)'
  BY <1>3, <1>4, GoodGrows
<1>6. ASSUME NEW k \in Key, hot'[k] # NoRow
      PROVE  /\ (hot[k] # NoRow /\ hot'[k].aliases = hot[k].aliases)
                  \/ GoodList(k, hot[k].aliases)'
             /\ hot[k] # NoRow /\ hot'[k].label = hot[k].label
  <2>1. CASE k \in ById(w)
    <3>1. k = k0 /\ hot[k] # NoRow /\ hot[k] \in Row
      BY <1>1, <1>4, <2>1 DEF ById, IsRow, Live, Snapshot, TypeInv, TypeOK
    <3>2. hot'[k] = [hot[k] EXCEPT !.aliases = s0]
      BY <1>4, <2>1 DEF LearnUpdate
    <3>3. hot'[k].aliases = s0 /\ hot'[k].label = hot[k].label
      BY <3>1, <3>2 DEF Row
    <3> QED BY <1>5, <3>1, <3>3 DEF GoodList
  <2>2. CASE k \notin ById(w)
    <3>1. hot'[k] = hot[k]
      BY <2>2 DEF LearnUpdate
    <3> QED BY <1>6, <3>1
  <2> QED BY <2>1, <2>2
<1> QED BY <1>6 DEF GoodWrites

(* _learn_alias's INSERT writes a good row or nothing.                     *)
LEMMA LearnInsertGood ==
    ASSUME TypeInv, Pending, History, NEW w \in Workers, LearnInsert(w)
    PROVE  GoodWrites
<1>1. /\ req[w].key \in Key /\ req[w] \in taught /\ Core(w) \in Phrases /\ TypeOK
  BY DEF LearnInsert, TypeInv, Navigating, Navigation, Pending
<1>2. PICK k, x, l : k = req[w].key /\ x = Core(w) /\ l = req[w].label
  OBVIOUS
<1>3. Taught(k, x) /\ GoodLabel(k, l)
  BY <1>1, <1>2 DEF Taught, Core, GoodLabel, LabelIn
<1>4. GoodList(k, <<x>>)' /\ GoodLabel(k, l)'
  BY <1>1, <1>2, <1>3, GoodShort, GoodGrows
<1>5. CASE Live(k)
  BY <1>2, <1>5, SameGood DEF LearnInsert, hotVars
<1>6. CASE ~Live(k)
  <2>1. Insert(k, NewRow(l, <<x>>, FALSE))
    BY <1>2, <1>6 DEF LearnInsert
  <2>2. NewRow(l, <<x>>, FALSE) \in Row /\ NewRow(l, <<x>>, FALSE).aliases = <<x>>
        /\ NewRow(l, <<x>>, FALSE).label = l
    <3>1. l \in Labels /\ <<x>> \in Seq(Phrases)
      BY <1>1, <1>2 DEF LearnInsert, TypeInv, Navigating, Navigation
    <3> QED BY <1>1, <3>1, NewRowType DEF NewRow
  <2>3. PICK row : row = NewRow(l, <<x>>, FALSE)
    OBVIOUS
  <2> QED BY <1>1, <1>2, <1>4, <2>1, <2>2, <2>3, RowFacts, OneGood
<1> QED BY <1>5, <1>6

(* _maybe_promote's upsert writes a good row.                              *)
LEMMA PromoteUpsertGood ==
    ASSUME TypeInv, Pending, History, NEW w \in Workers, PromoteUpsert(w)
    PROVE  GoodWrites
<1>1. /\ req[w].key \in Key /\ req[w].label \in Labels /\ req[w] \in taught /\ TypeOK
  BY DEF PromoteUpsert, TypeInv, Navigating, Navigation, Pending
<1>2. PICK k, l : k = req[w].key /\ l = req[w].label
  OBVIOUS
<1>3. GoodList(k, <<>>)' /\ GoodLabel(k, l)'
  <2>1. GoodLabel(k, l)
    BY <1>1, <1>2 DEF GoodLabel, LabelIn
  <2> QED BY <2>1, GoodShort, GoodGrows
<1>4. CASE Live(k)
  <2>1. PICK row : row = Refreshed(hot[k], l)
    OBVIOUS
  <2>2. Update(k, row)
    BY <1>2, <1>4, <2>1 DEF PromoteUpsert
  <2>3. hot[k] # NoRow /\ row \in Row /\ row.aliases = hot[k].aliases /\ row.label = l
    BY <1>1, <1>2, <1>4, <2>1, RowFacts DEF Live, Refreshed, Row
  <2> QED BY <1>1, <1>2, <1>3, <2>2, <2>3, RowFacts, OneGood
<1>5. CASE ~Live(k)
  <2>1. PICK row : row = NewRow(l, <<>>, FALSE)
    OBVIOUS
  <2>2. Insert(k, row)
    BY <1>2, <1>5, <2>1 DEF PromoteUpsert
  <2>3. row \in Row /\ row.aliases = <<>> /\ row.label = l
    <3>1. <<>> \in Seq(Phrases)
      OBVIOUS
    <3> QED BY <1>1, <1>2, <2>1, <3>1, NewRowType DEF NewRow
  <2> QED BY <1>1, <1>2, <1>3, <2>2, <2>3, RowFacts, OneGood
<1> QED BY <1>4, <1>5

(* Counting a hit touches no list.                                         *)
LEMMA IncrementGood ==
    ASSUME TypeOK, NEW w \in Workers, IncrementHit(w) PROVE GoodWrites
<1>1. ASSUME NEW k \in Key, hot'[k] # NoRow
      PROVE  hot[k] # NoRow /\ hot'[k].aliases = hot[k].aliases /\ hot'[k].label = hot[k].label
  <2>1. CASE k \in ById(w)
    <3>1. hot[k] # NoRow /\ hot[k] \in Row
      BY <2>1, RowFacts DEF ById, IsRow, Live
    <3>2. hot'[k] = [hot[k] EXCEPT !.hits = hot[k].hits + 1]
      BY <2>1 DEF IncrementHit
    <3> QED BY <3>1, <3>2 DEF Row
  <2>2. CASE k \notin ById(w)
    BY <1>1, <2>2 DEF IncrementHit
  <2> QED BY <2>1, <2>2
<1> QED BY <1>1, SameGood

(* The administrator's statements write what they list.                    *)
LEMMA AdminGood ==
    ASSUME TypeOK, History, NEW w \in Workers,
           UpsertPath(w) \/ PutPath(w) \/ DeletePath(w) \/ PinPath(w) \/ WriteNothing(w)
    PROVE  GoodWrites
<1>1. ASSUME NEW k \in Key, NEW label \in Labels, NEW aliases \in AliasLists,
             listed' = listed \cup {[key |-> k, label |-> label, aliases |-> aliases]}
      PROVE  GoodList(k, aliases)' /\ GoodLabel(k, label)'
  <2>1. PICK e : e = [key |-> k, label |-> label, aliases |-> aliases]
    OBVIOUS
  <2>2. e \in listed' /\ e.key = k /\ e.aliases = aliases /\ e.label = label
    BY <1>1, <2>1
  <2>3. aliases \in Seq(Phrases)
    BY TextAssumption
  <2>4. GoodIn(k, aliases, taught', listed') /\ LabelIn(k, label, taught', listed')
    <3>1. \A i \in DOMAIN aliases : ListedIn(k, aliases[i], listed')
      BY <2>2 DEF ListedIn, Range
    <3>2. \A j \in DOMAIN aliases : \A i \in 1 .. j - 1 : i \in DOMAIN aliases
      BY <2>3
    <3> QED BY <2>2, <3>1, <3>2 DEF GoodIn, LabelIn
  <2> QED BY <2>4 DEF GoodList, GoodLabel
<1>2. ASSUME NEW k \in Key, NEW label \in Labels, NEW aliases \in AliasLists,
             NEW pinned \in BOOLEAN, Live(k),
             Update(k, [hot[k] EXCEPT !.label = label, !.aliases = aliases, !.pinned = pinned]),
             listed' = listed \cup {[key |-> k, label |-> label, aliases |-> aliases]}
      PROVE  GoodWrites
  <2>1. PICK row : row = [hot[k] EXCEPT !.label = label, !.aliases = aliases, !.pinned = pinned]
    OBVIOUS
  <2>2. aliases \in Seq(Phrases) /\ hot[k] \in Row
    BY <1>2, TextAssumption, RowFacts DEF Live
  <2>3. row # NoRow /\ row.aliases = aliases /\ row.label = label
    <3>1. row \in Row
      BY <2>1, <2>2, EditedRowType
    <3>2. row.aliases = aliases /\ row.label = label
      BY <2>1, <2>2 DEF Row
    <3> QED BY <3>1, <3>2, RowFacts
  <2>4. GoodList(k, aliases)' /\ GoodLabel(k, label)'
    BY <1>1, <1>2
  <2> QED BY <1>2, <2>1, <2>3, <2>4, OneGood
<1>3. CASE UpsertPath(w)
  <2>1. PICK k \in Key, label \in Labels, aliases \in AliasLists, pinned \in BOOLEAN :
          /\ IF Live(k)
             THEN Update(k, [hot[k] EXCEPT !.label = label, !.aliases = aliases,
                                           !.pinned = pinned])
             ELSE Insert(k, NewRow(label, aliases, pinned))
          /\ listed' = listed \cup {[key |-> k, label |-> label, aliases |-> aliases]}
    BY <1>3 DEF UpsertPath
  <2>2. CASE Live(k)
    BY <1>2, <2>1, <2>2
  <2>3. CASE ~Live(k)
    <3>1. PICK row : row = NewRow(label, aliases, pinned)
      OBVIOUS
    <3>2. row \in Row /\ row.aliases = aliases /\ row.label = label
      BY <3>1, NewRowType, TextAssumption DEF NewRow
    <3>3. Insert(k, row)
      BY <2>1, <2>3, <3>1
    <3> QED BY <1>1, <2>1, <3>2, <3>3, RowFacts, OneGood
  <2> QED BY <2>2, <2>3
<1>4. CASE PutPath(w)
  <2>1. PICK k \in Key, label \in Labels, aliases \in AliasLists, pinned \in BOOLEAN :
          /\ Live(k)
          /\ Update(k, [hot[k] EXCEPT !.label = label, !.aliases = aliases,
                                      !.pinned = pinned])
          /\ listed' = listed \cup {[key |-> k, label |-> label, aliases |-> aliases]}
    BY <1>4 DEF PutPath
  <2> QED BY <1>2, <2>1
<1>5. CASE DeletePath(w)
  <2>1. PICK k \in Key : Update(k, NoRow)
    BY <1>5 DEF DeletePath
  <2>2. \A j \in Key : hot'[j] # NoRow => hot'[j] = hot[j]
    BY <2>1, RowFacts DEF Update
  <2> QED BY <2>2, SameGood
<1>6. CASE PinPath(w)
  <2>1. PICK k \in Key : Live(k) /\ Update(k, [hot[k] EXCEPT !.pinned = TRUE])
    BY <1>6 DEF PinPath
  <2>2. hot[k] \in Row /\ hot[k] # NoRow
    BY <2>1, RowFacts DEF Live
  <2>3. PICK row : row = [hot[k] EXCEPT !.pinned = TRUE]
    OBVIOUS
  <2>4. row.aliases = hot[k].aliases /\ row.label = hot[k].label
    BY <2>2, <2>3 DEF Row
  <2>5. row # NoRow
    <3>1. row \in Row
      BY <2>2, <2>3 DEF Row
    <3> QED BY <3>1, RowFacts
  <2> QED BY <2>1, <2>2, <2>3, <2>4, <2>5, OneGood
<1>7. CASE WriteNothing(w)
  BY <1>7, SameGood DEF WriteNothing, hotVars
<1> QED BY <1>3, <1>4, <1>5, <1>6, <1>7

(* Every step writes lists and labels that are vouched for.                *)
LEMMA NextGood ==
    ASSUME TypeInv, Pending, Snapshots, [Next]_vars PROVE GoodWrites
<1>1. TypeOK /\ History
  BY NextHistory DEF TypeInv
<1>2. CASE WindowSlides \/ UNCHANGED vars
  BY <1>2, SameGood DEF WindowSlides, vars, hotVars
<1>3. ASSUME NEW w \in Workers, Step(w) \/ Request(w) \/ Crash(w)
      PROVE  GoodWrites
  <2>1. CASE \/ LearnSkip(w) \/ LearnRead(w) \/ LearnFail(w) \/ PromoteCount(w)
             \/ PromoteFail(w) \/ IncrementFail(w) \/ Audit(w) \/ AuditFail(w)
             \/ Navigate(w) \/ Lookup(w) \/ Crash(w)
    BY <2>1, SameGood
       DEF LearnSkip, LearnRead, LearnFail, PromoteCount, PromoteFail, IncrementFail, Audit,
           AuditFail, Navigate, Lookup, Crash, hotVars
  <2> QED BY <1>1, <1>3, <2>1, LearnUpdateGood, LearnInsertGood, PromoteUpsertGood,
             IncrementGood, AdminGood DEF Step, Request
<1> QED BY <1>2, <1>3 DEF Next

(* So every row stays good.                                                *)
LEMMA NextGoodRows ==
    ASSUME TypeInv, Pending, Snapshots, GoodRows, [Next]_vars PROVE GoodRows'
<1>1. History /\ GoodWrites
  BY NextHistory, NextGood
<1>2. ASSUME NEW k \in Key, hot'[k] # NoRow
      PROVE  GoodList(k, hot[k].aliases)' /\ GoodLabel(k, hot[k].label)'
  <2>1. CASE hot[k] # NoRow
    <3>1. PICK s, l : s = hot[k].aliases /\ l = hot[k].label
      OBVIOUS
    <3>2. GoodList(k, s)' /\ GoodLabel(k, l)'
      BY <1>1, <2>1, <3>1, GoodGrows DEF GoodRows
    <3> QED BY <1>1, <1>2, <3>1, <3>2 DEF GoodWrites, GoodList, GoodLabel
  <2>2. CASE hot[k] = NoRow
    BY <1>1, <1>2, <2>2 DEF GoodWrites
  <2> QED BY <2>1, <2>2
<1> QED BY <1>2 DEF GoodRows

(* The empty registry satisfies the inductive invariant.                   *)
LEMMA InitVouch == Init => VouchInv
<1> SUFFICES ASSUME Init PROVE VouchInv
  OBVIOUS
<1>1. Ids /\ Pending /\ Snapshots /\ GoodRows
  BY DEF Init, Ids, Pending, Snapshots, GoodRows, Navigating
<1> QED BY <1>1, InitType DEF VouchInv

(* The inductive invariant of the registry's contents holds: it adds to the*)
(* typing unique primary keys and what each pending UPDATE's snapshot says.*)
THEOREM Vouching == Spec => []VouchInv
<1>1. VouchInv /\ [Next]_vars => VouchInv'
  BY NextType, NextIds, NextPending, NextSnapshots, NextGoodRows DEF VouchInv
<1> QED BY InitVouch, <1>1, PTL DEF Spec

(* For any number of instances, sites, paths and phrasings, and any list   *)
(* an administrator sends: no row ever carries a label or an alias that    *)
(* was not navigated to, or listed, for that very path of that very site.  *)
THEOREM AliasesAreVouched == Spec => []RowsVouched
BY Vouching, VouchImplies, PTL

(* Two similar aliases of one row are an administrator's doing, however    *)
(* learners, promotions and administrators interleave.                     *)
THEOREM AliasesStayDistinct == Spec => []LearnedDistinct
BY Vouching, VouchImplies, PTL

(* A list above MAX_ALIASES is an administrator's, entry by entry.         *)
THEOREM AliasesStayCapped == Spec => []LearnedCapped
BY Vouching, VouchImplies, PTL

-----------------------------------------------------------------------------
(* No missed promotion.  Of several requests that reach the threshold      *)
(* together, the one whose COUNT comes last sees all their navigations:    *)
(* each counts after its own navigation committed.                         *)
LEMMA SureFinite ==
    ASSUME NEW k
    PROVE  IsFiniteSet(SureQueries(k)) \/ ~(navLog \subseteq Navigation)
<1>1. navLog \subseteq Navigation => SureQueries(k) \subseteq Queries
  BY DEF SureQueries, Navigation
<1> QED BY <1>1, FS_Subset, TextAssumption

(* A path that is not sure-navigated to in a step is no more popular after *)
(* it than before.                                                         *)
LEMMA PopularBefore ==
    ASSUME TypeOK, NEW k \in Key, Popular(k)',
           \A n \in navLog' : n.key = k /\ n.sure => n \in navLog
    PROVE  Popular(k)
<1>1. SureQueries(k)' \subseteq SureQueries(k)
  BY DEF SureQueries
<1>2. IsFiniteSet(SureQueries(k))
  BY SureFinite DEF TypeOK
<1>3. Cardinality(SureQueries(k)') <= Cardinality(SureQueries(k))
      /\ Cardinality(SureQueries(k)) \in Nat /\ Cardinality(SureQueries(k)') \in Nat
  BY <1>1, <1>2, FS_Subset, FS_CardinalityType
<1> QED BY <1>3, SizesAssumption DEF Popular

(* Every column edit of a row is a row.                                    *)
LEMMA EditsAreRows ==
    /\ \A r \in Row, s \in Seq(Phrases) : [r EXCEPT !.aliases = s] \in Row
    /\ \A r \in Row : [r EXCEPT !.hits = r.hits + 1] \in Row
    /\ \A r \in Row : [r EXCEPT !.pinned = TRUE] \in Row
    /\ \A r \in Row, l \in Labels : Refreshed(r, l) \in Row
<1>1. \A r \in Row, s \in Seq(Phrases) : [r EXCEPT !.aliases = s] \in Row
  BY DEF Row
<1>2. ASSUME NEW r \in Row PROVE [r EXCEPT !.hits = r.hits + 1] \in Row
  <2>1. r.hits + 1 \in Nat
    BY DEF Row
  <2> QED BY <2>1 DEF Row
<1>3. \A r \in Row : [r EXCEPT !.pinned = TRUE] \in Row
  BY DEF Row
<1>4. \A r \in Row, l \in Labels : Refreshed(r, l) \in Row
  BY DEF Row, Refreshed
<1> QED BY <1>1, <1>2, <1>3, <1>4

(* Writing one row deletes no other.                                       *)
LEMMA WriteStays ==
    ASSUME TypeOK, NEW f \in Key, NEW row \in Row, Insert(f, row) \/ Update(f, row),
           NEW k \in Key, Live(k)
    PROVE  Live(k)'
  BY RowFacts DEF Insert, Update, Live

(* A row that is there stays, or was deleted by an administrator.          *)
LEMMA RowStays ==
    ASSUME TypeInv, [Next]_vars, NEW k \in Key, Live(k)
    PROVE  Live(k)' \/ k \in lapsed'
<1>1. TypeOK /\ hot[k] \in Row
  BY RowFacts DEF TypeInv, Live
<1>2. CASE WindowSlides \/ UNCHANGED vars
  BY <1>2 DEF WindowSlides, vars, hotVars, Live
<1>3. ASSUME NEW w \in Workers, Step(w) \/ Request(w) \/ Crash(w)
      PROVE  Live(k)' \/ k \in lapsed'
  <2>1. CASE \/ LearnSkip(w) \/ LearnRead(w) \/ LearnFail(w) \/ PromoteCount(w)
             \/ PromoteFail(w) \/ IncrementFail(w) \/ Audit(w) \/ AuditFail(w)
             \/ Navigate(w) \/ Lookup(w) \/ Crash(w) \/ WriteNothing(w)
    BY <2>1
       DEF LearnSkip, LearnRead, LearnFail, PromoteCount, PromoteFail, IncrementFail, Audit,
           AuditFail, Navigate, Lookup, Crash, WriteNothing, hotVars, Live
  <2>2. CASE LearnUpdate(w)
    <3>1. Extended(w) \in Seq(Phrases)
      <4>1. Core(w) \in Phrases /\ seen[w].aliases \in Seq(Phrases)
        BY <2>2 DEF LearnUpdate, TypeInv, TypeOK, Seen
      <4> QED BY <4>1, ExtendedType DEF Extended
    <3>2. hot'[k] = hot[k] \/ hot'[k] = [hot[k] EXCEPT !.aliases = Extended(w)]
      BY <2>2 DEF LearnUpdate
    <3> QED BY <1>1, <3>1, <3>2, EditsAreRows, RowFacts DEF Live
  <2>3. CASE IncrementHit(w)
    <3>1. hot'[k] = hot[k] \/ hot'[k] = [hot[k] EXCEPT !.hits = hot[k].hits + 1]
      BY <2>3 DEF IncrementHit
    <3>2. hot'[k] \in Row
      BY <1>1, <3>1, EditsAreRows
    <3> QED BY <1>1, <3>2, RowFacts DEF Live
  <2>4. CASE LearnInsert(w) \/ PromoteUpsert(w)
    <3>1. req[w].key \in Key /\ req[w].label \in Labels /\ <<>> \in Seq(Phrases)
      <4>1. pc[w] \in Navigating
        BY <2>4 DEF LearnInsert, PromoteUpsert, Navigating
      <4>2. req[w] \in Navigation
        BY <4>1 DEF TypeInv
      <4> QED BY <4>2 DEF Navigation
    <3>2. LearnInsert(w) => <<Core(w)>> \in Seq(Phrases)
      BY DEF LearnInsert, TypeInv
    <3>3. CASE UNCHANGED hot
      BY <3>3 DEF Live
    <3>4. CASE LearnInsert(w) /\ ~(UNCHANGED hot)
      <4>1. NewRow(req[w].label, <<Core(w)>>, FALSE) \in Row
        BY <1>1, <3>1, <3>2, <3>4, NewRowType
      <4>2. Insert(req[w].key, NewRow(req[w].label, <<Core(w)>>, FALSE))
        BY <3>4 DEF LearnInsert, hotVars
      <4> QED BY <1>1, <3>1, <4>1, <4>2, WriteStays
    <3>5. CASE PromoteUpsert(w)
      <4>1. NewRow(req[w].label, <<>>, FALSE) \in Row
        BY <1>1, <3>1, NewRowType
      <4>2. Live(req[w].key) => Refreshed(hot[req[w].key], req[w].label) \in Row
        BY <1>1, <3>1, EditsAreRows, RowFacts DEF Live
      <4>3. \/ Insert(req[w].key, NewRow(req[w].label, <<>>, FALSE))
            \/ /\ Live(req[w].key)
               /\ Update(req[w].key, Refreshed(hot[req[w].key], req[w].label))
        BY <3>5 DEF PromoteUpsert
      <4> QED BY <1>1, <3>1, <4>1, <4>2, <4>3, WriteStays
    <3> QED BY <2>4, <3>3, <3>4, <3>5
  <2>5. ASSUME NEW f \in Key, NEW label \in Labels, NEW aliases \in AliasLists,
               NEW pinned \in BOOLEAN,
               \/ Live(f) /\ Update(f, [hot[f] EXCEPT !.label = label, !.aliases = aliases,
                                                      !.pinned = pinned])
               \/ Insert(f, NewRow(label, aliases, pinned))
        PROVE  Live(k)'
    <3>1. aliases \in Seq(Phrases)
      BY TextAssumption
    <3>2. NewRow(label, aliases, pinned) \in Row
      BY <1>1, <3>1, NewRowType
    <3>3. Live(f) => [hot[f] EXCEPT !.label = label, !.aliases = aliases,
                                    !.pinned = pinned] \in Row
      BY <1>1, <3>1, EditedRowType, RowFacts DEF Live
    <3> QED BY <1>1, <2>5, <3>2, <3>3, WriteStays
  <2>6. CASE UpsertPath(w) \/ PutPath(w)
    BY <2>5, <2>6 DEF UpsertPath, PutPath
  <2>7. CASE DeletePath(w)
    BY <1>1, <2>7, RowFacts DEF DeletePath, Update, Live
  <2>8. CASE PinPath(w)
    <3>1. PICK f \in Key : Live(f) /\ Update(f, [hot[f] EXCEPT !.pinned = TRUE])
      BY <2>8 DEF PinPath
    <3>2. [hot[f] EXCEPT !.pinned = TRUE] \in Row
      BY <1>1, <3>1, EditsAreRows, RowFacts DEF Live
    <3> QED BY <1>1, <3>1, <3>2, WriteStays
  <2> QED BY <1>3, <2>1, <2>2, <2>3, <2>4, <2>6, <2>7, <2>8 DEF Step, Request
<1> QED BY <1>2, <1>3 DEF Next

(* A request that owes a popular path its promotion goes on owing it, has  *)
(* promoted it, or fails.                                                  *)
Owes(w, k) == pc[w] \in Navigating /\ req[w].key = k /\ req[w].sure

(* One step of the request itself.                                         *)
LEMMA OwesStays ==
    ASSUME TypeInv, NEW w \in Workers, NEW k \in Key, Owes(w, k), Popular(k),
           Step(w) \/ Request(w) \/ Crash(w)
    PROVE  Owes(w, k)' \/ Live(k)' \/ k \in lapsed'
<1>1. pc[w] \in Navigating /\ req[w].key = k /\ req[w].sure
  BY DEF Owes
<1>2. CASE LearnSkip(w) \/ LearnRead(w) \/ LearnUpdate(w) \/ LearnInsert(w) \/ LearnFail(w)
  <2>1. pc'[w] \in Navigating /\ req' = req
    BY <1>2 DEF LearnSkip, LearnRead, LearnUpdate, LearnInsert, LearnFail, Goto, Navigating,
                TypeInv, TypeOK
  <2> QED BY <1>1, <2>1 DEF Owes
<1>3. CASE PromoteCount(w)
  <2>1. pc'[w] = "promote" /\ req' = req
    BY <1>1, <1>3 DEF PromoteCount, Due, Goto, TypeInv, TypeOK
  <2> QED BY <1>1, <2>1 DEF Owes, Navigating
<1>4. CASE PromoteUpsert(w)
  <2>1. req[w].label \in Labels /\ <<>> \in Seq(Phrases) /\ TypeOK
    BY <1>4 DEF PromoteUpsert, TypeInv, Navigating, Navigation
  <2>2. CASE Live(k)
    <3>1. k \in lapsed' \/ Live(k)'
      BY <1>4, <2>2, RowStays DEF Next, Step
    <3> QED BY <3>1
  <2>3. CASE ~Live(k)
    <3>1. NewRow(req[w].label, <<>>, FALSE) \in Row
      BY <2>1, NewRowType
    <3>2. hot'[k] = NewRow(req[w].label, <<>>, FALSE)
      BY <1>1, <1>4, <2>1, <2>3, RowFacts DEF PromoteUpsert, Insert
    <3> QED BY <2>1, <3>1, <3>2, RowFacts DEF Live
  <2> QED BY <2>2, <2>3
<1>5. CASE PromoteFail(w) \/ Crash(w)
  BY <1>1, <1>5 DEF PromoteFail, Crash, Navigating
<1>6. ~(IncrementHit(w) \/ IncrementFail(w) \/ Audit(w) \/ AuditFail(w) \/ Request(w))
  BY <1>1 DEF IncrementHit, IncrementFail, Audit, AuditFail, Request, Navigate, Lookup,
              UpsertPath, PutPath, DeletePath, PinPath, WriteNothing, AdminWrite, Navigating
<1> QED BY <1>2, <1>3, <1>4, <1>5, <1>6 DEF Step

(* Lapsed promotions are never forgotten.                                  *)
LEMMA LapsedGrows == ASSUME [Next]_vars PROVE lapsed \subseteq lapsed'
<1>1. CASE WindowSlides \/ UNCHANGED vars
  BY <1>1 DEF WindowSlides, vars, history
<1>2. ASSUME NEW w \in Workers, Step(w) PROVE lapsed \subseteq lapsed'
  BY <1>2 DEF Step, LearnSkip, LearnRead, LearnUpdate, LearnInsert, LearnFail, PromoteCount,
              PromoteUpsert, PromoteFail, IncrementHit, IncrementFail, Audit, AuditFail, history
<1>3. ASSUME NEW w \in Workers, Request(w) \/ Crash(w) PROVE lapsed \subseteq lapsed'
  BY <1>3 DEF Request, Navigate, Lookup, UpsertPath, PutPath, DeletePath, PinPath,
              WriteNothing, AdminWrite, Crash, history
<1> QED BY <1>1, <1>2, <1>3 DEF Next

(* A step that makes a path popular is a sure navigation to it, whose      *)
(* request owes the promotion.                                             *)
LEMMA NewlyPopular ==
    ASSUME TypeInv, [Next]_vars, NEW k \in Key, Popular(k)'
    PROVE  Popular(k) \/ \E w \in Workers : Owes(w, k)'
<1>1. CASE navLog' \subseteq navLog
  BY <1>1, PopularBefore DEF TypeInv
<1>2. CASE ~(navLog' \subseteq navLog)
  <2>1. PICK w \in Workers : Navigate(w)
    BY <1>2 DEF Next, Step, Request, Crash, WindowSlides, LearnSkip, LearnRead, LearnUpdate,
                LearnInsert, LearnFail, PromoteCount, PromoteUpsert, PromoteFail, IncrementHit,
                IncrementFail, Audit, AuditFail, Lookup, UpsertPath, PutPath, DeletePath,
                PinPath, WriteNothing, AdminWrite, vars
  <2>2. PICK n \in Navigation : navLog' = navLog \cup {n} /\ req' = [req EXCEPT ![w] = n]
    BY <2>1 DEF Navigate
  <2>3. pc'[w] = "learn" /\ req'[w] = n
    BY <2>1, <2>2 DEF Navigate, Goto, TypeInv, TypeOK
  <2>4. CASE n.key = k /\ n.sure
    BY <2>3, <2>4 DEF Owes, Navigating
  <2>5. CASE ~(n.key = k /\ n.sure)
    BY <2>2, <2>5, PopularBefore DEF TypeInv
  <2> QED BY <2>4, <2>5
<1> QED BY <1>1, <1>2

(* Every step keeps the promotion invariant.                               *)
LEMMA NextMissed ==
    ASSUME TypeInv, NoMissedPromotion, [Next]_vars PROVE NoMissedPromotion'
<1>1. ASSUME NEW k \in Key, Popular(k)'
      PROVE  Live(k)' \/ k \in lapsed' \/ \E v \in Workers : Owes(v, k)'
  <2>1. CASE ~Popular(k)
    BY <1>1, <2>1, NewlyPopular
  <2>2. CASE Live(k) \/ k \in lapsed
    BY <2>2, RowStays, LapsedGrows
  <2>3. ASSUME NEW v \in Workers, Owes(v, k), Popular(k)
        PROVE  Live(k)' \/ k \in lapsed' \/ Owes(v, k)'
    <3>1. CASE WindowSlides \/ UNCHANGED vars
      BY <2>3, <3>1 DEF WindowSlides, vars, Owes
    <3>2. ASSUME NEW w \in Workers, Step(w) \/ Request(w) \/ Crash(w), v # w
          PROVE  Owes(v, k)'
      BY <2>3, <3>2, Others DEF Owes
    <3> QED BY <2>3, <3>1, <3>2, OwesStays DEF Next
  <2> QED BY <2>1, <2>2, <2>3 DEF NoMissedPromotion, Promoting, Owes, Navigating
<1> QED BY <1>1 DEF NoMissedPromotion, Promoting, Owes, Navigating

(* With no navigations nothing is popular.                                 *)
LEMMA InitMissed == Init => NoMissedPromotion
<1> SUFFICES ASSUME Init, NEW k \in Key PROVE ~Popular(k)
  BY DEF NoMissedPromotion
<1>1. SureQueries(k) = {}
  BY DEF Init, SureQueries
<1> QED BY <1>1, FS_EmptySet, SizesAssumption DEF Popular

(* For any number of instances and any threshold: a path with enough       *)
(* distinct sure queries in the window is hot, or about to be, unless a    *)
(* promotion of it failed or an administrator deleted it.                  *)
THEOREM NoPromotionIsMissed == Spec => []NoMissedPromotion
<1>1. TypeInv /\ NoMissedPromotion /\ [Next]_vars => (TypeInv /\ NoMissedPromotion)'
  BY NextType, NextMissed
<1> QED BY InitType, InitMissed, <1>1, PTL DEF Spec

-----------------------------------------------------------------------------
(* The audit trail.  Each write has a number of its own, kept by one       *)
(* request until its audit row is inserted or lost.                        *)
Auditors == {v \in Workers : pc[v] = "audit"}
AuditInv ==
    /\ AuditExact
    /\ writes <= MaxWrites
    /\ \A n \in lostAudit : n <= writes
    /\ \A v \in Auditors : seen[v].id \in 1 .. writes /\ seen[v].id \notin lostAudit
    /\ \A v, w \in Auditors : seen[v].id = seen[w].id => v = w

(* A step that neither starts nor ends an audit.                           *)
LEMMA AuditUntouched ==
    ASSUME AuditInv, UNCHANGED <<trail, lostAudit, writes>>, Auditors' = Auditors,
           \A v \in Auditors : seen'[v] = seen[v]
    PROVE  AuditInv'
<1>1. \A n \in 1 .. MaxWrites : Auditing(n)' <=> Auditing(n)
  BY DEF Auditing, Auditors
<1>2. AuditExact'
  BY <1>1 DEF AuditInv, AuditExact
<1> QED BY <1>2 DEF AuditInv

(* One audit ends: its write has one row now, or is among the lost ones.   *)
LEMMA AuditEnds ==
    ASSUME TypeInv, AuditInv, NEW w \in Auditors, UNCHANGED writes,
           Auditors' = Auditors \ {w}, \A v \in Auditors \ {w} : seen'[v] = seen[v],
           \/ trail' = [trail EXCEPT ![seen[w].id] = @ + 1] /\ lostAudit' = lostAudit
           \/ trail' = trail /\ lostAudit' = lostAudit \cup {seen[w].id}
    PROVE  AuditInv'
<1> DEFINE m == seen[w].id
<1>1. m \in 1 .. writes /\ m \notin lostAudit /\ Auditing(m) /\ writes \in Nat
  BY DEF AuditInv, Auditing, Auditors, TypeInv, TypeOK
<1>2. \A v \in Auditors' : v \in Auditors /\ seen'[v] = seen[v] /\ seen'[v].id # m
  BY DEF AuditInv
<1>3. ASSUME NEW n \in 1 .. MaxWrites
      PROVE  trail'[n] = IF n > writes' \/ n \in lostAudit' \/ Auditing(n)' THEN 0 ELSE 1
  <2>1. trail[n] = IF n > writes \/ n \in lostAudit \/ Auditing(n) THEN 0 ELSE 1
    BY DEF AuditInv, AuditExact
  <2>2. CASE n = m
    <3>1. ~Auditing(n)' /\ ~(n > writes) /\ trail[n] = 0
      BY <1>1, <1>2, <2>1, <2>2 DEF Auditing, Auditors
    <3>2. CASE trail' = [trail EXCEPT ![m] = @ + 1] /\ lostAudit' = lostAudit
      BY <1>1, <2>2, <3>1, <3>2 DEF TypeInv, TypeOK
    <3>3. CASE trail' = trail /\ lostAudit' = lostAudit \cup {m}
      BY <2>2, <3>1, <3>3
    <3> QED BY <3>2, <3>3
  <2>3. CASE n # m
    <3>1. Auditing(n)' <=> Auditing(n)
      BY <1>2, <2>3 DEF Auditing, Auditors
    <3>2. trail'[n] = trail[n] /\ (n \in lostAudit' <=> n \in lostAudit)
      BY <2>3 DEF TypeInv, TypeOK
    <3> QED BY <2>1, <3>1, <3>2
  <2> QED BY <2>2, <2>3
<1>4. AuditExact'
  BY <1>3 DEF AuditExact
<1>5. /\ writes' <= MaxWrites /\ \A n \in lostAudit' : n <= writes'
      /\ \A v \in Auditors' : seen'[v].id \in 1 .. writes' /\ seen'[v].id \notin lostAudit'
      /\ \A u, v \in Auditors' : seen'[u].id = seen'[v].id => u = v
  BY <1>1, <1>2 DEF AuditInv
<1> QED BY <1>4, <1>5 DEF AuditInv

(* A write takes the next number, which no other request has.              *)
LEMMA AuditStarts ==
    ASSUME TypeInv, AuditInv, NEW w \in Workers, AdminWrite(w)
    PROVE  AuditInv'
<1>1. /\ w \notin Auditors /\ Auditors' = Auditors \cup {w}
      /\ seen'[w].id = writes + 1 /\ \A v \in Auditors : seen'[v] = seen[v]
      /\ UNCHANGED <<trail, lostAudit>> /\ writes' = writes + 1 /\ writes < MaxWrites
  BY DEF AdminWrite, Goto, Auditors, NoSeen, TypeInv, TypeOK
<1>2. writes \in Nat /\ MaxWrites \in Nat
  BY SizesAssumption DEF TypeInv, TypeOK
<1>3. ASSUME NEW n \in 1 .. MaxWrites
      PROVE  trail'[n] = IF n > writes' \/ n \in lostAudit' \/ Auditing(n)' THEN 0 ELSE 1
  <2>1. trail[n] = IF n > writes \/ n \in lostAudit \/ Auditing(n) THEN 0 ELSE 1
    BY DEF AuditInv, AuditExact
  <2>2. Auditing(n)' <=> Auditing(n) \/ n = writes + 1
    BY <1>1 DEF Auditing, Auditors
  <2> QED BY <1>1, <1>2, <2>1, <2>2
<1>4. AuditExact'
  BY <1>3 DEF AuditExact
<1>5. writes' <= MaxWrites /\ \A n \in lostAudit' : n <= writes' /\ n # writes + 1
  BY <1>1, <1>2 DEF AuditInv, TypeInv, TypeOK
<1>6. \A v \in Auditors' : seen'[v].id \in 1 .. writes' /\ seen'[v].id \notin lostAudit'
  BY <1>1, <1>2, <1>5 DEF AuditInv
<1>7. \A u, v \in Auditors' : seen'[u].id = seen'[v].id => u = v
  BY <1>1, <1>2 DEF AuditInv
<1> QED BY <1>4, <1>5, <1>6, <1>7 DEF AuditInv

(* A finished request audits nothing any more; the others go on.           *)
LEMMA DoneAuditing ==
    ASSUME TypeInv, NEW w \in Workers, Done(w)
    PROVE  /\ Auditors' = Auditors \ {w}
           /\ \A v \in Auditors \ {w} : seen'[v] = seen[v]
BY DEF Done, Goto, Auditors, TypeInv, TypeOK

(* Every step keeps the audit invariant.                                   *)
LEMMA NextAudit == ASSUME TypeInv, AuditInv, [Next]_vars PROVE AuditInv'
<1>1. CASE WindowSlides \/ UNCHANGED vars
  <2>1. UNCHANGED <<trail, lostAudit, writes, pc, seen>>
    BY <1>1 DEF WindowSlides, vars, history, bounds
  <2> QED BY <2>1, AuditUntouched DEF Auditors
<1>2. ASSUME NEW w \in Workers, Step(w) \/ Request(w) \/ Crash(w) PROVE AuditInv'
  <2>1. CASE \/ LearnSkip(w) \/ LearnRead(w) \/ LearnUpdate(w) \/ LearnInsert(w) \/ LearnFail(w)
             \/ Navigate(w) \/ Lookup(w)
    <3>1. UNCHANGED <<trail, lostAudit, writes>>
      BY <2>1 DEF LearnSkip, LearnRead, LearnUpdate, LearnInsert, LearnFail, Navigate, Lookup,
                  history, bounds
    <3>2. pc[w] # "audit" /\ pc'[w] # "audit"
      BY <2>1 DEF LearnSkip, LearnRead, LearnUpdate, LearnInsert, LearnFail, Navigate, Lookup,
                  Goto, TypeInv, TypeOK
    <3>3. \A v \in Workers \ {w} : pc'[v] = pc[v] /\ seen'[v] = seen[v]
      BY <2>1 DEF LearnSkip, LearnRead, LearnUpdate, LearnInsert, LearnFail, Navigate, Lookup,
                  Goto, TypeInv, TypeOK
    <3>4. Auditors' = Auditors /\ \A v \in Auditors : seen'[v] = seen[v]
      BY <3>2, <3>3 DEF Auditors
    <3> QED BY <3>1, <3>4, AuditUntouched
  <2>2. CASE \/ PromoteCount(w) \/ PromoteUpsert(w) \/ PromoteFail(w)
             \/ IncrementHit(w) \/ IncrementFail(w) \/ (Crash(w) /\ pc[w] # "audit")
    <3>1. UNCHANGED <<trail, lostAudit, writes>> /\ w \notin Auditors
      BY <2>2 DEF PromoteCount, PromoteUpsert, PromoteFail, IncrementHit, IncrementFail, Crash,
                  history, bounds, Auditors
    <3>2. Done(w) \/ (Goto(w, "promote") /\ UNCHANGED seen)
      BY <2>2 DEF PromoteCount, PromoteUpsert, PromoteFail, IncrementHit, IncrementFail, Crash
    <3>3. Auditors' = Auditors /\ \A v \in Auditors : seen'[v] = seen[v]
      <4>1. CASE Done(w)
        BY <3>1, <4>1, DoneAuditing
      <4>2. CASE Goto(w, "promote") /\ UNCHANGED seen
        BY <3>1, <4>2 DEF Goto, Auditors, TypeInv, TypeOK
      <4> QED BY <3>2, <4>1, <4>2
    <3> QED BY <3>1, <3>3, AuditUntouched
  <2>3. CASE Audit(w) \/ AuditFail(w) \/ (Crash(w) /\ pc[w] = "audit")
    <3>1. w \in Auditors /\ Done(w) /\ UNCHANGED writes
      BY <2>3 DEF Audit, AuditFail, Crash, Auditors, bounds
    <3>2. \/ trail' = [trail EXCEPT ![seen[w].id] = @ + 1] /\ lostAudit' = lostAudit
          \/ trail' = trail /\ lostAudit' = lostAudit \cup {seen[w].id}
      BY <2>3 DEF Audit, AuditFail, Crash, history
    <3> QED BY <3>1, <3>2, DoneAuditing, AuditEnds
  <2>4. CASE UpsertPath(w) \/ PutPath(w) \/ DeletePath(w) \/ PinPath(w) \/ WriteNothing(w)
    BY <2>4, AuditStarts DEF UpsertPath, PutPath, DeletePath, PinPath, WriteNothing
  <2>5. CASE Crash(w)
    BY <2>2, <2>3, <2>5
  <2>6. CASE Request(w)
    BY <2>1, <2>4, <2>6 DEF Request
  <2>7. CASE Step(w)
    BY <2>1, <2>2, <2>3, <2>7 DEF Step
  <2> QED BY <1>2, <2>5, <2>6, <2>7
<1> QED BY <1>1, <1>2 DEF Next

(* With no writes there is nothing to audit.                               *)
LEMMA InitAudit == Init => AuditInv
<1> SUFFICES ASSUME Init PROVE AuditInv
  OBVIOUS
<1>1. Auditors = {} /\ lostAudit = {} /\ writes = 0 /\ writes <= MaxWrites
  BY SizesAssumption DEF Init, Auditors
<1>2. \A n \in 1 .. MaxWrites : trail[n] = 0 /\ n > writes
  BY SizesAssumption DEF Init
<1> QED BY <1>1, <1>2 DEF AuditInv, AuditExact

(* For any number of instances and writes: every administrator's write has *)
(* exactly one audit row, or none yet, or none because its INSERT failed   *)
(* or its request ended first; none has two, and no row is there for what  *)
(* was not committed.                                                      *)
THEOREM AuditStaysExact == Spec => []AuditExact
<1>1. TypeInv /\ AuditInv /\ [Next]_vars => (TypeInv /\ AuditInv)'
  BY NextType, NextAudit
<1>2. AuditInv => AuditExact
  BY DEF AuditInv
<1> QED BY InitType, InitAudit, <1>1, <1>2, PTL DEF Spec

-----------------------------------------------------------------------------
(* Popularity.  What a step may do to a row that stays the same row.       *)
KindTo(k) ==
    Live(k) /\ Live(k)' /\ hot[k].id = hot'[k].id =>
        /\ hot'[k].hits >= hot[k].hits
        /\ writes' = writes => hot'[k].pinned = hot[k].pinned

(* Changing other columns than these is kind, and so is counting a hit.    *)
LEMMA KindEdits ==
    ASSUME NEW row \in Row
    PROVE  /\ row.hits \in Nat /\ row.hits >= row.hits /\ row.hits + 1 >= row.hits
           /\ \A l : LET e == Refreshed(row, l) IN e.hits = row.hits /\ e.pinned = row.pinned
           /\ LET e == [row EXCEPT !.hits = row.hits + 1]
              IN  e.hits = row.hits + 1 /\ e.pinned = row.pinned
           /\ [row EXCEPT !.pinned = TRUE].hits = row.hits
BY DEF Row, Refreshed

(* An inserted row takes nothing from a row that was there.                *)
LEMMA KindInsert ==
    ASSUME TypeOK, NEW f \in Key, ~Live(f), NEW row, Insert(f, row), NEW k \in Key
    PROVE  KindTo(k)
<1>1. k # f => hot'[k] = hot[k]
  BY RowFacts DEF Insert
<1>2. Live(k) => hot[k] \in Row
  BY RowFacts DEF Live
<1> QED BY <1>1, <1>2, KindEdits DEF KindTo

(* Every step is kind to every row.                                        *)
LEMMA NextKind == ASSUME TypeInv, [Next]_vars, NEW k \in Key PROVE KindTo(k)
<1>1. TypeOK
  BY DEF TypeInv
<1>2. SUFFICES ASSUME Live(k) PROVE KindTo(k)
  BY DEF KindTo
<1>3. hot[k] \in Row
  BY <1>1, <1>2, RowFacts DEF Live
<1>4. ASSUME hot'[k] = hot[k] PROVE KindTo(k)
  BY <1>3, <1>4, KindEdits DEF KindTo
<1>5. CASE WindowSlides \/ UNCHANGED vars
  BY <1>4, <1>5 DEF WindowSlides, vars, hotVars
<1>6. ASSUME NEW w \in Workers, Step(w) \/ Request(w) \/ Crash(w) PROVE KindTo(k)
  <2>1. CASE \/ LearnSkip(w) \/ LearnRead(w) \/ LearnFail(w) \/ PromoteCount(w)
             \/ PromoteFail(w) \/ IncrementFail(w) \/ Audit(w) \/ AuditFail(w)
             \/ Navigate(w) \/ Lookup(w) \/ Crash(w) \/ WriteNothing(w)
    BY <1>4, <2>1
       DEF LearnSkip, LearnRead, LearnFail, PromoteCount, PromoteFail, IncrementFail, Audit,
           AuditFail, Navigate, Lookup, Crash, WriteNothing, hotVars
  <2>2. CASE LearnUpdate(w)
    <3>1. hot'[k] = hot[k] \/ hot'[k] = [hot[k] EXCEPT !.aliases = Extended(w)]
      BY <2>2 DEF LearnUpdate
    <3>2. hot'[k].hits = hot[k].hits /\ hot'[k].pinned = hot[k].pinned
      BY <1>3, <3>1 DEF Row
    <3> QED BY <1>3, <3>2, KindEdits DEF KindTo
  <2>3. CASE IncrementHit(w)
    <3>1. hot'[k] = hot[k] \/ hot'[k] = [hot[k] EXCEPT !.hits = hot[k].hits + 1]
      BY <2>3 DEF IncrementHit
    <3> QED BY <1>3, <1>4, <3>1, KindEdits DEF KindTo
  <2>4. CASE LearnInsert(w)
    <3>1. req[w].key \in Key
      BY <2>4 DEF LearnInsert, TypeInv, Navigating, Navigation
    <3>2. CASE Live(req[w].key)
      BY <1>4, <2>4, <3>2 DEF LearnInsert, hotVars
    <3>3. CASE ~Live(req[w].key)
      BY <1>1, <2>4, <3>1, <3>3, KindInsert DEF LearnInsert
    <3> QED BY <3>2, <3>3
  <2>5. CASE PromoteUpsert(w)
    <3>1. req[w].key \in Key
      BY <2>5 DEF PromoteUpsert, TypeInv, Navigating, Navigation
    <3>2. CASE Live(req[w].key)
      <4>1. hot'[k] = hot[k] \/ hot'[k] = Refreshed(hot[k], req[w].label)
        BY <1>1, <2>5, <3>1, <3>2, RowFacts DEF PromoteUpsert, Update
      <4> QED BY <1>3, <1>4, <4>1, KindEdits DEF KindTo
    <3>3. CASE ~Live(req[w].key)
      BY <1>1, <2>5, <3>1, <3>3, KindInsert DEF PromoteUpsert
    <3> QED BY <3>2, <3>3
  <2>6. CASE UpsertPath(w) \/ PutPath(w) \/ DeletePath(w) \/ PinPath(w)
    <3>1. writes' # writes
      <4>1. writes \in Nat /\ writes' = writes + 1
        BY <2>6 DEF UpsertPath, PutPath, DeletePath, PinPath, AdminWrite, TypeInv, TypeOK
      <4> QED BY <4>1
    <3>2. ASSUME NEW f \in Key, NEW row, Update(f, row), row.hits = hot[f].hits PROVE KindTo(k)
      <4>1. hot'[k] = hot[k] \/ hot'[k].hits = hot[k].hits
        BY <1>1, <3>2, RowFacts DEF Update
      <4> QED BY <1>3, <1>4, <3>1, <4>1, KindEdits DEF KindTo
    <3>3. ASSUME NEW f \in Key, NEW label, NEW aliases, NEW pinned, Live(f),
                 Update(f, [hot[f] EXCEPT !.label = label, !.aliases = aliases,
                                          !.pinned = pinned])
          PROVE  KindTo(k)
      <4>1. hot[f] \in Row
        BY <1>1, <3>3, RowFacts DEF Live
      <4>2. [hot[f] EXCEPT !.label = label, !.aliases = aliases, !.pinned = pinned].hits
              = hot[f].hits
        BY <4>1 DEF Row
      <4> QED BY <3>2, <3>3, <4>2
    <3>4. CASE UpsertPath(w)
      <4>1. PICK f \in Key, label \in Labels, aliases \in AliasLists, pinned \in BOOLEAN :
              IF Live(f)
              THEN Update(f, [hot[f] EXCEPT !.label = label, !.aliases = aliases,
                                            !.pinned = pinned])
              ELSE Insert(f, NewRow(label, aliases, pinned))
        BY <3>4 DEF UpsertPath
      <4> QED BY <1>1, <3>3, <4>1, KindInsert
    <3>5. CASE PutPath(w)
      BY <3>3, <3>5 DEF PutPath
    <3>6. CASE DeletePath(w)
      <4>1. PICK f \in Key : Update(f, NoRow)
        BY <3>6 DEF DeletePath
      <4>2. hot'[k] = hot[k] \/ hot'[k] = NoRow
        BY <1>1, <4>1, RowFacts DEF Update
      <4> QED BY <1>4, <4>2 DEF KindTo, Live
    <3>7. CASE PinPath(w)
      <4>1. PICK f \in Key : Live(f) /\ Update(f, [hot[f] EXCEPT !.pinned = TRUE])
        BY <3>7 DEF PinPath
      <4>2. hot[f] \in Row
        BY <1>1, <4>1, RowFacts DEF Live
      <4> QED BY <3>2, <4>1, <4>2, KindEdits
    <3> QED BY <2>6, <3>4, <3>5, <3>6, <3>7
  <2> QED BY <1>6, <2>1, <2>2, <2>3, <2>4, <2>5, <2>6 DEF Step, Request
<1> QED BY <1>5, <1>6 DEF Next

(* While a row lives its hits never go down, and its pin changes only by   *)
(* an administrator's statement: the learner and the promotion write back  *)
(* no column but the one they mean to.                                     *)
THEOREM PopularityIsKept == Spec => PopularityKept
<1>1. TypeInv /\ [Next]_vars => [\A k \in Key : KindTo(k)]_vars
  BY NextKind
<1> QED BY TypeCorrect, <1>1, PTL DEF Spec, PopularityKept, KindTo

-----------------------------------------------------------------------------
(* Registry.  What the two modules say of where a phrase comes from.       *)
LEMMA SameSources ==
    ASSUME NEW k, NEW x
    PROVE  /\ TaughtIn(k, x, taught) <=> Abstract!Learned(k, x)
           /\ ListedIn(k, x, listed) <=> Abstract!Listed(k, x)
  BY DEF TaughtIn, ListedIn, Abstract!Learned, Abstract!Listed, Range

(* A list of phrases within the limit is one of Registry's lists.          *)
LEMMA AreLists ==
    /\ \A s \in Seq(Phrases) : Len(s) <= MaxAliases => s \in Abstract!Lists
    /\ <<>> \in Abstract!Lists /\ \A x \in Phrases : <<x>> \in Abstract!Lists
<1>1. ASSUME NEW s \in Seq(Phrases), Len(s) <= MaxAliases PROVE s \in Abstract!Lists
  <2>1. Len(s) \in 0 .. MaxAliases /\ s \in [1 .. Len(s) -> Phrases]
    BY <1>1, SizesAssumption
  <2> QED BY <2>1 DEF Abstract!Lists
<1>2. <<>> \in Seq(Phrases) /\ Len(<<>>) <= MaxAliases
  BY SizesAssumption
<1>3. ASSUME NEW x \in Phrases PROVE <<x>> \in Seq(Phrases) /\ Len(<<x>>) <= MaxAliases
  BY SizesAssumption
<1> QED BY <1>1, <1>2, <1>3

(* The list _learn_alias writes ends in the phrase it has learned.         *)
LEMMA ExtendedEnds ==
    ASSUME NEW s \in Seq(Phrases), NEW x \in Phrases
    PROVE  LET t == LastN(Append(s, x), MaxAliases)
           IN  /\ t \in Seq(Phrases) /\ Len(t) \in 1 .. MaxAliases
               /\ t[Len(t)] = x
<1> DEFINE u == Append(s, x)
           d == Dropped(u, MaxAliases)
           t == LastN(u, MaxAliases)
<1>1. u \in Seq(Phrases) /\ Len(u) = Len(s) + 1 /\ Len(s) \in Nat /\ u[Len(u)] = x
  OBVIOUS
<1>2. d \in Nat /\ Len(u) - d >= 1
  BY <1>1, SizesAssumption DEF Dropped
<1> HIDE DEF u, d
<1>3. /\ t \in Seq(Phrases) /\ Len(t) = Len(u) - d /\ Len(t) <= MaxAliases
      /\ \A i \in 1 .. Len(u) - d : t[i] = u[d + i]
  BY <1>1, LastNType, SizesAssumption DEF d
<1> HIDE DEF t
<1>4. Len(t) \in 1 .. Len(u) - d /\ d + Len(t) = Len(u)
  BY <1>1, <1>2, <1>3
<1>5. t[Len(t)] = x
  BY <1>1, <1>3, <1>4
<1> QED BY <1>1, <1>2, <1>3, <1>5, SizesAssumption DEF t, u

(* A good list that ends in a phrase taught for its path is one that the   *)
(* learner of Registry may leave there.                                    *)
LEMMA GoodIsLearnable ==
    ASSUME NEW k, NEW s \in Seq(Phrases), GoodList(k, s), Len(s) >= 1,
           TaughtIn(k, s[Len(s)], taught)
    PROVE  Abstract!Learnable(k, s)
<1>1. s # <<>>
  OBVIOUS
<1> QED BY <1>1, SameSources DEF GoodList, GoodIn, Abstract!Learnable

(* Writing one row means the same in both modules.                         *)
LEMMA SameWrites ==
    ASSUME NEW k, NEW row
    PROVE  Update(k, row) => Abstract!Write(k, row)
  BY DEF Update, Abstract!Write

LEMMA SameInserts ==
    ASSUME NEW k, NEW label, NEW aliases, NEW pinned
    PROVE  Insert(k, NewRow(label, aliases, pinned)) =>
              Abstract!Insert(k, label, aliases, pinned)
  BY DEF Insert, NewRow, Abstract!Insert

(* _learn_alias's UPDATE: its id still means the path it was read for, or  *)
(* no row at all, so one row is changed or none.                           *)
LEMMA LearnUpdateActs ==
    ASSUME VouchInv, NEW w \in Workers, LearnUpdate(w)
    PROVE  UNCHANGED Abstract!vars \/ \E k \in Key : Abstract!Learn(k)
<1>1. /\ req[w] \in Navigation /\ req[w] \in taught /\ Core(w) \in Phrases
      /\ seen[w].aliases \in Seq(Phrases) /\ Snapshot(req[w], seen[w])
  BY DEF LearnUpdate, VouchInv, TypeInv, TypeOK, Navigating, Pending, Snapshots, Seen
<1>2. TypeOK /\ Ids /\ nextId' = nextId /\ taught' = taught /\ listed' = listed
  BY DEF VouchInv, TypeInv, LearnUpdate, history
<1>3. PICK k, s : k = req[w].key /\ s = Extended(w)
  OBVIOUS
<1>4. k \in Key
  BY <1>1, <1>3 DEF Navigation
<1>5. TaughtIn(k, Core(w), taught)
  BY <1>1, <1>3 DEF TaughtIn, Core
<1>6. GoodList(k, s)
  BY <1>1, <1>3, <1>5, ExtendedGood DEF Extended, Snapshot, Core, GoodList
<1>7. s \in Seq(Phrases) /\ Len(s) \in 1 .. MaxAliases /\ s[Len(s)] = Core(w)
  BY <1>1, <1>3, ExtendedEnds DEF Extended
<1>8. Abstract!Learnable(k, s) /\ s \in Abstract!Lists
  BY <1>5, <1>6, <1>7, GoodIsLearnable, AreLists
<1>9. \A j \in Key : j \in ById(w) => j = k
  BY <1>1, <1>3 DEF ById, IsRow, Live, Snapshot
<1>10. hot' = [j \in Key |-> IF j \in ById(w) THEN [hot[j] EXCEPT !.aliases = s] ELSE hot[j]]
  BY <1>3 DEF LearnUpdate
<1>11. CASE k \in ById(w)
  <2>1. hot[k] # NoRow
    BY <1>11 DEF ById, IsRow, Live
  <2>2. hot' = [hot EXCEPT ![k] = [hot[k] EXCEPT !.aliases = s]]
    BY <1>2, <1>4, <1>9, <1>10, <1>11, RowFacts
  <2>3. Abstract!Write(k, [hot[k] EXCEPT !.aliases = s])
    BY <1>2, <2>2 DEF Abstract!Write
  <2> QED BY <1>2, <1>4, <1>8, <2>1, <2>3 DEF Abstract!Learn
<1>12. CASE k \notin ById(w)
  <2>1. hot' = hot
    <3>1. \A j \in Key : j \notin ById(w)
      BY <1>9, <1>12
    <3>2. hot' = [j \in Key |-> hot[j]]
      BY <1>10, <3>1
    <3> QED BY <1>2, <3>2 DEF TypeOK
  <2> QED BY <1>2, <2>1 DEF Abstract!vars
<1> QED BY <1>11, <1>12

(* _learn_alias's INSERT creates a row from a recorded navigation, or does *)
(* nothing.                                                                *)
LEMMA LearnInsertActs ==
    ASSUME VouchInv, NEW w \in Workers, LearnInsert(w)
    PROVE  UNCHANGED Abstract!vars \/ \E k \in Key : Abstract!Create(k)
<1>1. /\ req[w] \in taught /\ req[w].key \in Key /\ Core(w) \in Phrases
      /\ taught' = taught /\ listed' = listed
  BY DEF LearnInsert, VouchInv, TypeInv, Navigating, Navigation, Pending, history
<1>2. CASE Live(req[w].key)
  BY <1>1, <1>2 DEF LearnInsert, hotVars, Abstract!vars
<1>3. CASE ~Live(req[w].key)
  <2>1. PICK n : n = req[w]
    OBVIOUS
  <2>2. Insert(n.key, NewRow(n.label, <<CoreOf[n.query]>>, FALSE))
    BY <1>3, <2>1 DEF LearnInsert, Core
  <2>3. Abstract!Insert(n.key, n.label, <<CoreOf[n.query]>>, FALSE)
    BY <2>2, SameInserts
  <2>4. <<CoreOf[n.query]>> \in Abstract!Lists
    BY <1>1, <2>1, AreLists DEF Core
  <2> QED BY <1>1, <1>3, <2>1, <2>3, <2>4 DEF Abstract!Create, Live
<1> QED BY <1>2, <1>3

(* _maybe_promote's upsert creates a row, or changes the label of one.     *)
LEMMA PromoteUpsertActs ==
    ASSUME VouchInv, NEW w \in Workers, PromoteUpsert(w)
    PROVE  \E k \in Key : Abstract!Create(k) \/ Abstract!Relabel(k)
<1>1. /\ req[w] \in taught /\ req[w].key \in Key
      /\ taught' = taught /\ listed' = listed
  BY DEF PromoteUpsert, VouchInv, TypeInv, Navigating, Navigation, Pending, history
<1>2. PICK n : n = req[w]
  OBVIOUS
<1>3. CASE Live(n.key)
  <2>1. Update(n.key, [hot[n.key] EXCEPT !.label = n.label])
    BY <1>2, <1>3 DEF PromoteUpsert, Refreshed
  <2>2. Abstract!Write(n.key, [hot[n.key] EXCEPT !.label = n.label])
    BY <2>1, SameWrites
  <2> QED BY <1>1, <1>2, <1>3, <2>2 DEF Abstract!Relabel, Live
<1>4. CASE ~Live(n.key)
  <2>1. Insert(n.key, NewRow(n.label, <<>>, FALSE))
    BY <1>2, <1>4 DEF PromoteUpsert
  <2>2. Abstract!Insert(n.key, n.label, <<>>, FALSE)
    BY <2>1, SameInserts
  <2> QED BY <1>1, <1>2, <1>4, <2>2, AreLists DEF Abstract!Create, Live
<1> QED BY <1>3, <1>4

(* _increment_hit counts on one row or on none.                            *)
LEMMA IncrementActs ==
    ASSUME VouchInv, NEW w \in Workers, IncrementHit(w)
    PROVE  UNCHANGED Abstract!vars \/ \E k \in Key : Abstract!Hit(k)
<1>1. TypeOK /\ Ids /\ nextId' = nextId /\ taught' = taught /\ listed' = listed
  BY DEF VouchInv, TypeInv, IncrementHit, history
<1>2. hot' = [j \in Key |-> IF j \in ById(w) THEN [hot[j] EXCEPT !.hits = @ + 1] ELSE hot[j]]
  BY DEF IncrementHit
<1>3. \A j, k \in Key : j \in ById(w) /\ k \in ById(w) => j = k
  BY <1>1 DEF ById, IsRow, Live, Ids
<1>4. ASSUME NEW k \in Key, k \in ById(w) PROVE Abstract!Hit(k)
  <2>1. hot[k] # NoRow
    BY <1>4 DEF ById, IsRow, Live
  <2>2. hot' = [hot EXCEPT ![k] = [hot[k] EXCEPT !.hits = @ + 1]]
    BY <1>1, <1>2, <1>3, <1>4, RowFacts
  <2> QED BY <1>1, <2>1, <2>2 DEF Abstract!Hit, Abstract!Write
<1>5. CASE \A k \in Key : k \notin ById(w)
  <2>1. hot' = hot
    <3>1. hot' = [j \in Key |-> hot[j]]
      BY <1>2, <1>5
    <3> QED BY <1>1, <3>1 DEF TypeOK
  <2> QED BY <1>1, <2>1 DEF Abstract!vars
<1> QED BY <1>4, <1>5

(* The administrator's statements.                                         *)
LEMMA AdminActs ==
    ASSUME NEW w \in Workers,
           UpsertPath(w) \/ PutPath(w) \/ DeletePath(w) \/ PinPath(w) \/ WriteNothing(w)
    PROVE  UNCHANGED Abstract!vars \/ \E k \in Key : Abstract!Administer(k)
<1>1. taught' = taught
  BY DEF UpsertPath, PutPath, DeletePath, PinPath, WriteNothing, AdminWrite
<1>2. CASE UpsertPath(w) \/ PutPath(w)
  <2>1. PICK k \in Key, label \in Labels, aliases \in AliasLists, pinned \in BOOLEAN :
          /\ IF Live(k)
             THEN Update(k, [hot[k] EXCEPT !.label = label, !.aliases = aliases,
                                           !.pinned = pinned])
             ELSE Insert(k, NewRow(label, aliases, pinned))
          /\ listed' = listed \cup {[key |-> k, label |-> label, aliases |-> aliases]}
    BY <1>2 DEF UpsertPath, PutPath
  <2>2. PICK row : row = [hot[k] EXCEPT !.label = label, !.aliases = aliases,
                                       !.pinned = pinned]
    OBVIOUS
  <2>3. Live(k) => Update(k, row)
    BY <2>1, <2>2
  <2>4. ~Live(k) => Insert(k, NewRow(label, aliases, pinned))
    BY <2>1
  <2>5. Live(k) => Abstract!Write(k, row)
    BY <2>3, SameWrites
  <2>6. ~Live(k) => Abstract!Insert(k, label, aliases, pinned)
    BY <2>4, SameInserts
  <2>7. Abstract!Put(k, label, aliases, pinned)
    BY <1>1, <2>1, <2>2, <2>5, <2>6 DEF Abstract!Put, Live
  <2> QED BY <2>7 DEF Abstract!Administer
<1>3. CASE DeletePath(w)
  <2>1. PICK k \in Key : Live(k) /\ Update(k, NoRow)
    BY <1>3 DEF DeletePath
  <2>2. listed' = listed
    BY <1>3 DEF DeletePath
  <2>3. Abstract!Remove(k)
    BY <1>1, <2>1, <2>2, SameWrites DEF Abstract!Remove, Live
  <2> QED BY <2>3 DEF Abstract!Administer
<1>4. CASE PinPath(w)
  <2>1. PICK k \in Key : Live(k) /\ Update(k, [hot[k] EXCEPT !.pinned = TRUE])
    BY <1>4 DEF PinPath
  <2>2. listed' = listed
    BY <1>4 DEF PinPath
  <2>3. Abstract!Write(k, [hot[k] EXCEPT !.pinned = TRUE])
    BY <2>1, SameWrites
  <2>4. Abstract!Pin(k)
    BY <1>1, <2>1, <2>2, <2>3 DEF Abstract!Pin, Live
  <2> QED BY <2>4 DEF Abstract!Administer
<1>5. CASE WriteNothing(w)
  BY <1>1, <1>5 DEF WriteNothing, hotVars, Abstract!vars
<1> QED BY <1>2, <1>3, <1>4, <1>5

(* Every statement is a step of Registry, or none.                         *)
LEMMA NextActs ==
    ASSUME VouchInv, [Next]_vars PROVE [Abstract!Next]_(Abstract!vars)
<1>1. CASE WindowSlides \/ UNCHANGED vars
  BY <1>1 DEF WindowSlides, vars, hotVars, history, Abstract!vars
<1>2. ASSUME NEW w \in Workers, Step(w) \/ Request(w) \/ Crash(w)
      PROVE  [Abstract!Next]_(Abstract!vars)
  <2>1. CASE \/ LearnSkip(w) \/ LearnRead(w) \/ LearnFail(w) \/ PromoteCount(w)
             \/ PromoteFail(w) \/ IncrementFail(w) \/ Audit(w) \/ AuditFail(w)
             \/ Lookup(w) \/ Crash(w)
    BY <2>1
       DEF LearnSkip, LearnRead, LearnFail, PromoteCount, PromoteFail, IncrementFail, Audit,
           AuditFail, Lookup, Crash, hotVars, history, Abstract!vars
  <2>2. CASE Navigate(w)
    <3>1. Abstract!Record
      BY <2>2 DEF Navigate, hotVars, Abstract!Record
    <3> QED BY <3>1 DEF Abstract!Next
  <2>3. CASE LearnUpdate(w)
    BY <2>3, LearnUpdateActs DEF Abstract!Next, Abstract!Change
  <2>4. CASE LearnInsert(w)
    BY <2>4, LearnInsertActs DEF Abstract!Next, Abstract!Change
  <2>5. CASE PromoteUpsert(w)
    BY <2>5, PromoteUpsertActs DEF Abstract!Next, Abstract!Change
  <2>6. CASE IncrementHit(w)
    BY <2>6, IncrementActs DEF Abstract!Next, Abstract!Change
  <2>7. CASE UpsertPath(w) \/ PutPath(w) \/ DeletePath(w) \/ PinPath(w) \/ WriteNothing(w)
    BY <2>7, AdminActs DEF Abstract!Next, Abstract!Change
  <2> QED BY <1>2, <2>1, <2>2, <2>3, <2>4, <2>5, <2>6, <2>7 DEF Step, Request
<1> QED BY <1>1, <1>2 DEF Next

(* The requests of the feedback loop, the lookups and the administrator    *)
(* implement Registry: whatever a request read before it writes            *)
(* (feedback.py:85-95, hot_path.py's _increment_hit), its statement is one *)
(* that the recorded navigations and lists justify when it is executed.    *)
THEOREM RegistryImplemented == Spec => ActsAsRegistry
<1>1. Init => Abstract!Init
  BY DEF Init, Abstract!Init
<1>2. VouchInv /\ [Next]_vars => [Abstract!Next]_(Abstract!vars)
  BY NextActs
<1> QED BY <1>1, <1>2, Vouching, PTL DEF Spec, ActsAsRegistry, Abstract!Spec
=============================================================================
