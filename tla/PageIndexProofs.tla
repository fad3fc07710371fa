-------------------------- MODULE PageIndexProofs --------------------------
(***************************************************************************)
(* Theorems about PageIndex, for every set of workers, sites, paths,       *)
(* contents and hashes, every list sent by an administrator and every      *)
(* bound.                                                                  *)
(***************************************************************************)
EXTENDS PageIndex, FiniteSetTheorems, SequenceTheorems, TLAPS

(***************************************************************************)
(* Lists of jobs.                                                          *)
(***************************************************************************)
LEMMA Pieces ==
    ASSUME NEW S, NEW s \in Seq(S), s # <<>>
    PROVE  /\ Head(s) \in S /\ Tail(s) \in Seq(S)
           /\ Range(s) = {Head(s)} \cup Range(Tail(s))
           /\ Len(s) = 1 <=> Tail(s) = <<>>
<1>1. PICK n \in Nat : n = Len(s)
  OBVIOUS
<1>2. n > 0 /\ DOMAIN s = 1 .. n /\ Head(s) = s[1] /\ Tail(s) \in Seq(S)
  BY <1>1
<1>3. Len(Tail(s)) = n - 1 /\ DOMAIN Tail(s) = 1 .. n - 1
  BY <1>1, <1>2
<1>4. \A i \in 1 .. n - 1 : Tail(s)[i] = s[i + 1]
  BY <1>1, <1>2
<1>5. Range(s) = {Head(s)} \cup Range(Tail(s))
  <2>1. ASSUME NEW i \in 1 .. n PROVE s[i] = Head(s) \/ s[i] \in Range(Tail(s))
    <3>1. CASE i = 1
      BY <1>2, <3>1
    <3>2. CASE i # 1
      <4>1. i - 1 \in 1 .. n - 1 /\ (i - 1) + 1 = i
        BY <1>2, <3>2
      <4>2. Tail(s)[i - 1] = s[i]
        BY <1>4, <4>1
      <4> QED BY <1>3, <4>1, <4>2 DEF Range
    <3> QED BY <3>1, <3>2
  <2>2. ASSUME NEW i \in 1 .. n - 1 PROVE Tail(s)[i] \in Range(s)
    <3>1. i + 1 \in 1 .. n
      BY <1>2
    <3> QED BY <1>2, <1>4, <3>1 DEF Range
  <2>3. Head(s) \in Range(s)
    <3>1. 1 \in 1 .. n
      BY <1>2
    <3> QED BY <1>2, <3>1 DEF Range
  <2> QED BY <1>2, <1>3, <2>1, <2>2, <2>3 DEF Range
<1>6. Len(s) = 1 <=> Tail(s) = <<>>
  <2>1. n = 1 => Tail(s) = <<>>
    BY <1>2, <1>3
  <2>2. Tail(s) = <<>> => n - 1 = 0
    BY <1>3
  <2> QED BY <1>1, <2>1, <2>2
<1>7. Head(s) \in S
  BY <1>1, <1>2
<1> QED BY <1>2, <1>5, <1>6, <1>7

LEMMA EmptyList == Range(<<>>) = {} /\ KeysOf(<<>>) = {}
BY DEF Range, KeysOf

LEMMA OneJob ==
    ASSUME NEW j \in Job
    PROVE  /\ <<j>> \in Seq(Job) /\ <<j>> # <<>> /\ Len(<<j>>) = 1
           /\ Range(<<j>>) = {j} /\ KeysOf(<<j>>) = {j.key}
BY DEF Range, KeysOf

\* The keys of a list: that of its head and those of the rest.
LEMMA KeyPieces ==
    ASSUME NEW s \in Seq(Job), s # <<>>
    PROVE  /\ KeysOf(s) = {Head(s).key} \cup KeysOf(Tail(s))
           /\ KeysOf(s) \subseteq Key
           /\ Len(s) = 1 => KeysOf(s) = {Head(s).key}
<1>1. Range(s) = {Head(s)} \cup Range(Tail(s))
  BY Pieces
<1>2. KeysOf(s) = {Head(s).key} \cup KeysOf(Tail(s))
  BY <1>1 DEF KeysOf
<1>3. Range(s) \subseteq Job
  BY DEF Range
<1>4. KeysOf(s) \subseteq Key
  BY <1>3 DEF KeysOf, Job
<1>5. Len(s) = 1 => KeysOf(s) = {Head(s).key}
  BY <1>2, Pieces, EmptyList
<1> QED BY <1>2, <1>4, <1>5

(***************************************************************************)
(* What a request is started with.                                         *)
(***************************************************************************)
LEMMA LoadedJobs ==
    ASSUME NEW site \in Sites, NEW b \in Batches
    PROVE  JobsOf(site, FirstN(b, MaxBatch)) \in Seq(Job)
<1> DEFINE Entry == [path : Paths, content : Contents]
<1>1. b \in Seq(Entry) /\ MaxBatch \in Nat
  BY ContentAssumption, SizesAssumption
<1>2. PICK m \in Nat : m = IF Len(b) > MaxBatch THEN MaxBatch ELSE Len(b)
  BY <1>1
<1> HIDE DEF Entry
<1>3. m <= Len(b)
  BY <1>1, <1>2
<1>4. \A i \in 1 .. m : b[i] \in Entry
  BY <1>1, <1>3
<1>5. FirstN(b, MaxBatch) \in Seq(Entry)
  BY <1>2, <1>4, SubSeqProperties DEF FirstN
<1>6. PICK pages \in Seq(Entry) : pages = FirstN(b, MaxBatch)
  BY <1>5
<1>7. PICK n \in Nat : n = Len(pages) /\ DOMAIN pages = 1 .. n
  BY <1>6
<1>8. ASSUME NEW i \in 1 .. n
      PROVE  [key |-> <<site, pages[i].path>>, content |-> pages[i].content] \in Job
  <2>1. pages[i] \in Entry
    BY <1>6, <1>7
  <2>2. pages[i].path \in Paths /\ pages[i].content \in Contents
    BY <2>1 DEF Entry
  <2> QED BY <2>2 DEF Job, Key
<1>9. JobsOf(site, pages) = [i \in 1 .. n |-> [key |-> <<site, pages[i].path>>, content |-> pages[i].content]]
  BY <1>7 DEF JobsOf
<1>10. JobsOf(site, pages) \in Seq(Job)
  BY <1>8, <1>9
<1> QED BY <1>6, <1>10

LEMMA ScanFacts ==
    ASSUME TypeOK, NEW scope, NEW offset \in Nat, NEW s \in Scans(scope, offset)
    PROVE  /\ Scanned(s, scope) \in Seq(Job)
           /\ \A j \in Range(Scanned(s, scope)) :
                Live(j.key) /\ j.key \in Key /\ j.content = page[j.key].content
<1> DEFINE rows == {k \in Key : Live(k) /\ k[1] \in scope}
<1>1. PICK S \in SUBSET rows : s \in [1 .. Cardinality(S) -> S]
  BY DEF Scans, Orders
<1>2. IsFiniteSet(Key)
  BY SizesAssumption, FS_Product DEF Key
<1>3. IsFiniteSet(S)
  BY <1>2, FS_Subset
<1>4. PICK n \in Nat : n = Cardinality(S)
  BY <1>3, FS_CardinalityType
<1>5. DOMAIN s = 1 .. n
  BY <1>1, <1>4
<1>6. ASSUME NEW i \in 1 .. n
      PROVE  /\ s[i] \in Key /\ Live(s[i])
             /\ [key |-> s[i], content |-> page[s[i]].content] \in Job
  <2>1. s[i] \in Key /\ Live(s[i])
    BY <1>1, <1>4
  <2>2. page[s[i]] \in Page
    BY <2>1 DEF Live, TypeOK
  <2> QED BY <2>1, <2>2 DEF Page, Job
<1>7. Scanned(s, scope) = [i \in 1 .. n |-> [key |-> s[i], content |-> page[s[i]].content]]
  BY <1>5 DEF Scanned
<1>8. Scanned(s, scope) \in Seq(Job)
  BY <1>6, <1>7
<1>9. ASSUME NEW j \in Range(Scanned(s, scope))
      PROVE  Live(j.key) /\ j.key \in Key /\ j.content = page[j.key].content
  <2>1. PICK i \in 1 .. n : j = [key |-> s[i], content |-> page[s[i]].content]
    BY <1>7 DEF Range
  <2> QED BY <1>6, <2>1
<1> QED BY <1>8, <1>9

(***************************************************************************)
(* Types.  A discovery is about one page throughout.                       *)
(***************************************************************************)
PCs == {"idle", "check", "index", "hash", "post", "bulk", "reindex"}
Discovering == {"check", "index", "hash"}
Requests ==
    /\ pc \in [Workers -> PCs] /\ todo \in [Workers -> Seq(Job)]
    /\ \A w \in Workers : pc[w] = "idle" <=> todo[w] = <<>>
    /\ \A w \in Workers : pc[w] \in Discovering => Len(todo[w]) = 1
Pages == page \in [Key -> Page \cup {NoPage}] /\ last \in [Key -> Contents \cup {NoPage}]
Marks == calm \subseteq Key /\ astray \subseteq Key /\ mixed \subseteq Workers \X Key
Counts ==
    /\ reported \subseteq Job
    /\ visits \in Nat /\ writes \in Nat /\ reindexes \in Nat
TypeInv == Requests /\ Pages /\ Marks /\ Counts

LEMMA Unpacked == TypeInv => TypeOK
BY DEF TypeInv, Requests, Pages, Marks, Counts, PCs, TypeOK

LEMMA NowTypes ==
    ASSUME Requests, NEW w \in Workers, pc[w] # "idle"
    PROVE  /\ todo[w] \in Seq(Job) /\ todo[w] # <<>>
           /\ Now(w) \in Job /\ Now(w) = Head(todo[w])
           /\ Now(w).key \in Key /\ Now(w).content \in Contents
           /\ Now(w) = [key |-> Now(w).key, content |-> Now(w).content]
<1>1. todo[w] \in Seq(Job) /\ todo[w] # <<>>
  BY DEF Requests
<1>2. Now(w) \in Job
  BY <1>1, Pieces DEF Now
<1> QED BY <1>1, <1>2 DEF Now, Job

\* The row after index_page.
LEMMA UpsertedRow ==
    ASSUME NEW r \in Page \cup {NoPage}, NEW c \in Contents
    PROVE  /\ Upserted(r, c) # NoPage
           /\ Upserted(r, c).content = c
           /\ Upserted(r, c).hash = IF r = NoPage THEN NoHash ELSE r.hash
           /\ r # NoPage /\ r.content = c => Upserted(r, c) = r
BY ContentAssumption DEF Upserted, Page

\* What the index can hold after index_page or a hash store.
LEMMA RowTypes ==
    ASSUME NEW r \in Page \cup {NoPage}, NEW c \in Contents, NEW h \in Hashes
    PROVE  /\ Upserted(r, c) \in Page /\ Upserted(r, c) # NoPage
           /\ Upserted(r, c).content = c
           /\ Upserted(r, c).hash = IF r = NoPage THEN NoHash ELSE r.hash
           /\ r # NoPage /\ r.content = c => Upserted(r, c) = r
           /\ r # NoPage => /\ [r EXCEPT !.hash = h] \in Page
                            /\ [r EXCEPT !.hash = h].content = r.content
                            /\ [r EXCEPT !.hash = h].hash = h
BY ContentAssumption DEF Upserted, Page

\* The three ways on with a list.
LEMMA OnwardTypes ==
    ASSUME Requests, NEW w \in Workers, pc[w] # "idle"
    PROVE  /\ Done(w) => Requests'
           /\ pc[w] \notin Discovering /\ Advance(w) => Requests'
           /\ \A at \in Discovering : pc[w] \in Discovering /\ Goto(w, at) => Requests'
<1>1. todo[w] \in Seq(Job) /\ todo[w] # <<>>
  BY NowTypes
<1>2. Tail(todo[w]) \in Seq(Job) /\ (Len(todo[w]) = 1 <=> Tail(todo[w]) = <<>>)
  BY <1>1, Pieces
<1>3. <<>> \in Seq(Job) /\ "idle" \in PCs /\ "idle" \notin Discovering /\ Discovering \subseteq PCs
  BY DEF PCs, Discovering
<1>4. ASSUME Done(w) PROVE Requests'
  BY <1>3, <1>4 DEF Done, Requests
<1>5. ASSUME pc[w] \notin Discovering, Advance(w) PROVE Requests'
  <2>1. todo' = [todo EXCEPT ![w] = Tail(todo[w])]
    BY <1>5 DEF Advance
  <2>2. todo' \in [Workers -> Seq(Job)] /\ todo'[w] = Tail(todo[w])
        /\ \A v \in Workers \ {w} : todo'[v] = todo[v]
    BY <1>2, <2>1 DEF Requests
  <2>3. pc' \in [Workers -> PCs] /\ (\A v \in Workers \ {w} : pc'[v] = pc[v])
        /\ pc'[w] = IF Len(todo[w]) = 1 THEN "idle" ELSE pc[w]
    BY <1>3, <1>5 DEF Advance, Requests
  <2>4. pc'[w] \notin Discovering /\ (pc'[w] = "idle" <=> todo'[w] = <<>>)
    BY <1>2, <1>3, <1>5, <2>2, <2>3
  <2> QED BY <2>2, <2>3, <2>4 DEF Requests
<1>6. ASSUME NEW at \in Discovering, pc[w] \in Discovering, Goto(w, at) PROVE Requests'
  BY <1>1, <1>3, <1>6 DEF Goto, Requests
<1> QED BY <1>4, <1>5, <1>6

LEMMA StartTypes ==
    ASSUME TypeInv, NEW w \in Workers, NEW at \in {"check", "post", "bulk", "reindex"},
           NEW jobs \in Seq(Job), at = "check" => Len(jobs) = 1, Start(w, at, jobs)
    PROVE  Requests' /\ Pages' /\ Marks'
<1>1. at \in PCs \ {"idle"} /\ (at \in Discovering => Len(jobs) = 1)
  BY DEF PCs, Discovering
<1>2. jobs # <<>> /\ todo' = [todo EXCEPT ![w] = jobs] /\ pc' = [pc EXCEPT ![w] = at]
  BY DEF Start
<1>3. Requests'
  BY <1>1, <1>2 DEF TypeInv, Requests
<1>4. KeysOf(jobs) \subseteq Key
  BY <1>2, KeyPieces
<1>5. Marks'
  BY <1>4 DEF Start, Meet, TypeInv, Marks
<1> QED BY <1>3, <1>5 DEF Start, TypeInv, Pages

LEMMA RequestTypes ==
    ASSUME TypeInv, NEW w \in Workers, Request(w)
    PROVE  TypeInv'
<1>1. CASE Discover(w)
  <2>1. PICK j \in Job : Start(w, "check", <<j>>) /\ reported' = reported \cup {j}
    BY <1>1 DEF Discover
  <2>2. visits' \in Nat /\ UNCHANGED <<writes, reindexes>>
    BY <1>1 DEF Discover, TypeInv, Counts
  <2> QED BY <2>1, <2>2, OneJob, StartTypes DEF TypeInv, Counts
<1>2. ASSUME NEW at \in {"post", "bulk"}, NEW jobs \in Seq(Job), Write(w, at, jobs) PROVE TypeInv'
  <2>1. Range(jobs) \subseteq Job
    BY DEF Range
  <2>2. writes' \in Nat /\ reported' \subseteq Job /\ UNCHANGED <<visits, reindexes>>
    BY <1>2, <2>1 DEF Write, TypeInv, Counts
  <2>3. Requests' /\ Pages' /\ Marks'
    BY <1>2, StartTypes DEF Write
  <2> QED BY <2>2, <2>3 DEF TypeInv, Counts
<1>3. CASE PostPage(w)
  BY <1>2, <1>3, OneJob DEF PostPage
<1>4. CASE Bulk(w)
  BY <1>2, <1>4, LoadedJobs DEF Bulk
<1>5. CASE ReindexAll(w)
  <2>1. PICK scope \in {{x} : x \in Sites} \cup {Sites}, offset \in {0, Limit} :
          \E s \in Scans(scope, offset) : Start(w, "reindex", Scanned(s, scope))
    BY <1>5 DEF ReindexAll
  <2>2. PICK s \in Scans(scope, offset) : Start(w, "reindex", Scanned(s, scope))
    BY <2>1
  <2>3. offset \in Nat
    BY SizesAssumption
  <2>4. Scanned(s, scope) \in Seq(Job)
    BY <2>3, Unpacked, ScanFacts
  <2>5. Requests' /\ Pages' /\ Marks'
    BY <2>2, <2>4, StartTypes
  <2>6. reindexes' \in Nat /\ UNCHANGED <<reported, visits, writes>>
    BY <1>5 DEF ReindexAll, TypeInv, Counts
  <2> QED BY <2>5, <2>6 DEF TypeInv, Counts
<1>6. CASE DeletePage(w)
  <2>1. Requests'
    BY <1>6 DEF DeletePage, TypeInv, Requests
  <2>2. Pages'
    BY <1>6 DEF DeletePage, TypeInv, Pages
  <2>3. Counts'
    BY <1>6 DEF DeletePage, TypeInv, Counts
  <2>4. Marks'
    <3>1. PICK k \in Key : /\ calm' = IF Busy(k) THEN calm \ {k} ELSE calm
                           /\ mixed' = mixed \cup {m \in Workers \X {k} : On(m[1], k)}
                           /\ astray' = IF Busy(k) THEN astray ELSE astray \ {k}
      BY <1>6 DEF DeletePage
    <3>2. {m \in Workers \X {k} : On(m[1], k)} \subseteq Workers \X Key
      OBVIOUS
    <3> QED BY <3>1, <3>2 DEF TypeInv, Marks
  <2> QED BY <2>1, <2>2, <2>3, <2>4 DEF TypeInv
<1> QED BY <1>1, <1>3, <1>4, <1>5, <1>6 DEF Request

LEMMA StepTypes ==
    ASSUME TypeInv, NEW w \in Workers, Step(w) \/ Crash(w)
    PROVE  TypeInv'
<1>1. pc[w] # "idle" /\ reported' = reported /\ UNCHANGED bounds
  BY DEF Step, Crash, Unchanged, Changed, CheckFails, DiscoverIndex, DiscoverNoVector,
         DiscoverFails, StoreHash, ListIndex, ListNoVector, ListFails
<1>2. Now(w) \in Job /\ Now(w).key \in Key /\ Now(w).content \in Contents
  BY <1>1, NowTypes DEF TypeInv
<1>3. Marks'
  <2>1. calm' \subseteq calm
    BY DEF Step, Crash, Unchanged, Changed, CheckFails, DiscoverIndex, DiscoverNoVector,
           DiscoverFails, StoreHash, ListIndex, ListNoVector, ListFails, Spoilt, Aborted, history
  <2>2. astray' \subseteq astray \cup {Now(w).key}
    BY DEF Step, Crash, Unchanged, Changed, CheckFails, DiscoverIndex, DiscoverNoVector,
           DiscoverFails, StoreHash, ListIndex, ListNoVector, ListFails, Halved, history
  <2>3. mixed' \subseteq mixed \cup {<<w, Now(w).key>>}
    BY DEF Step, Crash, Unchanged, Changed, CheckFails, DiscoverIndex, DiscoverNoVector,
           DiscoverFails, StoreHash, ListIndex, ListNoVector, ListFails, Done, Advance, Rid, history
  <2> QED BY <1>2, <2>1, <2>2, <2>3 DEF TypeInv, Marks
<1>4. Counts'
  BY <1>1 DEF TypeInv, Counts, bounds
<1>5. Requests'
  <2>1. /\ Done(w) => Requests'
        /\ pc[w] \notin Discovering /\ Advance(w) => Requests'
        /\ \A at \in Discovering : pc[w] \in Discovering /\ Goto(w, at) => Requests'
    BY <1>1, OnwardTypes DEF TypeInv
  <2>2. CASE Unchanged(w) \/ DiscoverFails(w) \/ StoreHash(w) \/ Crash(w)
    BY <2>1, <2>2 DEF Unchanged, DiscoverFails, StoreHash, Crash
  <2>3. CASE Changed(w) \/ CheckFails(w) \/ DiscoverIndex(w) \/ DiscoverNoVector(w)
    BY <2>1, <2>3 DEF Changed, CheckFails, DiscoverIndex, DiscoverNoVector, Discovering
  <2>4. CASE ListIndex(w) \/ ListNoVector(w) \/ ListFails(w)
    BY <2>1, <2>4 DEF ListIndex, ListNoVector, ListFails, Discovering
  <2> QED BY <2>2, <2>3, <2>4 DEF Step
<1>6. Pages'
  <2> DEFINE k == Now(w).key
             c == Now(w).content
  <2>1. page[k] \in Page \cup {NoPage} /\ HashOf[c] \in Hashes
    BY <1>2, ContentAssumption DEF TypeInv, Pages
  <2>2. Upserted(page[k], c) \in Page
    BY <1>2, <2>1, RowTypes
  <2>3. Live(k) => [page[k] EXCEPT !.hash = HashOf[c]] \in Page
    BY <1>2, <2>1, RowTypes DEF Live
  <2> HIDE DEF k, c
  <2>4. page' \in [Key -> Page \cup {NoPage}]
    <3>1. Stored(w) => page' = [page EXCEPT ![k] = Upserted(page[k], c)]
      BY DEF Stored, k, c
    <3>2. StoreHash(w) => \/ page' = page
                          \/ Live(k) /\ page' = [page EXCEPT ![k] = [page[k] EXCEPT !.hash = HashOf[c]]]
      BY DEF StoreHash, k, c
    <3>3. Stored(w) \/ StoreHash(w) \/ page' = page
      BY DEF Step, Crash, Unchanged, Changed, CheckFails, DiscoverIndex, DiscoverNoVector,
             DiscoverFails, ListIndex, ListNoVector, ListFails
    <3> QED BY <2>2, <2>3, <3>1, <3>2, <3>3 DEF TypeInv, Pages
  <2>5. last' \in [Key -> Contents \cup {NoPage}]
    <3>1. last' = last \/ last' = [last EXCEPT ![k] = c]
      BY DEF Step, Crash, Unchanged, Changed, CheckFails, DiscoverIndex, DiscoverNoVector,
             DiscoverFails, StoreHash, ListIndex, ListNoVector, ListFails, Reports, history, k, c
    <3>2. c \in Contents
      BY <1>2 DEF c
    <3> QED BY <3>1, <3>2 DEF TypeInv, Pages
  <2> QED BY <2>4, <2>5 DEF Pages
<1> QED BY <1>3, <1>4, <1>5, <1>6 DEF TypeInv

LEMMA TypeStep == TypeInv /\ [Next]_vars => TypeInv'
<1>1. ASSUME TypeInv, UNCHANGED vars PROVE TypeInv'
  BY <1>1 DEF TypeInv, Requests, Pages, Marks, Counts, vars, history, bounds
<1> QED BY <1>1, StepTypes, RequestTypes DEF Next

LEMMA TypeInit == Init => TypeInv
BY DEF Init, TypeInv, Requests, Pages, Marks, Counts, PCs, Discovering

LEMMA TypeInvariant == Spec => []TypeInv
BY TypeInit, TypeStep, PTL DEF Spec

\* Every variable of the page index keeps its type.
THEOREM IndexTypes == Spec => []TypeOK
BY TypeInvariant, Unpacked, PTL

(***************************************************************************)
(* Contents.  Not only the index but whatever a request has yet to store   *)
(* was reported for its page: reindex-all takes its jobs from rows for     *)
(* which that held when it read them, and reports are never taken back.    *)
(***************************************************************************)
JobsVouched == \A w \in Workers : Range(todo[w]) \subseteq reported
VouchInv == ContentVouched /\ JobsVouched

LEMMA RequestVouches ==
    ASSUME TypeInv, VouchInv, NEW w \in Workers, Request(w)
    PROVE  VouchInv'
<1>1. ASSUME NEW at, NEW jobs \in Seq(Job), Start(w, at, jobs), reported \subseteq reported',
             Range(jobs) \subseteq reported'
      PROVE  VouchInv'
  <2>1. page' = page /\ todo' = [todo EXCEPT ![w] = jobs]
    BY <1>1 DEF Start
  <2>2. JobsVouched'
    BY <1>1, <2>1 DEF VouchInv, JobsVouched, TypeInv, Requests
  <2>3. ContentVouched'
    BY <1>1, <2>1 DEF VouchInv, ContentVouched, Live
  <2> QED BY <2>2, <2>3 DEF VouchInv
<1>2. CASE Discover(w)
  <2>1. PICK j \in Job : Start(w, "check", <<j>>) /\ reported' = reported \cup {j}
    BY <1>2 DEF Discover
  <2> QED BY <1>1, <2>1, OneJob
<1>3. CASE PostPage(w)
  <2>1. PICK j \in Job : Write(w, "post", <<j>>)
    BY <1>3 DEF PostPage
  <2> QED BY <1>1, <2>1, OneJob DEF Write
<1>4. CASE Bulk(w)
  <2>1. PICK jobs \in Seq(Job) : Write(w, "bulk", jobs)
    BY <1>4, LoadedJobs DEF Bulk
  <2> QED BY <1>1, <2>1 DEF Write
<1>5. CASE ReindexAll(w)
  <2>1. PICK scope \in {{x} : x \in Sites} \cup {Sites}, offset \in {0, Limit} :
          \E s \in Scans(scope, offset) : Start(w, "reindex", Scanned(s, scope))
    BY <1>5 DEF ReindexAll
  <2>2. PICK s \in Scans(scope, offset) : Start(w, "reindex", Scanned(s, scope))
    BY <2>1
  <2>3. offset \in Nat
    BY SizesAssumption
  <2>4. PICK jobs \in Seq(Job) : jobs = Scanned(s, scope)
    BY <2>3, Unpacked, ScanFacts
  <2>5. \A j \in Range(jobs) : Live(j.key) /\ j.key \in Key /\ j.content = page[j.key].content
    BY <2>3, <2>4, Unpacked, ScanFacts
  <2>6. Range(jobs) \subseteq Job
    BY DEF Range
  <2>7. ASSUME NEW j \in Range(jobs) PROVE j \in reported
    <3>1. j = [key |-> j.key, content |-> j.content]
      BY <2>6 DEF Job
    <3>2. [key |-> j.key, content |-> page[j.key].content] \in reported
      BY <2>5 DEF VouchInv, ContentVouched
    <3> QED BY <2>5, <3>1, <3>2
  <2>8. reported' = reported
    BY <1>5 DEF ReindexAll
  <2> QED BY <1>1, <2>2, <2>4, <2>7, <2>8
<1>6. CASE DeletePage(w)
  <2>1. UNCHANGED <<todo, reported>> /\ \E k \in Key : page' = [page EXCEPT ![k] = NoPage]
    BY <1>6 DEF DeletePage
  <2>2. PICK k \in Key : page' = [page EXCEPT ![k] = NoPage]
    BY <2>1
  <2>3. ContentVouched'
    BY <2>1, <2>2 DEF VouchInv, ContentVouched, Live, TypeInv, Pages
  <2>4. JobsVouched'
    BY <2>1 DEF VouchInv, JobsVouched
  <2> QED BY <2>3, <2>4 DEF VouchInv
<1> QED BY <1>2, <1>3, <1>4, <1>5, <1>6 DEF Request

LEMMA StepVouches ==
    ASSUME TypeInv, VouchInv, NEW w \in Workers, Step(w) \/ Crash(w)
    PROVE  VouchInv'
<1>1. pc[w] # "idle" /\ reported' = reported
  BY DEF Step, Crash, Unchanged, Changed, CheckFails, DiscoverIndex, DiscoverNoVector,
         DiscoverFails, StoreHash, ListIndex, ListNoVector, ListFails
<1>2. /\ todo[w] \in Seq(Job) /\ todo[w] # <<>> /\ Now(w) = Head(todo[w])
      /\ Now(w).key \in Key /\ Now(w).content \in Contents
      /\ Now(w) = [key |-> Now(w).key, content |-> Now(w).content]
  BY <1>1, NowTypes DEF TypeInv
<1>3. Range(todo[w]) = {Now(w)} \cup Range(Tail(todo[w]))
  BY <1>2, Pieces
<1>4. JobsVouched'
  <2>1. \/ todo' = todo
        \/ todo' = [todo EXCEPT ![w] = <<>>]
        \/ todo' = [todo EXCEPT ![w] = Tail(todo[w])]
    BY DEF Step, Crash, Unchanged, Changed, CheckFails, DiscoverIndex, DiscoverNoVector,
           DiscoverFails, StoreHash, ListIndex, ListNoVector, ListFails, Done, Goto, Advance
  <2>2. ASSUME NEW v \in Workers PROVE Range(todo'[v]) \subseteq Range(todo[v])
    BY <1>3, <2>1, EmptyList DEF TypeInv, Requests
  <2> QED BY <1>1, <2>2 DEF VouchInv, JobsVouched
<1>5. ContentVouched'
  <2> DEFINE k == Now(w).key
             c == Now(w).content
  <2>1. k \in Key /\ c \in Contents /\ [key |-> k, content |-> c] \in reported
    BY <1>2, <1>3 DEF VouchInv, JobsVouched
  <2>2. page[k] \in Page \cup {NoPage} /\ HashOf[c] \in Hashes
    BY <2>1, ContentAssumption DEF TypeInv, Pages
  <2>3. Upserted(page[k], c).content = c
    BY <2>1, <2>2, RowTypes
  <2>4. Live(k) => [page[k] EXCEPT !.hash = HashOf[c]].content = page[k].content
    BY <2>1, <2>2, RowTypes DEF Live
  <2>5. Stored(w) => page' = [page EXCEPT ![k] = Upserted(page[k], c)]
    BY DEF Stored
  <2>6. StoreHash(w) => \/ page' = page
                        \/ Live(k) /\ page' = [page EXCEPT ![k] = [page[k] EXCEPT !.hash = HashOf[c]]]
    BY DEF StoreHash
  <2>7. Stored(w) \/ StoreHash(w) \/ page' = page
    BY DEF Step, Crash, Unchanged, Changed, CheckFails, DiscoverIndex, DiscoverNoVector,
           DiscoverFails, ListIndex, ListNoVector, ListFails
  <2> HIDE DEF k, c
  <2>8. page \in [Key -> Page \cup {NoPage}]
    BY DEF TypeInv, Pages
  <2>9. ASSUME NEW m \in Key, Live(m)' PROVE [key |-> m, content |-> page'[m].content] \in reported
    <3>1. Live(m) => [key |-> m, content |-> page[m].content] \in reported
      BY DEF VouchInv, ContentVouched
    <3>2. CASE m # k \/ page' = page
      BY <2>5, <2>6, <2>7, <2>8, <2>9, <3>1, <3>2 DEF Live
    <3>3. CASE m = k /\ Stored(w)
      BY <2>1, <2>3, <2>5, <2>8, <3>3
    <3>4. CASE m = k /\ StoreHash(w)
      BY <2>1, <2>4, <2>6, <2>8, <2>9, <3>1, <3>4 DEF Live
    <3> QED BY <2>7, <3>2, <3>3, <3>4
  <2> QED BY <1>1, <2>9 DEF ContentVouched
<1> QED BY <1>4, <1>5 DEF VouchInv

LEMMA VouchInvariant == Spec => []VouchInv
<1>1. Init => VouchInv
  <2>1. Init => ContentVouched
    BY DEF Init, ContentVouched, Live
  <2>2. Init => JobsVouched
    BY EmptyList DEF Init, JobsVouched
  <2> QED BY <2>1, <2>2 DEF VouchInv
<1>2. ASSUME VouchInv, UNCHANGED vars PROVE VouchInv'
  BY <1>2 DEF VouchInv, ContentVouched, JobsVouched, Live, vars
<1>3. TypeInv /\ VouchInv /\ [Next]_vars => VouchInv'
  BY <1>2, StepVouches, RequestVouches DEF Next
<1> QED BY <1>1, <1>3, TypeInvariant, PTL DEF Spec

\* The index never shows, for a page of a site, a content that was not reported
\* or sent for that very page.
THEOREM ContentsAreVouched == Spec => []ContentVouched
<1>1. VouchInv => ContentVouched
  BY DEF VouchInv
<1> QED BY <1>1, VouchInvariant, PTL

(***************************************************************************)
(* What the index shows.  Requests that share a key are all mixed on it,   *)
(* so one that is not mixed knows the row of its key: a visit between its  *)
(* content and its hash finds the content it stored, and reindex-all finds *)
(* what it read.                                                           *)
(***************************************************************************)
MixedTogether ==
    \A k \in Key, v, w \in Workers : On(v, k) /\ On(w, k) /\ v # w => <<v, k>> \in mixed
HalfRight(w) ==
    pc[w] = "hash" /\ Alone(w) => /\ Live(Now(w).key)
                                  /\ page[Now(w).key].content = Now(w).content
                                  /\ last[Now(w).key] = Now(w).content
RereadRight(w) ==
    pc[w] = "reindex" => \A j \in Range(todo[w]) : <<w, j.key>> \notin mixed =>
                           Live(j.key) /\ page[j.key].content = j.content
Right(k) ==
    Live(k) => /\ HashOf[page[k].content] = HashOf[last[k]]
               /\ page[k].hash \in {NoHash, HashOf[last[k]]}
ShowInv ==
    /\ MixedTogether
    /\ \A w \in Workers : HalfRight(w) /\ RereadRight(w)
    /\ \A k \in Key : k \in astray \/ Halfway(k) \/ Right(k)

\* A request is on the key of its current job, and a visit on no other.
LEMMA OnNow ==
    ASSUME TypeInv, NEW w \in Workers, pc[w] # "idle"
    PROVE  On(w, Now(w).key) /\ Now(w).key \in Key /\ \A j \in Range(todo[w]) : On(w, j.key) /\ j.key \in Key
<1>1. todo[w] \in Seq(Job) /\ todo[w] # <<>> /\ Now(w) = Head(todo[w])
  BY NowTypes DEF TypeInv
<1>2. KeysOf(todo[w]) = {Head(todo[w]).key} \cup KeysOf(Tail(todo[w])) /\ KeysOf(todo[w]) \subseteq Key
  BY <1>1, KeyPieces
<1>3. ASSUME NEW j \in Range(todo[w]) PROVE j.key \in KeysOf(todo[w])
  BY DEF KeysOf
<1> QED BY <1>1, <1>2, <1>3 DEF On

\* A request that starts is mixed on every key of its list where it meets
\* another, and so is that other.
LEMMA StartShows ==
    ASSUME TypeInv, ShowInv, NEW w \in Workers, NEW jobs \in Seq(Job),
           NEW at \in {"check", "post", "bulk", "reindex"}, Start(w, at, jobs),
           at = "reindex" => \A j \in Range(jobs) : Live(j.key) /\ j.content = page[j.key].content
    PROVE  ShowInv'
<1>1. /\ pc[w] = "idle" /\ todo[w] = <<>> /\ UNCHANGED <<page, last, astray>>
      /\ pc' = [pc EXCEPT ![w] = at] /\ todo' = [todo EXCEPT ![w] = jobs]
      /\ mixed' = mixed \cup Meet(w, KeysOf(jobs))
  BY DEF Start, TypeInv, Requests
<1>2. /\ todo'[w] = jobs /\ pc'[w] = at
      /\ \A v \in Workers \ {w} : todo'[v] = todo[v] /\ pc'[v] = pc[v]
  BY <1>1 DEF TypeInv, Requests
<1>3. MixedTogether'
  <2> SUFFICES ASSUME NEW k \in Key, NEW v \in Workers, NEW u \in Workers,
                      On(v, k)', On(u, k)', v # u
               PROVE  <<v, k>> \in mixed'
    BY DEF MixedTogether
  <2>1. \A x \in Workers \ {w} : On(x, k)' => On(x, k)
    BY <1>2 DEF On
  <2>2. CASE v # w /\ u # w
    BY <1>1, <2>1, <2>2 DEF ShowInv, MixedTogether
  <2>3. CASE v = w \/ u = w
    <3>1. k \in KeysOf(jobs)
      BY <1>2, <2>3 DEF On
    <3>2. PICK x \in {v, u} : x # w /\ On(x, k)
      BY <2>1, <2>3
    <3>3. Busy(k)
      BY <3>2 DEF Busy
    <3>4. v = w \/ On(v, k)
      BY <2>1
    <3>5. <<v, k>> \in Workers \X KeysOf(jobs) /\ <<v, k>>[1] = v /\ <<v, k>>[2] = k
      BY <3>1
    <3>6. <<v, k>> \in Meet(w, KeysOf(jobs))
      BY <3>3, <3>4, <3>5 DEF Meet
    <3> QED BY <1>1, <3>6
  <2> QED BY <2>2, <2>3
<1>4. ASSUME NEW v \in Workers PROVE HalfRight(v)' /\ RereadRight(v)'
  <2>1. CASE v = w
    <3>1. HalfRight(w)'
      BY <1>2 DEF HalfRight
    <3>2. RereadRight(w)'
      BY <1>1, <1>2 DEF RereadRight, Live
    <3> QED BY <2>1, <3>1, <3>2
  <2>2. CASE v # w
    <3>1. Now(v)' = Now(v) /\ pc'[v] = pc[v] /\ todo'[v] = todo[v]
      BY <1>2, <2>2 DEF Now
    <3>2. mixed \subseteq mixed'
      BY <1>1
    <3> QED BY <1>1, <3>1, <3>2 DEF ShowInv, HalfRight, RereadRight, Alone, Live
  <2> QED BY <2>1, <2>2
<1>5. ASSUME NEW k \in Key PROVE k \in astray' \/ Halfway(k)' \/ Right(k)'
  <2>1. Halfway(k) => Halfway(k)'
    <3> SUFFICES ASSUME NEW v \in Workers, pc[v] = "hash", Now(v).key = k PROVE Halfway(k)'
      BY DEF Halfway
    <3>1. v # w
      BY <1>1
    <3>2. pc'[v] = "hash" /\ Now(v)'.key = k
      BY <1>2, <3>1 DEF Now
    <3> QED BY <3>2 DEF Halfway
  <2> QED BY <1>1, <2>1 DEF ShowInv, Right, Live
<1> QED BY <1>3, <1>4, <1>5 DEF ShowInv

LEMMA RequestShows ==
    ASSUME TypeInv, ShowInv, NEW w \in Workers, Request(w)
    PROVE  ShowInv'
<1>1. CASE Discover(w)
  <2>1. PICK j \in Job : Start(w, "check", <<j>>)
    BY <1>1 DEF Discover
  <2> QED BY <2>1, OneJob, StartShows
<1>2. CASE PostPage(w)
  <2>1. PICK j \in Job : Start(w, "post", <<j>>)
    BY <1>2 DEF PostPage, Write
  <2> QED BY <2>1, OneJob, StartShows
<1>3. CASE Bulk(w)
  <2>1. PICK jobs \in Seq(Job) : Start(w, "bulk", jobs)
    BY <1>3, LoadedJobs DEF Bulk, Write
  <2> QED BY <2>1, StartShows
<1>4. CASE ReindexAll(w)
  <2>1. PICK scope \in {{x} : x \in Sites} \cup {Sites}, offset \in {0, Limit} :
          \E s \in Scans(scope, offset) : Start(w, "reindex", Scanned(s, scope))
    BY <1>4 DEF ReindexAll
  <2>2. PICK s \in Scans(scope, offset) : Start(w, "reindex", Scanned(s, scope))
    BY <2>1
  <2>3. offset \in Nat
    BY SizesAssumption
  <2>4. PICK jobs \in Seq(Job) : jobs = Scanned(s, scope)
    BY <2>3, Unpacked, ScanFacts
  <2>5. \A j \in Range(jobs) : Live(j.key) /\ j.content = page[j.key].content
    BY <2>3, <2>4, Unpacked, ScanFacts
  <2> QED BY <2>2, <2>4, <2>5, StartShows
<1>5. CASE DeletePage(w)
  <2>1. PICK k \in Key : /\ page' = [page EXCEPT ![k] = NoPage]
                         /\ mixed' = mixed \cup {m \in Workers \X {k} : On(m[1], k)}
                         /\ astray' = IF Busy(k) THEN astray ELSE astray \ {k}
    BY <1>5 DEF DeletePage
  <2>2. UNCHANGED <<pc, todo, last>> /\ \A v \in Workers : Now(v)' = Now(v)
    BY <1>5 DEF DeletePage, Now
  <2>3. page'[k] = NoPage /\ \A m \in Key \ {k} : page'[m] = page[m]
    BY <2>1 DEF TypeInv, Pages
  <2>4. ASSUME NEW v \in Workers, On(v, k) PROVE <<v, k>> \in mixed'
    <3>1. <<v, k>> \in Workers \X {k} /\ <<v, k>>[1] = v
      OBVIOUS
    <3> QED BY <2>1, <2>4, <3>1
  <2>5. mixed \subseteq mixed'
    BY <2>1
  <2>6. MixedTogether'
    BY <2>2, <2>5 DEF ShowInv, MixedTogether, On
  <2>7. ASSUME NEW v \in Workers PROVE HalfRight(v)'
    <3> SUFFICES ASSUME pc[v] = "hash", <<v, Now(v).key>> \notin mixed'
                 PROVE  /\ page'[Now(v).key] # NoPage
                        /\ page'[Now(v).key].content = Now(v).content
                        /\ last[Now(v).key] = Now(v).content
      BY <2>2 DEF HalfRight, Alone, Live
    <3>1. On(v, Now(v).key) /\ Now(v).key \in Key
      BY OnNow
    <3>2. Now(v).key # k
      BY <2>4, <3>1
    <3> QED BY <2>3, <2>5, <3>1, <3>2 DEF ShowInv, HalfRight, Alone, Live
  <2>8. ASSUME NEW v \in Workers PROVE RereadRight(v)'
    <3> SUFFICES ASSUME pc[v] = "reindex", NEW j \in Range(todo[v]), <<v, j.key>> \notin mixed'
                 PROVE  page'[j.key] # NoPage /\ page'[j.key].content = j.content
      BY <2>2 DEF RereadRight, Live
    <3>1. On(v, j.key) /\ j.key \in Key
      BY OnNow
    <3>2. j.key # k
      BY <2>4, <3>1
    <3> QED BY <2>3, <2>5, <3>1, <3>2 DEF ShowInv, RereadRight, Live
  <2>9. ASSUME NEW m \in Key PROVE m \in astray' \/ Halfway(m)' \/ Right(m)'
    <3>1. CASE m = k
      BY <2>3, <3>1 DEF Right, Live
    <3>2. CASE m # k
      BY <2>1, <2>2, <2>3, <3>2 DEF ShowInv, Halfway, Right, Live
    <3> QED BY <3>1, <3>2
  <2> QED BY <2>6, <2>7, <2>8, <2>9 DEF ShowInv
<1> QED BY <1>1, <1>2, <1>3, <1>4, <1>5 DEF Request

\* A step of a request touches the row of its current job only, and takes no
\* mark from another request.
LEMMA StepShape ==
    ASSUME TypeInv, NEW w \in Workers, Step(w) \/ Crash(w)
    PROVE  /\ pc[w] # "idle"
           /\ \A v \in Workers \ {w} : todo'[v] = todo[v] /\ pc'[v] = pc[v]
           /\ Range(todo'[w]) \subseteq Range(todo[w])
           /\ \A k \in Key : k # Now(w).key =>
                page'[k] = page[k] /\ last'[k] = last[k] /\ (k \in astray <=> k \in astray')
           /\ \A v \in Workers \ {w}, k \in Key : <<v, k>> \in mixed <=> <<v, k>> \in mixed'
           /\ pc'[w] # "idle" => mixed \subseteq mixed'
<1>1. pc[w] # "idle"
  BY DEF Step, Crash, Unchanged, Changed, CheckFails, DiscoverIndex, DiscoverNoVector,
         DiscoverFails, StoreHash, ListIndex, ListNoVector, ListFails
<1>2. /\ todo[w] \in Seq(Job) /\ todo[w] # <<>> /\ Now(w) = Head(todo[w]) /\ Now(w).key \in Key
      /\ Range(todo[w]) = {Head(todo[w])} \cup Range(Tail(todo[w]))
  BY <1>1, NowTypes, Pieces DEF TypeInv
<1>3. \/ todo' = todo
      \/ todo' = [todo EXCEPT ![w] = <<>>]
      \/ todo' = [todo EXCEPT ![w] = Tail(todo[w])]
  BY DEF Step, Crash, Unchanged, Changed, CheckFails, DiscoverIndex, DiscoverNoVector,
         DiscoverFails, StoreHash, ListIndex, ListNoVector, ListFails, Done, Goto, Advance
<1>4. pc' = pc \/ \E at \in PCs : pc' = [pc EXCEPT ![w] = at]
  BY DEF Step, Crash, Unchanged, Changed, CheckFails, DiscoverIndex, DiscoverNoVector,
         DiscoverFails, StoreHash, ListIndex, ListNoVector, ListFails, Done, Goto, Advance, PCs
<1>5. /\ Range(todo'[w]) \subseteq Range(todo[w])
      /\ \A v \in Workers \ {w} : todo'[v] = todo[v] /\ pc'[v] = pc[v]
  BY <1>2, <1>3, <1>4, EmptyList DEF TypeInv, Requests
<1>6. ASSUME NEW k \in Key, k # Now(w).key
      PROVE  page'[k] = page[k] /\ last'[k] = last[k] /\ (k \in astray <=> k \in astray')
  <2>1. page' = page \/ \E r : page' = [page EXCEPT ![Now(w).key] = r]
    BY DEF Step, Crash, Unchanged, Changed, CheckFails, DiscoverIndex, DiscoverNoVector,
           DiscoverFails, StoreHash, ListIndex, ListNoVector, ListFails, Stored
  <2>2. last' = last \/ last' = [last EXCEPT ![Now(w).key] = Now(w).content]
    BY DEF Step, Crash, Unchanged, Changed, CheckFails, DiscoverIndex, DiscoverNoVector,
           DiscoverFails, StoreHash, ListIndex, ListNoVector, ListFails, Reports, history
  <2>3. \/ astray' = astray \/ astray' = astray \cup {Now(w).key}
        \/ astray' = astray \ {Now(w).key}
    BY DEF Step, Crash, Unchanged, Changed, CheckFails, DiscoverIndex, DiscoverNoVector,
           DiscoverFails, StoreHash, ListIndex, ListNoVector, ListFails, Halved, history
  <2> QED BY <1>6, <2>1, <2>2, <2>3 DEF TypeInv, Pages
<1>7. \/ mixed' = mixed \/ mixed' = mixed \cup {<<w, Now(w).key>>}
      \/ mixed' = Rid(w) /\ pc'[w] = "idle"
  BY DEF Step, Crash, Unchanged, Changed, CheckFails, DiscoverIndex, DiscoverNoVector,
         DiscoverFails, StoreHash, ListIndex, ListNoVector, ListFails, Done, Advance, history,
         TypeInv, Requests
<1>8. ASSUME NEW v \in Workers \ {w}, NEW k \in Key
      PROVE  <<v, k>> \in mixed <=> <<v, k>> \in mixed'
  <2>1. <<v, k>>[1] = v /\ v # w /\ <<v, k>> # <<w, Now(w).key>>
    OBVIOUS
  <2> QED BY <1>7, <2>1 DEF Rid
<1> QED BY <1>1, <1>5, <1>6, <1>7, <1>8

\* So it is enough to look at the request itself and at the key of that job.
LEMMA OwnKeySuffices ==
    ASSUME TypeInv, TypeInv', ShowInv, NEW w \in Workers, Step(w) \/ Crash(w),
           HalfRight(w)', RereadRight(w)',
           NEW own \in Key, own = Now(w).key, own \in astray' \/ Halfway(own)' \/ Right(own)'
    PROVE  ShowInv'
<1>1. /\ pc[w] # "idle"
      /\ \A v \in Workers \ {w} : todo'[v] = todo[v] /\ pc'[v] = pc[v]
      /\ Range(todo'[w]) \subseteq Range(todo[w])
      /\ \A k \in Key : k # Now(w).key =>
           page'[k] = page[k] /\ last'[k] = last[k] /\ (k \in astray <=> k \in astray')
      /\ \A v \in Workers \ {w}, k \in Key : <<v, k>> \in mixed <=> <<v, k>> \in mixed'
      /\ pc'[w] # "idle" => mixed \subseteq mixed'
  BY StepShape
<1>2. On(w, Now(w).key) /\ Now(w).key \in Key
  BY <1>1, OnNow
<1>3. \A v \in Workers, k \in Key : On(v, k)' => On(v, k)
  BY <1>1 DEF On, KeysOf
<1>4. ASSUME NEW v \in Workers \ {w}, On(v, own) PROVE <<v, own>> \in mixed'
  BY <1>1, <1>2, <1>4 DEF ShowInv, MixedTogether
<1>5. MixedTogether'
  <2> SUFFICES ASSUME NEW k \in Key, NEW v \in Workers, NEW u \in Workers,
                      On(v, k)', On(u, k)', v # u
               PROVE  <<v, k>> \in mixed'
    BY DEF MixedTogether
  <2>1. <<v, k>> \in mixed
    BY <1>3 DEF ShowInv, MixedTogether
  <2>2. CASE v # w
    BY <1>1, <2>1, <2>2
  <2>3. CASE v = w
    <3>1. todo'[w] # <<>>
      BY <2>3, EmptyList DEF On
    <3>2. pc'[w] # "idle"
      BY <3>1 DEF TypeInv, Requests
    <3> QED BY <1>1, <2>1, <3>2
  <2> QED BY <2>2, <2>3
<1>6. ASSUME NEW v \in Workers, v # w PROVE HalfRight(v)' /\ RereadRight(v)'
  <2>1. Now(v)' = Now(v) /\ pc'[v] = pc[v] /\ todo'[v] = todo[v]
    BY <1>1, <1>6 DEF Now
  <2>2. HalfRight(v)'
    <3> SUFFICES ASSUME pc[v] = "hash", <<v, Now(v).key>> \notin mixed'
                 PROVE  /\ page'[Now(v).key] # NoPage
                        /\ page'[Now(v).key].content = Now(v).content
                        /\ last'[Now(v).key] = Now(v).content
      BY <2>1 DEF HalfRight, Alone, Live
    <3>1. On(v, Now(v).key) /\ Now(v).key \in Key
      BY OnNow
    <3>2. Now(v).key # own /\ <<v, Now(v).key>> \notin mixed
      BY <1>1, <1>4, <1>6, <3>1
    <3> QED BY <1>1, <3>1, <3>2 DEF ShowInv, HalfRight, Alone, Live
  <2>3. RereadRight(v)'
    <3> SUFFICES ASSUME pc[v] = "reindex", NEW j \in Range(todo[v]), <<v, j.key>> \notin mixed'
                 PROVE  page'[j.key] # NoPage /\ page'[j.key].content = j.content
      BY <2>1 DEF RereadRight, Live
    <3>1. On(v, j.key) /\ j.key \in Key
      BY OnNow
    <3>2. j.key # own /\ <<v, j.key>> \notin mixed
      BY <1>1, <1>4, <1>6, <3>1
    <3> QED BY <1>1, <3>1, <3>2 DEF ShowInv, RereadRight, Live
  <2> QED BY <2>2, <2>3
<1>7. ASSUME NEW k \in Key, k # own PROVE k \in astray' \/ Halfway(k)' \/ Right(k)'
  <2>1. Halfway(k) => Halfway(k)'
    <3> SUFFICES ASSUME NEW v \in Workers, pc[v] = "hash", Now(v).key = k PROVE Halfway(k)'
      BY DEF Halfway
    <3>1. v # w
      BY <1>7
    <3>2. pc'[v] = "hash" /\ Now(v)'.key = k
      BY <1>1, <3>1 DEF Now
    <3> QED BY <3>2 DEF Halfway
  <2> QED BY <1>1, <1>7, <2>1 DEF ShowInv, Right, Live
<1> QED BY <1>5, <1>6, <1>7 DEF ShowInv

LEMMA StepShows ==
    ASSUME TypeInv, TypeInv', ShowInv, NEW w \in Workers, Step(w) \/ Crash(w)
    PROVE  ShowInv'
<1>1. /\ pc[w] # "idle"
      /\ \A v \in Workers \ {w} : todo'[v] = todo[v] /\ pc'[v] = pc[v]
      /\ Range(todo'[w]) \subseteq Range(todo[w])
      /\ pc'[w] # "idle" => mixed \subseteq mixed'
  BY StepShape
<1>0. PICK k \in Key, c \in Contents : k = Now(w).key /\ c = Now(w).content /\ On(w, k)
  BY <1>1, NowTypes, OnNow DEF TypeInv
<1>2. /\ page[k] \in Page \cup {NoPage}
      /\ HashOf[c] \in Hashes /\ HashOf[c] # NoHash
  BY ContentAssumption DEF TypeInv, Pages
<1>15. /\ Upserted(page[k], c) # NoPage /\ Upserted(page[k], c).content = c
       /\ Upserted(page[k], c).hash = IF page[k] = NoPage THEN NoHash ELSE page[k].hash
       /\ page[k] # NoPage /\ page[k].content = c => Upserted(page[k], c) = page[k]
  <2> PICK r \in Page \cup {NoPage} : r = page[k]
    BY <1>2
  <2>1. Upserted(r, c) # NoPage /\ Upserted(r, c).content = c
    BY UpsertedRow
  <2>2. Upserted(r, c).hash = IF r = NoPage THEN NoHash ELSE r.hash
    BY UpsertedRow
  <2>3. ASSUME r # NoPage, r.content = c PROVE Upserted(r, c) = r
    BY <2>3, UpsertedRow
  <2> QED BY <2>1, <2>2, <2>3
<1>3. k \in astray \/ Halfway(k) \/ Right(k)
  BY DEF ShowInv
\* A visit of another request to the key is still halfway.
<1>4. ASSUME pc[w] # "hash", Halfway(k) PROVE Halfway(k)'
  <2>1. PICK v \in Workers : pc[v] = "hash" /\ Now(v).key = k
    BY <1>4 DEF Halfway
  <2>2. pc'[v] = "hash" /\ Now(v)'.key = k
    BY <1>1, <1>4, <2>1 DEF Now
  <2> QED BY <2>2 DEF Halfway
<1>5. pc'[w] \notin {"hash", "reindex"} => HalfRight(w)' /\ RereadRight(w)'
  BY DEF HalfRight, RereadRight
<1>6. page' = page /\ last' = last => (Right(k) => Right(k)')
  BY DEF Right, Live
<1>7. CASE Unchanged(w)
  <2>1. /\ pc[w] = "check" /\ pc'[w] = "idle" /\ UNCHANGED <<page, astray>> /\ Live(k)
        /\ page[k].hash = HashOf[c] /\ last' = [last EXCEPT ![k] = c]
    BY <1>7, <1>0 DEF Unchanged, Same, Done, Reports, Live, TypeInv, Requests
  <2>2. last'[k] = c
    BY <1>2, <2>1 DEF TypeInv, Pages
  <2>3. Right(k) => Right(k)'
    BY <1>2, <2>1, <2>2 DEF Right, Live
  <2> QED BY <1>3, <1>4, <1>5, <1>7, <2>1, <2>3, <1>0, OwnKeySuffices DEF Step
<1>8. CASE Changed(w) \/ CheckFails(w)
  <2>1. pc[w] = "check" /\ pc'[w] = "index" /\ UNCHANGED <<page, last, astray>>
    BY <1>8 DEF Changed, CheckFails, Goto, history, TypeInv, Requests
  <2> QED BY <1>3, <1>4, <1>5, <1>6, <1>8, <2>1, <1>0, OwnKeySuffices DEF Step
<1>9. CASE DiscoverIndex(w) \/ DiscoverNoVector(w)
  <2>1. pc'[w] = "hash" /\ todo' = todo /\ Now(w)' = Now(w)
    BY <1>9 DEF DiscoverIndex, DiscoverNoVector, Goto, Now, TypeInv, Requests
  <2>2. Halfway(k)'
    BY <1>0, <2>1 DEF Halfway
  <2>3. HalfRight(w)'
    <3>1. CASE DiscoverIndex(w)
      <4>1. page' = [page EXCEPT ![k] = Upserted(page[k], c)] /\ last' = [last EXCEPT ![k] = c]
        BY <3>1, <1>0 DEF DiscoverIndex, Stored, Reports
      <4>2. page'[k] = Upserted(page[k], c) /\ last'[k] = c
        BY <1>2, <4>1 DEF TypeInv, Pages
      <4>3. page'[k] # NoPage /\ page'[k].content = c
        BY <1>15, <4>2
      <4> QED BY <1>0, <2>1, <4>2, <4>3 DEF HalfRight, Live
    <3>2. CASE DiscoverNoVector(w)
      <4>1. <<w, k>> \in mixed'
        BY <3>2, <1>0 DEF DiscoverNoVector
      <4> QED BY <1>0, <2>1, <4>1 DEF HalfRight, Alone
    <3> QED BY <1>9, <3>1, <3>2
  <2>4. RereadRight(w)'
    BY <2>1 DEF RereadRight
  <2> QED BY <1>9, <2>2, <2>3, <2>4, <1>0, OwnKeySuffices DEF Step
<1>10. CASE DiscoverFails(w) \/ Crash(w)
  <2>1. /\ pc'[w] = "idle" /\ UNCHANGED <<page, last>>
        /\ astray' = IF pc[w] = "hash" THEN astray \cup {k} ELSE astray
    BY <1>10, <1>0 DEF DiscoverFails, Crash, Done, Halved, TypeInv, Requests
  <2>2. k \in astray' \/ Halfway(k)' \/ Right(k)'
    BY <1>3, <1>4, <1>6, <2>1
  <2> QED BY <1>5, <1>10, <2>1, <2>2, <1>0, OwnKeySuffices DEF Step
<1>11. CASE StoreHash(w)
  <2>1. /\ pc[w] = "hash" /\ pc'[w] = "idle" /\ last' = last
        /\ page' = IF Live(k) THEN [page EXCEPT ![k].hash = HashOf[c]] ELSE page
        /\ astray' = IF Alone(w) THEN astray \ {k} ELSE astray \cup {k}
    BY <1>11, <1>0 DEF StoreHash, Done, TypeInv, Requests
  <2>2. CASE Alone(w)
    <3>1. Live(k) /\ page[k].content = c /\ last[k] = c
      BY <1>0, <2>1, <2>2 DEF ShowInv, HalfRight
    <3>2. page' = [page EXCEPT ![k] = [page[k] EXCEPT !.hash = HashOf[c]]]
      BY <2>1, <3>1
    <3>3. page'[k] = [page[k] EXCEPT !.hash = HashOf[c]]
      BY <1>2, <3>2 DEF TypeInv, Pages
    <3>4. page'[k].content = c /\ page'[k].hash = HashOf[c]
      BY <1>2, <3>1, <3>3, RowTypes DEF Live
    <3>5. Right(k)'
      BY <2>1, <3>1, <3>4 DEF Right
    <3> QED BY <1>5, <1>11, <2>1, <3>5, <1>0, OwnKeySuffices DEF Step
  <2>3. CASE ~Alone(w)
    BY <1>5, <1>11, <2>1, <2>3, <1>0, OwnKeySuffices DEF Step
  <2> QED BY <2>2, <2>3
<1>12. CASE ListIndex(w)
  <2>1. /\ pc[w] \in {"post", "bulk", "reindex"} /\ (pc'[w] = "idle" \/ pc'[w] = pc[w])
        /\ page' = [page EXCEPT ![k] = Upserted(page[k], c)]
        /\ last' = IF pc[w] = "reindex" THEN last ELSE [last EXCEPT ![k] = c]
        /\ astray' = IF Alone(w) /\ (pc[w] = "reindex" \/ ~Hashed(k)) THEN astray
                     ELSE astray \cup {k}
    BY <1>12, <1>0 DEF ListIndex, Stored, Advance, Reports, TypeInv, Requests
  <2>2. page'[k] = Upserted(page[k], c) /\ \A m \in Key \ {k} : page'[m] = page[m]
    BY <1>2, <2>1 DEF TypeInv, Pages
  <2>3. /\ page'[k] # NoPage /\ page'[k].content = c
        /\ page'[k].hash = IF page[k] = NoPage THEN NoHash ELSE page[k].hash
        /\ page[k] # NoPage /\ page[k].content = c => page'[k] = page[k]
    BY <1>15, <2>2
  <2>4. last'[k] = IF pc[w] = "reindex" THEN last[k] ELSE c
    BY <1>2, <2>1 DEF TypeInv, Pages
  <2>5. Now(w) \in Range(todo[w])
    BY <1>1, NowTypes, Pieces DEF TypeInv
  <2>6. HalfRight(w)'
    BY <2>1 DEF HalfRight
  <2>7. RereadRight(w)'
    <3> SUFFICES ASSUME pc'[w] = "reindex", NEW j \in Range(todo'[w]), <<w, j.key>> \notin mixed'
                 PROVE  page'[j.key] # NoPage /\ page'[j.key].content = j.content
      BY DEF RereadRight, Live
    <3>1. j \in Range(todo[w]) /\ <<w, j.key>> \notin mixed /\ pc[w] = "reindex"
      BY <1>1, <2>1
    <3>2. j.key \in Key
      BY <1>1, <3>1, OnNow
    <3>3. page[j.key] # NoPage /\ page[j.key].content = j.content
      BY <3>1 DEF ShowInv, RereadRight, Live
    <3>4. CASE j.key # k
      BY <2>2, <3>2, <3>3, <3>4
    <3>5. CASE j.key = k
      <4>1. page[k].content = c
        BY <1>0, <2>5, <3>1, <3>5 DEF ShowInv, RereadRight
      <4> QED BY <2>3, <3>3, <3>5, <4>1
    <3> QED BY <3>4, <3>5
  <2>8. k \in astray' \/ Halfway(k)' \/ Right(k)'
    <3>1. CASE ~(Alone(w) /\ (pc[w] = "reindex" \/ ~Hashed(k)))
      BY <2>1, <3>1
    <3>2. CASE Alone(w) /\ pc[w] = "reindex"
      <4>1. page[k] # NoPage /\ page[k].content = c
        BY <1>0, <2>5, <3>2 DEF ShowInv, RereadRight, Alone, Live
      <4>2. Right(k) => Right(k)'
        BY <2>3, <2>4, <3>2, <4>1 DEF Right, Live
      <4> QED BY <1>3, <1>4, <2>1, <3>2, <4>2
    <3>3. CASE pc[w] # "reindex" /\ ~Hashed(k)
      <4>1. page'[k].hash = NoHash
        BY <2>3, <3>3 DEF Hashed, Live
      <4> QED BY <2>3, <2>4, <3>3, <4>1 DEF Right
    <3> QED BY <3>1, <3>2, <3>3
  <2> QED BY <1>12, <2>6, <2>7, <2>8, <1>0, OwnKeySuffices DEF Step
<1>13. CASE ListNoVector(w) \/ ListFails(w)
  <2>1. /\ pc[w] \in {"post", "bulk", "reindex"} /\ (pc'[w] = "idle" \/ pc'[w] = pc[w])
        /\ UNCHANGED <<page, last, astray>>
    BY <1>13 DEF ListNoVector, ListFails, Advance, Done, TypeInv, Requests
  <2>2. HalfRight(w)'
    BY <2>1 DEF HalfRight
  <2>3. RereadRight(w)'
    BY <1>1, <2>1 DEF ShowInv, RereadRight, Live
  <2>4. k \in astray' \/ Halfway(k)' \/ Right(k)'
    BY <1>3, <1>4, <1>6, <2>1
  <2> QED BY <1>13, <2>2, <2>3, <2>4, <1>0, OwnKeySuffices DEF Step
<1> QED BY <1>7, <1>8, <1>9, <1>10, <1>11, <1>12, <1>13 DEF Step

LEMMA ShowInvariant == Spec => []ShowInv
<1>1. Init => ShowInv
  BY EmptyList DEF Init, ShowInv, MixedTogether, HalfRight, RereadRight, Right, On, Live
<1>2. ASSUME ShowInv, UNCHANGED vars PROVE ShowInv'
  BY <1>2 DEF ShowInv, MixedTogether, HalfRight, RereadRight, Right, Halfway, On, Live, Alone,
              Now, vars, history
<1>3. TypeInv /\ TypeInv' /\ ShowInv /\ [Next]_vars => ShowInv'
  BY <1>2, StepShows, RequestShows DEF Next
<1> QED BY <1>1, <1>3, TypeInvariant, PTL DEF Spec

\* The index shows of a page what was last reported of it, and the hash that
\* tells the next visit so belongs to it, but for the named mishaps between
\* discover_page's three transactions, and until a visit goes through by itself.
THEOREM LastReportsAreShown == Spec => []ShowsLastReport
<1>1. ShowInv => ShowsLastReport
  BY DEF ShowInv, ShowsLastReport, Right
<1> QED BY <1>1, ShowInvariant, PTL
=============================================================================
