----------------------- MODULE LambdaInstancesProofs -----------------------
(***************************************************************************)
(* Theorems about LambdaInstances, for any instances, sites, settings,     *)
(* redirects and bounds: what an instance keeps in memory agrees with the  *)
(* database unless the histories say why it does not.                      *)
(***************************************************************************)
EXTENDS LambdaInstances, NaturalsInduction, WellFoundedInduction, TLAPS

(***************************************************************************)
(* Settings over settings.                                                 *)
(***************************************************************************)
InBounds == [Names -> Bounded]

LEMMA UnsetIsNoValue == Unset \notin Bounded /\ Bounded \subseteq Values
BY ConfigAssumption

LEMMA OverSettings ==
    ASSUME NEW base \in Settings, NEW set \in Settings
    PROVE  Over(base, set) \in Settings
BY DEF Over, Settings

LEMMA OverInBounds ==
    ASSUME NEW base \in InBounds, NEW set \in Settings
    PROVE  Over(base, set) \in InBounds
BY DEF Over, Settings, InBounds

\* Setting b, then c, is setting b with c over it.
LEMMA OverOver ==
    ASSUME NEW a, NEW b \in Settings, NEW c \in Settings
    PROVE  Over(Over(a, b), c) = Over(a, Over(b, c))
BY DEF Over, Settings

\* What a PUT sets before it is refused is within the bounds.
LEMMA AppliedInBounds ==
    ASSUME NEW body \in Bodies
    PROVE  Applied(body) \in Settings
<1> SUFFICES ASSUME NEW n \in Accepted(body) PROVE body[n] \in Bounded \cup {Unset}
  BY DEF Applied, Settings
<1>1. n \in Names
  BY DEF Accepted
<1>2. PICK b \in DOMAIN Keys : Keys[b] = n
  BY <1>1 DEF Names, Range
<1>3. b \in Nat /\ b <= b
  BY ConfigAssumption
<1> QED BY <1>2, <1>3 DEF Accepted

\* And a PUT with nothing out of bounds sets all it carries.
LEMMA LegalIsApplied ==
    ASSUME NEW body \in Bodies, Legal(body)
    PROVE  Applied(body) = body /\ body \in Settings
<1>1. body \in [Names -> Values \cup {Unset}]
  BY DEF Bodies
<1>2. body \in Settings
  BY <1>1 DEF Legal, Settings
<1>3. ASSUME NEW a \in DOMAIN Keys PROVE Keys[a] \in Names
  BY DEF Names, Range
<1>4. ASSUME NEW n \in Names, body[n] # Unset PROVE n \in Accepted(body)
  BY <1>3, <1>4 DEF Accepted, Legal
<1>5. ASSUME NEW n \in Names PROVE Applied(body)[n] = body[n]
  <2>1. CASE body[n] # Unset
    BY <1>4, <2>1 DEF Applied
  <2>2. CASE body[n] = Unset
    BY <2>2 DEF Applied
  <2> QED BY <2>1, <2>2
<1>6. Applied(body) = [n \in Names |-> Applied(body)[n]] /\ body = [n \in Names |-> body[n]]
  BY <1>1 DEF Applied
<1> QED BY <1>2, <1>5, <1>6

(***************************************************************************)
(* Types, and settings within bounds in every memory.                      *)
(***************************************************************************)
Places == {"down", "config", "load", "idle", "persist"}
TypeInv ==
    /\ TypeOK
    /\ globals \in [Instances -> InBounds]

LEMMA UnsettledType == Unsettled \in Settings /\ NoOverrides \in [Sites -> Settings]
BY DEF Unsettled, Settings, NoOverrides

LEMMA EmptyType == Empty \in Redirects
BY DEF Empty, Redirects

LEMMA PendingType ==
    ASSUME NEW o \in Owners, NEW set \in Settings
    PROVE  [owner |-> o, set |-> set] \in [owner : Owners, set : Settings]
OBVIOUS

LEMMA NoPendingType == NoPending \in [owner : Owners, set : Settings]
BY UnsettledType DEF NoPending, Owners

LEMMA TypesInit == Init => TypeInv
<1> SUFFICES ASSUME Init PROVE TypeInv
  OBVIOUS
<1>1. Default \in InBounds /\ InBounds \subseteq [Names -> Values]
  BY ConfigAssumption DEF InBounds
<1> QED BY <1>1, UnsettledType, EmptyType, NoPendingType DEF Init, TypeInv, TypeOK

\* The steps of a cold start.
LEMMA TypesStart ==
    ASSUME TypeInv, NEW i \in Instances, Start(i)
    PROVE  TypeInv'
<1> USE DEF Goto, aliasVars, configVars
<1>1. InBounds \subseteq [Names -> Values]
  BY UnsetIsNoValue DEF InBounds
<1>2. CASE StartPool(i)
  BY <1>2 DEF TypeInv, TypeOK, StartPool
<1>3. CASE StartFails(i)
  BY <1>3 DEF TypeInv, TypeOK, StartFails
<1>4. CASE LoadConfig(i)
  <2>1. Global \in Owners /\ Sites \subseteq Owners
    BY DEF Owners
  <2>2. conf[Global] \in Settings /\ [s \in Sites |-> conf[s]] \in [Sites -> Settings]
    BY <2>1 DEF TypeInv, TypeOK
  <2>3. Over(globals[i], conf[Global]) \in InBounds
    BY <2>2, OverInBounds DEF TypeInv
  <2>4. globals' \in [Instances -> InBounds] /\ globals' \in [Instances -> [Names -> Values]]
    BY <1>1, <1>4, <2>3 DEF TypeInv, LoadConfig
  <2> QED BY <1>4, <2>2, <2>4 DEF TypeInv, TypeOK, LoadConfig
<1>5. CASE LoadConfigFails(i)
  BY <1>5 DEF TypeInv, TypeOK, LoadConfigFails
<1>6. CASE LoadAliases(i)
  <2>1. PICK c \in Redirects : cache' = [cache EXCEPT ![i] = c]
    BY <1>6 DEF LoadAliases, Loads
  <2> QED BY <1>6, <2>1 DEF TypeInv, TypeOK, LoadAliases
<1>7. CASE LoadAliasesFails(i)
  BY <1>7, EmptyType DEF TypeInv, TypeOK, LoadAliasesFails
<1> QED BY <1>2, <1>3, <1>4, <1>5, <1>6, <1>7 DEF Start

\* The requests that change redirects.
LEMMA TypesWrite ==
    ASSUME TypeInv, NEW i \in Instances, NEW so \in Sites \X Olds, NEW t \in Targets \cup {NoPath},
           WriteAlias(i, so, t)
    PROVE  TypeInv'
<1>1. writer' \in Instances \cup {Unset} /\ at' \in [Instances -> Places]
  BY DEF TypeInv, TypeOK, WriteAlias, Committed, Goto, Places
<1>2. /\ UNCHANGED <<cache, configVars, pool, stops>>
      /\ behind' \in [Instances -> BOOLEAN] /\ writes' = writes + 1
      /\ aliases' = [aliases EXCEPT ![so] = t]
  BY DEF WriteAlias, AdminWrite
<1> QED BY <1>1, <1>2 DEF TypeInv, TypeOK, Places, configVars

\* The requests that change settings.
LEMMA TypesConfig ==
    ASSUME TypeInv, NEW i \in Instances,
           \/ \E owner \in Owners, body \in Bodies : PutConfig(i, owner, body)
           \/ RejectConfig(i) \/ Persist(i) \/ PersistFails(i)
    PROVE  TypeInv'
<1> USE DEF Goto, aliasVars, configVars
<1>1. InBounds \subseteq [Names -> Values]
  BY UnsetIsNoValue DEF InBounds
<1>2. ASSUME NEW owner \in Owners, NEW body \in Bodies, PutConfig(i, owner, body) PROVE TypeInv'
  <2>1. Applied(body) \in Settings /\ body \in Settings
    BY <1>2, LegalIsApplied DEF PutConfig
  <2>2. Over(globals[i], Applied(body)) \in InBounds
    BY <2>1, OverInBounds DEF TypeInv
  <2>3. globals' \in [Instances -> InBounds] /\ globals' \in [Instances -> [Names -> Values]]
    BY <1>1, <1>2, <2>2 DEF TypeInv, PutConfig
  <2>4. overrides' \in [Instances -> [Sites -> Settings]]
    <3>1. CASE owner = Global
      BY <1>2, <3>1 DEF TypeInv, TypeOK, PutConfig
    <3>2. CASE owner # Global
      <4>1. owner \in Sites /\ overrides[i][owner] \in Settings
        BY <3>2 DEF Owners, TypeInv, TypeOK
      <4>2. Over(overrides[i][owner], body) \in Settings
        BY <2>1, <4>1, OverSettings
      <4> QED BY <1>2, <3>2, <4>1, <4>2 DEF TypeInv, TypeOK, PutConfig
    <3> QED BY <3>1, <3>2
  <2>5. pending' \in [Instances -> [owner : Owners, set : Settings]]
    BY <1>2, <2>1 DEF TypeInv, TypeOK, PutConfig
  <2> QED BY <1>2, <2>3, <2>4, <2>5 DEF TypeInv, TypeOK, PutConfig, AdminWrite
<1>3. CASE RejectConfig(i)
  <2>1. PICK body \in Bodies : globals' = [globals EXCEPT ![i] = Over(@, Applied(body))]
    BY <1>3 DEF RejectConfig
  <2>2. Over(globals[i], Applied(body)) \in InBounds
    BY AppliedInBounds, OverInBounds DEF TypeInv
  <2>3. globals' \in [Instances -> InBounds] /\ globals' \in [Instances -> [Names -> Values]]
    BY <1>1, <2>1, <2>2 DEF TypeInv
  <2> QED BY <1>3, <2>3 DEF TypeInv, TypeOK, RejectConfig, AdminWrite
<1>4. CASE Persist(i)
  <2>1. pending[i].set \in Settings
    BY DEF TypeInv, TypeOK
  <2>2. ASSUME NEW o \in Owners PROVE Over(conf[o], pending[i].set) \in Settings
    BY <2>1, OverSettings DEF TypeInv, TypeOK
  <2>3. conf' \in [Owners -> Settings]
    BY <1>4, <2>2 DEF TypeInv, TypeOK, Persist
  <2>4. apart' \in [Instances -> BOOLEAN]
    BY <1>4, Zenon DEF Persist
  <2> QED BY <1>4, <2>3, <2>4, NoPendingType DEF TypeInv, TypeOK, Persist
<1>5. CASE PersistFails(i)
  BY <1>5, NoPendingType DEF TypeInv, TypeOK, PersistFails
<1> QED BY <1>2, <1>3, <1>4, <1>5

LEMMA TypesNext == TypeInv /\ [Next]_vars => TypeInv'
<1> SUFFICES ASSUME TypeInv, [Next]_vars PROVE TypeInv'
  OBVIOUS
<1>1. CASE UNCHANGED vars
  BY <1>1 DEF TypeInv, TypeOK, vars, aliasVars, configVars
<1>2. ASSUME NEW i \in Instances, Start(i) PROVE TypeInv'
  BY <1>2, TypesStart
<1>3. ASSUME NEW i \in Instances, Change(i) PROVE TypeInv'
  <2>1. CASE PostAlias(i)
    BY <2>1, TypesWrite DEF PostAlias
  <2>2. CASE DeleteAlias(i)
    BY <2>2, TypesWrite DEF DeleteAlias
  <2>3. CASE PutHotPath(i)
    BY <2>3 DEF TypeInv, TypeOK, PutHotPath, AdminWrite, Goto, aliasVars, configVars
  <2> QED BY <1>3, <2>1, <2>2, <2>3, TypesConfig DEF Change
<1>4. ASSUME NEW i \in Instances, Stop(i) PROVE TypeInv'
  <2>1. Default \in InBounds /\ InBounds \subseteq [Names -> Values]
    BY ConfigAssumption DEF InBounds
  <2>2. globals' \in [Instances -> InBounds] /\ globals' \in [Instances -> [Names -> Values]]
    BY <1>4, <2>1 DEF TypeInv, Stop
  <2> QED BY <1>4, <2>2, UnsettledType, EmptyType, NoPendingType DEF TypeInv, TypeOK, Stop, Goto
<1> QED BY <1>1, <1>2, <1>3, <1>4 DEF Next

(* Every variable has its type, whatever the constants: the tables, what   *)
(* each instance keeps of them, and the PUT it has yet to persist.         *)
THEOREM InstanceTypes == Spec => []TypeOK
<1>1. Spec => []TypeInv
  BY TypesInit, TypesNext, PTL DEF Spec
<1>2. TypeInv => TypeOK
  BY DEF TypeInv
<1> QED BY <1>1, <1>2, PTL

(* No instance runs with a setting out of its bounds, not even after a PUT *)
(* /admin/config that was refused half-way, and no cold start loads one:   *)
(* _CONFIG_BOUNDS is checked setting by setting before each is set.        *)
THEOREM SettingsStayInBounds == Spec => []SettingsInBounds
<1>1. Spec => []TypeInv
  BY TypesInit, TypesNext, PTL DEF Spec
<1>2. TypeInv => SettingsInBounds
  <2> SUFFICES ASSUME TypeInv, NEW i \in Instances, NEW s \in Sites
               PROVE  Effective(i, s) \in InBounds
    BY DEF SettingsInBounds, InBounds
  <2>1. globals[i] \in InBounds /\ ReadPerSite(overrides[i][s]) \in Settings
    BY DEF TypeInv, TypeOK, ReadPerSite, Settings
  <2> QED BY <2>1, OverInBounds DEF Effective
<1> QED BY <1>1, <1>2, PTL

(***************************************************************************)
(* Redirects.  A cache that a load of the table as it is could have filled *)
(* answers as the table does; an empty one leaves the answer to the table, *)
(* or to the failure of its lookup.                                        *)
(***************************************************************************)
\* The least of some positions of a sequence, which FirstHit chooses.
LEMMA LeastHit ==
    ASSUME NEW H, H \subseteq Nat, H # {}
    PROVE  (CHOOSE n \in H : \A m \in H : n <= m) \in H
<1> DEFINE Less == {ss \in Nat \X Nat : ss[1] < ss[2]}
<1>1. IsWellFoundedOn(Less, Nat)
  BY NatLessThanWellFounded DEF OpToRel
<1>2. PICK x \in H : \A y \in H : <<y, x>> \notin Less
  <2> HIDE DEF Less
  <2> QED BY <1>1, WFMin
<1>3. ASSUME NEW y \in H PROVE x <= y
  <2>1. x \in Nat /\ y \in Nat
    OBVIOUS
  <2>2. <<y, x>> \notin Less
    BY <1>2
  <2>3. ~(y < x)
    BY <2>1, <2>2
  <2> QED BY <2>1, <2>3
<1> QED BY <1>3

\* What a loaded cache holds for a site and some forms is in the table, and
\* it holds something when the table does.
LEMMA LoadedRows ==
    ASSUME NEW i \in Instances, cache[i] \in Loads, NEW s \in Sites, NEW forms \in Asked
    PROVE  /\ Cached(i, s, forms) \subseteq Rows(s, forms)
           /\ Cached(i, s, forms) = {} => Rows(s, forms) = {}
<1>1. ASSUME NEW f \in Forms
      PROVE  /\ Rows(s, {f}) = {} => cache[i][<<s, f>>] = NoPath
             /\ Rows(s, {f}) # {} => cache[i][<<s, f>>] \in Rows(s, {f})
  BY DEF Loads
<1>2. forms \subseteq Forms
  BY DEF Asked
<1>3. ASSUME NEW f \in forms PROVE Rows(s, {f}) \subseteq Rows(s, forms)
  BY DEF Rows
<1>4. ASSUME NEW r \in Rows(s, forms) PROVE \E f \in forms : r \in Rows(s, {f})
  BY DEF Rows
<1>5. \A r \in Rows(s, forms) : r # NoPath
  BY DEF Rows
<1>6. Cached(i, s, forms) \subseteq Rows(s, forms)
  BY <1>1, <1>2, <1>3 DEF Cached
<1>7. ASSUME NEW r \in Rows(s, forms) PROVE Cached(i, s, forms) # {}
  <2>1. PICK f \in forms : r \in Rows(s, {f})
    BY <1>4
  <2>2. cache[i][<<s, f>>] \in Rows(s, {f})
    BY <1>1, <1>2, <2>1
  <2>3. cache[i][<<s, f>>] # NoPath
    BY <1>3, <1>5, <2>2
  <2> QED BY <2>3 DEF Cached
<1> QED BY <1>6, <1>7

Fresh(i) == cache[i] = Empty \/ cache[i] \in Loads

LEMMA FreshIsFaithful ==
    ASSUME NEW i \in Instances, Fresh(i)
    PROVE  Faithful(i)
<1> SUFFICES ASSUME NEW scope \in Scopes, NEW forms \in Asked, NEW a \in Answers(i, scope, forms)
             PROVE  a \in InTable(scope, forms) \/ (a = NoPath /\ cache[i] = Empty)
  BY DEF Faithful
<1>1. scope \in Seq(Sites)
  BY AliasAssumption
<1>2. DOMAIN scope \subseteq Nat /\ \A n \in DOMAIN scope : scope[n] \in Sites
  BY <1>1
<1>3. Range(scope) = {scope[n] : n \in DOMAIN scope}
  BY DEF Range
<1>4. ASSUME cache[i] \in Loads PROVE FirstHit(i, scope, forms) \subseteq InTable(scope, forms)
  <2> DEFINE hits == {n \in DOMAIN scope : Cached(i, scope[n], forms) # {}}
             first == CHOOSE n \in hits : \A m \in hits : n <= m
             found == UNION {Rows(s, forms) : s \in Range(scope)}
  <2>1. CASE hits = {}
    <3>1. ASSUME NEW s \in Range(scope) PROVE Rows(s, forms) = {}
      BY <1>2, <1>3, <1>4, <2>1, LoadedRows
    <3>2. found = {}
      BY <3>1
    <3>3. InTable(scope, forms) = {NoPath}
      BY <3>2 DEF InTable, OrNone
    <3> QED BY <2>1, <3>3 DEF FirstHit
  <2>2. CASE hits # {}
    <3>1. hits \subseteq Nat
      BY <1>2
    <3>2. first \in hits
      <4> HIDE DEF hits
      <4> QED BY <2>2, <3>1, LeastHit
    <3>3. first \in DOMAIN scope /\ Cached(i, scope[first], forms) # {}
      <4> HIDE DEF first
      <4> QED BY <3>2
    <3> HIDE DEF first
    <3>4. scope[first] \in Sites /\ scope[first] \in Range(scope)
      BY <1>2, <1>3, <3>3
    <3>5. Cached(i, scope[first], forms) \subseteq Rows(scope[first], forms)
      BY <1>4, <3>4, LoadedRows
    <3>6. Cached(i, scope[first], forms) \subseteq found /\ found # {}
      BY <3>3, <3>4, <3>5
    <3>7. InTable(scope, forms) = found
      BY <3>6 DEF InTable, OrNone
    <3>8. FirstHit(i, scope, forms) = Cached(i, scope[first], forms)
      BY <2>2 DEF FirstHit, first
    <3> QED BY <3>6, <3>7, <3>8
  <2> QED BY <2>1, <2>2
<1>5. CASE cache[i] = Empty
  BY <1>5 DEF Answers, Selected
<1>6. CASE cache[i] \in Loads /\ cache[i] # Empty
  BY <1>4, <1>6 DEF Answers
<1> QED BY <1>5, <1>6 DEF Fresh

(***************************************************************************)
(* Until an alias is written, a cache stays empty or as a load could have  *)
(* filled it; the writer of the last one keeps such a cache once it has    *)
(* reloaded, because after every later write another instance is the       *)
(* writer, or none is.                                                     *)
(***************************************************************************)
CacheInv ==
    \A i \in Instances :
        /\ ~behind[i] => Fresh(i)
        /\ writer = i => at[i] = "load" \/ Fresh(i)

\* A step that leaves the table alone leaves alone what a load may find.
LEMMA SameTable ==
    ASSUME UNCHANGED aliases
    PROVE  /\ Loads' = Loads
           /\ \A i \in Instances : cache'[i] = cache[i] => (Fresh(i) => Fresh(i)')
<1>1. Loads' = Loads
  BY DEF Loads, Rows
<1> QED BY <1>1 DEF Fresh

LEMMA CacheNext == TypeInv /\ CacheInv /\ [Next]_vars => CacheInv'
<1> SUFFICES ASSUME TypeInv, CacheInv, [Next]_vars PROVE CacheInv'
  OBVIOUS
<1> USE DEF Goto, aliasVars, configVars
<1>1. ASSUME UNCHANGED aliasVars, \A j \in Instances : at[j] = "load" => at'[j] = "load"
      PROVE  CacheInv'
  BY <1>1, SameTable DEF CacheInv
<1>2. CASE UNCHANGED vars
  BY <1>1, <1>2 DEF vars
<1>3. ASSUME NEW i \in Instances,
             \/ StartPool(i) \/ StartFails(i) \/ LoadConfig(i) \/ LoadConfigFails(i)
             \/ PutHotPath(i) \/ \E owner \in Owners, body \in Bodies : PutConfig(i, owner, body)
             \/ RejectConfig(i) \/ Persist(i) \/ PersistFails(i)
      PROVE  CacheInv'
  <2>1. UNCHANGED aliasVars
    BY <1>3 DEF StartPool, StartFails, LoadConfig, LoadConfigFails, PutHotPath, PutConfig,
                RejectConfig, Persist, PersistFails
  <2>2. at[i] # "load" /\ \A j \in Instances \ {i} : at'[j] = at[j]
    BY <1>3 DEF StartPool, StartFails, LoadConfig, LoadConfigFails, PutHotPath, PutConfig,
                RejectConfig, Persist, PersistFails, AdminWrite, TypeInv, TypeOK
  <2> QED BY <1>1, <2>1, <2>2
<1>4. ASSUME NEW i \in Instances, LoadAliases(i) \/ LoadAliasesFails(i) \/ Stop(i) PROVE CacheInv'
  <2>1. UNCHANGED <<aliases, writer>>
    BY <1>4 DEF LoadAliases, LoadAliasesFails, Stop
  <2>2. Fresh(i)'
    <3>1. CASE LoadAliases(i)
      BY <2>1, <3>1, SameTable DEF LoadAliases, Fresh, TypeInv, TypeOK
    <3>2. CASE LoadAliasesFails(i) \/ Stop(i)
      BY <3>2 DEF LoadAliasesFails, Stop, Fresh, TypeInv, TypeOK
    <3> QED BY <1>4, <3>1, <3>2
  <2>3. \A j \in Instances \ {i} : cache'[j] = cache[j] /\ at'[j] = at[j] /\ behind'[j] = behind[j]
    BY <1>4 DEF LoadAliases, LoadAliasesFails, Stop, TypeInv, TypeOK
  <2> QED BY <2>1, <2>2, <2>3, SameTable DEF CacheInv
<1>5. ASSUME NEW i \in Instances, PostAlias(i) \/ DeleteAlias(i) PROVE CacheInv'
  <2>1. /\ \/ writer' = i /\ at'[i] = "load"
           \/ writer' = Unset
        /\ \A j \in Instances : behind'[j]
    BY <1>5 DEF PostAlias, DeleteAlias, WriteAlias, Committed, TypeInv, TypeOK
  <2> QED BY <2>1, AliasAssumption DEF CacheInv
<1> QED BY <1>2, <1>3, <1>4, <1>5 DEF Next, Start, Change

LEMMA CacheAlways == Spec => [](TypeInv /\ CacheInv)
<1>1. Init => CacheInv
  BY DEF Init, CacheInv, Fresh
<1> QED BY <1>1, TypesInit, TypesNext, CacheNext, PTL DEF Spec

(* Unless a redirect was written since an instance loaded them,            *)
(* _alias_lookup answers with the table's, of the sites in the key's       *)
(* scope, and misses one only when ALIAS_CACHE is empty and the live       *)
(* SELECT fails: load_alias_cache has run on the table as it is.           *)
THEOREM StaleOnlyWhenBehind == Spec => []StaleOnlyIfBehind
<1>1. CacheInv => StaleOnlyIfBehind
  BY FreshIsFaithful DEF CacheInv, StaleOnlyIfBehind
<1> QED BY <1>1, CacheAlways, PTL

(* The instance that acknowledged the last write of a redirect goes by it, *)
(* even if its reload failed or it was stopped and started again: POST and *)
(* DELETE /admin/aliases load the cache after the commit and before the    *)
(* answer, and a load that fails leaves it empty, never as it was.         *)
THEOREM WritersSeeTheirWrites == Spec => []WriterSeesItsWrite
<1>1. CacheInv => WriterSeesItsWrite
  BY FreshIsFaithful DEF CacheInv, WriterSeesItsWrite
<1> QED BY <1>1, CacheAlways, PTL

(***************************************************************************)
(* Configuration.  An instance that is not apart has over its defaults     *)
(* what nav_config has, and, between a PUT and its commit, what the commit *)
(* is about to write.  A restart would find the same, for setting a value  *)
(* over another loses nothing a later load would bring back.               *)
(***************************************************************************)
Restored(i) ==
    /\ globals[i] = Over(Default, conf[Global])
    /\ \A s \in Sites : overrides[i][s] = conf[s]
Ahead(i) ==
    LET p == pending[i]
    IN  /\ globals[i] = Over(Over(Default, conf[Global]), p.set)
        /\ \A s \in Sites : overrides[i][s] = IF s = p.owner THEN Over(conf[s], p.set) ELSE conf[s]
ConfigInv ==
    \A i \in Instances :
        /\ at[i] \in {"down", "config"} => globals[i] = Default
        /\ at[i] \in {"load", "idle"} /\ ~apart[i] => Restored(i)
        /\ at[i] = "persist" /\ ~apart[i] => Ahead(i)

\* What one instance keeps depends on nothing another one changes.
LEMMA OthersKeep ==
    ASSUME ConfigInv, NEW j \in Instances, UNCHANGED conf,
           at'[j] = at[j], globals'[j] = globals[j], overrides'[j] = overrides[j],
           pending'[j] = pending[j], apart'[j] = apart[j]
    PROVE  /\ at'[j] \in {"down", "config"} => globals'[j] = Default
           /\ at'[j] \in {"load", "idle"} /\ ~apart'[j] => Restored(j)'
           /\ at'[j] = "persist" /\ ~apart'[j] => Ahead(j)'
BY DEF ConfigInv, Restored, Ahead

\* Steps of an instance, with the table alone: what it keeps itself suffices.
LEMMA OwnKeeps ==
    ASSUME TypeInv, ConfigInv, NEW i \in Instances, UNCHANGED conf,
           \A j \in Instances \ {i} :
               /\ at'[j] = at[j] /\ globals'[j] = globals[j] /\ overrides'[j] = overrides[j]
               /\ pending'[j] = pending[j] /\ apart'[j] = apart[j],
           at'[i] \in {"down", "config"} => globals'[i] = Default,
           at'[i] \in {"load", "idle"} /\ ~apart'[i] => Restored(i)',
           at'[i] = "persist" /\ ~apart'[i] => Ahead(i)'
    PROVE  ConfigInv'
<1> SUFFICES ASSUME NEW j \in Instances
             PROVE  /\ at'[j] \in {"down", "config"} => globals'[j] = Default
                    /\ at'[j] \in {"load", "idle"} /\ ~apart'[j] => Restored(j)'
                    /\ at'[j] = "persist" /\ ~apart'[j] => Ahead(j)'
  BY DEF ConfigInv
<1>1. CASE j = i
  BY <1>1
<1>2. CASE j # i
  BY <1>2, OthersKeep
<1> QED BY <1>1, <1>2

\* PUT /admin/config in memory: an instance with what the table has is then
\* ahead of it by the body.
LEMMA ConfigPut ==
    ASSUME TypeInv, ConfigInv, NEW i \in Instances, NEW owner \in Owners, NEW body \in Bodies,
           PutConfig(i, owner, body)
    PROVE  ConfigInv'
<1>1. Applied(body) = body /\ body \in Settings
  BY LegalIsApplied DEF PutConfig
<1>2. at[i] = "idle" /\ at'[i] = "persist"
  BY DEF PutConfig, AdminWrite, Goto, TypeInv, TypeOK
<1>3. /\ globals'[i] = Over(globals[i], body)
      /\ pending'[i] = [owner |-> owner, set |-> body]
      /\ UNCHANGED <<conf, apart>>
  BY <1>1 DEF PutConfig, TypeInv, TypeOK, aliasVars
<1>4. \A s \in Sites :
          overrides'[i][s] = IF s = owner THEN Over(overrides[i][s], body) ELSE overrides[i][s]
  <2>1. CASE owner = Global
    <3>1. owner \notin Sites /\ overrides' = overrides
      BY <2>1, ConfigAssumption DEF PutConfig
    <3> QED BY <3>1
  <2>2. CASE owner # Global
    <3>1. overrides' = [overrides EXCEPT ![i][owner] = Over(@, body)] /\ owner \in Sites
      BY <2>2 DEF PutConfig, Owners
    <3> QED BY <3>1 DEF TypeInv, TypeOK
  <2> QED BY <2>1, <2>2
<1>5. ASSUME ~apart'[i] PROVE Ahead(i)'
  <2>1. Restored(i)
    BY <1>2, <1>3, <1>5 DEF ConfigInv
  <2> QED BY <1>3, <1>4, <2>1 DEF Restored, Ahead
<1>6. \A j \in Instances \ {i} :
          /\ at'[j] = at[j] /\ globals'[j] = globals[j] /\ overrides'[j] = overrides[j]
          /\ pending'[j] = pending[j] /\ apart'[j] = apart[j]
  BY DEF PutConfig, AdminWrite, Goto, TypeInv, TypeOK
<1> QED BY <1>2, <1>3, <1>5, <1>6, OwnKeeps

\* The commit of a PUT catches up with its instance, and puts the others apart.
LEMMA ConfigPersist ==
    ASSUME TypeInv, ConfigInv, NEW i \in Instances, Persist(i)
    PROVE  ConfigInv'
<1> DEFINE p == pending[i]
<1>1. p.set \in Settings /\ p.owner \in Owners /\ \A o \in Owners : conf[o] \in Settings
  BY DEF TypeInv, TypeOK
<1>2. Global \in Owners /\ Sites \subseteq Owners /\ Global \notin Sites
  BY ConfigAssumption DEF Owners
<1>3. /\ conf'[Global] = Over(conf[Global], p.set)
      /\ \A s \in Sites : conf'[s] = IF s = p.owner THEN Over(conf[s], p.set) ELSE conf[s]
  BY <1>2 DEF Persist, Kept
<1>4. /\ at[i] = "persist" /\ at'[i] = "idle"
      /\ globals' = globals /\ overrides' = overrides
      /\ \A j \in Instances \ {i} : at'[j] = at[j]
  BY DEF Persist, Goto, TypeInv, TypeOK
<1>5. apart' = [j \in Instances |-> apart[j] \/ j # i]
  BY DEF Persist
<1>6. ASSUME ~apart'[i] PROVE Restored(i)'
  <2>1. ~apart[i]
    BY <1>5, <1>6, Zenon
  <2>2. Ahead(i)
    BY <1>4, <2>1 DEF ConfigInv
  <2>3. Over(Over(Default, conf[Global]), p.set) = Over(Default, conf'[Global])
    BY <1>1, <1>2, <1>3, OverOver
  <2> QED BY <1>3, <1>4, <2>2, <2>3 DEF Ahead, Restored
<1>7. ASSUME NEW j \in Instances \ {i} PROVE apart'[j]
  BY <1>5, Zenon
<1>8. \A j \in Instances : at'[j] \in {"down", "config"} => globals'[j] = Default
  BY <1>4 DEF ConfigInv
<1> QED BY <1>4, <1>6, <1>7, <1>8 DEF ConfigInv

LEMMA ConfigNext == TypeInv /\ ConfigInv /\ [Next]_vars => ConfigInv'
<1> SUFFICES ASSUME TypeInv, ConfigInv, [Next]_vars PROVE ConfigInv'
  OBVIOUS
<1> USE DEF Goto, aliasVars, configVars
<1>1. CASE UNCHANGED vars
  BY <1>1, OthersKeep DEF vars, ConfigInv
<1>2. ASSUME NEW i \in Instances, Start(i) PROVE ConfigInv'
  <2>1. /\ UNCHANGED conf
        /\ \A j \in Instances \ {i} :
              /\ at'[j] = at[j] /\ globals'[j] = globals[j] /\ overrides'[j] = overrides[j]
              /\ pending'[j] = pending[j] /\ apart'[j] = apart[j]
    BY <1>2 DEF Start, StartPool, StartFails, LoadConfig, LoadConfigFails, LoadAliases,
                LoadAliasesFails, TypeInv, TypeOK
  <2>2. CASE StartPool(i)
    <3>1. at[i] = "down" /\ at'[i] = "config" /\ globals'[i] = globals[i]
      BY <2>2 DEF StartPool, TypeInv, TypeOK
    <3> QED BY <2>1, <3>1, OwnKeeps DEF ConfigInv
  <2>3. CASE StartFails(i) \/ LoadConfigFails(i)
    <3>1. at'[i] \in {"load", "idle"} /\ apart'[i]
      BY <2>3 DEF StartFails, LoadConfigFails, TypeInv, TypeOK
    <3> QED BY <2>1, <3>1, OwnKeeps
  <2>4. CASE LoadConfig(i)
    <3>1. at'[i] = "load" /\ globals'[i] = Over(globals[i], conf[Global])
      BY <2>4 DEF LoadConfig, TypeInv, TypeOK
    <3>2. \A s \in Sites : overrides'[i][s] = conf[s]
      BY <2>4 DEF LoadConfig, TypeInv, TypeOK
    <3>3. globals[i] = Default
      BY <2>4 DEF LoadConfig, ConfigInv
    <3>4. Restored(i)'
      BY <2>1, <3>1, <3>2, <3>3 DEF Restored
    <3> QED BY <2>1, <3>1, <3>4, OwnKeeps
  <2>5. CASE LoadAliases(i) \/ LoadAliasesFails(i)
    <3>1. at[i] = "load" /\ at'[i] = "idle" /\ UNCHANGED <<globals, overrides, apart>>
      BY <2>5 DEF LoadAliases, LoadAliasesFails, TypeInv, TypeOK
    <3>2. ~apart'[i] => Restored(i)'
      BY <2>1, <3>1 DEF ConfigInv, Restored
    <3> QED BY <2>1, <3>1, <3>2, OwnKeeps
  <2> QED BY <1>2, <2>2, <2>3, <2>4, <2>5 DEF Start
<1>3. ASSUME NEW i \in Instances, PostAlias(i) \/ DeleteAlias(i) \/ PutHotPath(i) PROVE ConfigInv'
  <2>1. /\ UNCHANGED configVars /\ at[i] = "idle" /\ at'[i] \in {"load", "idle"}
        /\ \A j \in Instances \ {i} : at'[j] = at[j]
    BY <1>3 DEF PostAlias, DeleteAlias, PutHotPath, WriteAlias, Committed, AdminWrite, TypeInv,
                TypeOK
  <2>2. ~apart'[i] => Restored(i)'
    BY <2>1 DEF ConfigInv, Restored
  <2> QED BY <2>1, <2>2, OwnKeeps
<1>4. ASSUME NEW i \in Instances, NEW owner \in Owners, NEW body \in Bodies,
             PutConfig(i, owner, body)
      PROVE  ConfigInv'
  BY <1>4, ConfigPut
<1>5. ASSUME NEW i \in Instances, RejectConfig(i) PROVE ConfigInv'
  <2>1. /\ UNCHANGED <<conf, overrides, pending, at>> /\ at[i] = "idle" /\ apart'[i]
        /\ \A j \in Instances \ {i} : globals'[j] = globals[j] /\ apart'[j] = apart[j]
    BY <1>5 DEF RejectConfig, AdminWrite, TypeInv, TypeOK
  <2> QED BY <2>1, OwnKeeps
<1>6. ASSUME NEW i \in Instances, Persist(i) PROVE ConfigInv'
  BY <1>6, ConfigPersist
<1>7. ASSUME NEW i \in Instances, PersistFails(i) \/ Stop(i) PROVE ConfigInv'
  <2>1. /\ UNCHANGED conf
        /\ \A j \in Instances \ {i} :
              /\ at'[j] = at[j] /\ globals'[j] = globals[j] /\ overrides'[j] = overrides[j]
              /\ pending'[j] = pending[j] /\ apart'[j] = apart[j]
    BY <1>7 DEF PersistFails, Stop, TypeInv, TypeOK
  <2>2. CASE PersistFails(i)
    BY <2>1, <2>2, OwnKeeps DEF PersistFails, TypeInv, TypeOK
  <2>3. CASE Stop(i)
    BY <2>1, <2>3, OwnKeeps DEF Stop, TypeInv, TypeOK
  <2> QED BY <1>7, <2>2, <2>3
<1> QED BY <1>1, <1>2, <1>3, <1>4, <1>5, <1>6, <1>7 DEF Next, Change

(* An instance uses the settings it would have after a restart, unless a   *)
(* PUT /admin/config of its own was refused or not persisted, another      *)
(* instance persisted one, or its own were never loaded: changing memory   *)
(* first and nav_config after, under both names, leads to the same.        *)
THEOREM RestartsKeepConfig == Spec => []RestartKeepsConfig
<1>1. Init => ConfigInv
  BY DEF Init, ConfigInv
<1>2. Spec => [](TypeInv /\ ConfigInv)
  BY <1>1, TypesInit, TypesNext, ConfigNext, PTL DEF Spec
<1>3. TypeInv /\ ConfigInv => RestartKeepsConfig
  BY DEF ConfigInv, Restored, RestartKeepsConfig, Effective, AfterRestart
<1> QED BY <1>2, <1>3, PTL
=============================================================================
