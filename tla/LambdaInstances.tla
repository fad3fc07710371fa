-------------------------- MODULE LambdaInstances --------------------------
(***************************************************************************)
(* What each Lambda instance keeps in memory of the shared database, from  *)
(* its cold start on:                                                      *)
(*                                                                         *)
(*   - ALIAS_CACHE, the redirects of nav_path_aliases (core/db.py), which  *)
(*     _alias_lookup (services/query_router.py) reads, and which only the  *)
(*     instance that serves an administrator's write loads anew;           *)
(*   - the thresholds, global and per tenant, of nav_config, which         *)
(*     PUT /admin/config (routes/admin.py) changes in memory first, then   *)
(*     in the database.                                                    *)
(*                                                                         *)
(* An instance serves one request at a time.  Instances start, fail and    *)
(* stop at any moment, and any statement may fail.  The audit row between  *)
(* a commit and what follows it is in HotPaths: nothing here reads it.     *)
(***************************************************************************)
EXTENDS Integers, Sequences, FiniteSets, Functions

CONSTANTS
    Instances, Sites,
    Olds, Forms,        \* old paths, and their lower-case forms
    FormOf,             \* [Olds -> Forms]
    Targets,            \* new paths
    Scopes,             \* API keys' site lists, the home site first
    Keys,               \* a sequence: the settings in the order of _CONFIG_BOUNDS
    PerSite,            \* the settings that are read per tenant: all but MAX_HOT_PATHS
    Values, Bounded,    \* values a PUT may carry, and those within the bounds
    Default,            \* the settings an instance starts with
    NoPath, Unset, Global,
    MaxWrites, MaxStops \* bounds on administrators' writes and on stops

Names == Range(Keys)
Owners == Sites \cup {Global}
Redirects == [Sites \X Forms -> Targets \cup {NoPath}]
Unsettled == [n \in Names |-> Unset]

ASSUME AliasAssumption ==
    /\ FormOf \in [Olds -> Forms]
    /\ NoPath \notin Targets
    /\ Scopes \subseteq Seq(Sites)
    /\ Unset \notin Instances
ASSUME ConfigAssumption ==
    /\ Keys \in Seq(Names) /\ \A i, j \in DOMAIN Keys : Keys[i] = Keys[j] => i = j
    /\ Bounded \subseteq Values /\ Unset \notin Values
    /\ Default \in [Names -> Bounded]
    /\ Global \notin Sites
    /\ MaxWrites \in Nat /\ MaxStops \in Nat

VARIABLES
    aliases,    \* nav_path_aliases: [Sites \X Olds -> Targets \cup {NoPath}]
    conf,       \* nav_config: [Owners -> [Names -> Bounded \cup {Unset}]]
    at,         \* what each instance does next
    pool,       \* whether it has a connection pool
    cache,      \* settings.ALIAS_CACHE
    globals,    \* the settings themselves
    overrides,  \* settings.SITE_OVERRIDES
    pending,    \* the settings its PUT has yet to persist: owner and values
    writer,     \* history: the instance whose write of a redirect was the last and was
                \* acknowledged, or Unset
    behind,     \* history: redirects were written since the instance loaded them
    apart,      \* history: its settings were not loaded, not persisted, or others' were
    writes, stops

aliasVars == <<aliases, cache, writer, behind>>
configVars == <<conf, globals, overrides, pending, apart>>
vars == <<aliasVars, configVars, at, pool, writes, stops>>

Goto(i, l) == at' = [at EXCEPT ![i] = l]
Empty == [sf \in Sites \X Forms |-> NoPath]
NoOverrides == [s \in Sites |-> Unsettled]
NoPending == [owner |-> Global, set |-> Unsettled]

Init ==
    /\ aliases = [so \in Sites \X Olds |-> NoPath]
    /\ conf = [o \in Owners |-> Unsettled]
    /\ at = [i \in Instances |-> "down"]
    /\ pool = [i \in Instances |-> FALSE]
    /\ cache = [i \in Instances |-> Empty]
    /\ globals = [i \in Instances |-> Default]
    /\ overrides = [i \in Instances |-> NoOverrides]
    /\ pending = [i \in Instances |-> NoPending]
    /\ writer = Unset
    /\ behind = [i \in Instances |-> FALSE]
    /\ apart = [i \in Instances |-> FALSE]
    /\ writes = 0 /\ stops = 0

-----------------------------------------------------------------------------
(* init_pool.  When the pool or the migrations fail the instance serves    *)
(* requests all the same, without a pool and with what it was built with.  *)
StartPool(i) ==
    /\ at[i] = "down"
    /\ pool' = [pool EXCEPT ![i] = TRUE]
    /\ Goto(i, "config")
    /\ UNCHANGED <<aliasVars, configVars, writes, stops>>
StartFails(i) ==
    /\ at[i] = "down"
    /\ apart' = [apart EXCEPT ![i] = TRUE]
    /\ Goto(i, "idle")
    /\ UNCHANGED <<aliasVars, conf, globals, overrides, pending, pool, writes, stops>>

(* _load_config_overrides: rows of nav_config over the defaults.           *)
Over_Replaced(base, set) == [n \in Names |-> set[n]]
Over(base, set) == [n \in Names |-> IF set[n] # Unset THEN set[n] ELSE base[n]]
LoadConfig(i) ==
    /\ at[i] = "config"
    /\ globals' = [globals EXCEPT ![i] = Over(@, conf[Global])]
    /\ overrides' = [overrides EXCEPT ![i] = [s \in Sites |-> conf[s]]]
    /\ apart' = [apart EXCEPT ![i] = FALSE]
    /\ Goto(i, "load")
    /\ UNCHANGED <<aliasVars, conf, pending, pool, writes, stops>>
LoadConfigFails(i) ==
    /\ at[i] = "config"
    /\ apart' = [apart EXCEPT ![i] = TRUE]
    /\ Goto(i, "load")
    /\ UNCHANGED <<aliasVars, conf, globals, overrides, pending, pool, writes, stops>>

(* load_alias_cache, at the cold start and after a write: the last row of  *)
(* each (site, lower(old_path)), in whatever order the rows come.          *)
Rows(s, forms) == {aliases[<<s, o>>] : o \in {p \in Olds : FormOf[p] \in forms}} \ {NoPath}
Loads_AnySite ==
    {c \in Redirects : \A s \in Sites, f \in Forms :
        LET rows == UNION {Rows(t, {f}) : t \in Sites}
        IN  IF rows = {} THEN c[<<s, f>>] = NoPath ELSE c[<<s, f>>] \in rows}
Loads ==
    {c \in Redirects : \A s \in Sites, f \in Forms :
        IF Rows(s, {f}) = {} THEN c[<<s, f>>] = NoPath ELSE c[<<s, f>>] \in Rows(s, {f})}
LoadAliases(i) ==
    /\ at[i] = "load"
    /\ \E c \in Loads : cache' = [cache EXCEPT ![i] = c]
    /\ behind' = [behind EXCEPT ![i] = FALSE]
    /\ Goto(i, "idle")
    /\ UNCHANGED <<aliases, writer, configVars, pool, writes, stops>>
LoadAliasesFails(i) ==
    /\ at[i] = "load"
    /\ cache' = [cache EXCEPT ![i] = Empty]
    /\ Goto(i, "idle")
    /\ UNCHANGED <<aliases, writer, behind, configVars, pool, writes, stops>>

-----------------------------------------------------------------------------
(* _alias_lookup: the set of answers it may give for a query's forms.  The *)
(* cache is searched site by site; the database, which is asked only when  *)
(* the cache is empty, all sites at once, LIMIT 1.  A SELECT that fails    *)
(* (no pool, no connection left, an error) is answered as no redirect.     *)
Cached(i, s, forms) == {cache[i][<<s, f>>] : f \in forms} \ {NoPath}
OrNone(S) == IF S = {} THEN {NoPath} ELSE S
FirstHit(i, scope, forms) ==
    LET hits == {n \in DOMAIN scope : Cached(i, scope[n], forms) # {}}
    IN  IF hits = {} THEN {NoPath}
        ELSE Cached(i, scope[CHOOSE n \in hits : \A m \in hits : n <= m], forms)
InTable(scope, forms) == OrNone(UNION {Rows(s, forms) : s \in Range(scope)})
Selected(i, scope, forms) == (IF pool[i] THEN InTable(scope, forms) ELSE {}) \cup {NoPath}
Answers(i, scope, forms) ==
    IF cache[i] = Empty THEN Selected(i, scope, forms) ELSE FirstHit(i, scope, forms)

(* POST and DELETE /admin/aliases: the commit, then the reload.  A commit  *)
(* may be applied and the request fail all the same, when its              *)
(* acknowledgement is lost or its connection cannot be given back: then    *)
(* the answer is 500 and nothing is loaded.  (A write that is not applied, *)
(* and a DELETE of no row, change nothing but what PutHotPath changes.)    *)
AdminWrite(i) == at[i] = "idle" /\ writes < MaxWrites /\ writes' = writes + 1
Committed_NoReload(i) == writer' \in {i, Unset} /\ UNCHANGED at
Committed(i) ==
    \/ writer' = i /\ Goto(i, "load")
    \/ writer' = Unset /\ UNCHANGED at
WriteAlias(i, so, target) ==
    /\ AdminWrite(i) /\ pool[i]
    /\ aliases' = [aliases EXCEPT ![so] = target]
    /\ behind' = [j \in Instances |-> TRUE]
    /\ Committed(i)
    /\ UNCHANGED <<cache, configVars, pool, stops>>
PostAlias(i) == \E so \in Sites \X Olds, target \in Targets : WriteAlias(i, so, target)
DeleteAlias(i) ==
    \E so \in Sites \X Olds : aliases[so] # NoPath /\ WriteAlias(i, so, NoPath)
(* PUT /admin/hot-paths/{id} loads the redirects anew as well.             *)
PutHotPath(i) ==
    /\ AdminWrite(i) /\ pool[i]
    /\ Goto(i, "load")
    /\ UNCHANGED <<aliasVars, configVars, pool, stops>>

-----------------------------------------------------------------------------
(* PUT /admin/config: the settings are checked and set one after the other *)
(* until one is out of bounds, and the answer is then 400.                 *)
Accepted_SetFirst(body) ==
    {n \in Names : body[n] # Unset /\
        \A a, b \in DOMAIN Keys : Keys[b] = n /\ a < b => body[Keys[a]] \in Bounded \cup {Unset}}
Accepted(body) ==
    {n \in Names : body[n] # Unset /\
        \A a, b \in DOMAIN Keys : Keys[b] = n /\ a <= b => body[Keys[a]] \in Bounded \cup {Unset}}
Applied(body) == [n \in Names |-> IF n \in Accepted(body) THEN body[n] ELSE Unset]
Legal(body) == \A n \in Names : body[n] \in Bounded \cup {Unset}
Bodies == [Names -> Values \cup {Unset}] \ {Unsettled}

PutConfig(i, owner, body) ==
    /\ AdminWrite(i)
    /\ Legal(body)
    /\ globals' = [globals EXCEPT ![i] = Over(@, Applied(body))]
    /\ overrides' = IF owner = Global THEN overrides
                    ELSE [overrides EXCEPT ![i][owner] = Over(@, body)]
    /\ pending' = [pending EXCEPT ![i] = [owner |-> owner, set |-> body]]
    /\ Goto(i, "persist")
    /\ UNCHANGED <<aliasVars, conf, apart, pool, stops>>
RejectConfig(i) ==
    /\ AdminWrite(i)
    /\ \E body \in Bodies :
         /\ ~Legal(body)
         /\ globals' = [globals EXCEPT ![i] = Over(@, Applied(body))]
    /\ apart' = [apart EXCEPT ![i] = TRUE]
    /\ UNCHANGED <<aliasVars, conf, overrides, pending, at, pool, stops>>

(* One transaction: every setting under its own name and, for a tenant,    *)
(* under the tenant's name too.                                            *)
Kept_TenantOnly(p) == {p.owner}
Kept(p) == {Global, p.owner}
Persist(i) ==
    /\ at[i] = "persist" /\ pool[i]
    /\ conf' = [o \in Owners |-> IF o \in Kept(pending[i]) THEN Over(conf[o], pending[i].set)
                                 ELSE conf[o]]
    /\ apart' = [j \in Instances |-> apart[j] \/ j # i]
    /\ pending' = [pending EXCEPT ![i] = NoPending]
    /\ Goto(i, "idle")
    /\ UNCHANGED <<aliasVars, globals, overrides, pool, writes, stops>>
PersistFails(i) ==
    /\ at[i] = "persist"
    /\ apart' = [apart EXCEPT ![i] = TRUE]
    /\ pending' = [pending EXCEPT ![i] = NoPending]
    /\ Goto(i, "idle")
    /\ UNCHANGED <<aliasVars, conf, globals, overrides, pool, writes, stops>>

(* The instance is stopped; another may start in its place.                *)
Stop(i) ==
    /\ at[i] # "down"
    /\ stops < MaxStops
    /\ stops' = stops + 1
    /\ Goto(i, "down")
    /\ pool' = [pool EXCEPT ![i] = FALSE]
    /\ cache' = [cache EXCEPT ![i] = Empty]
    /\ globals' = [globals EXCEPT ![i] = Default]
    /\ overrides' = [overrides EXCEPT ![i] = NoOverrides]
    /\ pending' = [pending EXCEPT ![i] = NoPending]
    /\ UNCHANGED <<aliases, writer, behind, conf, apart, writes>>

Start(i) ==
    \/ StartPool(i) \/ StartFails(i) \/ LoadConfig(i) \/ LoadConfigFails(i)
    \/ LoadAliases(i) \/ LoadAliasesFails(i)
Change(i) ==
    \/ PostAlias(i) \/ DeleteAlias(i) \/ PutHotPath(i)
    \/ \E owner \in Owners, body \in Bodies : PutConfig(i, owner, body)
    \/ RejectConfig(i) \/ Persist(i) \/ PersistFails(i)
Next == \E i \in Instances : Start(i) \/ Change(i) \/ Stop(i)

Spec == Init /\ [][Next]_vars
-----------------------------------------------------------------------------
(* Every variable has its type. *)
Settings == [Names -> Bounded \cup {Unset}]
TypeOK ==
    /\ aliases \in [Sites \X Olds -> Targets \cup {NoPath}]
    /\ conf \in [Owners -> Settings]
    /\ at \in [Instances -> {"down", "config", "load", "idle", "persist"}]
    /\ pool \in [Instances -> BOOLEAN]
    /\ cache \in [Instances -> Redirects]
    /\ globals \in [Instances -> [Names -> Values]]
    /\ overrides \in [Instances -> [Sites -> Settings]]
    /\ pending \in [Instances -> [owner : Owners, set : Settings]]
    /\ writer \in Instances \cup {Unset}
    /\ behind \in [Instances -> BOOLEAN] /\ apart \in [Instances -> BOOLEAN]
    /\ writes \in Nat /\ stops \in Nat

Asked == SUBSET Forms \ {{}}
Faithful(i) ==
    \A scope \in Scopes, forms \in Asked :
        \A a \in Answers(i, scope, forms) :
            a \in InTable(scope, forms) \/ (a = NoPath /\ cache[i] = Empty)

(* Unless a redirect was written since an instance loaded them, at its     *)
(* cold start or after the write it last served, it answers with the       *)
(* table's redirects, of the sites in the key's scope only.  It misses one *)
(* only when it has nothing in memory and its live lookup fails.           *)
StaleOnlyIfBehind ==
    \A i \in Instances : (at[i] = "idle" /\ ~behind[i]) => Faithful(i)

(* The instance that acknowledged the last write of a redirect goes by it: *)
(* it never answers with what that write replaced, nor, once its memory is *)
(* loaded, overlooks it, whatever others wrote before and although its     *)
(* reload may fail or it may be restarted, with or without a pool.         *)
WriterSeesItsWrite ==
    \A i \in Instances : (writer = i /\ at[i] = "idle") => Faithful(i)

(* The settings an instance uses for a site are those it would have after  *)
(* a restart, unless a PUT of its own was refused or not persisted, or     *)
(* another instance persisted one, or its own were never loaded.           *)
ReadPerSite(set) == [n \in Names |-> IF n \in PerSite THEN set[n] ELSE Unset]
Effective(i, s) == Over(globals[i], ReadPerSite(overrides[i][s]))
AfterRestart(s) == Over(Over(Default, conf[Global]), ReadPerSite(conf[s]))
RestartKeepsConfig ==
    \A i \in Instances : (at[i] = "idle" /\ ~apart[i]) =>
        \A s \in Sites : Effective(i, s) = AfterRestart(s)

(* No instance ever runs with, and no cold start ever loads, a setting out *)
(* of its bounds, not even after a PUT that was refused half-way.          *)
SettingsInBounds ==
    \A i \in Instances, s \in Sites : Effective(i, s) \in [Names -> Bounded]
=============================================================================
