---------------------------- MODULE ReindexSweep ----------------------------
(***************************************************************************)
(* Re-embedding every page, as POST /admin/index/reindex-all lets a client *)
(* do it: call after call, the offset advanced by the limit, for as long   *)
(* as the answer says has_more.  Other requests go on meanwhile.           *)
(***************************************************************************)
EXTENDS PageIndex

CONSTANT Console        \* the worker that serves the client's calls

VARIABLES
    stage,      \* "before", "calling", "embedding", "done"
    offset,     \* of the next call
    size,       \* the number of rows the current call selected
    had,        \* history: the pages there when the sweep began, and still
    swept       \* history: the pages re-embedded since

sweepVars == <<stage, offset, size, had, swept>>

SweepInit == Init /\ stage = "before" /\ offset = 0 /\ size = 0 /\ had = {} /\ swept = {}

Begin ==
    /\ stage = "before"
    /\ stage' = "calling"
    /\ had' = {k \in Key : Live(k)}
    /\ UNCHANGED <<vars, offset, size, swept>>

(* One call: its SELECT, or, when no row is left at this offset, the end.  *)
Call ==
    /\ stage = "calling"
    /\ pc[Console] = "idle"
    /\ \E s \in Scans(Sites, offset) :
         /\ size' = Len(s)
         /\ IF s = <<>>
            THEN stage' = "done" /\ UNCHANGED vars
            ELSE /\ stage' = "embedding"
                 /\ Start(Console, "reindex", Scanned(s, Sites))
                 /\ UNCHANGED <<reported, visits, writes, reindexes>>
    /\ UNCHANGED <<offset, had, swept>>

(* Its answer: has_more when the SELECT was as long as the limit.          *)
Answer ==
    /\ stage = "embedding"
    /\ pc[Console] = "idle"
    /\ offset' = offset + Limit
    /\ stage' = IF size = Limit THEN "calling" ELSE "done"
    /\ UNCHANGED <<vars, size, had, swept>>

Embed ==
    /\ stage = "embedding" /\ pc[Console] = "reindex"
    /\ ListIndex(Console)
    /\ swept' = swept \cup {Now(Console).key}
    /\ UNCHANGED <<stage, offset, size, had>>

Other ==
    /\ \E w \in Workers \ {Console} : Step(w) \/ Request(w)
    /\ had' = {k \in had : page'[k] # NoPage}
    /\ UNCHANGED <<stage, offset, size, swept>>

SweepNext == Begin \/ Call \/ Answer \/ Embed \/ Other
SweepSpec == SweepInit /\ [][SweepNext]_<<vars, sweepVars>>

(* What README.md says of reindex-all: "Re-embed all indexed pages".  Once *)
(* the last answer has come, every page that was there all the time has    *)
(* been re-embedded.                                                       *)
AllReembedded == stage = "done" => had \subseteq swept
=============================================================================
