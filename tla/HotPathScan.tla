---------------------------- MODULE HotPathScan ----------------------------
(***************************************************************************)
(* services/hot_path.py, lookup(): the rows of the registry are scored in  *)
(* rank order, the best so far is replaced only by a strictly better one,  *)
(* and the scan stops as soon as no later row can do better.  Refines      *)
(* HotPathAnswer, which looks at every row.                                *)
(***************************************************************************)
EXTENDS Integers, Sequences

CONSTANTS MaxText, PenaltyNum, PenaltyDen, Threshold, MaxRows   \* as in HotPathAnswer

ASSUME ScaleAssumption ==
    /\ MaxText \in Nat \ {0}
    /\ PenaltyNum \in Nat
    /\ PenaltyDen \in Nat \ {0}
    /\ PenaltyNum <= PenaltyDen
    /\ Threshold \in Nat
    /\ MaxRows \in Nat

VARIABLES
    rows,        \* what the SELECT returned, in rank order
    scanning,    \* a lookup is under way
    idx,         \* the row to score next
    bestScore,
    bestRow,     \* place of the best row so far, 0 for none
    found        \* what the last lookup returned: a place in rows, or 0

scanVars == <<rows, scanning, idx, bestScore, bestRow, found>>

\* The scan implements this; it also gives Row, RowList, Score and Clears.
Answer == INSTANCE HotPathAnswer WITH asking <- scanning, offer <- found

\* The best score a row after place i can have: a perfect text, home site.  In
\* the variant the ceiling is that of one rank lower.
MaxRemaining_RankTooLow(rs, i) ==
    PenaltyDen * (4 * (MaxText * Len(rs)) + MaxText * (Len(rs) - i - 1))
MaxRemaining(rs, i) ==
    PenaltyDen * (4 * (MaxText * Len(rs)) + MaxText * (Len(rs) - i))

ScanInit ==
    /\ rows = <<>> /\ scanning = FALSE /\ idx = 1
    /\ bestScore = 0 /\ bestRow = 0 /\ found = 0

Fetch ==
    /\ ~scanning
    /\ rows' \in Answer!RowList
    /\ scanning' = TRUE /\ idx' = 1 /\ bestScore' = 0 /\ bestRow' = 0
    /\ found' = 0

ScoreRow ==
    /\ scanning /\ idx <= Len(rows)
    /\ LET s == Answer!Score(rows, idx) IN
         IF s > bestScore
         THEN /\ bestScore' = s
              /\ bestRow' = idx
              /\ idx' = IF s >= MaxRemaining(rows, idx) THEN Len(rows) + 1 ELSE idx + 1
         ELSE idx' = idx + 1 /\ UNCHANGED <<bestScore, bestRow>>
    /\ UNCHANGED <<rows, scanning, found>>

Return ==
    /\ scanning /\ idx > Len(rows)
    /\ scanning' = FALSE
    /\ found' = IF bestRow # 0 /\ Answer!Clears(rows, bestScore) THEN bestRow ELSE 0
    /\ rows' = <<>> /\ idx' = 1 /\ bestScore' = 0 /\ bestRow' = 0

ScanNext == Fetch \/ ScoreRow \/ Return
ScanSpec == ScanInit /\ [][ScanNext]_scanVars

-----------------------------------------------------------------------------

\* A lookup answers as if it had scored every row: the early exit of lookup()
\* and its strict comparison lose neither the best row nor, among equals, the
\* one of highest rank.
AnswersFirstBest == Answer!Spec
=============================================================================
