--------------------------- MODULE HotPathAnswer ---------------------------
(***************************************************************************)
(* What a lookup in the hot-path registry promises, in one step: of the    *)
(* rows it was given, in rank order, the first one with the best score, if *)
(* that score reaches the threshold.                                       *)
(*                                                                         *)
(* Scores are exact integers.  The code's 0.8 * text + 0.2 * rank, where   *)
(* text is out of MaxText and a row of another site is multiplied by       *)
(* PenaltyNum / PenaltyDen, is here multiplied by                          *)
(* 5 * MaxText * Len(rs) * PenaltyDen.                                     *)
(***************************************************************************)
EXTENDS Integers, Sequences

CONSTANTS
    MaxText,       \* the similarity of equal texts
    PenaltyNum,    \* CROSS_SITE_PENALTY is PenaltyNum / PenaltyDen
    PenaltyDen,
    Threshold,     \* HOT_PATH_THRESHOLD, out of MaxText
    MaxRows        \* MAX_HOT_PATHS, the LIMIT of the SELECT

\* A fetched row, as far as its score depends on it: the best similarity of
\* its label and aliases with the query, and whether it is of the home site.
Row == [text : 0 .. MaxText, home : BOOLEAN]
RowList == UNION {[1 .. n -> Row] : n \in 0 .. MaxRows}

Weight(home) == IF home THEN PenaltyDen ELSE PenaltyNum

Score(rs, i) ==
    Weight(rs[i].home) * (4 * (rs[i].text * Len(rs)) + MaxText * (Len(rs) - i + 1))

Clears(rs, s) == s >= 5 * (Threshold * (Len(rs) * PenaltyDen))

IsFirstBest(rs, i) ==
    /\ i \in 1 .. Len(rs)
    /\ Score(rs, i) > 0
    /\ \A j \in 1 .. Len(rs) : Score(rs, j) <= Score(rs, i)
    /\ \A j \in 1 .. i - 1 : Score(rs, j) < Score(rs, i)

\* The place of the row to answer with, or 0 for none.
IsOffer(rs, i) ==
    \/ IsFirstBest(rs, i) /\ Clears(rs, Score(rs, i))
    \/ /\ i = 0
       /\ \A j \in 1 .. Len(rs) : IsFirstBest(rs, j) => ~Clears(rs, Score(rs, j))

VARIABLES rows, asking, offer

Init == rows = <<>> /\ asking = FALSE /\ offer = 0

\* A lookup starts; a failed SELECT counts as one without rows.
Ask == ~asking /\ asking' = TRUE /\ rows' \in RowList /\ offer' = 0

\* The rows are dropped with the answer.
Reply == asking /\ asking' = FALSE /\ IsOffer(rows, offer') /\ rows' = <<>>

Next == Ask \/ Reply
Spec == Init /\ [][Next]_<<rows, asking, offer>>
=============================================================================
