--------------------------- MODULE MCQueryRouter ---------------------------
(***************************************************************************)
(* The router with scores from -1 to 2, a boost of one step away from 0,   *)
(* and rounding to even scores.                                            *)
(***************************************************************************)
EXTENDS QueryRouter

CONSTANTS p1, p2

MCMinScore == -1
MCBoosted(s) == IF s = 0 \/ s = MaxScore THEN s ELSE IF s < 0 THEN s - 1 ELSE s + 1
MCRounded(s) == IF s % 4 = 3 THEN s + 1 ELSE IF s % 4 = 1 THEN s - 1 ELSE s
MCRerankScores == {-1, 2}
=============================================================================
