--------------------------- MODULE MCReindexSweep ---------------------------
(***************************************************************************)
(* A sweep over two pages, one per call.                                   *)
(***************************************************************************)
EXTENDS ReindexSweep, TLC

CONSTANTS c1, h1, s1, p1, p2, w1, w2

MCHashOf == (c1 :> h1)
=============================================================================
