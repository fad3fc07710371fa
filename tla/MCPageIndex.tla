---------------------------- MODULE MCPageIndex ----------------------------
(***************************************************************************)
(* A small index for TLC: contents c1 and c2 with hashes of their own, and *)
(* a batch longer than the largest that is loaded.                         *)
(***************************************************************************)
EXTENDS PageIndex, TLC

CONSTANTS c1, c2, h1, h2, s1, s2, p1, p2, w1, w2

MCHashOf == (c1 :> h1) @@ (c2 :> h2)
Entry(p, c) == [path |-> p, content |-> c]
MCBatches == {<<Entry(p1, c1), Entry(p1, c2), Entry(p1, c1)>>}
=============================================================================
