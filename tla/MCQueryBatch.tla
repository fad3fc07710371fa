---------------------------- MODULE MCQueryBatch ----------------------------
(***************************************************************************)
(* Batches of two spellings of one query, of which one is too long, and of *)
(* other queries.                                                          *)
(***************************************************************************)
EXTENDS QueryBatch

CONSTANTS a, aPadded, b, c, d, w1, w2

MCBatches == {<<a, aPadded, b>>, <<aPadded, b, a, c, d>>}
MCKey == [q \in {a, aPadded, b, c, d} |-> IF q = aPadded THEN a ELSE q]
=============================================================================
