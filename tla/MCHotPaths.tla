----------------------------- MODULE MCHotPaths -----------------------------
(***************************************************************************)
(* A small registry for TLC.  Queries q1 and q2 have the cores a and b; q3 *)
(* has none worth learning.  b and c count as similar.  The administrator  *)
(* sends the lists <<a, a>> and <<c, c>>: where only q2 and q3 are asked,  *)
(* a and c come from there alone.                                          *)
(***************************************************************************)
EXTENDS HotPaths, TLC

CONSTANTS a, b, c, q1, q2, q3, l1, s1, s2, p1, p2, w1, w2

MCPhrases == {a, b, c}
MCCoreOf == [q \in Queries |-> CASE q = q1 -> a [] q = q2 -> b [] q = q3 -> NoCore]
MCLowerOf == (l1 :> c)
MCSimilar == {<<x, x>> : x \in MCPhrases} \cup {<<b, c>>, <<c, b>>}
MCAliasLists == {<<a, a>>, <<c, c>>}
=============================================================================
