------------------------------ MODULE MCWidget ------------------------------
(***************************************************************************)
(* Two queries and two pages; answers below both thresholds or above them. *)
(***************************************************************************)
EXTENDS Widget

CONSTANTS q1, q2, p1, p2
=============================================================================
