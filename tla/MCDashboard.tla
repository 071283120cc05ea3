----------------------------- MODULE MCDashboard ----------------------------
(***************************************************************************)
(* Two commands, three events, a buffer of two, and two requests by the     *)
(* user besides the one the page makes when it boots.                      *)
(***************************************************************************)
EXTENDS DashboardProperties

CONSTANTS c1, c2

MCCommand == {c1, c2}
MCSettings == {{}} \cup {{x} : x \in Condition}
=============================================================================
