----------------------------- MODULE MCDashboard -----------------------------
(***************************************************************************)
(* An instance of Dashboard for TLC: the poll of the rules, whose interval *)
(* is shorter than the timeout, as on the page.                            *)
(***************************************************************************)
EXTENDS Dashboard

EachTick == [p \in Polls |-> 1]
=============================================================================
