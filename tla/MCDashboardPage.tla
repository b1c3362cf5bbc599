-------------------------- MODULE MCDashboardPage --------------------------
(* DashboardPage with the charts, ranges and users of the .cfg files. *)
EXTENDS DashboardPage
=============================================================================
