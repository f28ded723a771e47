-------------------------- MODULE MCDashboardChatRoom --------------------------
(* Small instances of DashboardChatRoom for TLC; the .cfg files set their bounds. *)
EXTENDS DashboardChatRoom
================================================================================
