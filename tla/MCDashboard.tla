---------------------------- MODULE MCDashboard ----------------------------
(* An instance of Dashboard for TLC.                                       *)
EXTENDS Dashboard

MCSenders == ({"create", "run"} \X Tasks) \cup ({"request"} \X Requests)
=============================================================================
