---------------------------- MODULE MCApiRequests ----------------------------
(* ApiRequests for TLC.  The configuration names routes of each way to check  *)
(* a request, to handle it and to go on after the commit.                     *)
EXTENDS ApiRequests
=============================================================================
