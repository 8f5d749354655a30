---------------------------- MODULE MCLifecycle ----------------------------
(* The main program on Linux and Windows, with the service around it.      *)
EXTENDS WinService
=============================================================================
