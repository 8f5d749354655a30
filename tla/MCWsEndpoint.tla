---------------------------- MODULE MCWsEndpoint ----------------------------
(* WsEndpoint with values for TLC.                                         *)
EXTENDS WsEndpoint

\* The only wserror that reaches AddRxData at this commit: the rethrow in
\* parser::consume copies the others into a plain std::exception.
ThrownAsWritten == {"FATAL_ERROR"}
=============================================================================
