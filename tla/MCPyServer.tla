---------------------------- MODULE MCPyServer ----------------------------
(* Small instances of PyServer.                                               *)
EXTENDS PyServer, TLC
=============================================================================
