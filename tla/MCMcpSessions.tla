---------------------------- MODULE MCMcpSessions ----------------------------
(* Small instances of McpSessions.                                             *)
EXTENDS McpSessions

MCSymmetry == Permutations(Sessions)
===============================================================================
