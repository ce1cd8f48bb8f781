---------------------------- MODULE MCHandoffCalls ----------------------------
(* Small instances of HandoffCalls.                                            *)
EXTENDS HandoffCalls, TLC

MCSymmetry == Permutations(Agents) \cup Permutations(Handoffs)
===============================================================================
