---------------------------- MODULE MCCoordination ----------------------------
(* Small instances of Coordination.                                            *)
EXTENDS Coordination, TLC

MCSymmetry == Permutations(Agents) \cup Permutations(Sessions)
===============================================================================
