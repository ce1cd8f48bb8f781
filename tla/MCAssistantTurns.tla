--------------------------- MODULE MCAssistantTurns ---------------------------
(* Small instances of AssistantTurns.  Its run checks liveness, for which TLC  *)
(* allows no symmetry.                                                         *)
EXTENDS AssistantTurns
===============================================================================
