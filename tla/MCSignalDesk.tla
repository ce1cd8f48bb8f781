----------------------------- MODULE MCSignalDesk -----------------------------
(* Small instances of SignalDesk.                                              *)
EXTENDS SignalDesk, TLC

MCSymmetry == Permutations(Approvers) \cup Permutations(Editors)
===============================================================================
