----------------------------- MODULE MCDriveWrites -----------------------------
(* Small instances of DriveWrites.  Its run checks liveness, for which TLC     *)
(* allows no symmetry.                                                         *)
EXTENDS DriveWrites
===============================================================================
