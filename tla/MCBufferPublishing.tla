-------------------------- MODULE MCBufferPublishing --------------------------
(* Small instances of BufferPublishing.                                        *)
EXTENDS BufferPublishing, TLC

CONSTANTS t1, t2
MCOrder == <<t1, t2>>
MCSymmetry == Permutations(Publications)
===============================================================================
