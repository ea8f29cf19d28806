------------------------------ MODULE MCService ------------------------------
(* Small instances of the Windows service for TLC.                         *)
EXTENDS ServiceSafety, TLC

CONSTANTS p1, p2

(* The processes differ in nothing but their names.                        *)
AnyProcess == Permutations(Processes)
=============================================================================
