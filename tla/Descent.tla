------------------------------ MODULE Descent -------------------------------
(***************************************************************************)
(* How far something is from its end: a tuple of numbers, the ones that    *)
(* come first counting most.  A step that lowers it in this order can be   *)
(* taken finitely often (NoEndlessDescent in SqlProgressProofs).           *)
(***************************************************************************)
EXTENDS Integers

(* The first number that differs is lower in a than in b, and a natural.   *)
Lower(a, b) ==
    \E k \in DOMAIN b : 0 <= a[k] /\ a[k] < b[k] /\ \A j \in 1..(k - 1) : a[j] = b[j]
=============================================================================
