-------------------------------- MODULE Sums --------------------------------
(***************************************************************************)
(* Sums of the first values of a sequence, by a recursive function so that *)
(* module SumTheorems can prove what they are.                             *)
(***************************************************************************)
EXTENDS Integers

SumTo(f, n) ==
  LET sum[i \in 0..n] == IF i = 0 THEN 0 ELSE sum[i - 1] + f[i]
  IN sum[n]
=============================================================================
