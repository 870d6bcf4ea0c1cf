------------------------------- MODULE Powers -------------------------------
(* Powers, as recursive functions, which proofs can unfold: those of two,   *)
(* by which shifts and the widths of registers are modelled, and those of a *)
(* function, by which loops are.                                            *)
EXTENDS Integers

pow2[n \in Nat] == IF n = 0 THEN 1 ELSE 2 * pow2[n - 1]

\* F of F of ... t, n times.
Times(F, n, t) == LET f[i \in Nat] == IF i = 0 THEN t ELSE F[f[i - 1]] IN f[n]
=============================================================================
