------------------------------- MODULE Powers -------------------------------
(***************************************************************************)
(* Powers of integers by multiplication: the sizes of words, and what the powers and  *)
(* the lengths of numerals that the code computes are compared with.            *)
(***************************************************************************)
EXTENDS Integers

Power(x, n) ==
  LET p[i \in 0 .. n] == IF i = 0 THEN 1 ELSE p[i - 1] * x
  IN p[n]
=============================================================================
