------------------------------- MODULE Powers -------------------------------
(***************************************************************************)
(* Powers of a number by repeated multiplication, the way the code's loops *)
(* and shifts make them.                                                   *)
(***************************************************************************)
EXTENDS Naturals

Pow(b, n) == LET p[i \in 0..n] == IF i = 0 THEN 1 ELSE b * p[i - 1] IN p[n]

=============================================================================
