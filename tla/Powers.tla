------------------------------- MODULE Powers -------------------------------
(***************************************************************************)
(* The powers of two, 1 << n in the code.                                  *)
(***************************************************************************)
EXTENDS Naturals

Power[n \in Nat] == IF n = 0 THEN 1 ELSE 2 * Power[n - 1]
=============================================================================
