-------------------------- MODULE ContinuityQuorum --------------------------
(***************************************************************************)
(* The two thresholds of the Continuity consensus algorithm                *)
(* (lib/continuity.js) as functions of the number of witnesses.            *)
(***************************************************************************)
EXTENDS Naturals

(* `2f+1` of `3f+1` witnesses; with at most three of them, all.            *)
Supermajority(n) == IF n <= 3 THEN n ELSE (n \div 3) * 2 + 1

(* `f`.  The code divides without rounding; the two agree on the only      *)
(* numbers of witnesses lib/witnesses.js lets through, 1 and `3f+1`.       *)
MaximumFailures(n) == IF n = 1 THEN 0 ELSE (n - 1) \div 3

(* The numbers of witnesses getBlockWitnesses accepts.                     *)
ValidWitnessCount(n) == n = 1 \/ n % 3 = 1
=============================================================================
