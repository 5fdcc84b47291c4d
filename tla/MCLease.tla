------------------------------ MODULE MCLease ------------------------------
(* The instance of Lease that TLC checks: clients with clocks that agree   *)
(* with the manager's, except that the second may be one tick ahead.       *)
EXTENDS Lease, TLC

CONSTANTS c1, c2

MCSkew == c1 :> 0 @@ c2 :> 1

CallSymmetry == Permutations(Call)
============================================================================
