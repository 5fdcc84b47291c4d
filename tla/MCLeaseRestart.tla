--------------------------- MODULE MCLeaseRestart ---------------------------
(* The instance of LeaseRestart that TLC checks. *)
EXTENDS LeaseRestart, TLC

CONSTANTS c1, c2

MCSkew == c1 :> 0 @@ c2 :> 0

CallSymmetry == Permutations(Call)
=============================================================================
