----------------------------- MODULE MCSession -----------------------------
(* The instance of Session that TLC checks. *)
EXTENDS Session, TLC

ClientSymmetry == Permutations(Client)
============================================================================
