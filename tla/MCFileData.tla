----------------------------- MODULE MCFileData -----------------------------
(* Instances of FileData for TLC.                                          *)
EXTENDS FileData, TLC

Threads == Permutations(Local) \cup Permutations(Proc \ Local)

(* The properties of the remote run say nothing once torn is set.          *)
Whole == ~torn
=============================================================================
