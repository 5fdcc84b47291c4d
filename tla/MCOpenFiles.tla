----------------------------- MODULE MCOpenFiles -----------------------------
(* The instance of OpenFiles that TLC checks: the directory holds one file. *)
EXTENDS OpenFiles, TLC

CONSTANTS f1, n1

MCFirst == [n \in Name |-> IF n = n1 THEN f1 ELSE Nil]

(* The last unit of work is not for chown, utimens and access, which differ *)
(* from chmod in the field and from getattr in what they return.            *)
Representative ==
  work = MaxWork =>
    /\ \A f \in File : truth[f].owner = 0 /\ truth[f].times = 0
    /\ \A c \in Client : op[c].k \notin {"chown", "utimens", "access"}

ClientSymmetry == Permutations(Client)
==============================================================================
