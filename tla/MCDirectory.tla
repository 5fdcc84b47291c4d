----------------------------- MODULE MCDirectory -----------------------------
(* Instances of Directory for TLC: the root holds the directory s1 with a   *)
(* file, or the directory s2 with nothing in it, or with two files, or      *)
(* nothing.                                                                 *)
EXTENDS Directory, TLC

CONSTANTS s1, s2, f1, f2, a, b

Tree(s, x, y) ==
  [d \in Dir |-> [n \in Name |->
     IF d = Root /\ n = a THEN s
     ELSE IF d # s THEN Nil
     ELSE IF n = b THEN x ELSE y]]

MCStarts == {Tree(s1, f1, Nil), Tree(Nil, Nil, Nil)}

MCTwoFiles == {Tree(s1, f1, Nil), Tree(s2, Nil, Nil), Tree(s2, f1, f2)}

(* From the second start two units of work less, and no mkdir: the          *)
(* directory a mkdir makes in the first is as empty as s2.  From the third  *)
(* two renames, which may meet on the names of the two files; from the      *)
(* first a rename meets one other operation or two failures.  A symlink,    *)
(* which enters a name as create does, and a readdir meet a failure, not    *)
(* another operation.                                                       *)
TwoFiles == s1 \notin used /\ {f1, f2} \subseteq used

LessWork ==
  /\ s1 \notin used =>
       \/ work < MaxWork - 1
       \/ TwoFiles /\ work < MaxWork /\ \A c \in Client : op[c].k \in {"idle", "rename"}
  /\ \A c \in Client : op[c].x # s1
  /\ \A c \in Client : op[c].k \in {"symlink", "readdir"} => work < MaxWork - 1
  /\ \A c \in Client : op[c].k = "rename" => work < MaxWork
  /\ \A c, i \in Client :
       c # i /\ op[c].k = "rename" /\ op[i].k = "rename" => TwoFiles

ClientSymmetry == Permutations(Client)
==============================================================================
