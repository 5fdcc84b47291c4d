------------------------------ MODULE MCJournal ------------------------------
(* Instances of Journal for TLC.  The root directory has a checkpoint       *)
(* thread to itself; the other directories share one.                       *)
EXTENDS Journal, TLC

CONSTANTS q1, q2

MCQueueOf == [d \in Dir |-> IF d = Root THEN q1 ELSE q2]

(* Files that have a name in one directory and a record of another.         *)
Away ==
  {f \in used \cap File : \E d, e \in Dir :
     /\ d # e /\ \E n \in Name : mem[e][n] = f
     /\ \E g \in DOMAIN txs[d] : txs[d][g].f_inodes[f] # None}

(* Either the second directory is in use, or a second name and file are:    *)
(* what is left out is the combination of both, except that one file may go *)
(* from one directory to the other under two names and be changed there,    *)
(* when one operation ends before the next and no call is overtaken.        *)
OneKind ==
  \/ ops <= 3 /\ used \cap Dir = {Root}
  \/ /\ ops <= 3 /\ Cardinality(used \cap File) <= 1
     /\ \/ ops <= 2
        \/ /\ \A w \in Worker : tries[w] <= 1
           /\ \A d \in Dir : Len(txs[d]) <= 3
     /\ Cardinality({n \in Name : \E d \in Dir :
                       \/ mem[d][n] # None
                       \/ \E g \in DOMAIN txs[d] : txs[d][g].dentries[n] # None}) <= 1
  \/ /\ Cardinality(used \cap File) <= 1
     /\ ops <= 2 \/ Away # {}
     /\ \A w \in Worker : tries[w] <= 1
     /\ \A d \in Dir : Len(txs[d]) <= 2
     /\ Cardinality({w \in Worker : todo[w] # <<>>}) <= 1

Symmetry == Permutations(Worker) \cup Permutations(Name) \cup Permutations(File)
==============================================================================
