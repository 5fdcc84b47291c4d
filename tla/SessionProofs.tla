--------------------------- MODULE SessionProofs ---------------------------
(* Proofs about Session, for any number of clients, identifiers, crashes.  *)
EXTENDS Session, TLAPS

(* The stored value lags behind the one in memory only while a handler is  *)
(* between its choice and its write.                                       *)
StoreLags ==
  /\ holder = None => next_id = IF stored = 0 THEN 1 ELSE stored
  /\ holder # None => /\ picked >= stored
                      /\ next_id = picked + 1

(* What clients have used or are about to use lies below the stored value. *)
UsedBelow == \A x \in used : x < stored

Waiting(c) == phase[c] = "answered" /\ id[c] # Exhausted

(* An answer on its way carries an identifier nobody else has or will get. *)
AnswersFresh ==
  /\ \A c \in Client : Waiting(c) => id[c] \in Nat /\ id[c] < stored /\ id[c] \notin used
  /\ \A c, d \in Client : Waiting(c) /\ Waiting(d) /\ id[c] = id[d] => c = d

IInv == TypeOK /\ StoreLags /\ UsedBelow /\ AnswersFresh

----------------------------------------------------------------------------
(* The initial state satisfies the inductive invariant. *)
LEMMA InitInv == Init => IInv
  BY DEF Init, IInv, TypeOK, StoreLags, UsedBelow, AnswersFresh, Waiting, Exhausted

(* Every step preserves the inductive invariant. *)
LEMMA NextInv == IInv /\ [Next]_vars => IInv'
<1> SUFFICES ASSUME IInv, [Next]_vars PROVE IInv'
  OBVIOUS
<1> USE NoneAssumption DEF IInv
<1>1. ASSUME NEW c \in Client, Ask(c) PROVE IInv'
  BY <1>1 DEF Ask, TypeOK, StoreLags, UsedBelow, AnswersFresh, Waiting
<1>2. ASSUME NEW c \in Client, Pick(c) PROVE IInv'
  <2>1. TypeOK'
    BY <1>2 DEF Pick, TypeOK
  <2>2. StoreLags'
    BY <1>2 DEF Pick, TypeOK, StoreLags
  <2> QED
    BY <1>2, <2>1, <2>2 DEF Pick, TypeOK, UsedBelow, AnswersFresh, Waiting
<1>3. CASE Store
  <2>1. holder \in Client /\ picked >= stored /\ next_id = picked + 1
    BY <1>3 DEF Store, TypeOK, StoreLags
  <2>2. TypeOK'
    BY <1>3, <2>1 DEF Store, TypeOK
  <2>3. StoreLags' /\ UsedBelow'
    BY <1>3, <2>1 DEF Store, TypeOK, StoreLags, UsedBelow
  <2>4. CASE phase[holder] = "served"
    <3>1. /\ phase' = [phase EXCEPT ![holder] = "answered"]
          /\ id' = [id EXCEPT ![holder] = picked]
          /\ used' = used /\ stored' = picked + 1
      BY <1>3, <2>1, <2>4 DEF Store
    <3>2. \A x \in used : x < picked
      BY <2>1 DEF UsedBelow, TypeOK
    <3>3. \A c \in Client : c # holder => (Waiting(c)' <=> Waiting(c)) /\ id'[c] = id[c]
      BY <2>1, <3>1 DEF Waiting, TypeOK
    <3>4. id'[holder] = picked /\ picked \in Nat
      BY <2>1, <3>1 DEF TypeOK
    <3>5. \A c \in Client : c # holder /\ Waiting(c)' => id[c] < picked /\ id[c] \in Nat
      BY <2>1, <3>3 DEF AnswersFresh, TypeOK
    <3>6. \A c \in Client : Waiting(c)' => id'[c] \in Nat /\ id'[c] < stored'
                                           /\ id'[c] \notin used'
      BY <2>1, <3>1, <3>2, <3>3, <3>4, <3>5 DEF AnswersFresh, TypeOK
    <3>7. \A c, d \in Client : Waiting(c)' /\ Waiting(d)' /\ id'[c] = id'[d] => c = d
      BY <3>3, <3>4, <3>5 DEF AnswersFresh
    <3> QED
      BY <2>2, <2>3, <3>6, <3>7 DEF AnswersFresh
  <2>5. CASE phase[holder] # "served"
    BY <1>3, <2>1, <2>2, <2>3, <2>5 DEF Store, AnswersFresh, Waiting, TypeOK
  <2> QED
    BY <2>4, <2>5
<1>4. ASSUME NEW c \in Client, RunOut(c) PROVE IInv'
  BY <1>4 DEF RunOut, TypeOK, StoreLags, UsedBelow, AnswersFresh, Waiting, Exhausted
<1>5. ASSUME NEW c \in Client, Mounted(c) PROVE IInv'
  <2>1. TypeOK' /\ StoreLags' /\ UsedBelow'
    BY <1>5 DEF Mounted, TypeOK, StoreLags, UsedBelow, AnswersFresh, Waiting, Exhausted
  <2>2. AnswersFresh'
    BY <1>5 DEF Mounted, TypeOK, AnswersFresh, Waiting
  <2> QED
    BY <2>1, <2>2
<1>6. ASSUME NEW c \in Client, Fail(c) \/ Leave(c) PROVE IInv'
  BY <1>6 DEF Fail, Leave, TypeOK, StoreLags, UsedBelow, AnswersFresh, Waiting
<1>7. CASE Crash
  BY <1>7 DEF Crash, TypeOK, StoreLags, UsedBelow, AnswersFresh, Waiting
<1>8. CASE UNCHANGED vars
  BY <1>8 DEF vars, TypeOK, StoreLags, UsedBelow, AnswersFresh, Waiting
<1> QED
  BY <1>1, <1>2, <1>3, <1>4, <1>5, <1>6, <1>7, <1>8 DEF Next, ClientStep

----------------------------------------------------------------------------
(***************************************************************************)
(* For any number of clients, every counter, file and answer of the        *)
(* session service stays in its type: the counter never passes the last    *)
(* identifier, in memory or in the file, across crashes of the manager.    *)
(***************************************************************************)
THEOREM TypeCorrect == Spec => []TypeOK
<1>1. IInv => TypeOK
  BY DEF IInv
<1> QED
  BY <1>1, InitInv, NextInv, PTL DEF Spec

(***************************************************************************)
(* No two mounts ever get the same identifier, however often the manager   *)
(* is restarted and wherever in a mount it dies.                           *)
(***************************************************************************)
THEOREM IdsAreFresh == Spec => FreshId
<1> DEFINE Fresh == \A c \in Client :
                      phase[c] = "answered" /\ phase'[c] = "mounted"
                        /\ id[c] # Exhausted => id[c] \notin used
<1>1. IInv => Fresh
  BY DEF IInv, AnswersFresh, Waiting
<1>2. IInv => [Fresh]_vars
  BY <1>1
<1> QED
  BY <1>2, InitInv, NextInv, PTL DEF Spec, FreshId
============================================================================
