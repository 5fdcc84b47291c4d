---------------------------- MODULE LeaseProofs ----------------------------
(***************************************************************************)
(* Proofs about Lease, for any set of clients, directories and calls and   *)
(* any lease period, and about LeaseRestart, for any number of restarts of *)
(* the manager.                                                            *)
(***************************************************************************)
EXTENDS LeaseRestart, TLAPS

(* A directory that is not in the manager's map has no due date.           *)
AbsentHasNoDue == \A i \in Ino : entry[i].addr = None => entry[i].due = 0

(* A client waits only for a call of its own.                              *)
AwaitsOwnCall ==
  \A c \in Client : cur[c] # None => /\ call[cur[c]].pc # "free"
                                     /\ call[cur[c]].client = c

(* A lease in a client's table that has not expired by the manager's clock *)
(* is the lease in the manager's table.                                    *)
TableAgrees ==
  \A c \in Client, i \in Ino :
    now < tab[c][i].due => /\ entry[i].due = tab[c][i].due
                           /\ tab[c][i].leader <=> entry[i].addr = c

(* So is a lease in an answer on its way.                                  *)
AnswerAgrees ==
  \A k \in Call :
    call[k].pc = "replied" /\ now < call[k].due =>
      /\ entry[call[k].ino].due = call[k].due
      /\ call[k].ret = 0 <=> entry[call[k].ino].addr = call[k].client

(* What every step preserves whatever the leases say.                      *)
Shape ==
  /\ TypeOK
  /\ AbsentHasNoDue
  /\ AwaitsOwnCall

IInv == Shape /\ TableAgrees /\ AnswerAgrees

----------------------------------------------------------------------------
(* The initial state satisfies the inductive invariant. *)
LEMMA InitInv == Init => IInv
<1> SUFFICES ASSUME Init PROVE IInv
  OBVIOUS
<1>1. TypeOK
  BY DEF Init, TypeOK, NoEntry, NoLease, FreeCall, CallType
<1>2. AbsentHasNoDue /\ AwaitsOwnCall /\ TableAgrees /\ AnswerAgrees
  BY DEF Init, AbsentHasNoDue, AwaitsOwnCall, TableAgrees, AnswerAgrees,
         NoEntry, NoLease, FreeCall
<1> QED
  BY <1>1, <1>2 DEF IInv, Shape

(***************************************************************************)
(* What a grant does: the entry it writes was absent or expired, the call  *)
(* it answers is the only one it touches.                                  *)
(***************************************************************************)
LEMMA GrantShape ==
  ASSUME Shape, NEW k \in Call, call[k].pc \in {"cas", "insert"},
         entry[call[k].ino].addr = None \/ now >= entry[call[k].ino].due,
         Grant(k), UNCHANGED <<now, cur, tab>>
  PROVE  /\ Shape'
         /\ call[k].ino \in Ino /\ call[k].client \in Client
         /\ entry[call[k].ino].due \in Nat /\ entry[call[k].ino].due <= now
         /\ entry' = [entry EXCEPT ![call[k].ino] =
                        [due |-> now + Period, addr |-> call[k].client]]
         /\ call' = [call EXCEPT ![k] =
                       [call[k] EXCEPT !.pc = "replied", !.ret = 0,
                                       !.due = now + Period,
                                       !.addr = call[k].client]]
<1> DEFINE i == call[k].ino
           c == call[k].client
           e == [due |-> now + Period, addr |-> c]
<1> USE PeriodAssumption, NoneAssumption
<1>1. i \in Ino /\ c \in Client /\ now \in Nat /\ entry[i].due \in Nat
  BY DEF Shape, TypeOK
<1>2. entry[i].due <= now
  BY <1>1 DEF Shape, AbsentHasNoDue
<1>3. entry' = [entry EXCEPT ![i] = e]
  BY DEF Grant
<1>4. call' = [call EXCEPT ![k] = [call[k] EXCEPT !.pc = "replied", !.ret = 0,
                                      !.due = now + Period, !.addr = c]]
  BY DEF Grant, Reply, Shape, TypeOK
<1>5. TypeOK'
  <2>1. entry' \in [Ino -> [due : Nat, addr : Client \cup {None}]]
    BY <1>1, <1>3 DEF Shape, TypeOK
  <2>2. [call[k] EXCEPT !.pc = "replied", !.ret = 0,
                        !.due = now + Period, !.addr = c] \in CallType
    <3>1. call[k] \in CallType /\ now + Period \in Nat /\ c \in Client \cup {None}
      BY <1>1 DEF Shape, TypeOK
    <3> QED
      BY <3>1 DEF CallType
  <2>3. call' \in [Call -> CallType]
    BY <1>4, <2>2 DEF Shape, TypeOK
  <2>4. \A l \in Call : call'[l].pc # "free" => /\ call'[l].client \in Client
                                               /\ call'[l].ino \in Ino
    BY <1>1, <1>4 DEF Shape, TypeOK, CallType
  <2> QED
    BY <2>1, <2>3, <2>4 DEF Shape, TypeOK
<1>6. AbsentHasNoDue'
  BY <1>1, <1>3 DEF Shape, TypeOK, AbsentHasNoDue
<1>7. AwaitsOwnCall'
  BY <1>1, <1>4 DEF Shape, TypeOK, CallType, AwaitsOwnCall
<1> QED
  BY <1>1, <1>2, <1>3, <1>4, <1>5, <1>6, <1>7 DEF Shape

(***************************************************************************)
(* An answer that grants nothing but reports the entry as it is.           *)
(***************************************************************************)
LEMMA ReportShape ==
  ASSUME Shape, NEW k \in Call, call[k].pc \in {"cas", "insert"},
         NEW ret \in {0, -1}, NEW addr \in Client,
         Reply(k, ret, entry[call[k].ino].due, addr),
         UNCHANGED <<now, entry, cur, tab>>
  PROVE  Shape'
<1> DEFINE i == call[k].ino
           c == call[k].client
<1>1. i \in Ino /\ c \in Client /\ entry[i].due \in Nat
  BY DEF Shape, TypeOK
<1>2. call' = [call EXCEPT ![k] = [call[k] EXCEPT !.pc = "replied", !.ret = ret,
                                      !.due = entry[i].due, !.addr = addr]]
  BY DEF Reply, Shape, TypeOK
<1>3. TypeOK'
  <2>1. [call[k] EXCEPT !.pc = "replied", !.ret = ret,
                        !.due = entry[i].due, !.addr = addr] \in CallType
    <3>1. call[k] \in CallType /\ addr \in Client \cup {None}
      BY DEF Shape, TypeOK
    <3> QED
      BY <1>1, <3>1 DEF CallType
  <2>2. call' \in [Call -> CallType]
    BY <1>2, <2>1 DEF Shape, TypeOK
  <2>3. \A l \in Call : call'[l].pc # "free" => /\ call'[l].client \in Client
                                               /\ call'[l].ino \in Ino
    BY <1>1, <1>2 DEF Shape, TypeOK, CallType
  <2> QED
    BY <2>2, <2>3 DEF Shape, TypeOK
<1>4. AbsentHasNoDue'
  BY DEF Shape, AbsentHasNoDue
<1>5. AwaitsOwnCall'
  BY <1>1, <1>2 DEF Shape, TypeOK, CallType, AwaitsOwnCall
<1> QED
  BY <1>3, <1>4, <1>5 DEF Shape

(***************************************************************************)
(* A handler's step after the lookup is a grant of an absent or expired    *)
(* entry, or a report of the entry as it is.                               *)
(***************************************************************************)
LEMMA GrantOrReport ==
  ASSUME Shape, NEW k \in Call, Cas(k) \/ Insert(k)
  PROVE  /\ call[k].pc \in {"cas", "insert"}
         /\ UNCHANGED <<now, cur, tab>>
         /\ \/ /\ entry[call[k].ino].addr = None \/ now >= entry[call[k].ino].due
               /\ Grant(k)
            \/ /\ entry' = entry
               /\ \E ret \in {0, -1}, addr \in Client :
                    /\ ret = 0 <=> entry[call[k].ino].addr = call[k].client
                    /\ Reply(k, ret, entry[call[k].ino].due, addr)
<1> DEFINE e == entry[call[k].ino]
           c == call[k].client
<1>1. call[k].pc \in {"cas", "insert"} /\ UNCHANGED <<now, cur, tab>>
  BY DEF Cas, Insert
<1>2. /\ c \in Client /\ now \in Nat /\ call[k].ino \in Ino
      /\ e.addr \in Client \cup {None} /\ e.due \in Nat
  BY <1>1 DEF Shape, TypeOK
<1>3. CASE Grant(k) /\ (e.addr = None \/ now >= e.due)
  BY <1>1, <1>3
<1>4. CASE now < e.due /\ e.addr = c /\ Reply(k, 0, e.due, c) /\ UNCHANGED entry
  BY <1>1, <1>2, <1>4
<1>5. CASE now < e.due /\ e.addr # c /\ Reply(k, -1, e.due, e.addr) /\ UNCHANGED entry
  <2>1. e.addr \in Client
    BY <1>2, <1>5 DEF Shape, AbsentHasNoDue
  <2> QED
    BY <1>1, <1>5, <2>1
<1>6. CASE Reply(k, IF e.addr = c THEN 0 ELSE -1, e.due, c) /\ UNCHANGED entry
  <2>1. CASE e.addr = c
    BY <1>1, <1>2, <1>6, <2>1
  <2>2. CASE e.addr # c
    BY <1>1, <1>2, <1>6, <2>2
  <2> QED
    BY <2>1, <2>2
<1> QED
  BY <1>3, <1>4, <1>5, <1>6 DEF Cas, Insert

(***************************************************************************)
(* What an answer does to its client's table.                              *)
(***************************************************************************)
LEMMA ReceiveEffect ==
  ASSUME Shape, NEW c \in Client, NEW k \in Call, Receive(c, k),
         NEW i, i = call[k].ino, NEW e,
         e = SetInfo(tab[c][i], call[k].due, call[k].ret = 0)
  PROVE  /\ i \in Ino /\ call[k].client = c /\ call[k].pc = "replied"
         /\ call[k] \in CallType /\ call[k].due \in Nat
         /\ tab[c][i] \in [due : Nat, leader : BOOLEAN]
         /\ e \in [due : Nat, leader : BOOLEAN]
         /\ tab' = [tab EXCEPT ![c] = [tab[c] EXCEPT ![i] = e]]
<1> USE NoneAssumption DEF Shape
<1>1. /\ i \in Ino /\ call[k].client = c /\ call[k].pc = "replied"
      /\ call[k] \in CallType /\ call[k].due \in Nat
      /\ tab[c][i] \in [due : Nat, leader : BOOLEAN]
  BY DEF Receive, TypeOK, AwaitsOwnCall, CallType
<1>2. e \in [due : Nat, leader : BOOLEAN]
  BY <1>1 DEF SetInfo
<1>3. tab' = [tab EXCEPT ![c] = [tab[c] EXCEPT ![i] = e]]
  BY DEF Receive, TypeOK
<1> QED
  BY <1>1, <1>2, <1>3

(* Every step keeps the types, the absent entries and the calls' owners.   *)
LEMMA ShapeNext == Shape /\ [Next]_vars => Shape'
<1> SUFFICES ASSUME Shape, [Next]_vars PROVE Shape'
  OBVIOUS
<1> USE NoneAssumption
<1>1. ASSUME NEW c \in Client, NEW i \in Ino, NEW k \in Call, Acquire(c, i, k)
      PROVE  Shape'
  <2> DEFINE new == [pc |-> "sent", client |-> c, ino |-> i,
                     ret |-> 0, due |-> 0, addr |-> c]
  <2>1. new \in CallType
    BY DEF CallType
  <2>2. call' = [call EXCEPT ![k] = new] /\ cur' = [cur EXCEPT ![c] = k]
    BY <1>1 DEF Acquire
  <2>3. TypeOK'
    BY <1>1, <2>1, <2>2 DEF Shape, Acquire, TypeOK
  <2>4. AwaitsOwnCall'
    BY <1>1, <2>2 DEF Shape, Acquire, Free, TypeOK, AwaitsOwnCall
  <2>5. AbsentHasNoDue'
    BY <1>1 DEF Shape, Acquire, AbsentHasNoDue
  <2> QED
    BY <2>3, <2>4, <2>5 DEF Shape
<1>2. ASSUME NEW c \in Client, NEW k \in Call, Receive(c, k)
      PROVE  Shape'
  <2>1. FreeCall \in CallType
    BY DEF FreeCall, CallType
  <2> DEFINE i == call[k].ino
             e == SetInfo(tab[c][i], call[k].due, call[k].ret = 0)
  <2>0. /\ i \in Ino /\ call[k].client = c
        /\ e \in [due : Nat, leader : BOOLEAN]
        /\ tab' = [tab EXCEPT ![c] = [tab[c] EXCEPT ![i] = e]]
    BY <1>2, ReceiveEffect
  <2>2. tab' \in [Client -> [Ino -> [due : Nat, leader : BOOLEAN]]]
    BY <2>0 DEF Shape, TypeOK
  <2>3. TypeOK'
    BY <1>2, <2>1, <2>2 DEF Shape, Receive, TypeOK, FreeCall
  <2>4. AwaitsOwnCall'
    BY <1>2, <2>0 DEF Shape, Receive, TypeOK, AwaitsOwnCall
  <2>5. AbsentHasNoDue'
    BY <1>2 DEF Shape, Receive, AbsentHasNoDue
  <2> QED
    BY <2>3, <2>4, <2>5 DEF Shape
<1>3. ASSUME NEW c \in Client, RpcFail(c) \/ Remount(c)
      PROVE  Shape'
  <2>1. TypeOK'
    <3>1. CASE RpcFail(c)
      BY <3>1 DEF Shape, RpcFail, TypeOK
    <3>2. CASE Remount(c)
      BY <3>2 DEF Shape, Remount, TypeOK, NoLease
    <3> QED
      BY <1>3, <3>1, <3>2
  <2> QED
    BY <1>3, <2>1 DEF Shape, RpcFail, Remount, TypeOK, AbsentHasNoDue, AwaitsOwnCall
<1>4. ASSUME NEW k \in Call, Lookup(k)
      PROVE  Shape'
  <2> DEFINE pc == IF entry[call[k].ino].addr # None THEN "cas" ELSE "insert"
  <2>1. call' = [call EXCEPT ![k] = [call[k] EXCEPT !.pc = pc]]
    BY <1>4 DEF Shape, Lookup, TypeOK
  <2>2. [call[k] EXCEPT !.pc = pc] \in CallType
    <3>1. call[k] \in CallType /\ pc \in {"cas", "insert"}
      BY DEF Shape, TypeOK
    <3> QED
      BY <3>1 DEF CallType
  <2>3. TypeOK'
    <3>1. call' \in [Call -> CallType]
      BY <2>1, <2>2 DEF Shape, TypeOK
    <3>2. \A l \in Call : call'[l].pc # "free" => /\ call'[l].client \in Client
                                                 /\ call'[l].ino \in Ino
      BY <1>4, <2>1 DEF Shape, Lookup, TypeOK, CallType
    <3> QED
      BY <1>4, <3>1, <3>2 DEF Shape, Lookup, TypeOK
  <2>4. AwaitsOwnCall'
    BY <1>4, <2>1 DEF Shape, Lookup, TypeOK, CallType, AwaitsOwnCall
  <2> QED
    BY <1>4, <2>3, <2>4 DEF Shape, Lookup, AbsentHasNoDue
<1>5. ASSUME NEW k \in Call, Cas(k) \/ Insert(k)
      PROVE  Shape'
  BY <1>5, GrantOrReport, GrantShape, ReportShape
<1>6. ASSUME NEW k \in Call, Drop(k)
      PROVE  Shape'
  <2>1. FreeCall \in CallType
    BY DEF FreeCall, CallType
  <2>2. TypeOK'
    BY <1>6, <2>1 DEF Shape, Drop, TypeOK, FreeCall
  <2>3. AwaitsOwnCall'
    BY <1>6 DEF Shape, Drop, Awaited, TypeOK, AwaitsOwnCall
  <2> QED
    BY <1>6, <2>2, <2>3 DEF Shape, Drop, AbsentHasNoDue
<1>7. CASE Tick \/ UNCHANGED vars
  BY <1>7 DEF Shape, Tick, vars, TypeOK, AbsentHasNoDue, AwaitsOwnCall
<1> QED
  BY <1>1, <1>2, <1>3, <1>4, <1>5, <1>6, <1>7 DEF Next, ClientStep, ManagerStep

(***************************************************************************)
(* Every step preserves the agreement of the tables: a grant touches no    *)
(* running lease, a report and an answer say what the entry says.          *)
(***************************************************************************)
LEMMA AgreesNext == IInv /\ [Next]_vars => TableAgrees' /\ AnswerAgrees'
<1> SUFFICES ASSUME IInv, [Next]_vars PROVE TableAgrees' /\ AnswerAgrees'
  OBVIOUS
<1> USE NoneAssumption, PeriodAssumption
<1>0. Shape /\ TypeOK /\ TableAgrees /\ AnswerAgrees
  BY DEF IInv, Shape
<1>1. ASSUME NEW c \in Client, NEW i \in Ino, NEW k \in Call, Acquire(c, i, k)
      PROVE  TableAgrees' /\ AnswerAgrees'
  BY <1>0, <1>1 DEF Acquire, TypeOK, TableAgrees, AnswerAgrees
<1>2. ASSUME NEW c \in Client, NEW k \in Call, Receive(c, k)
      PROVE  TableAgrees' /\ AnswerAgrees'
  <2> DEFINE i == call[k].ino
             e == SetInfo(tab[c][i], call[k].due, call[k].ret = 0)
  <2>1. /\ i \in Ino /\ call[k].client = c /\ call[k].pc = "replied"
        /\ call[k] \in CallType /\ call[k].due \in Nat
        /\ tab[c][i] \in [due : Nat, leader : BOOLEAN]
        /\ tab' = [tab EXCEPT ![c] = [tab[c] EXCEPT ![i] = e]]
    BY <1>0, <1>2, ReceiveEffect
  <2>2. now < e.due => entry[i].due = e.due /\ (e.leader <=> entry[i].addr = c)
    <3>1. CASE call[k].due > tab[c][i].due
      BY <1>0, <2>1, <3>1 DEF SetInfo, AnswerAgrees
    <3>2. CASE ~(call[k].due > tab[c][i].due)
      BY <1>0, <2>1, <3>2 DEF SetInfo, TableAgrees
    <3> QED
      BY <3>1, <3>2
  <2>3. TableAgrees'
    BY <1>0, <1>2, <2>1, <2>2 DEF Receive, TypeOK, TableAgrees
  <2>4. AnswerAgrees'
    BY <1>0, <1>2 DEF Receive, TypeOK, AnswerAgrees, FreeCall
  <2> QED
    BY <2>3, <2>4
<1>3. ASSUME NEW c \in Client, RpcFail(c) \/ Remount(c)
      PROVE  TableAgrees' /\ AnswerAgrees'
  <2>1. CASE RpcFail(c)
    BY <1>0, <2>1 DEF RpcFail, TableAgrees, AnswerAgrees
  <2>2. CASE Remount(c)
    BY <1>0, <2>2 DEF Remount, TypeOK, TableAgrees, AnswerAgrees, NoLease
  <2> QED
    BY <1>3, <2>1, <2>2
<1>4. ASSUME NEW k \in Call, Lookup(k)
      PROVE  TableAgrees' /\ AnswerAgrees'
  BY <1>0, <1>4 DEF Lookup, TypeOK, CallType, TableAgrees, AnswerAgrees
<1>5. ASSUME NEW k \in Call, Cas(k) \/ Insert(k)
      PROVE  TableAgrees' /\ AnswerAgrees'
  <2>1. CASE /\ entry[call[k].ino].addr = None \/ now >= entry[call[k].ino].due
             /\ Grant(k)
    <3> DEFINE i == call[k].ino
               c == call[k].client
    <3>1. /\ i \in Ino /\ c \in Client /\ entry[i].due \in Nat
          /\ entry[i].due <= now /\ UNCHANGED <<now, cur, tab>>
          /\ entry' = [entry EXCEPT ![i] = [due |-> now + Period, addr |-> c]]
          /\ call' = [call EXCEPT ![k] =
                        [call[k] EXCEPT !.pc = "replied", !.ret = 0,
                                        !.due = now + Period, !.addr = c]]
      BY <1>0, <1>5, <2>1, GrantOrReport, GrantShape
    <3>2. TableAgrees'
      BY <1>0, <3>1 DEF TypeOK, TableAgrees
    <3>3. AnswerAgrees'
      BY <1>0, <3>1 DEF TypeOK, CallType, AnswerAgrees
    <3> QED
      BY <3>2, <3>3
  <2>2. ASSUME NEW ret \in {0, -1}, NEW addr \in Client, entry' = entry,
               ret = 0 <=> entry[call[k].ino].addr = call[k].client,
               Reply(k, ret, entry[call[k].ino].due, addr)
        PROVE  TableAgrees' /\ AnswerAgrees'
    <3>0. call[k].pc \in {"cas", "insert"} /\ UNCHANGED <<now, entry, cur, tab>>
      BY <1>5, <2>2 DEF Cas, Insert
    <3>1. /\ call[k].ino \in Ino /\ call[k].client \in Client
          /\ call' = [call EXCEPT ![k] =
                        [call[k] EXCEPT !.pc = "replied", !.ret = ret,
                                        !.due = entry[call[k].ino].due,
                                        !.addr = addr]]
      BY <1>0, <2>2, <3>0 DEF Reply, TypeOK
    <3>2. TableAgrees'
      BY <1>0, <3>0, <3>1 DEF TableAgrees
    <3>3. AnswerAgrees'
      BY <1>0, <2>2, <3>0, <3>1 DEF TypeOK, CallType, AnswerAgrees
    <3> QED
      BY <3>2, <3>3
  <2> QED
    BY <1>0, <1>5, <2>1, <2>2, GrantOrReport
<1>6. ASSUME NEW k \in Call, Drop(k)
      PROVE  TableAgrees' /\ AnswerAgrees'
  BY <1>0, <1>6 DEF Drop, TypeOK, FreeCall, TableAgrees, AnswerAgrees
<1>7. CASE Tick
  BY <1>0, <1>7 DEF Tick, TypeOK, CallType, TableAgrees, AnswerAgrees
<1>8. CASE UNCHANGED vars
  BY <1>0, <1>8 DEF vars, TableAgrees, AnswerAgrees
<1> QED
  BY <1>1, <1>2, <1>3, <1>4, <1>5, <1>6, <1>7, <1>8
     DEF Next, ClientStep, ManagerStep

(* Every step preserves the inductive invariant. *)
LEMMA NextInv == IInv /\ [Next]_vars => IInv'
  BY ShapeNext, AgreesNext DEF IInv

----------------------------------------------------------------------------
(* The inductive invariant holds in every reachable state. *)
LEMMA Invariance == Spec => []IInv
  BY InitInv, NextInv, PTL DEF Spec

(***************************************************************************)
(* The tables and the calls always have their types.                       *)
(***************************************************************************)
THEOREM TypeCorrect == Spec => []TypeOK
<1>1. IInv => TypeOK
  BY DEF IInv, Shape
<1> QED
  BY <1>1, Invariance, PTL

(***************************************************************************)
(* Unexpired information in a client's table is what the manager's table   *)
(* says, as long as no client's clock is behind the manager's.             *)
(***************************************************************************)
THEOREM Agreement == Spec => []ValidAgrees
<1>1. IInv => ValidAgrees
  <2> SUFFICES ASSUME IInv, NEW c \in Client, NEW i \in Ino, is_valid(c, i)
               PROVE  /\ entry[i].due = tab[c][i].due
                      /\ tab[c][i].leader <=> entry[i].addr = c
    BY DEF ValidAgrees
  <2>1. now \in Nat /\ Skew[c] \in Nat /\ tab[c][i].due \in Nat
    BY SkewAssumption DEF IInv, Shape, TypeOK
  <2>2. now < tab[c][i].due
    BY <2>1 DEF is_valid
  <2> QED
    BY <2>2 DEF IInv, TableAgrees
<1> QED
  BY <1>1, Invariance, PTL

(***************************************************************************)
(* Mutual exclusion of leaders: two clients that both find their own lease *)
(* unexpired both agree with the manager's entry, which names one leader.  *)
(***************************************************************************)
THEOREM Exclusion == Spec => []LeaseExclusive
<1>1. ValidAgrees => LeaseExclusive
  BY DEF ValidAgrees, LeaseExclusive, is_valid, is_mine
<1> QED
  BY <1>1, Agreement, PTL

(***************************************************************************)
(* A running lease stays with its leader and keeps its due date until the  *)
(* clock reaches it.                                                       *)
(***************************************************************************)
THEOREM RunningStays == Spec => RunningLeaseStays
<1> DEFINE Stays == \A i \in Ino : entry[i].addr # None /\ now < entry[i].due
                                     => entry'[i] = entry[i]
<1>1. ASSUME IInv, [Next]_vars PROVE Stays
  <2> SUFFICES ASSUME NEW i \in Ino, entry[i].addr # None, now < entry[i].due
               PROVE  entry'[i] = entry[i]
    OBVIOUS
  <2>1. ASSUME NEW k \in Call, ManagerStep(k) PROVE entry'[i] = entry[i]
    <3>1. CASE Grant(k) /\ (now >= entry[call[k].ino].due \/ entry[call[k].ino].addr = None)
      BY <1>1, <3>1 DEF Grant, IInv, Shape, TypeOK
    <3> QED
      BY <2>1, <3>1 DEF ManagerStep, Lookup, Cas, Insert
  <2> QED
    BY <1>1, <2>1 DEF Next, ClientStep, Acquire, Receive, RpcFail, Remount, Drop,
                      Tick, vars
<1>2. ASSUME IInv, [Next]_vars PROVE [Stays]_vars
  BY <1>1, <1>2
<1> QED
  BY <1>2, Invariance, PTL DEF Spec, RunningLeaseStays

----------------------------------------------------------------------------
(***************************************************************************)
(* Due dates lie at most one Period ahead, everywhere: a grant is the only *)
(* step that makes one, and the clock only moves forward.                  *)
(***************************************************************************)
LEMMA DueNext ==
  ASSUME Shape, DueBounded, [Next]_vars
  PROVE  DueBounded'
<1> USE PeriodAssumption
<1>1. CASE UNCHANGED vars
  BY <1>1 DEF vars, DueBounded
<1>2. ASSUME NEW c \in Client, ClientStep(c) PROVE DueBounded'
  <2>1. ASSUME NEW i \in Ino, NEW k \in Call, Acquire(c, i, k) PROVE DueBounded'
    BY <2>1 DEF Acquire, DueBounded, Shape, TypeOK
  <2>2. ASSUME NEW k \in Call, Receive(c, k) PROVE DueBounded'
    <3> DEFINE i == call[k].ino
               e == SetInfo(tab[c][i], call[k].due, call[k].ret = 0)
    <3>1. tab' = [tab EXCEPT ![c] = [tab[c] EXCEPT ![i] = e]]
      BY <2>2 DEF Receive, Shape, TypeOK
    <3>2. i \in Ino /\ call[k].pc = "replied"
      BY <2>2 DEF Receive, Shape, TypeOK
    <3>3. e.due <= now + Period
      BY <3>2 DEF SetInfo, DueBounded
    <3> QED
      BY <2>2, <3>1, <3>2, <3>3
         DEF Receive, DueBounded, Shape, TypeOK, FreeCall
  <2>3. CASE RpcFail(c)
    BY <2>3 DEF RpcFail, DueBounded
  <2>4. CASE Remount(c)
    BY <2>4 DEF Remount, DueBounded, Shape, TypeOK, NoLease
  <2> QED
    BY <1>2, <2>1, <2>2, <2>3, <2>4 DEF ClientStep
<1>3. ASSUME NEW k \in Call, ManagerStep(k) \/ Drop(k) PROVE DueBounded'
  <2>1. CASE Lookup(k)
    BY <2>1 DEF Lookup, DueBounded, Shape, TypeOK, CallType
  <2>2. CASE Drop(k)
    BY <2>2 DEF Drop, DueBounded, Shape, TypeOK, FreeCall
  <2>3. CASE Grant(k) /\ UNCHANGED <<now, cur, tab>>
    BY <2>3 DEF Grant, Reply, DueBounded, Shape, TypeOK, CallType
  <2>4. ASSUME NEW ret, NEW addr, Reply(k, ret, entry[call[k].ino].due, addr),
               call[k].pc \in {"cas", "insert"},
               UNCHANGED <<now, entry, cur, tab>>
        PROVE  DueBounded'
    BY <2>4 DEF Reply, DueBounded, Shape, TypeOK, CallType
  <2>5. CASE Cas(k)
    BY <2>3, <2>4, <2>5 DEF Cas
  <2>6. CASE Insert(k)
    BY <2>3, <2>4, <2>6 DEF Insert
  <2> QED
    BY <1>3, <2>1, <2>2, <2>5, <2>6 DEF ManagerStep
<1>4. CASE Tick
  BY <1>4 DEF Tick, DueBounded, Shape, TypeOK, CallType
<1> QED
  BY <1>1, <1>2, <1>3, <1>4 DEF Next

(***************************************************************************)
(* No lease reaches further than one Period into the future.               *)
(***************************************************************************)
THEOREM DuesBounded == Spec => []DueBounded
<1>1. Init => DueBounded
  BY PeriodAssumption DEF Init, DueBounded, NoEntry, NoLease, FreeCall
<1>2. ASSUME IInv, DueBounded, [Next]_vars PROVE DueBounded'
  BY <1>2, DueNext DEF IInv
<1> QED
  BY <1>1, <1>2, Invariance, PTL DEF Spec

----------------------------------------------------------------------------
(***************************************************************************)
(* Lease implements Leadership.                                            *)
(***************************************************************************)

(* A grant elects the requestor: the directory had no leader. *)
LEMMA GrantElects ==
  ASSUME IInv, NEW k \in Call, call[k].pc \in {"cas", "insert"},
         entry[call[k].ino].addr = None \/ now >= entry[call[k].ino].due,
         Grant(k), UNCHANGED <<now, cur, tab>>
  PROVE  Abs!Elect(call[k].ino, call[k].client)
<1> DEFINE i == call[k].ino
           c == call[k].client
<1> USE PeriodAssumption
<1>1. i \in Ino /\ c \in Client /\ now \in Nat
  BY DEF IInv, Shape, TypeOK
<1>2. LeaderNow[i] = None
  BY <1>1 DEF LeaderNow, IInv, Shape, TypeOK
<1>3. Mine' = Mine
  BY DEF Mine, is_mine
<1>4. LeaderNow' = [LeaderNow EXCEPT ![i] = c]
  <2>1. entry' = [entry EXCEPT ![i] = [due |-> now + Period, addr |-> c]]
    BY DEF Grant
  <2>2. now' < entry'[i].due /\ entry'[i].addr = c
    BY <1>1, <2>1 DEF IInv, Shape, TypeOK
  <2>3. \A j \in Ino : LeaderNow'[j] = IF j = i THEN c ELSE LeaderNow[j]
    BY <1>1, <2>1, <2>2 DEF LeaderNow, IInv, Shape, TypeOK
  <2> QED
    BY <1>1, <2>3 DEF LeaderNow
<1> QED
  BY <1>2, <1>3, <1>4 DEF Abs!Elect

(* An answer makes the client act on a directory it leads, or says nothing *)
(* new.                                                                    *)
LEMMA ReceiveActs ==
  ASSUME IInv, IInv', NEW c \in Client, NEW k \in Call, Receive(c, k),
         NEW i \in Ino, i = call[k].ino
  PROVE  UNCHANGED Abs!absVars \/ Abs!Act(c, i)
<1> DEFINE e == SetInfo(tab[c][i], call[k].due, call[k].ret = 0)
<1>1. /\ call[k].pc = "replied" /\ call[k].client = c
      /\ call[k].due \in Nat /\ tab[c][i].due \in Nat
      /\ now \in Nat /\ Skew[c] \in Nat
  <2>1. call[k].pc = "replied" /\ call[k].client = c
    BY NoneAssumption DEF Receive, IInv, Shape, AwaitsOwnCall
  <2>2. call[k].due \in Nat /\ tab[c][i].due \in Nat /\ now \in Nat
    BY DEF IInv, Shape, TypeOK, CallType
  <2> QED
    BY <2>1, <2>2, SkewAssumption
<1>2. tab' = [tab EXCEPT ![c] = [tab[c] EXCEPT ![i] = e]]
  BY DEF Receive, IInv, Shape, TypeOK
<1>3. LeaderNow' = LeaderNow
  BY DEF Receive, LeaderNow
<1>4. \A d \in Client, j \in Ino : (d # c \/ j # i) =>
                                      (is_mine(d, j)' <=> is_mine(d, j))
  BY <1>1, <1>2 DEF Receive, is_mine, IInv, Shape, TypeOK
<1>5. is_mine(c, i) => is_mine(c, i)'
  <2> SUFFICES ASSUME is_mine(c, i) PROVE is_mine(c, i)'
    OBVIOUS
  <2>1. now < tab[c][i].due /\ entry[i].due = tab[c][i].due
    BY <1>1 DEF is_mine, IInv, TableAgrees
  <2>2. ~(call[k].due > tab[c][i].due)
    BY <1>1, <2>1 DEF IInv, AnswerAgrees
  <2>3. tab'[c][i] = tab[c][i]
    BY <1>1, <1>2, <2>2 DEF SetInfo, IInv, Shape, TypeOK
  <2>4. now' = now
    BY DEF Receive
  <2> QED
    BY <2>3, <2>4 DEF is_mine
<1>6. CASE is_mine(c, i)' <=> is_mine(c, i)
  <2>1. \A d \in Client, j \in Ino : is_mine(d, j)' <=> is_mine(d, j)
    BY <1>4, <1>6
  <2>2. Mine' = Mine
    BY <2>1 DEF Mine
  <2> QED
    BY <1>3, <2>2 DEF Abs!absVars
<1>7. CASE is_mine(c, i)' /\ ~is_mine(c, i)
  <2>1. tab'[c][i].leader /\ now' < tab'[c][i].due
    <3>1. now' = now
      BY DEF Receive
    <3>2. now + Skew[c] < tab'[c][i].due /\ tab'[c][i].leader
      BY <1>7, <3>1 DEF is_mine
    <3>3. tab'[c][i].due \in Nat
      BY <1>1 DEF IInv, Shape, TypeOK
    <3> QED
      BY <1>1, <3>1, <3>2, <3>3
  <2>2. entry'[i].due = tab'[c][i].due /\ entry'[i].addr = c
    BY <1>1, <2>1 DEF IInv, TableAgrees
  <2>3. LeaderNow[i] = c
    BY <1>1, <2>1, <2>2 DEF LeaderNow, Receive
  <2>4. \A j \in Ino : is_mine(c, j)' <=> is_mine(c, j) \/ j = i
    BY <1>1, <1>4, <1>7
  <2>5. Mine'[c] = Mine[c] \cup {i}
    BY <1>1, <2>4 DEF Mine
  <2>6. \A d \in Client : d # c => Mine'[d] = Mine[d]
    BY <1>4 DEF Mine
  <2>7. Mine' = [Mine EXCEPT ![c] = @ \cup {i}]
    BY <2>5, <2>6 DEF Mine
  <2> QED
    BY <1>3, <2>3, <2>7 DEF Abs!Act
<1> QED
  BY <1>5, <1>6, <1>7

(* The clock moves on: whoever loses the lead has stopped acting before.   *)
LEMMA TickLapses ==
  ASSUME IInv, IInv', Tick
  PROVE  Abs!Lapse
<1>1. entry' = entry /\ tab' = tab /\ now' = now + 1 /\ now \in Nat
  BY DEF Tick, IInv, Shape, TypeOK
<1>2. \A c \in Client, i \in Ino : is_mine(c, i)' => is_mine(c, i)
  BY <1>1, SkewAssumption DEF is_mine, IInv, Shape, TypeOK
<1>3. /\ Mine' \in [Client -> SUBSET Ino]
      /\ \A c \in Client : Mine'[c] \subseteq Mine[c]
  BY <1>2 DEF Mine
<1>4. LeaderNow' \in [Ino -> Client \cup {None}]
  BY DEF LeaderNow, IInv, Shape, TypeOK
<1>5. ASSUME NEW i \in Ino, LeaderNow'[i] # LeaderNow[i]
      PROVE  LeaderNow'[i] = None /\ \A c \in Client : i \notin Mine'[c]
  <2>1. ~(now' < entry'[i].due) /\ LeaderNow'[i] = None
    BY <1>1, <1>5 DEF LeaderNow, IInv, Shape, TypeOK
  <2>2. ASSUME NEW c \in Client, is_mine(c, i)' PROVE FALSE
    <3>1. now' + Skew[c] < tab'[c][i].due
      BY <2>2 DEF is_mine
    <3>2. now' < tab'[c][i].due
      BY <3>1, SkewAssumption DEF IInv, Shape, TypeOK
    <3> QED
      BY <2>1, <3>2 DEF IInv, TableAgrees
  <2> QED
    BY <2>1, <2>2 DEF Mine
<1> QED
  BY <1>3, <1>4, <1>5 DEF Abs!Lapse

(* A remounted client acts on nothing; nobody's lead changes.              *)
LEMMA RemountLapses ==
  ASSUME IInv, IInv', NEW c \in Client, Remount(c)
  PROVE  Abs!Lapse
<1>1. /\ entry' = entry /\ now' = now /\ now \in Nat
      /\ tab' = [tab EXCEPT ![c] = [i \in Ino |-> NoLease]]
  BY DEF Remount, IInv, Shape, TypeOK
<1>2. \A d \in Client, i \in Ino : is_mine(d, i)' => is_mine(d, i)
  BY <1>1, SkewAssumption DEF is_mine, IInv, Shape, TypeOK, NoLease
<1>3. /\ Mine' \in [Client -> SUBSET Ino]
      /\ \A d \in Client : Mine'[d] \subseteq Mine[d]
  BY <1>2 DEF Mine
<1>4. LeaderNow' \in [Ino -> Client \cup {None}]
  BY DEF LeaderNow, IInv, Shape, TypeOK
<1>5. LeaderNow' = LeaderNow
  BY <1>1 DEF LeaderNow
<1> QED
  BY <1>3, <1>4, <1>5 DEF Abs!Lapse

(* Every step of Lease is a step of Leadership or changes nothing there.   *)
LEMMA StepSimulation ==
  ASSUME IInv, IInv', [Next]_vars
  PROVE  [Abs!AbsNext]_(Abs!absVars)
<1>1. ASSUME UNCHANGED <<now, entry, tab>> PROVE UNCHANGED Abs!absVars
  BY <1>1 DEF Abs!absVars, LeaderNow, Mine, is_mine
<1>2. CASE UNCHANGED vars
  BY <1>1, <1>2 DEF vars
<1>3. ASSUME NEW c \in Client, ClientStep(c)
      PROVE  [Abs!AbsNext]_(Abs!absVars)
  <2>1. ASSUME NEW k \in Call, Receive(c, k)
        PROVE  UNCHANGED Abs!absVars \/ Abs!AbsNext
    <3>1. call[k].ino \in Ino
      BY <2>1 DEF Receive, IInv, Shape, TypeOK
    <3> QED
      BY <2>1, <3>1, ReceiveActs DEF Abs!AbsNext
  <2>2. CASE Remount(c)
    BY <2>2, RemountLapses DEF Abs!AbsNext
  <2>3. CASE RpcFail(c) \/ \E i \in Ino, k \in Call : Acquire(c, i, k)
    BY <1>1, <2>3 DEF RpcFail, Acquire
  <2> QED
    BY <1>3, <2>1, <2>2, <2>3 DEF ClientStep
<1>4. ASSUME NEW k \in Call, ManagerStep(k) \/ Drop(k)
      PROVE  [Abs!AbsNext]_(Abs!absVars)
  <2> DEFINE e == entry[call[k].ino]
  <2>1. ASSUME Grant(k), call[k].pc \in {"cas", "insert"},
               e.addr = None \/ now >= e.due, UNCHANGED <<now, cur, tab>>
        PROVE  Abs!AbsNext
    <3>1. call[k].ino \in Ino /\ call[k].client \in Client
      BY <2>1 DEF IInv, Shape, TypeOK
    <3> QED
      BY <2>1, <3>1, GrantElects DEF Abs!AbsNext
  <2>2. CASE UNCHANGED <<now, entry, tab>>
    BY <1>1, <2>2
  <2> QED
    BY <1>4, <2>1, <2>2 DEF ManagerStep, Lookup, Drop, Cas, Insert
<1>5. CASE Tick
  BY <1>5, TickLapses DEF Abs!AbsNext
<1> QED
  BY <1>2, <1>3, <1>4, <1>5 DEF Next

(***************************************************************************)
(* The lease tables and the acquire RPC implement the leadership service,  *)
(* for every number of clients, directories, calls and every lease period. *)
(***************************************************************************)
THEOREM LeadershipImplemented == Spec => ImplementsLeadership
<1>1. Init => Abs!AbsInit
  <2> SUFFICES ASSUME Init PROVE Abs!AbsInit
    OBVIOUS
  <2>1. LeaderNow = [i \in Ino |-> None]
    BY DEF Init, LeaderNow, NoEntry
  <2>2. \A c \in Client, i \in Ino : ~is_mine(c, i)
    BY DEF Init, is_mine, NoLease
  <2>3. Mine = [c \in Client |-> {}]
    BY <2>2 DEF Mine
  <2> QED
    BY <2>1, <2>3 DEF Abs!AbsInit
<1>2. ASSUME IInv, IInv', [Next]_vars PROVE [Abs!AbsNext]_(Abs!absVars)
  BY <1>2, StepSimulation
<1> QED
  BY <1>1, <1>2, Invariance, PTL DEF Spec, ImplementsLeadership, Abs!AbsSpec

----------------------------------------------------------------------------
(***************************************************************************)
(* What is left of the exclusion of leaders when the manager forgets its   *)
(* table.                                                                  *)
(*                                                                         *)
(* IInv does not survive a restart: the clients' tables and the answers on *)
(* their way still hold leases the new manager knows nothing of.  All of   *)
(* those run out at bootTime + Period, and a lease whose due date is later *)
(* was given by the present manager.                                       *)
(***************************************************************************)
(* A due date that only the present manager can have given.                *)
Recent(due) == now < due /\ bootTime + Period < due

(* A recent lease in a client's table is the lease in the manager's table. *)
RecentTableAgrees ==
  \A c \in Client, i \in Ino :
    Recent(tab[c][i].due) => /\ entry[i].due = tab[c][i].due
                             /\ tab[c][i].leader <=> entry[i].addr = c

(* So is a recent lease in an answer on its way.                           *)
RecentAnswerAgrees ==
  \A k \in Call :
    call[k].pc = "replied" /\ Recent(call[k].due) =>
      /\ entry[call[k].ino].due = call[k].due
      /\ call[k].ret = 0 <=> entry[call[k].ino].addr = call[k].client

(* The manager was started in the past.                                    *)
BootedBefore == bootTime \in Nat /\ bootTime <= now

(* What every step preserves whatever the leases say, and how far ahead    *)
(* they can be.                                                            *)
Base == Shape /\ DueBounded /\ BootedBefore

RInv == Base /\ RecentTableAgrees /\ RecentAnswerAgrees

----------------------------------------------------------------------------
(* The first manager starts with every table empty. *)
LEMMA RestartInitInv == RestartInit => RInv
<1> SUFFICES ASSUME RestartInit PROVE RInv
  OBVIOUS
<1> USE PeriodAssumption
<1>1. IInv
  BY InitInv DEF RestartInit
<1>2. DueBounded /\ BootedBefore
  BY DEF RestartInit, Init, DueBounded, BootedBefore, NoEntry, NoLease, FreeCall
<1>3. RecentTableAgrees /\ RecentAnswerAgrees
  BY DEF RestartInit, Init, RecentTableAgrees, RecentAnswerAgrees, Recent,
         NoLease, FreeCall
<1> QED
  BY <1>1, <1>2, <1>3 DEF RInv, Base, IInv

(***************************************************************************)
(* A restart makes every lease that still runs an old one: none of them is *)
(* due more than one Period after it.                                      *)
(***************************************************************************)
LEMMA RestartStep ==
  ASSUME RInv, ManagerRestart
  PROVE  RInv'
<1> DEFINE dead == {k \in Call : call[k].pc \in {"cas", "insert"}}
<1> USE NoneAssumption, PeriodAssumption
<1>1. /\ entry' = [i \in Ino |-> NoEntry]
      /\ call' = [k \in Call |-> IF k \in dead THEN FreeCall ELSE call[k]]
      /\ cur' = [c \in Client |-> IF cur[c] \in dead THEN None ELSE cur[c]]
      /\ bootTime' = now /\ now' = now /\ tab' = tab
  BY DEF ManagerRestart
<1>2. TypeOK'
  <2>1. FreeCall \in CallType /\ NoEntry \in [due : Nat, addr : Client \cup {None}]
    BY DEF FreeCall, NoEntry, CallType
  <2>2. call' \in [Call -> CallType]
    BY <1>1, <2>1 DEF RInv, Base, Shape, TypeOK
  <2>3. \A k \in Call : call'[k].pc # "free" => /\ call'[k].client \in Client
                                                /\ call'[k].ino \in Ino
    BY <1>1 DEF RInv, Base, Shape, TypeOK, FreeCall
  <2> QED
    BY <1>1, <2>1, <2>2, <2>3 DEF RInv, Base, Shape, TypeOK
<1>3. AbsentHasNoDue'
  BY <1>1 DEF AbsentHasNoDue, NoEntry
<1>4. AwaitsOwnCall'
  BY <1>1 DEF RInv, Base, Shape, TypeOK, AwaitsOwnCall
<1>5. DueBounded'
  BY <1>1 DEF RInv, Base, Shape, TypeOK, DueBounded, NoEntry, FreeCall
<1>6. BootedBefore'
  BY <1>1 DEF RInv, Base, Shape, TypeOK, BootedBefore
<1>7. RecentTableAgrees'
  BY <1>1 DEF RInv, Base, Shape, TypeOK, DueBounded, RecentTableAgrees, Recent
<1>8. RecentAnswerAgrees'
  <2>1. \A k \in Call : call'[k].pc = "replied" => call'[k] = call[k]
    BY <1>1 DEF FreeCall
  <2> QED
    BY <1>1, <2>1 DEF RInv, Base, Shape, TypeOK, CallType, DueBounded, RecentAnswerAgrees, Recent
<1> QED
  BY <1>2, <1>3, <1>4, <1>5, <1>6, <1>7, <1>8 DEF RInv, Base, Shape

(***************************************************************************)
(* Between restarts the recent leases agree for the same reasons as all    *)
(* leases do when there is no restart.                                     *)
(***************************************************************************)
LEMMA RecentNext ==
  ASSUME RInv, [Next]_vars, bootTime' = bootTime
  PROVE  RecentTableAgrees' /\ RecentAnswerAgrees'
<1> USE NoneAssumption, PeriodAssumption
<1>0. Shape /\ TypeOK /\ RecentTableAgrees /\ RecentAnswerAgrees
      /\ bootTime \in Nat
  BY DEF RInv, Base, Shape, BootedBefore
<1>1. ASSUME NEW c \in Client, NEW i \in Ino, NEW k \in Call, Acquire(c, i, k)
      PROVE  RecentTableAgrees' /\ RecentAnswerAgrees'
  BY <1>0, <1>1 DEF Acquire, TypeOK, RecentTableAgrees, RecentAnswerAgrees, Recent
<1>2. ASSUME NEW c \in Client, NEW k \in Call, Receive(c, k)
      PROVE  RecentTableAgrees' /\ RecentAnswerAgrees'
  <2> DEFINE i == call[k].ino
             e == SetInfo(tab[c][i], call[k].due, call[k].ret = 0)
  <2>1. /\ i \in Ino /\ call[k].client = c /\ call[k].pc = "replied"
        /\ call[k] \in CallType /\ call[k].due \in Nat
        /\ tab[c][i] \in [due : Nat, leader : BOOLEAN]
        /\ tab' = [tab EXCEPT ![c] = [tab[c] EXCEPT ![i] = e]]
    BY <1>0, <1>2, ReceiveEffect
  <2>2. Recent(e.due) => entry[i].due = e.due /\ (e.leader <=> entry[i].addr = c)
    <3>1. CASE call[k].due > tab[c][i].due
      BY <1>0, <2>1, <3>1 DEF SetInfo, RecentAnswerAgrees, Recent
    <3>2. CASE ~(call[k].due > tab[c][i].due)
      BY <1>0, <2>1, <3>2 DEF SetInfo, RecentTableAgrees, Recent
    <3> QED
      BY <3>1, <3>2
  <2>3. RecentTableAgrees'
    BY <1>0, <1>2, <2>1, <2>2 DEF Receive, TypeOK, RecentTableAgrees, Recent
  <2>4. RecentAnswerAgrees'
    BY <1>0, <1>2 DEF Receive, TypeOK, RecentAnswerAgrees, Recent, FreeCall
  <2> QED
    BY <2>3, <2>4
<1>3. ASSUME NEW c \in Client, RpcFail(c) \/ Remount(c)
      PROVE  RecentTableAgrees' /\ RecentAnswerAgrees'
  <2>1. CASE RpcFail(c)
    BY <1>0, <2>1 DEF RpcFail, RecentTableAgrees, RecentAnswerAgrees, Recent
  <2>2. CASE Remount(c)
    BY <1>0, <2>2 DEF Remount, TypeOK, RecentTableAgrees, RecentAnswerAgrees, Recent, NoLease
  <2> QED
    BY <1>3, <2>1, <2>2
<1>4. ASSUME NEW k \in Call, Lookup(k)
      PROVE  RecentTableAgrees' /\ RecentAnswerAgrees'
  BY <1>0, <1>4 DEF Lookup, TypeOK, CallType, RecentTableAgrees, RecentAnswerAgrees, Recent
<1>5. ASSUME NEW k \in Call, Cas(k) \/ Insert(k)
      PROVE  RecentTableAgrees' /\ RecentAnswerAgrees'
  <2>1. CASE /\ entry[call[k].ino].addr = None \/ now >= entry[call[k].ino].due
             /\ Grant(k)
    <3> DEFINE i == call[k].ino
               c == call[k].client
    <3>1. /\ i \in Ino /\ c \in Client /\ entry[i].due \in Nat
          /\ entry[i].due <= now /\ UNCHANGED <<now, cur, tab>>
          /\ entry' = [entry EXCEPT ![i] = [due |-> now + Period, addr |-> c]]
          /\ call' = [call EXCEPT ![k] =
                        [call[k] EXCEPT !.pc = "replied", !.ret = 0,
                                        !.due = now + Period, !.addr = c]]
      BY <1>0, <1>5, <2>1, GrantOrReport, GrantShape
    <3>2. RecentTableAgrees'
      BY <1>0, <3>1 DEF TypeOK, RecentTableAgrees, Recent
    <3>3. RecentAnswerAgrees'
      BY <1>0, <3>1 DEF TypeOK, CallType, RecentAnswerAgrees, Recent
    <3> QED
      BY <3>2, <3>3
  <2>2. ASSUME NEW ret \in {0, -1}, NEW addr \in Client, entry' = entry,
               ret = 0 <=> entry[call[k].ino].addr = call[k].client,
               Reply(k, ret, entry[call[k].ino].due, addr)
        PROVE  RecentTableAgrees' /\ RecentAnswerAgrees'
    <3>0. call[k].pc \in {"cas", "insert"} /\ UNCHANGED <<now, entry, cur, tab>>
      BY <1>5, <2>2 DEF Cas, Insert
    <3>1. /\ call[k].ino \in Ino /\ call[k].client \in Client
          /\ call' = [call EXCEPT ![k] =
                        [call[k] EXCEPT !.pc = "replied", !.ret = ret,
                                        !.due = entry[call[k].ino].due,
                                        !.addr = addr]]
      BY <1>0, <2>2, <3>0 DEF Reply, TypeOK
    <3>2. RecentTableAgrees'
      BY <1>0, <3>0, <3>1 DEF RecentTableAgrees, Recent
    <3>3. RecentAnswerAgrees'
      BY <1>0, <2>2, <3>0, <3>1 DEF TypeOK, CallType, RecentAnswerAgrees, Recent
    <3> QED
      BY <3>2, <3>3
  <2> QED
    BY <1>0, <1>5, <2>1, <2>2, GrantOrReport
<1>6. ASSUME NEW k \in Call, Drop(k)
      PROVE  RecentTableAgrees' /\ RecentAnswerAgrees'
  BY <1>0, <1>6 DEF Drop, TypeOK, FreeCall, RecentTableAgrees, RecentAnswerAgrees, Recent
<1>7. CASE Tick
  BY <1>0, <1>7 DEF Tick, TypeOK, CallType, RecentTableAgrees, RecentAnswerAgrees, Recent
<1>8. CASE UNCHANGED vars
  BY <1>0, <1>8 DEF vars, RecentTableAgrees, RecentAnswerAgrees, Recent
<1> QED
  BY <1>1, <1>2, <1>3, <1>4, <1>5, <1>6, <1>7, <1>8
     DEF Next, ClientStep, ManagerStep

(* Every step, a restart too, preserves the inductive invariant. *)
LEMMA RestartNextInv == RInv /\ [RestartNext]_restartVars => RInv'
<1> SUFFICES ASSUME RInv, [RestartNext]_restartVars PROVE RInv'
  OBVIOUS
<1>1. CASE [Next]_vars /\ UNCHANGED <<bootTime, restarts>>
  <2>1. Shape' /\ DueBounded'
    BY <1>1, ShapeNext, DueNext DEF RInv, Base
  <2>2. BootedBefore'
    <3>1. now' = now \/ now' = now + 1
      BY <1>1 DEF Next, ClientStep, ManagerStep, Acquire, Receive, RpcFail, Remount,
                  Lookup, Cas, Insert, Drop, Tick, vars
    <3> QED
      BY <1>1, <3>1 DEF RInv, Base, Shape, TypeOK, BootedBefore
  <2>3. RecentTableAgrees' /\ RecentAnswerAgrees'
    BY <1>1, RecentNext
  <2> QED
    BY <2>1, <2>2, <2>3 DEF RInv, Base
<1>2. CASE ManagerRestart
  BY <1>2, RestartStep
<1> QED
  BY <1>1, <1>2 DEF RestartNext, restartVars, vars

(***************************************************************************)
(* One Period after the manager was started again, at most one client      *)
(* believes it leads a directory: whatever lease still runs is one the     *)
(* present manager gave.                                                   *)
(***************************************************************************)
THEOREM GraceRestoresExclusion == RestartSpec => []ExclusiveAfterGrace
<1>1. RInv => ExclusiveAfterGrace
  <2> SUFFICES ASSUME RInv, now >= bootTime + Period,
                      NEW c1 \in Client, NEW c2 \in Client, NEW i \in Ino,
                      is_mine(c1, i), is_mine(c2, i)
               PROVE  c1 = c2
    BY DEF ExclusiveAfterGrace, LeaseExclusive
  <2>1. \A c \in Client : is_mine(c, i) => entry[i].addr = c
    <3> SUFFICES ASSUME NEW c \in Client, is_mine(c, i) PROVE entry[i].addr = c
      OBVIOUS
    <3>1. /\ now \in Nat /\ Skew[c] \in Nat /\ tab[c][i].due \in Nat
          /\ bootTime \in Nat /\ Period \in Nat
      BY SkewAssumption, PeriodAssumption
         DEF RInv, Base, Shape, TypeOK, BootedBefore
    <3>2. Recent(tab[c][i].due) /\ tab[c][i].leader
      BY <3>1 DEF is_mine, Recent
    <3> QED
      BY <3>2 DEF RInv, RecentTableAgrees
  <2> QED
    BY <2>1
<1>2. RestartSpec => []RInv
  BY RestartInitInv, RestartNextInv, PTL DEF RestartSpec
<1> QED
  BY <1>1, <1>2, PTL

============================================================================
