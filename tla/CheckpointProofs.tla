-------------------------- MODULE CheckpointProofs --------------------------
(***************************************************************************)
(* What the transactions of Journal carry to the pool, for any             *)
(* directories, names, files, workers and queues: no change of a name is   *)
(* lost or overtaken.                                                      *)
(*                                                                         *)
(* A directory's transactions reach the pool in their order (Order).  For  *)
(* every name, what they say of it together is what the next call about it *)
(* finds, and the last call leaves what is in memory (Logged).  What those *)
(* that are applied say is what the directory's object says (Pooled).      *)
(***************************************************************************)
EXTENDS JournalProofs

All(d) == 1 .. Len(txs[d])

----------------------------------------------------------------------------
(* The order of a directory's transactions on their way to the pool.       *)

(* Each queue has the transactions of its own directories only, the older  *)
(* before the newer.                                                       *)
AtHome ==
  /\ \A q \in Queue, k \in Nat, d \in Dir, g \in Nat :
       k \in 1 .. Len(queue[q]) /\ queue[q][k] = <<d, g>> => QueueOf[d] = q
  /\ \A q \in Queue : kpc[q] \notin {"idle", "exit"} => QueueOf[job[q][1]] = q

Sorted ==
  \A q \in Queue, j, k \in Nat, d \in Dir, g, h \in Nat :
    /\ j \in 1 .. Len(queue[q]) /\ k \in 1 .. Len(queue[q]) /\ j < k
    /\ queue[q][j] = <<d, h>> /\ queue[q][k] = <<d, g>>
    => h < g

(* A transaction the commit thread will seal.                              *)
Waiting(d, g) == g # 0 /\ g \in {open[d], batch[d]}

(* Where a transaction is, the older ones are further on.                  *)
Ahead(d) ==
  \A g, h \in Nat :
    /\ h \in done[d] /\ (AtWork(d, g) \/ Queued(d, g) \/ Waiting(d, g)) => h < g
    /\ AtWork(d, h) /\ (Queued(d, g) \/ Waiting(d, g)) => h < g
    /\ Queued(d, h) /\ Waiting(d, g) => h < g

(* The open transaction is the newest; only open ones and those the commit *)
(* thread has taken are not sealed, and it seals each once.                *)
Unsealed(d) ==
  /\ open[d] # 0 => /\ open[d] = Len(txs[d]) /\ ~txs[d][open[d]].committed
                    /\ batch[d] < open[d]
  /\ batch[d] # 0 /\ ~AtCommit(d, batch[d]) => ~txs[d][batch[d]].committed
  /\ \A g \in All(d) : ~txs[d][g].committed => Waiting(d, g)

Order ==
  /\ AtHome /\ Sorted
  /\ \A d \in Dir : done[d] \subseteq All(d) /\ Ahead(d) /\ Unsealed(d)

(* A transaction a checkpoint thread works on is the oldest there is left, *)
(* and what is not yet checkpointed is newer than what is.                 *)
LEMMA OldestFirst ==
  ASSUME IInv, Order, NEW d \in Dir
  PROVE  /\ \A g \in All(d), h \in All(d) : AtWork(d, g) /\ h < g => h \in done[d]
         /\ \A g \in All(d) \ done[d], h \in done[d] : h < g
         /\ \A g \in Nat : AtWork(d, g) => g \in All(d) /\ g \notin done[d] /\ txs[d][g].committed
         /\ \A g \in All(d) : ~txs[d][g].committed => g \notin done[d] /\ ~AtWork(d, g)
<1>1. All(d) \subseteq Nat /\ done[d] \subseteq All(d) /\ Ahead(d) /\ Unsealed(d)
  BY DEF Order, All, IInv, TInv, TypeOK
<1>2. ASSUME NEW g \in All(d)
      PROVE  g \in done[d] \/ AtWork(d, g) \/ Queued(d, g) \/ Waiting(d, g)
  <2>1. CASE txs[d][g].committed
    <3>1. g \in done[d] \/ AtCommit(d, g) \/ Queued(d, g) \/ AtWork(d, g)
      BY <1>1, <2>1 DEF IInv, NoneForgotten, All
    <3>2. AtCommit(d, g) => Waiting(d, g)
      BY DEF AtCommit, Waiting, All
    <3> QED BY <3>1, <3>2
  <2>2. CASE ~txs[d][g].committed
    BY <1>1, <2>2 DEF Unsealed
  <2> QED BY <2>1, <2>2
<1>3. \A g, h \in Nat : AtWork(d, g) /\ AtWork(d, h) => g = h
  BY DEF AtWork
<1>4. \A g, h \in Nat : h \in done[d] /\ g \in All(d) /\ ~(g \in done[d]) => h < g
  BY <1>1, <1>2 DEF Ahead
<1>5. \A g, h \in Nat : AtWork(d, g) /\ h \in All(d) /\ h < g => h \in done[d]
  BY <1>1, <1>2, <1>3 DEF Ahead
<1>6. ASSUME NEW g \in Nat, AtWork(d, g)
      PROVE  g \in All(d) /\ g \notin done[d] /\ txs[d][g].committed
  <2>1. QueueOf[d] \in Queue /\ kpc[QueueOf[d]] \notin {"idle", "exit"} /\ job[QueueOf[d]] = <<d, g>>
    BY <1>6, QueueAssumption DEF AtWork
  <2>2. Written(d, g)
    BY <2>1 DEF IInv, WrittenFirst
  <2>3. g \notin done[d]
    BY <1>1, <1>6 DEF Ahead
  <2> QED BY <2>2, <2>3 DEF Written, All
<1>7. ASSUME NEW g \in All(d), ~txs[d][g].committed
      PROVE  g \notin done[d] /\ ~AtWork(d, g)
  <2>1. Waiting(d, g) /\ g \in Nat
    BY <1>1, <1>7 DEF Unsealed
  <2> QED BY <1>1, <2>1 DEF Ahead
<1> QED BY <1>1, <1>4, <1>5, <1>6, <1>7

----------------------------------------------------------------------------
(* A step that moves no transaction, seals none and makes none keeps the   *)
(* order.                                                                  *)
LEMMA OrderKept ==
  ASSUME IInv, Order, UNCHANGED <<cpc, cdir, queue, job, done, open, batch>>,
         \A q \in Queue : kpc'[q] \notin {"idle", "exit"} <=> kpc[q] \notin {"idle", "exit"},
         \A d \in Dir : /\ Len(txs'[d]) = Len(txs[d])
                        /\ \A g \in All(d) : txs'[d][g].committed <=> txs[d][g].committed
  PROVE  Order'
<1>1. AtHome' /\ Sorted'
  <2>1. AtHome'
    BY Zenon DEF Order, AtHome
  <2>2. Sorted'
    BY Zenon DEF Order, Sorted
  <2> QED BY <2>1, <2>2
<1>2. ASSUME NEW d \in Dir
      PROVE  done'[d] \subseteq All(d)' /\ Ahead(d)' /\ Unsealed(d)'
  <2>1. All(d)' = All(d) /\ QueueOf[d] \in Queue
    BY QueueAssumption DEF All
  <2>2. \A g : /\ AtWork(d, g)' <=> AtWork(d, g)
               /\ Queued(d, g)' <=> Queued(d, g)
               /\ Waiting(d, g)' <=> Waiting(d, g)
               /\ AtCommit(d, g)' <=> AtCommit(d, g)
    BY <2>1 DEF AtWork, Queued, Waiting, AtCommit
  <2>3. done'[d] \subseteq All(d)' /\ Ahead(d)'
    BY <2>1, <2>2 DEF Order, Ahead
  <2>4. Unsealed(d)'
    <3>1. Unsealed(d)
      BY DEF Order
    <3>2. \A g \in All(d)' : ~txs'[d][g].committed => Waiting(d, g)'
      BY <2>1, <2>2, <3>1 DEF Unsealed
    <3>3. \A g \in {open[d], batch[d]} : g # 0 => g \in All(d)
      BY DEF IInv, TInv, TypeOK, Pointers, All
    <3> QED BY <2>1, <2>2, <3>1, <3>2, <3>3 DEF Unsealed
  <2> QED BY <2>3, <2>4
<1> QED BY <1>1, <1>2 DEF Order

(* The rest of Order for one directory.                                    *)
Rest(d) == done[d] \subseteq All(d) /\ Ahead(d) /\ Unsealed(d)

(* What is queued or at work is a transaction there is, and so is what     *)
(* waits.                                                                  *)
LEMMA InRange ==
  ASSUME IInv, NEW d \in Dir, NEW g \in Nat
  PROVE  /\ AtWork(d, g) => g \in All(d) /\ txs[d][g].committed
         /\ Queued(d, g) => g \in All(d) /\ txs[d][g].committed
         /\ Waiting(d, g) => g \in All(d)
<1>1. QueueOf[d] \in Queue /\ <<d, g>> # Stop
  BY QueueAssumption, StopAssumption
<1>2. AtWork(d, g) => Written(d, g)
  BY <1>1 DEF AtWork, IInv, WrittenFirst
<1>3. ASSUME Queued(d, g)
      PROVE  Written(d, g)
  <2>1. PICK k \in 1 .. Len(queue[QueueOf[d]]) : queue[QueueOf[d]][k] = <<d, g>>
    BY <1>3 DEF Queued
  <2>2. k \in Nat
    BY <2>1
  <2>3. k \in 1 .. Len(queue[QueueOf[d]]) /\ queue[QueueOf[d]][k] # Stop
    BY <1>1, <2>1
  <2>4. Written(queue[QueueOf[d]][k][1], queue[QueueOf[d]][k][2])
    BY <1>1, <2>2, <2>3 DEF IInv, WrittenFirst
  <2> QED BY <2>1, <2>4
<1>4. Waiting(d, g) => g \in All(d)
  BY DEF Waiting, All, IInv, TInv, TypeOK, Pointers
<1> QED BY <1>2, <1>3, <1>4 DEF Written, All

(* A new transaction is newer than all others.  (get_entry)                *)
LEMMA GetEntryOrder ==
  ASSUME IInv, Order, NEW w \in Worker, GetEntry(w)
  PROVE  Order'
<1> DEFINE e == Head(todo[w]).dir
           new == Len(txs[e]) + 1
<1>1. e \in Dir /\ txs[e] \in Seq(TxType) /\ new \in Nat \ {0}
  <2>1. e \in Dir
    BY HeadDir DEF GetEntry, IInv
  <2> QED BY <2>1 DEF IInv, TInv, TypeOK
<1>2. CASE open[e] # 0
  <2>1. UNCHANGED <<cpc, cdir, queue, job, done, open, batch, txs, kpc>>
    BY <1>2 DEF GetEntry, commitVars, cpVars
  <2> QED BY <2>1, OrderKept
<1>3. CASE open[e] = 0
  <2>1. /\ UNCHANGED <<cpc, cdir, queue, job, done, batch, kpc>>
        /\ open' = [open EXCEPT ![e] = new]
        /\ txs' = [txs EXCEPT ![e] = Append(txs[e], NewTx)]
    BY <1>3 DEF GetEntry, commitVars, cpVars
  <2>2. /\ open'[e] = new /\ Len(txs'[e]) = new
        /\ \A g \in All(e) : txs'[e][g] = txs[e][g]
        /\ ~txs'[e][new].committed
        /\ \A d \in Dir : d # e => open'[d] = open[d] /\ txs'[d] = txs[d]
    BY <1>1, <2>1 DEF IInv, TInv, TypeOK, All, NewTx
  <2> HIDE DEF e, new
  <2>3. AtHome'
    BY <2>1, Zenon DEF Order, AtHome
  <2>4. Sorted'
    BY <2>1, Zenon DEF Order, Sorted
  <2>5. ASSUME NEW d \in Dir
        PROVE  Rest(d)'
    <3>1. Rest(d)
      BY DEF Order, Rest
    <3>2. \A g : /\ AtWork(d, g)' <=> AtWork(d, g)
                 /\ Queued(d, g)' <=> Queued(d, g)
                 /\ AtCommit(d, g)' <=> AtCommit(d, g)
      BY <2>1 DEF AtWork, Queued, AtCommit
    <3>3. CASE d # e
      <4>1. All(d)' = All(d) /\ \A g : Waiting(d, g)' <=> Waiting(d, g)
        BY <2>1, <2>2, <3>3 DEF All, Waiting
      <4>2. done'[d] \subseteq All(d)' /\ Ahead(d)'
        BY <2>1, <3>1, <3>2, <4>1 DEF Rest, Ahead
      <4>3. Unsealed(d)'
        BY <2>1, <2>2, <3>1, <3>2, <3>3, <4>1 DEF Rest, Unsealed
      <4> QED BY <4>2, <4>3 DEF Rest
    <3>4. CASE d = e
      <4>1. /\ All(d)' = All(d) \cup {new} /\ All(d) \subseteq Nat
            /\ \A g \in All(d) : g < new
        <5>1. Len(txs[e]) \in Nat /\ new = Len(txs[e]) + 1
          BY <1>1 DEF new
        <5> QED BY <2>2, <3>4, <5>1 DEF All
      <4>2. \A g : Waiting(d, g)' <=> Waiting(d, g) \/ g = new
        BY <1>1, <1>3, <2>1, <2>2, <3>4 DEF Waiting
      <4>3. \A h \in Nat : h \in done[d] \/ AtWork(d, h) \/ Queued(d, h) => h < new
        BY <3>1, <4>1, InRange DEF Rest
      <4>4. Ahead(d)'
        <5> SUFFICES ASSUME NEW g \in Nat, NEW h \in Nat
                     PROVE  /\ h \in done[d] /\ (AtWork(d, g) \/ Queued(d, g) \/ Waiting(d, g)') => h < g
                            /\ AtWork(d, h) /\ (Queued(d, g) \/ Waiting(d, g)') => h < g
                            /\ Queued(d, h) /\ Waiting(d, g)' => h < g
          BY <2>1, <3>2 DEF Ahead
        <5>1. /\ h \in done[d] /\ (AtWork(d, g) \/ Queued(d, g) \/ Waiting(d, g)) => h < g
              /\ AtWork(d, h) /\ (Queued(d, g) \/ Waiting(d, g)) => h < g
              /\ Queued(d, h) /\ Waiting(d, g) => h < g
          BY <3>1 DEF Rest, Ahead
        <5> QED BY <4>2, <4>3, <5>1
      <4>5. done'[d] \subseteq All(d)'
        BY <2>1, <3>1, <4>1 DEF Rest
      <4>6. Unsealed(d)'
        <5>1. /\ batch[d] # 0 /\ ~AtCommit(d, batch[d]) => ~txs[d][batch[d]].committed
              /\ \A g \in All(d) : ~txs[d][g].committed => Waiting(d, g)
          BY <3>1 DEF Rest, Unsealed
        <5>2. batch[d] \in Nat /\ (batch[d] # 0 => batch[d] \in All(d))
          BY DEF IInv, TInv, TypeOK, Pointers, All
        <5>3. batch[d] < new
          BY <1>1, <4>1, <5>2
        <5>4. \A g \in All(d)' : ~txs'[d][g].committed => Waiting(d, g)'
          BY <2>2, <3>4, <4>1, <4>2, <5>1
        <5>5. batch'[d] # 0 /\ ~AtCommit(d, batch[d])' => ~txs'[d][batch'[d]].committed
          BY <2>1, <2>2, <3>2, <3>4, <5>1, <5>2 DEF AtCommit
        <5> QED BY <2>1, <2>2, <3>4, <5>3, <5>4, <5>5 DEF Unsealed
      <4> QED BY <4>4, <4>5, <4>6 DEF Rest
    <3> QED BY <3>3, <3>4
  <2> QED BY <2>3, <2>4, <2>5 DEF Order, Rest
<1> QED BY <1>2, <1>3

(* The commit thread takes the open transactions.  (replace_map)           *)
LEMMA ReplaceMapOrder ==
  ASSUME IInv, Order, ReplaceMap
  PROVE  Order'
<1>1. /\ UNCHANGED <<txs, cpc, cdir, queue, job, done, kpc>> /\ cpc = "loop"
      /\ \A d \in Dir : batch[d] = 0 /\ batch'[d] = open[d] /\ open'[d] = 0
  BY DEF ReplaceMap, cpVars
<1>a. UNCHANGED <<queue, kpc, job>>
  BY <1>1
<1>2. AtHome'
  BY <1>a, Zenon DEF Order, AtHome
<1>3. Sorted'
  BY <1>a, Zenon DEF Order, Sorted
<1>4. ASSUME NEW d \in Dir
      PROVE  Rest(d)'
  <2>1. Rest(d)
    BY DEF Order, Rest
  <2>2. \A g : /\ AtWork(d, g)' <=> AtWork(d, g)
               /\ Queued(d, g)' <=> Queued(d, g)
               /\ Waiting(d, g)' <=> Waiting(d, g)
    BY <1>1 DEF AtWork, Queued, Waiting
  <2>3. All(d)' = All(d)
    BY <1>1 DEF All
  <2>4. done'[d] \subseteq All(d)' /\ Ahead(d)'
    BY <1>1, <2>1, <2>2, <2>3 DEF Rest, Ahead
  <2>5. Unsealed(d)'
    BY <1>1, <2>1, <2>2, <2>3 DEF Rest, Unsealed
  <2> QED BY <2>4, <2>5 DEF Rest
<1> QED BY <1>2, <1>3, <1>4 DEF Order, Rest

(* It seals each that it took once.  (transaction::commit)                 *)
LEMMA CommitOrder ==
  ASSUME IInv, Order, NEW e \in Dir, Commit(e)
  PROVE  /\ Order' /\ ~txs[e][batch[e]].committed
<1> DEFINE b == batch[e]
<1>1. /\ UNCHANGED <<open, batch, queue, job, done, kpc>> /\ cpc = "loop" /\ b # 0
      /\ cdir' = e /\ cpc' = "issue"
  BY DEF Commit, cpVars
<1>2. ~txs[e][b].committed
  BY <1>1 DEF Order, Unsealed, AtCommit
<1>3. /\ \A d \in Dir : Len(txs'[d]) = Len(txs[d])
      /\ \A d \in Dir : \A g \in All(d) :
           txs'[d][g].committed = (txs[d][g].committed \/ (d = e /\ g = b))
  <2>1. b \in 1 .. Len(txs[e]) /\ txs[e] \in Seq(TxType)
    BY <1>1 DEF IInv, TInv, TypeOK, Pointers
  <2> DEFINE t == [txs[e][b] EXCEPT !.committed = TRUE, !.offset = Len(journalObj[e]) + 1]
  <2>2. t.committed = TRUE /\ txs' = [txs EXCEPT ![e] = [txs[e] EXCEPT ![b] = t]]
    BY <1>2, <2>1, CommitChange DEF IInv
  <2>3. \A d \in Dir : txs'[d] = IF d = e THEN [txs[e] EXCEPT ![b] = t] ELSE txs[d]
    BY <2>2 DEF IInv, TInv, TypeOK
  <2>4. ASSUME NEW d \in Dir, NEW g \in All(d)
        PROVE  txs[d][g].committed \in BOOLEAN
    <3>1. txs[d] \in Seq(TxType)
      BY DEF IInv, TInv, TypeOK
    <3>2. txs[d][g] \in TxType
      BY <3>1 DEF All
    <3> QED BY <3>2 DEF TxType
  <2> HIDE DEF t, b
  <2>5. Len(txs'[e]) = Len(txs[e]) /\ \A g \in All(e) : txs'[e][g] = IF g = b THEN t ELSE txs[e][g]
    BY <2>1, <2>3 DEF All
  <2>6. ASSUME NEW d \in Dir, NEW g \in All(d)
        PROVE  txs'[d][g].committed = (txs[d][g].committed \/ (d = e /\ g = b))
    <3>1. CASE d = e /\ g = b
      BY <2>2, <2>5, <3>1
    <3>2. CASE ~(d = e /\ g = b)
      BY <2>3, <2>4, <2>5, <3>2
    <3> QED BY <3>1, <3>2
  <2> QED BY <2>3, <2>5, <2>6
<1> HIDE DEF b
<1>4. AtHome'
  BY <1>1, Zenon DEF Order, AtHome
<1>5. Sorted'
  BY <1>1, Zenon DEF Order, Sorted
<1>6. ASSUME NEW d \in Dir
      PROVE  Rest(d)'
  <2>1. Rest(d)
    BY DEF Order, Rest
  <2>2. \A g : /\ AtWork(d, g)' <=> AtWork(d, g)
               /\ Queued(d, g)' <=> Queued(d, g)
               /\ Waiting(d, g)' <=> Waiting(d, g)
    BY <1>1 DEF AtWork, Queued, Waiting
  <2>3. All(d)' = All(d)
    BY <1>3 DEF All
  <2>4. done'[d] \subseteq All(d)' /\ Ahead(d)'
    BY <1>1, <2>1, <2>2, <2>3 DEF Rest, Ahead
  <2>5. Unsealed(d)'
    <3>1. /\ open[d] # 0 => /\ open[d] = Len(txs[d]) /\ ~txs[d][open[d]].committed
                            /\ batch[d] < open[d]
          /\ batch[d] # 0 /\ ~AtCommit(d, batch[d]) => ~txs[d][batch[d]].committed
          /\ \A g \in All(d) : ~txs[d][g].committed => Waiting(d, g)
      BY <2>1 DEF Rest, Unsealed
    <3>2. /\ open[d] \in Nat /\ (open[d] # 0 => open[d] \in All(d))
          /\ batch[d] \in Nat /\ (batch[d] # 0 => batch[d] \in All(d))
      BY DEF IInv, TInv, TypeOK, Pointers, All
    <3>3. open'[d] # 0 => /\ open'[d] = Len(txs'[d]) /\ ~txs'[d][open'[d]].committed
                          /\ batch'[d] < open'[d]
      <4> SUFFICES ASSUME open[d] # 0
                   PROVE  open[d] = Len(txs'[d]) /\ ~txs'[d][open[d]].committed /\ batch[d] < open[d]
        BY <1>1
      <4>1. open[d] = Len(txs[d]) /\ ~txs[d][open[d]].committed /\ batch[d] < open[d] /\ open[d] \in All(d)
        BY <3>1, <3>2
      <4>2. ~(d = e /\ open[d] = b)
        BY <3>2, <4>1 DEF b
      <4> QED BY <1>3, <4>1, <4>2
    <3>4. batch'[d] # 0 /\ ~AtCommit(d, batch[d])' => ~txs'[d][batch'[d]].committed
      BY <1>1, <1>3, <3>1, <3>2 DEF AtCommit
    <3>5. \A g \in All(d)' : ~txs'[d][g].committed => Waiting(d, g)'
      BY <1>3, <2>2, <2>3, <3>1
    <3> QED BY <3>3, <3>4, <3>5 DEF Unsealed
  <2> QED BY <2>4, <2>5 DEF Rest
<1> QED BY <1>2, <1>4, <1>5, <1>6 DEF Order, Rest, b

(* A transaction that is queued is behind those that are there.  (issue)   *)
LEMMA IssueOrder ==
  ASSUME IInv, Order, Issue
  PROVE  Order'
<1> DEFINE b == batch[cdir]
           c == QueueOf[cdir]
<1>1. /\ UNCHANGED <<txs, open, job, done, kpc>> /\ cpc = "issue" /\ cpc' = "loop" /\ Running
      /\ batch' = [batch EXCEPT ![cdir] = 0]
      /\ queue' = [queue EXCEPT ![c] = Append(queue[c], <<cdir, b>>)]
  BY DEF Issue, cpVars
<1>2. /\ cdir \in Dir /\ c \in Queue /\ b \in Nat /\ <<cdir, b>> \in Dir \X Nat
      /\ \A d \in Dir : batch'[d] = IF d = cdir THEN 0 ELSE batch[d]
      /\ \A q \in Queue : queue'[q] = IF q = c THEN Append(queue[q], <<cdir, b>>) ELSE queue[q]
  BY <1>1, QueueAssumption DEF IInv, TInv, TypeOK
<1>3. Waiting(cdir, b) /\ b # 0 /\ txs[cdir][b].committed
  <2>1. Written(cdir, b)
    BY <1>1 DEF IInv, WrittenFirst
  <2> QED BY <2>1 DEF Written, Waiting
<1>4. /\ Len(queue[c]) \in Nat /\ Len(queue'[c]) = Len(queue[c]) + 1
      /\ \A k \in 1 .. Len(queue[c]) : queue'[c][k] = queue[c][k]
      /\ queue'[c][Len(queue[c]) + 1] = <<cdir, b>>
  BY <1>2, QueueAppend DEF IInv
<1> HIDE DEF b
<1>5. ASSUME NEW q \in Queue, NEW k \in Nat, k \in 1 .. Len(queue'[q])
      PROVE  \/ k \in 1 .. Len(queue[q]) /\ queue'[q][k] = queue[q][k]
             \/ q = c /\ k = Len(queue[c]) + 1 /\ queue'[q][k] = <<cdir, b>>
  <2> HIDE DEF c
  <2>1. CASE q # c
    BY <1>2, <1>5, <2>1
  <2>2. CASE q = c
    BY <1>4, <1>5, <2>2
  <2> QED BY <2>1, <2>2
<1>c. c = QueueOf[cdir]
  OBVIOUS
<1> HIDE DEF c
<1>6. AtHome'
  <2>1. ASSUME NEW q \in Queue, NEW k \in Nat, NEW d \in Dir, NEW g \in Nat,
               k \in 1 .. Len(queue'[q]), queue'[q][k] = <<d, g>>
        PROVE  QueueOf[d] = q
    BY <1>5, <1>c, <2>1 DEF Order, AtHome
  <2>2. \A q \in Queue : kpc'[q] \notin {"idle", "exit"} => QueueOf[job'[q][1]] = q
    BY <1>1 DEF Order, AtHome
  <2> QED BY <2>1, <2>2 DEF AtHome
<1>7. Sorted'
  <2> SUFFICES ASSUME NEW q \in Queue, NEW j \in Nat, NEW k \in Nat, NEW d \in Dir,
                      NEW g \in Nat, NEW h \in Nat,
                      j \in 1 .. Len(queue'[q]), k \in 1 .. Len(queue'[q]), j < k,
                      queue'[q][j] = <<d, h>>, queue'[q][k] = <<d, g>>
               PROVE  h < g
    BY DEF Sorted
  <2>1. CASE k \in 1 .. Len(queue[q])
    <3>1. j \in 1 .. Len(queue[q])
      BY <2>1
    <3>2. queue[q][j] = <<d, h>> /\ queue[q][k] = <<d, g>>
      BY <1>4, <1>5, <2>1, <3>1
    <3> QED BY <2>1, <3>1, <3>2 DEF Order, Sorted
  <2>2. CASE q = c /\ k = Len(queue[c]) + 1 /\ queue'[q][k] = <<cdir, b>>
    <3>1. d = cdir /\ g = b
      BY <2>2
    <3>2. j \in 1 .. Len(queue[c]) /\ queue[c][j] = <<d, h>>
      BY <1>4, <1>5, <2>2
    <3>3. Queued(d, h)
      BY <1>c, <3>1, <3>2 DEF Queued
    <3> QED BY <1>3, <3>1, <3>3 DEF Order, Ahead
  <2> QED BY <1>5, <2>1, <2>2
<1>8. ASSUME NEW d \in Dir
      PROVE  Rest(d)'
  <2>1. Rest(d)
    BY DEF Order, Rest
  <2>2. \A g \in Nat : /\ AtWork(d, g)' <=> AtWork(d, g)
                       /\ Waiting(d, g)' => Waiting(d, g) /\ (d = cdir => g # b)
    <3>1. d = cdir => open[d] # b \/ b = 0
      BY <1>3, <2>1 DEF Rest, Unsealed
    <3> QED BY <1>1, <1>2, <1>3, <3>1 DEF AtWork, Waiting
  <2>3. \A g \in Nat : Queued(d, g)' => Queued(d, g) \/ (d = cdir /\ g = b)
    <3> SUFFICES ASSUME NEW g \in Nat, Queued(d, g)'
                 PROVE  Queued(d, g) \/ (d = cdir /\ g = b)
      OBVIOUS
    <3>1. QueueOf[d] \in Queue
      BY QueueAssumption
    <3>2. PICK k \in 1 .. Len(queue'[QueueOf[d]]) : queue'[QueueOf[d]][k] = <<d, g>>
      BY DEF Queued
    <3>3. k \in Nat
      BY <3>2
    <3> QED BY <1>5, <3>1, <3>2, <3>3 DEF Queued
  <2>4. All(d)' = All(d)
    BY <1>1 DEF All
  <2>5. \A g \in Nat : d = cdir /\ Waiting(d, g)' => b < g
    <3> SUFFICES ASSUME NEW g \in Nat, d = cdir, Waiting(d, g)'
                 PROVE  b < g
      OBVIOUS
    <3>1. g = open[d] /\ open[d] # 0
      BY <1>1, <1>2 DEF Waiting
    <3> QED BY <2>1, <3>1 DEF Rest, Unsealed, b
  <2>6. Ahead(d)'
    <3> SUFFICES ASSUME NEW g \in Nat, NEW h \in Nat
                 PROVE  /\ h \in done[d] /\ (AtWork(d, g) \/ Queued(d, g)' \/ Waiting(d, g)') => h < g
                        /\ AtWork(d, h) /\ (Queued(d, g)' \/ Waiting(d, g)') => h < g
                        /\ Queued(d, h)' /\ Waiting(d, g)' => h < g
      BY <1>1, <2>2 DEF Ahead
    <3>1. /\ h \in done[d] /\ (AtWork(d, g) \/ Queued(d, g) \/ Waiting(d, g)) => h < g
          /\ AtWork(d, h) /\ (Queued(d, g) \/ Waiting(d, g)) => h < g
          /\ Queued(d, h) /\ Waiting(d, g) => h < g
      BY <2>1 DEF Rest, Ahead
    <3> QED BY <1>3, <2>2, <2>3, <2>5, <3>1
  <2>7. Unsealed(d)'
    <3>1. /\ open[d] # 0 => /\ open[d] = Len(txs[d]) /\ ~txs[d][open[d]].committed
                            /\ batch[d] < open[d]
          /\ batch[d] # 0 /\ ~AtCommit(d, batch[d]) => ~txs[d][batch[d]].committed
          /\ \A g \in All(d) : ~txs[d][g].committed => Waiting(d, g)
      BY <2>1 DEF Rest, Unsealed
    <3>2. open[d] \in Nat /\ batch[d] \in Nat
      BY DEF IInv, TInv, TypeOK
    <3>3. batch'[d] # 0 => batch'[d] = batch[d] /\ ~AtCommit(d, batch[d])
      BY <1>2 DEF AtCommit
    <3>4. ASSUME NEW g \in All(d), ~txs[d][g].committed
          PROVE  Waiting(d, g)'
      <4>1. Waiting(d, g) /\ (d = cdir => g # b)
        BY <1>3, <3>1, <3>4
      <4> QED BY <1>1, <1>2, <4>1 DEF Waiting, b
    <3>5. open[d] # 0 => batch'[d] < open[d]
      BY <1>2, <3>1, <3>2
    <3> QED BY <1>1, <2>4, <3>1, <3>3, <3>4, <3>5 DEF Unsealed
  <2> QED BY <1>1, <2>1, <2>4, <2>6, <2>7 DEF Rest
<1> QED BY <1>6, <1>7, <1>8 DEF Order, Rest

(* End markers change nothing in the order.  (the end of commit::operator) *)
LEMMA LeaveOrder ==
  ASSUME IInv, Order, Leave
  PROVE  Order'
<1>1. UNCHANGED <<txs, open, batch, cdir, job, done, kpc>> /\ cpc = "loop" /\ cpc' = "exit"
  BY DEF Leave, cpVars
<1>2. ASSUME NEW q \in Queue
      PROVE  /\ Len(queue[q]) \in Nat /\ Len(queue'[q]) = Len(queue[q]) + 1
             /\ \A k \in 1 .. Len(queue[q]) : queue'[q][k] = queue[q][k]
             /\ queue'[q][Len(queue[q]) + 1] = Stop
  <2>1. queue'[q] = Append(queue[q], Stop)
    BY DEF Leave
  <2> QED BY <2>1, QueueAppend DEF IInv
<1>3. ASSUME NEW q \in Queue, NEW k \in Nat, NEW d \in Dir, NEW g \in Nat,
             k \in 1 .. Len(queue'[q]), queue'[q][k] = <<d, g>>
      PROVE  k \in 1 .. Len(queue[q]) /\ queue[q][k] = <<d, g>>
  <2>1. <<d, g>> # Stop
    BY StopAssumption
  <2>2. k # Len(queue[q]) + 1
    BY <1>2, <1>3, <2>1
  <2> QED BY <1>2, <1>3, <2>2
<1>4. AtHome'
  <2>1. \A q \in Queue : kpc'[q] \notin {"idle", "exit"} => QueueOf[job'[q][1]] = q
    BY <1>1 DEF Order, AtHome
  <2> QED BY <1>3, <2>1 DEF Order, AtHome
<1>5. Sorted'
  <2> SUFFICES ASSUME NEW q \in Queue, NEW j \in Nat, NEW k \in Nat, NEW d \in Dir,
                      NEW g \in Nat, NEW h \in Nat,
                      j \in 1 .. Len(queue'[q]), k \in 1 .. Len(queue'[q]), j < k,
                      queue'[q][j] = <<d, h>>, queue'[q][k] = <<d, g>>
               PROVE  h < g
    BY DEF Sorted
  <2>1. j \in 1 .. Len(queue[q]) /\ queue[q][j] = <<d, h>>
    BY <1>3
  <2>2. k \in 1 .. Len(queue[q]) /\ queue[q][k] = <<d, g>>
    BY <1>3
  <2> QED BY <2>1, <2>2 DEF Order, Sorted
<1>6. ASSUME NEW d \in Dir
      PROVE  Rest(d)'
  <2>1. Rest(d)
    BY DEF Order, Rest
  <2>2. \A g \in Nat : /\ AtWork(d, g)' <=> AtWork(d, g)
                       /\ Waiting(d, g)' <=> Waiting(d, g)
    BY <1>1 DEF AtWork, Waiting
  <2>3. ASSUME NEW g \in Nat, Queued(d, g)'
        PROVE  Queued(d, g)
    <3>1. QueueOf[d] \in Queue
      BY QueueAssumption
    <3>2. PICK k \in 1 .. Len(queue'[QueueOf[d]]) : queue'[QueueOf[d]][k] = <<d, g>>
      BY <2>3 DEF Queued
    <3>3. k \in Nat
      BY <3>2
    <3> QED BY <1>3, <3>1, <3>2, <3>3 DEF Queued
  <2>4. All(d)' = All(d)
    BY <1>1 DEF All
  <2>5. Ahead(d)'
    BY <1>1, <2>1, <2>2, <2>3 DEF Rest, Ahead
  <2>6. Unsealed(d)'
    <3>1. ~AtCommit(d, batch[d])
      BY <1>1 DEF AtCommit
    <3>2. \A g \in All(d) : g \in Nat
      BY DEF All
    <3> QED BY <1>1, <2>1, <2>2, <2>4, <3>1, <3>2 DEF Rest, Unsealed
  <2> QED BY <1>1, <2>1, <2>4, <2>5, <2>6 DEF Rest
<1> QED BY <1>4, <1>5, <1>6 DEF Order, Rest

(* A checkpoint thread takes the oldest queued transaction.  (dispatch)    *)
LEMMA DispatchOrder ==
  ASSUME IInv, Order, NEW q \in Queue, Dispatch(q)
  PROVE  Order'
<1>1. /\ UNCHANGED <<txs, open, batch, cdir, cpc, done>>
      /\ kpc[q] = "idle" /\ queue[q] # <<>>
      /\ queue' = [queue EXCEPT ![q] = Tail(queue[q])]
  BY DEF Dispatch, commitVars
<1>2. queue[q] \in Seq((Dir \X Nat) \cup {Stop})
  BY DEF IInv, TInv, TypeOK
<1>3. /\ Len(queue[q]) \in Nat \ {0} /\ Head(queue[q]) = queue[q][1]
      /\ Len(Tail(queue[q])) = Len(queue[q]) - 1
      /\ \A k \in 1 .. Len(queue[q]) - 1 : Tail(queue[q])[k] = queue[q][k + 1]
  BY <1>1, <1>2
<1>4. /\ queue'[q] = Tail(queue[q])
      /\ \A p \in Queue : p # q => queue'[p] = queue[p]
  BY <1>1 DEF IInv, TInv, TypeOK
<1>5. /\ \A p \in Queue : p # q => kpc'[p] = kpc[p] /\ job'[p] = job[p]
      /\ queue[q][1] = Stop => kpc'[q] = "exit"
      /\ queue[q][1] # Stop => kpc'[q] = "load" /\ job'[q] = queue[q][1]
  <2>1. CASE Head(queue[q]) = Stop
    BY <1>3, <2>1 DEF Dispatch, IInv, TInv, TypeOK
  <2>2. CASE Head(queue[q]) # Stop
    BY <1>3, <2>2 DEF Dispatch, IInv, TInv, TypeOK
  <2> QED BY <2>1, <2>2
<1>6. ASSUME NEW p \in Queue, NEW k \in Nat, k \in 1 .. Len(queue'[p])
      PROVE  IF p = q THEN k + 1 \in 1 .. Len(queue[p]) /\ k + 1 \in Nat /\ queue'[p][k] = queue[p][k + 1]
             ELSE k \in 1 .. Len(queue[p]) /\ queue'[p][k] = queue[p][k]
  <2>1. CASE p = q
    <3>1. Len(queue'[p]) = Len(queue[q]) - 1 /\ Len(queue[q]) \in Nat
      BY <1>3, <1>4, <2>1
    <3>2. k \in 1 .. Len(queue[q]) - 1 /\ k + 1 \in 1 .. Len(queue[q]) /\ k + 1 \in Nat
      BY <1>6, <3>1
    <3> QED BY <1>3, <1>4, <2>1, <3>2
  <2>2. CASE p # q
    BY <1>4, <1>6, <2>2
  <2> QED BY <2>1, <2>2
<1>7. 1 \in 1 .. Len(queue[q])
  BY <1>3
<1>8. AtHome'
  <2>1. ASSUME NEW p \in Queue, NEW k \in Nat, NEW d \in Dir, NEW g \in Nat,
               k \in 1 .. Len(queue'[p]), queue'[p][k] = <<d, g>>
        PROVE  QueueOf[d] = p
    <3>1. PICK i \in Nat : i \in 1 .. Len(queue[p]) /\ queue[p][i] = <<d, g>>
      <4>1. CASE p = q
        <5>1. k + 1 \in 1 .. Len(queue[p]) /\ k + 1 \in Nat /\ queue[p][k + 1] = <<d, g>>
          BY <1>6, <2>1, <4>1
        <5> QED BY <5>1
      <4>2. CASE p # q
        BY <1>6, <2>1, <4>2
      <4> QED BY <4>1, <4>2
    <3> QED BY <3>1 DEF Order, AtHome
  <2>2. ASSUME NEW p \in Queue, kpc'[p] \notin {"idle", "exit"}
        PROVE  QueueOf[job'[p][1]] = p
    <3>1. CASE p # q
      BY <1>5, <2>2, <3>1 DEF Order, AtHome
    <3>2. CASE p = q
      <4>1. queue[q][1] # Stop /\ job'[q] = queue[q][1]
        BY <1>5, <2>2, <3>2
      <4>2. queue[q][1] \in Dir \X Nat
        BY <1>2, <1>7, <4>1
      <4>3. PICK d \in Dir, g \in Nat : queue[q][1] = <<d, g>>
        BY <4>2
      <4> QED BY <1>7, <3>2, <4>1, <4>3 DEF Order, AtHome
    <3> QED BY <3>1, <3>2
  <2> QED BY <2>1, <2>2 DEF AtHome
<1>9. Sorted'
  <2> SUFFICES ASSUME NEW p \in Queue, NEW j \in Nat, NEW k \in Nat, NEW d \in Dir,
                      NEW g \in Nat, NEW h \in Nat,
                      j \in 1 .. Len(queue'[p]), k \in 1 .. Len(queue'[p]), j < k,
                      queue'[p][j] = <<d, h>>, queue'[p][k] = <<d, g>>
               PROVE  h < g
    BY DEF Sorted
  <2>1. PICK a \in Nat, b \in Nat :
          /\ a \in 1 .. Len(queue[p]) /\ queue[p][a] = <<d, h>>
          /\ b \in 1 .. Len(queue[p]) /\ queue[p][b] = <<d, g>> /\ a < b
    <3>1. CASE p = q
      <4>1. j + 1 < k + 1
        OBVIOUS
      <4> QED BY <1>6, <3>1, <4>1
    <3>2. CASE p # q
      BY <1>6, <3>2
    <3> QED BY <3>1, <3>2
  <2> QED BY <2>1 DEF Order, Sorted
<1>10. ASSUME NEW d \in Dir
       PROVE  Rest(d)'
  <2>1. Rest(d) /\ QueueOf[d] \in Queue
    BY QueueAssumption DEF Order, Rest
  <2>2. ASSUME NEW g \in Nat, Queued(d, g)'
        PROVE  Queued(d, g) /\ \A h \in Nat : AtWork(d, h)' => h < g
    <3>1. PICK k \in 1 .. Len(queue'[QueueOf[d]]) : queue'[QueueOf[d]][k] = <<d, g>>
      BY <2>2 DEF Queued
    <3>2. k \in Nat
      BY <3>1
    <3>3. PICK i \in Nat : /\ i \in 1 .. Len(queue[QueueOf[d]])
                           /\ queue[QueueOf[d]][i] = <<d, g>>
                           /\ QueueOf[d] = q => 1 < i
      <4>1. CASE QueueOf[d] = q
        <5>1. k + 1 \in 1 .. Len(queue[QueueOf[d]]) /\ k + 1 \in Nat /\ 1 < k + 1
          BY <1>6, <2>1, <3>1, <3>2, <4>1
        <5> QED BY <1>6, <2>1, <3>1, <3>2, <4>1, <5>1
      <4>2. CASE QueueOf[d] # q
        BY <1>6, <2>1, <3>1, <3>2, <4>2
      <4> QED BY <4>1, <4>2
    <3>4. Queued(d, g)
      BY <3>3 DEF Queued
    <3>5. ASSUME NEW h \in Nat, AtWork(d, h)'
          PROVE  h < g
      <4>1. CASE QueueOf[d] = q
        <5>1. queue[q][1] = <<d, h>>
          BY <1>5, <3>5, <4>1 DEF AtWork
        <5> QED BY <1>7, <3>3, <4>1, <5>1 DEF Order, Sorted
      <4>2. CASE QueueOf[d] # q
        <5>1. AtWork(d, h)
          BY <1>5, <2>1, <3>5, <4>2 DEF AtWork
        <5> QED BY <2>1, <3>4, <5>1 DEF Rest, Ahead
      <4> QED BY <4>1, <4>2
    <3> QED BY <3>4, <3>5
  <2>3. ASSUME NEW g \in Nat, AtWork(d, g)'
        PROVE  AtWork(d, g) \/ Queued(d, g)
    <3>1. CASE QueueOf[d] = q
      <4>1. queue[q][1] = <<d, g>>
        BY <1>5, <2>3, <3>1 DEF AtWork
      <4> QED BY <1>7, <3>1, <4>1 DEF Queued
    <3>2. CASE QueueOf[d] # q
      BY <1>5, <2>1, <2>3, <3>2 DEF AtWork
    <3> QED BY <3>1, <3>2
  <2>4. \A g : Waiting(d, g)' <=> Waiting(d, g)
    BY <1>1 DEF Waiting
  <2>5. All(d)' = All(d) /\ Unsealed(d)'
    <3>1. All(d)' = All(d) /\ (AtCommit(d, batch[d])' <=> AtCommit(d, batch[d]))
      BY <1>1 DEF All, AtCommit
    <3> QED BY <1>1, <2>1, <2>4, <3>1 DEF Rest, Unsealed
  <2>6. Ahead(d)'
    <3> SUFFICES ASSUME NEW g \in Nat, NEW h \in Nat
                 PROVE  /\ h \in done[d] /\ (AtWork(d, g)' \/ Queued(d, g)' \/ Waiting(d, g)) => h < g
                        /\ AtWork(d, h)' /\ (Queued(d, g)' \/ Waiting(d, g)) => h < g
                        /\ Queued(d, h)' /\ Waiting(d, g) => h < g
      BY <1>1, <2>4 DEF Ahead
    <3>1. /\ h \in done[d] /\ (AtWork(d, g) \/ Queued(d, g) \/ Waiting(d, g)) => h < g
          /\ AtWork(d, h) /\ (Queued(d, g) \/ Waiting(d, g)) => h < g
          /\ Queued(d, h) /\ Waiting(d, g) => h < g
      BY <2>1 DEF Rest, Ahead
    <3> QED BY <2>2, <2>3, <3>1
  <2> QED BY <1>1, <2>1, <2>5, <2>6 DEF Rest
<1> QED BY <1>8, <1>9, <1>10 DEF Order, Rest

(* What has been at work is checkpointed.                                  *)
LEMMA ClearOrder ==
  ASSUME IInv, Order, NEW q \in Queue, Clear(q)
  PROVE  Order'
<1>1. /\ UNCHANGED <<txs, open, batch, cdir, cpc, queue>> /\ kpc[q] = "clear"
  BY DEF Clear, commitVars
<1>2. PICK c \in Dir, g0 \in Nat : job[q] = <<c, g0>>
  <2>1. job[q] \in Dir \X Nat
    BY DEF IInv, TInv, TypeOK
  <2> QED BY <2>1
<1>3. /\ kpc'[q] = "idle"
      /\ \A p \in Queue : p # q => kpc'[p] = kpc[p] /\ job'[p] = job[p]
      /\ \A d \in Dir : done'[d] = IF d = c THEN done[d] \cup {g0} ELSE done[d]
  <2>1. /\ kpc' = [kpc EXCEPT ![q] = "idle"]
        /\ job' = [job EXCEPT ![q] = <<Root, 0>>]
        /\ done' = [done EXCEPT ![c] = done[c] \cup {g0}]
    BY <1>2 DEF Clear
  <2>2. kpc = [p \in Queue |-> kpc[p]] /\ job = [p \in Queue |-> job[p]] /\ done = [d \in Dir |-> done[d]]
    BY DEF IInv, TInv, TypeOK
  <2> QED BY <2>1, <2>2
<1>4. AtWork(c, g0) /\ QueueOf[c] = q
  <2>1. QueueOf[c] = q
    BY <1>1, <1>2 DEF Order, AtHome
  <2> QED BY <1>1, <1>2, <2>1 DEF AtWork
<1>5. AtHome' /\ Sorted'
  <2>1. \A p \in Queue : kpc'[p] \notin {"idle", "exit"} => QueueOf[job'[p][1]] = p
    BY <1>3 DEF Order, AtHome
  <2>2. queue' = queue
    BY <1>1
  <2>3. Sorted'
    BY <2>2, Zenon DEF Order, Sorted
  <2>4. AtHome'
    BY <2>1, <2>2, Zenon DEF Order, AtHome
  <2> QED BY <2>3, <2>4
<1>6. ASSUME NEW d \in Dir
      PROVE  Rest(d)'
  <2>1. Rest(d) /\ QueueOf[d] \in Queue
    BY QueueAssumption DEF Order, Rest
  <2>2. \A g \in Nat : AtWork(d, g)' => AtWork(d, g) /\ d # c
    BY <1>3, <1>4, <2>1 DEF AtWork
  <2>3. \A g : /\ Waiting(d, g)' <=> Waiting(d, g)
               /\ Queued(d, g)' <=> Queued(d, g)
    BY <1>1 DEF Waiting, Queued
  <2>4. All(d)' = All(d) /\ Unsealed(d)'
    <3>1. All(d)' = All(d) /\ (AtCommit(d, batch[d])' <=> AtCommit(d, batch[d]))
      BY <1>1 DEF All, AtCommit
    <3> QED BY <1>1, <2>1, <2>3, <3>1 DEF Rest, Unsealed
  <2>5. done'[d] \subseteq All(d)
    BY <1>3, <1>4, <2>1, InRange DEF Rest
  <2>6. Ahead(d)'
    <3> SUFFICES ASSUME NEW g \in Nat, NEW h \in Nat
                 PROVE  /\ h \in done'[d] /\ (AtWork(d, g)' \/ Queued(d, g) \/ Waiting(d, g)) => h < g
                        /\ AtWork(d, h)' /\ (Queued(d, g) \/ Waiting(d, g)) => h < g
                        /\ Queued(d, h) /\ Waiting(d, g) => h < g
      BY <2>3 DEF Ahead
    <3>1. /\ h \in done[d] /\ (AtWork(d, g) \/ Queued(d, g) \/ Waiting(d, g)) => h < g
          /\ AtWork(d, h) /\ (Queued(d, g) \/ Waiting(d, g)) => h < g
          /\ Queued(d, h) /\ Waiting(d, g) => h < g
      BY <2>1 DEF Rest, Ahead
    <3> QED BY <1>3, <1>4, <2>2, <3>1
  <2> QED BY <2>4, <2>5, <2>6 DEF Rest
<1> QED BY <1>5, <1>6 DEF Order, Rest

(* Every operation takes its locks and leaves its calls to do.             *)
LEMMA OperationBegins ==
  ASSUME NEW w, Operation(w)
  PROVE  \E locks, calls : Begin(w, locks, calls)
<1>1. \A d, n, f : Create(w, d, n, f) => \E locks, calls : Begin(w, locks, calls)
  BY DEF Create
<1>2. \A d, n : Unlink(w, d, n) \/ Rmdir(w, d, n) \/ ChangeFile(w, d, n) =>
        \E locks, calls : Begin(w, locks, calls)
  BY DEF Unlink, Rmdir, ChangeFile
<1>3. \A d, n, m : Rename(w, d, n, m) => \E locks, calls : Begin(w, locks, calls)
  BY DEF Rename
<1>4. ASSUME NEW d, NEW n, NEW e, NEW m, RenameAway(w, d, n, e, m)
      PROVE  \E locks, calls : Begin(w, locks, calls)
  <2>1. PICK f, old : f = mem[d][n] /\ old = mem[e][m]
    OBVIOUS
  <2>2. PICK locks : locks = {d, e, f} \cup ({old} \ {None})
    OBVIOUS
  <2>3. PICK calls :
          calls = <<JCall("rmreg", d, n, f)>>
                    \o (IF old = None THEN <<>> ELSE <<JCall("rmreg", e, m, old)>>)
                    \o <<JCall("mkreg", e, m, f)>>
    OBVIOUS
  <2>4. Begin(w, locks, calls)
    BY <1>4, <2>1, <2>2, <2>3 DEF RenameAway
  <2> QED BY <2>4
<1>5. \A d, n, x : Mkdir(w, d, n, x) => \E locks, calls : Begin(w, locks, calls)
  BY DEF Mkdir
<1>6. \A d : ChangeDir(w, d) => \E locks, calls : Begin(w, locks, calls)
  BY DEF ChangeDir
<1> QED BY <1>1, <1>2, <1>3, <1>4, <1>5, <1>6 DEF Operation

(* Operations that begin are not the journal's business yet.               *)
LEMMA BeginQuiet ==
  ASSUME NEW w \in Worker, Operation(w)
  PROVE  UNCHANGED <<held, tries, open, txs, done, commitVars, queue, cpVars, stopped, failed, poolVars>>
<1> QED BY OperationBegins DEF Begin

LEMMA InitOrder == Init => Order
<1> SUFFICES ASSUME Init PROVE Order
  OBVIOUS
<1>1. AtHome /\ Sorted
  BY DEF Init, AtHome, Sorted
<1>2. ASSUME NEW d \in Dir
      PROVE  Rest(d)
  <2>1. /\ done[d] = {} /\ open[d] = 0 /\ batch[d] = 0 /\ All(d) = {}
        /\ \A g \in Nat : ~AtWork(d, g) /\ ~Queued(d, g) /\ ~Waiting(d, g)
    BY QueueAssumption DEF Init, AtWork, Queued, Waiting, All
  <2> QED BY <2>1 DEF Rest, Ahead, Unsealed
<1> QED BY <1>1, <1>2 DEF Order, Rest

(* Every step keeps the order. *)
LEMMA NextOrder ==
  ASSUME IInv, Order, [Next]_vars
  PROVE  Order'
<1>1. ASSUME NEW w \in Worker, Operation(w)
      PROVE  Order'
  <2>1. UNCHANGED <<cpc, cdir, queue, job, done, open, batch, kpc, txs>>
    BY <1>1, BeginQuiet DEF commitVars, cpVars
  <2> QED BY <2>1, OrderKept
<1>2. ASSUME NEW w \in Worker, Retry(w)
      PROVE  Order'
  <2>1. UNCHANGED <<cpc, cdir, queue, job, done, open, batch, kpc, txs>>
    BY <1>2 DEF Retry, commitVars, cpVars
  <2> QED BY <2>1, OrderKept
<1>3. ASSUME NEW w \in Worker, Record(w)
      PROVE  Order'
  <2>1. UNCHANGED <<cpc, cdir, queue, job, done, open, batch, kpc>>
    BY <1>3 DEF Record, commitVars, cpVars
  <2>2. ASSUME NEW d \in Dir
        PROVE  /\ Len(txs'[d]) = Len(txs[d])
               /\ \A g \in All(d) : txs'[d][g].committed <=> txs[d][g].committed
    <3>1. \A g \in Nat : /\ Len(txs'[d]) = Len(txs[d])
                         /\ g \in 1 .. Len(txs[d]) =>
                              (txs'[d][g].committed <=> txs[d][g].committed)
      BY <1>3, RecordKeeps DEF IInv
    <3>2. 0 \in Nat /\ \A g \in All(d) : g \in Nat
      BY DEF All
    <3> QED BY <3>1, <3>2 DEF All
  <2> QED BY <2>1, <2>2, OrderKept
<1>4. ASSUME RaiseStop
      PROVE  Order'
  <2>1. UNCHANGED <<cpc, cdir, queue, job, done, open, batch, kpc, txs>>
    BY <1>4 DEF RaiseStop, commitVars, cpVars
  <2> QED BY <2>1, OrderKept
<1>5. ASSUME NEW q \in Queue, SyncRemoved(q) \/ SyncLoad(q) \/ SyncSave(q)
      PROVE  Order'
  <2>1. UNCHANGED <<cpc, cdir, queue, job, done, open, batch, txs>>
    BY <1>5 DEF SyncRemoved, SyncLoad, SyncSave, commitVars, cpVars
  <2>2. /\ kpc[q] \in {"load", "save"}
        /\ \E v \in {"save", "clear"} : kpc' = [kpc EXCEPT ![q] = v]
    BY <1>5 DEF SyncRemoved, SyncLoad, SyncSave
  <2>3. kpc = [p \in Queue |-> kpc[p]]
    BY DEF IInv, TInv, TypeOK
  <2>4. \A p \in Queue : kpc'[p] \notin {"idle", "exit"} <=> kpc[p] \notin {"idle", "exit"}
    BY <2>2, <2>3
  <2> QED BY <2>1, <2>4, OrderKept
<1>6. ASSUME UNCHANGED vars
      PROVE  Order'
  <2>1. UNCHANGED <<cpc, cdir, queue, job, done, open, batch, kpc, txs>>
    BY <1>6 DEF vars, commitVars, cpVars
  <2> QED BY <2>1, OrderKept
<1> QED
  BY <1>1, <1>2, <1>3, <1>4, <1>5, <1>6, GetEntryOrder, ReplaceMapOrder, CommitOrder,
     IssueOrder, LeaveOrder, DispatchOrder, ClearOrder
  DEF Next, JournalStep, CommitStep, CheckpointStep

----------------------------------------------------------------------------
(* Logs: what the transactions of a directory say, by number.              *)

(* Among the transactions S the newest that says anything says v; none     *)
(* says anything.                                                          *)
Latest(L, S, v) ==
  \E g \in S : L[g] = v /\ v # None /\ \A h \in S : h > g => L[h] = None
Silent(L, S) == \A g \in S : L[g] = None

(* There is one latest word. *)
LEMMA LogUnique ==
  ASSUME NEW L, NEW S \in SUBSET Nat, NEW v, NEW u, Latest(L, S, v), Latest(L, S, u)
  PROVE  u = v
<1>1. PICK g \in S : L[g] = v /\ v # None /\ \A h \in S : h > g => L[h] = None
  BY DEF Latest
<1>2. PICK k \in S : L[k] = u /\ u # None /\ \A h \in S : h > k => L[h] = None
  BY DEF Latest
<1>3. g \in Nat /\ k \in Nat /\ ~(g > k) /\ ~(k > g)
  BY <1>1, <1>2
<1>4. g = k
  BY <1>3
<1> QED BY <1>1, <1>2, <1>4

LEMMA LogEither ==
  ASSUME NEW L, NEW S, NEW v, Latest(L, S, v)
  PROVE  v # None /\ ~Silent(L, S)
BY DEF Latest, Silent

(* Logs that say the same. *)
LEMMA LogSame ==
  ASSUME NEW L, NEW M, NEW S, \A g \in S : M[g] = L[g]
  PROVE  /\ Silent(M, S) <=> Silent(L, S)
         /\ \A v : Latest(M, S, v) <=> Latest(L, S, v)
<1>1. Silent(M, S) <=> Silent(L, S)
  BY DEF Silent
<1>2. ASSUME NEW v, Latest(L, S, v)
      PROVE  Latest(M, S, v)
  BY <1>2 DEF Latest
<1>3. ASSUME NEW v, Latest(M, S, v)
      PROVE  Latest(L, S, v)
  BY <1>3 DEF Latest
<1> QED BY <1>1, <1>2, <1>3

(* A word above all others is the latest; a new transaction without one    *)
(* changes nothing.                                                        *)
LEMMA LogTop ==
  ASSUME NEW L, NEW M, NEW S \in SUBSET Nat, NEW g \in Nat,
         \A h \in S : h < g /\ M[h] = L[h]
  PROVE  /\ M[g] # None => Latest(M, S \cup {g}, M[g])
         /\ M[g] = None => /\ Silent(M, S \cup {g}) <=> Silent(L, S)
                           /\ \A v : Latest(L, S, v) => Latest(M, S \cup {g}, v)
<1>1. ASSUME M[g] # None
      PROVE  Latest(M, S \cup {g}, M[g])
  <2>1. ASSUME NEW h \in S \cup {g}
        PROVE  h \in Nat /\ ~(h > g)
    <3>1. CASE h = g
      BY <3>1
    <3>2. CASE h # g
      <4>1. h \in S /\ h \in Nat
        BY <3>2
      <4>2. h < g
        BY <4>1
      <4> QED BY <4>1, <4>2
    <3> QED BY <3>1, <3>2
  <2> QED BY <1>1, <2>1 DEF Latest
<1>2. ASSUME M[g] = None
      PROVE  Silent(M, S \cup {g}) <=> Silent(L, S)
  <2>1. ASSUME Silent(M, S \cup {g}), NEW h \in S
        PROVE  L[h] = None
    <3>1. M[h] = None
      BY <2>1 DEF Silent
    <3> QED BY <3>1
  <2>2. ASSUME Silent(L, S), NEW h \in S \cup {g}
        PROVE  M[h] = None
    <3>1. CASE h = g
      BY <1>2, <3>1
    <3>2. CASE h # g
      BY <2>2, <3>2 DEF Silent
    <3> QED BY <3>1, <3>2
  <2> QED BY <2>1, <2>2 DEF Silent
<1>3. ASSUME M[g] = None, NEW v, Latest(L, S, v)
      PROVE  Latest(M, S \cup {g}, v)
  <2>1. PICK k \in S : L[k] = v /\ v # None /\ \A h \in S : h > k => L[h] = None
    BY <1>3 DEF Latest
  <2>2. k \in S \cup {g} /\ M[k] = v /\ \A h \in S \cup {g} : h > k => M[h] = None
    BY <1>3, <2>1
  <2> QED BY <2>1, <2>2 DEF Latest
<1> QED BY <1>1, <1>2, <1>3

(* A word with nothing newer above it is the latest. *)
LEMMA LogWrite ==
  ASSUME NEW L, NEW M, NEW S \in SUBSET Nat, NEW g \in S, NEW v,
         \A h \in S : h # g => M[h] = L[h],
         \A h \in S : h > g => L[h] = None,
         M[g] = v, v # None
  PROVE  Latest(M, S, v)
<1>1. \A h \in S : h > g => M[h] = None
  <2>1. \A h \in S : h \in Nat /\ g \in Nat /\ (h > g => h # g)
    OBVIOUS
  <2> QED BY <2>1
<1> QED BY <1>1 DEF Latest

(* With nothing newer above it, a word is the latest already. *)
LEMMA LogRead ==
  ASSUME NEW L, NEW S \in SUBSET Nat, NEW g \in S,
         \A h \in S : h > g => L[h] = None, L[g] # None
  PROVE  Latest(L, S, L[g])
BY DEF Latest

(* The latest word is among the newer transactions, or they are silent.    *)
LEMMA LogSplit ==
  ASSUME NEW L, NEW S, NEW T \in SUBSET Nat, S \subseteq T,
         \A g \in T \ S, h \in S : h < g
  PROVE  /\ \A v : Latest(L, T, v) =>
              Latest(L, T \ S, v) \/ (Silent(L, T \ S) /\ Latest(L, S, v))
         /\ Silent(L, T) => Silent(L, T \ S) /\ Silent(L, S)
<1>1. ASSUME NEW v, Latest(L, T, v)
      PROVE  Latest(L, T \ S, v) \/ (Silent(L, T \ S) /\ Latest(L, S, v))
  <2>1. PICK g \in T : L[g] = v /\ v # None /\ \A h \in T : h > g => L[h] = None
    BY <1>1 DEF Latest
  <2>2. CASE g \in S
    <3>1. \A h \in T \ S : h > g
      BY <2>2
    <3> QED BY <2>1, <2>2, <3>1 DEF Latest, Silent
  <2>3. CASE g \notin S
    BY <2>1, <2>3 DEF Latest
  <2> QED BY <2>2, <2>3
<1>2. Silent(L, T) => Silent(L, T \ S) /\ Silent(L, S)
  BY DEF Silent
<1> QED BY <1>1, <1>2

(* What the property definitions call the newest is the latest word.       *)
LEMMA NewestIs ==
  ASSUME NEW L, NEW S \in SUBSET Nat, NEW v, Latest(L, S, v), NEW R,
         R = {g \in S : L[g] # None}
  PROVE  R # {} /\ Newest(R) \in S /\ L[Newest(R)] = v
<1>1. PICK g \in S : L[g] = v /\ v # None /\ \A h \in S : h > g => L[h] = None
  BY DEF Latest
<1>2. g \in R /\ R \subseteq Nat
  BY <1>1
<1>3. ASSUME NEW h \in R
      PROVE  h <= g
  <2>1. h \in Nat /\ g \in Nat /\ h \in S /\ ~(L[h] = None)
    BY <1>2
  <2>2. ~(h > g)
    BY <1>1, <2>1
  <2> QED BY <2>1, <2>2
<1>4. Newest(R) \in R /\ \A h \in R : h <= Newest(R)
  BY <1>2, <1>3 DEF Newest
<1>5. Newest(R) <= g /\ g <= Newest(R) /\ Newest(R) \in Nat /\ g \in Nat
  BY <1>2, <1>3, <1>4
<1>6. Newest(R) = g
  BY <1>5
<1> QED BY <1>1, <1>2, <1>6

----------------------------------------------------------------------------
(* Paths: the calls a worker still has to make take a value from u to v.   *)

Step(from, to) == [is |-> TRUE, from |-> from, to |-> to]
Skip == [is |-> FALSE, from |-> None, to |-> None]

Path(T, n, u, v) ==
  \A k \in 1 .. n : T[k].is =>
    /\ (\A j \in 1 .. k - 1 : ~T[j].is) => u = T[k].from
    /\ \/ (\A j \in k + 1 .. n : ~T[j].is) /\ T[k].to = v
       \/ \E j \in k + 1 .. n : /\ T[j].is /\ T[j].from = T[k].to
                                /\ \A i \in k + 1 .. j - 1 : ~T[i].is

(* The first call done. *)
LEMMA PathTail ==
  ASSUME NEW T, NEW M, NEW n \in Nat, NEW u, NEW v, Path(T, n + 1, u, v),
         \A k \in 1 .. n : M[k] = T[k + 1]
  PROVE  /\ ~T[1].is => Path(M, n, u, v)
         /\ T[1].is => /\ u = T[1].from /\ Path(M, n, T[1].to, v)
                       /\ (\A k \in 1 .. n : ~M[k].is) => T[1].to = v
<1>1. ASSUME NEW k \in 1 .. n, M[k].is
      PROVE  \/ (\A j \in k + 1 .. n : ~M[j].is) /\ M[k].to = v
             \/ \E j \in k + 1 .. n : /\ M[j].is /\ M[j].from = M[k].to
                                      /\ \A i \in k + 1 .. j - 1 : ~M[i].is
  <2>1. k + 1 \in 1 .. n + 1 /\ T[k + 1].is /\ M[k] = T[k + 1]
    BY <1>1
  <2>2. CASE (\A j \in k + 2 .. n + 1 : ~T[j].is) /\ T[k + 1].to = v
    <3>1. ASSUME NEW j \in k + 1 .. n
          PROVE  ~M[j].is
      <4>1. j + 1 \in k + 2 .. n + 1 /\ j \in 1 .. n
        OBVIOUS
      <4> QED BY <2>2, <4>1
    <3> QED BY <2>1, <2>2, <3>1
  <2>3. CASE \E j \in k + 2 .. n + 1 : /\ T[j].is /\ T[j].from = T[k + 1].to
                                       /\ \A i \in k + 2 .. j - 1 : ~T[i].is
    <3>1. PICK j \in k + 2 .. n + 1 : /\ T[j].is /\ T[j].from = T[k + 1].to
                                      /\ \A i \in k + 2 .. j - 1 : ~T[i].is
      BY <2>3
    <3>2. j - 1 \in k + 1 .. n /\ j - 1 \in 1 .. n /\ (j - 1) + 1 = j
      OBVIOUS
    <3>3. M[j - 1] = T[j]
      BY <3>2
    <3>4. ASSUME NEW i \in k + 1 .. (j - 1) - 1
          PROVE  ~M[i].is
      <4>1. i + 1 \in k + 2 .. j - 1 /\ i \in 1 .. n
        OBVIOUS
      <4> QED BY <3>1, <4>1
    <3> QED BY <2>1, <3>1, <3>2, <3>3, <3>4
  <2>4. (k + 1) + 1 = k + 2
    OBVIOUS
  <2> QED BY <2>1, <2>2, <2>3, <2>4 DEF Path
<1>2. ASSUME NEW k \in 1 .. n, M[k].is, \A j \in 1 .. k - 1 : ~M[j].is
      PROVE  IF T[1].is THEN T[1].to = M[k].from ELSE u = M[k].from
  <2>1. k + 1 \in 1 .. n + 1 /\ T[k + 1].is /\ M[k] = T[k + 1] /\ 1 \in 1 .. n + 1
    BY <1>2
  <2>2. \A j \in 2 .. k : ~T[j].is
    <3> SUFFICES ASSUME NEW j \in 2 .. k PROVE ~T[j].is
      OBVIOUS
    <3>1. j - 1 \in 1 .. k - 1 /\ j - 1 \in 1 .. n /\ (j - 1) + 1 = j
      OBVIOUS
    <3> QED BY <1>2, <3>1
  <2>3. CASE ~T[1].is
    <3>1. \A j \in 1 .. (k + 1) - 1 : ~T[j].is
      BY <2>2, <2>3
    <3> QED BY <2>1, <2>3, <3>1 DEF Path
  <2>4. CASE T[1].is
    <3>1. k + 1 \in 1 + 1 .. n + 1
      OBVIOUS
    <3>2. PICK j \in 1 + 1 .. n + 1 : /\ T[j].is /\ T[j].from = T[1].to
                                     /\ \A i \in 1 + 1 .. j - 1 : ~T[i].is
      BY <2>1, <2>4, <3>1 DEF Path
    <3>3. j = k + 1
      <4>1. ~(j \in 2 .. k)
        BY <2>2, <3>2
      <4>2. ~(k + 1 \in 1 + 1 .. j - 1)
        BY <2>1, <3>2
      <4> QED BY <4>1, <4>2
    <3> QED BY <2>1, <2>4, <3>2, <3>3
  <2> QED BY <2>3, <2>4
<1>3. ASSUME ~T[1].is
      PROVE  Path(M, n, u, v)
  BY <1>1, <1>2, <1>3 DEF Path
<1>4. ASSUME T[1].is
      PROVE  u = T[1].from /\ Path(M, n, T[1].to, v)
  <2>1. 1 \in 1 .. n + 1 /\ \A j \in 1 .. 1 - 1 : ~T[j].is
    OBVIOUS
  <2>2. u = T[1].from
    BY <1>4, <2>1 DEF Path
  <2> QED BY <1>1, <1>2, <1>4, <2>2 DEF Path
<1>5. ASSUME T[1].is, \A k \in 1 .. n : ~M[k].is
      PROVE  T[1].to = v
  <2>1. 1 \in 1 .. n + 1
    OBVIOUS
  <2>2. ASSUME NEW j \in 1 + 1 .. n + 1
        PROVE  ~T[j].is
    <3>1. j - 1 \in 1 .. n /\ (j - 1) + 1 = j
      OBVIOUS
    <3> QED BY <1>5, <3>1
  <2> QED BY <1>5, <2>1, <2>2 DEF Path
<1> QED BY <1>3, <1>4, <1>5

(* Sequences of one, two and three calls. *)
LEMMA PathOne ==
  ASSUME NEW T, NEW u, NEW v, T[1].is => u = T[1].from /\ T[1].to = v
  PROVE  Path(T, 1, u, v)
<1>1. 1 .. 1 = {1} /\ 1 + 1 .. 1 = {}
  OBVIOUS
<1> QED BY <1>1 DEF Path

LEMMA PathTwo ==
  ASSUME NEW T, NEW u, NEW v,
         T[1].is => u = T[1].from,
         ~T[1].is /\ T[2].is => u = T[2].from,
         T[1].is /\ T[2].is => T[1].to = T[2].from,
         T[1].is /\ ~T[2].is => T[1].to = v,
         T[2].is => T[2].to = v
  PROVE  Path(T, 2, u, v)
<1>1. ASSUME T[1].is
      PROVE  \/ (\A j \in 1 + 1 .. 2 : ~T[j].is) /\ T[1].to = v
             \/ \E j \in 1 + 1 .. 2 : /\ T[j].is /\ T[j].from = T[1].to
                                      /\ \A i \in 1 + 1 .. j - 1 : ~T[i].is
  <2>1. 1 + 1 .. 2 = {2} /\ 1 + 1 .. 2 - 1 = {}
    OBVIOUS
  <2> QED BY <1>1, <2>1
<1>2. \A j \in 2 + 1 .. 2 : ~T[j].is
  OBVIOUS
<1>3. ASSUME T[2].is, \A j \in 1 .. 2 - 1 : ~T[j].is
      PROVE  u = T[2].from
  <2>1. 1 \in 1 .. 2 - 1
    OBVIOUS
  <2> QED BY <1>3, <2>1
<1>4. 1 .. 2 = {1, 2}
  OBVIOUS
<1> QED BY <1>1, <1>2, <1>3, <1>4 DEF Path

LEMMA PathThree ==
  ASSUME NEW T, NEW u, NEW v,
         T[1].is => u = T[1].from,
         ~T[1].is /\ T[2].is => u = T[2].from,
         ~T[1].is /\ ~T[2].is /\ T[3].is => u = T[3].from,
         T[1].is /\ T[2].is => T[1].to = T[2].from,
         T[1].is /\ ~T[2].is /\ T[3].is => T[1].to = T[3].from,
         T[1].is /\ ~T[2].is /\ ~T[3].is => T[1].to = v,
         T[2].is /\ T[3].is => T[2].to = T[3].from,
         T[2].is /\ ~T[3].is => T[2].to = v,
         T[3].is => T[3].to = v
  PROVE  Path(T, 3, u, v)
<1>1. ASSUME T[1].is
      PROVE  \/ (\A j \in 1 + 1 .. 3 : ~T[j].is) /\ T[1].to = v
             \/ \E j \in 1 + 1 .. 3 : /\ T[j].is /\ T[j].from = T[1].to
                                      /\ \A i \in 1 + 1 .. j - 1 : ~T[i].is
  <2>1. 1 + 1 .. 3 = {2, 3} /\ 1 + 1 .. 2 - 1 = {} /\ 1 + 1 .. 3 - 1 = {2}
    OBVIOUS
  <2> QED BY <1>1, <2>1
<1>2. ASSUME T[2].is
      PROVE  \/ (\A j \in 2 + 1 .. 3 : ~T[j].is) /\ T[2].to = v
             \/ \E j \in 2 + 1 .. 3 : /\ T[j].is /\ T[j].from = T[2].to
                                      /\ \A i \in 2 + 1 .. j - 1 : ~T[i].is
  <2>1. 2 + 1 .. 3 = {3} /\ 2 + 1 .. 3 - 1 = {}
    OBVIOUS
  <2> QED BY <1>2, <2>1
<1>3. \A j \in 3 + 1 .. 3 : ~T[j].is
  OBVIOUS
<1>4. ASSUME T[2].is, \A j \in 1 .. 2 - 1 : ~T[j].is
      PROVE  u = T[2].from
  <2>1. 1 \in 1 .. 2 - 1
    OBVIOUS
  <2> QED BY <1>4, <2>1
<1>5. ASSUME T[3].is, \A j \in 1 .. 3 - 1 : ~T[j].is
      PROVE  u = T[3].from
  <2>1. 1 \in 1 .. 3 - 1 /\ 2 \in 1 .. 3 - 1
    OBVIOUS
  <2> QED BY <1>5, <2>1
<1>6. 1 .. 3 = {1, 2, 3}
  OBVIOUS
<1> QED BY <1>1, <1>2, <1>3, <1>4, <1>5, <1>6 DEF Path

----------------------------------------------------------------------------
(* What a log of entries says of a name: the inode number in the latest    *)
(* entry, or that there is none.                                           *)
EntryIno(e) == IF e.alive THEN e.ino ELSE None

Says(L, S, v) ==
  \/ Silent(L, S) /\ v = None
  \/ \E g \in S : Latest(L, S, L[g]) /\ v = EntryIno(L[g])

LEMMA SaysUnique ==
  ASSUME NEW L, NEW S \in SUBSET Nat, NEW v, NEW u, Says(L, S, v), Says(L, S, u)
  PROVE  u = v
<1>1. CASE Silent(L, S)
  <2>1. \A g \in S : ~Latest(L, S, L[g])
    BY <1>1 DEF Latest, Silent
  <2> QED BY <2>1 DEF Says
<1>2. CASE ~Silent(L, S)
  <2>1. PICK g \in S : Latest(L, S, L[g]) /\ v = EntryIno(L[g])
    BY <1>2 DEF Says
  <2>2. PICK h \in S : Latest(L, S, L[h]) /\ u = EntryIno(L[h])
    BY <1>2 DEF Says
  <2>3. L[h] = L[g]
    BY <2>1, <2>2, LogUnique
  <2> QED BY <2>1, <2>2, <2>3
<1> QED BY <1>1, <1>2

LEMMA SaysSame ==
  ASSUME NEW L, NEW M, NEW S, \A g \in S : M[g] = L[g], NEW v, Says(L, S, v)
  PROVE  Says(M, S, v)
<1>1. (Silent(M, S) <=> Silent(L, S)) /\ \A u : Latest(M, S, u) <=> Latest(L, S, u)
  BY LogSame
<1> QED BY <1>1 DEF Says

LEMMA SaysTop ==
  ASSUME NEW L, NEW M, NEW S \in SUBSET Nat, NEW g \in Nat,
         \A h \in S : h < g /\ M[h] = L[h]
  PROVE  /\ M[g] # None => Says(M, S \cup {g}, EntryIno(M[g]))
         /\ M[g] = None => \A v : Says(L, S, v) => Says(M, S \cup {g}, v)
<1>1. /\ M[g] # None => Latest(M, S \cup {g}, M[g])
      /\ M[g] = None => /\ Silent(M, S \cup {g}) <=> Silent(L, S)
                        /\ \A v : Latest(L, S, v) => Latest(M, S \cup {g}, v)
  BY LogTop
<1>2. ASSUME M[g] # None
      PROVE  Says(M, S \cup {g}, EntryIno(M[g]))
  BY <1>1, <1>2 DEF Says
<1>3. ASSUME M[g] = None, NEW v, Says(L, S, v)
      PROVE  Says(M, S \cup {g}, v)
  BY <1>1, <1>3 DEF Says
<1> QED BY <1>2, <1>3

LEMMA SaysWrite ==
  ASSUME NEW L, NEW M, NEW S \in SUBSET Nat, NEW g \in S,
         \A h \in S : h # g => M[h] = L[h],
         \A h \in S : h > g => L[h] = None, M[g] # None
  PROVE  Says(M, S, EntryIno(M[g]))
<1>1. Latest(M, S, M[g])
  BY LogWrite
<1> QED BY <1>1 DEF Says

(* Where the newer transactions say nothing, the older ones have the word. *)
LEMMA SaysSplit ==
  ASSUME NEW L, NEW S, NEW T \in SUBSET Nat, S \subseteq T,
         \A g \in T \ S, h \in S : h < g, NEW v, Says(L, T, v)
  PROVE  \/ \E g \in T \ S : Latest(L, T \ S, L[g]) /\ v = EntryIno(L[g])
         \/ Silent(L, T \ S) /\ Says(L, S, v)
<1>1. /\ \A u : Latest(L, T, u) => Latest(L, T \ S, u) \/ (Silent(L, T \ S) /\ Latest(L, S, u))
      /\ Silent(L, T) => Silent(L, T \ S) /\ Silent(L, S)
  BY LogSplit
<1>2. CASE Silent(L, T)
  <2>1. v = None
    <3>1. \A g \in T : ~Latest(L, T, L[g])
      BY <1>2 DEF Latest, Silent
    <3> QED BY <3>1 DEF Says
  <2> QED BY <1>1, <1>2, <2>1 DEF Says
<1>3. CASE ~Silent(L, T)
  <2>1. PICK g \in T : Latest(L, T, L[g]) /\ v = EntryIno(L[g])
    BY <1>3 DEF Says
  <2>2. CASE Latest(L, T \ S, L[g])
    <3>1. PICK k \in T \ S : L[k] = L[g]
      BY <2>2 DEF Latest
    <3> QED BY <2>1, <2>2, <3>1
  <2>3. CASE Silent(L, T \ S) /\ Latest(L, S, L[g])
    <3>1. PICK k \in S : L[k] = L[g]
      BY <2>3 DEF Latest
    <3> QED BY <2>1, <2>3, <3>1 DEF Says
  <2> QED BY <1>1, <2>1, <2>2, <2>3
<1> QED BY <1>2, <1>3

----------------------------------------------------------------------------
(* What the calls are about, and what they find and leave.                 *)
NameCall(c) == c.fn \in {"mkdir", "rmdir", "mkreg", "rmreg"}
SelfCall(c) == c.fn # "chreg"
Makes(c) == c.fn \in {"mkdir", "mkreg"}
Finds(c) == IF Makes(c) THEN None ELSE c.ino
Leaves(c) == IF Makes(c) THEN c.ino ELSE None
About(c, d, n) == c.dir = d /\ c.name = n

NameStep(c, d, n) == IF About(c, d, n) THEN Step(Finds(c), Leaves(c)) ELSE Skip
NameTrace(s, d, n) == [k \in 1 .. Len(s) |-> NameStep(s[k], d, n)]
NameLog(d, n) == [g \in All(d) |-> txs[d][g].dentries[n]]

(* Calls that record a change of a directory are made with its mutex.      *)
Locked ==
  \A w \in Worker : \A k \in 1 .. Len(todo[w]) :
    /\ SelfCall(todo[w][k]) => lock[todo[w][k].dir] = w
    /\ todo[w][k].name \in Name <=> NameCall(todo[w][k])
    /\ todo[w][k].dir \in used

(* Nobody puts a name into a newer transaction than a caller has got.      *)
NothingNewer ==
  \A w \in Worker : held[w] # 0 /\ NameCall(Head(todo[w])) =>
    \A h \in All(Head(todo[w]).dir) : h > held[w] =>
      txs[Head(todo[w]).dir][h].dentries = NoNames

(* What the transactions say of a name is what the next call about it      *)
(* finds, and the last call leaves what is in memory.                      *)
NameLogged(d, n) ==
  \E u \in Ino \cup {None} :
    /\ Says(NameLog(d, n), All(d), u)
    /\ \A w \in Worker : Path(NameTrace(todo[w], d, n), Len(todo[w]), u, mem[d][n])
    /\ ~Unrecorded(d, n) => u = mem[d][n]

Logged == Locked /\ NothingNewer /\ \A d \in Dir : \A n \in Name : NameLogged(d, n)

(* What a call does to the entries and the status of a transaction.        *)
LEMMA ApplyNames ==
  ASSUME NEW t \in TxType, NEW c \in CallType, NEW self \in InodeType,
         NEW i \in InodeType, c.name \in Name <=> NameCall(c)
  PROVE  /\ Apply(t, c, self, i).dentries =
              IF NameCall(c) THEN [t.dentries EXCEPT ![c.name] =
                                     [alive |-> Makes(c), ino |-> c.ino]]
              ELSE t.dentries
         /\ Apply(t, c, self, i).status =
              IF c.fn = "mkself" THEN "created"
              ELSE IF c.fn = "rmself" THEN "deleted" ELSE t.status
<1>1. \A u \in TxType : /\ StampSelf(u, self).dentries = u.dentries
                        /\ StampSelf(u, self).status = u.status
  BY DEF StampSelf, TxType
<1>2. ASSUME NEW b \in BOOLEAN
      PROVE  /\ [t EXCEPT !.dentries[c.name] = [alive |-> b, ino |-> c.ino]] \in TxType
             /\ [t EXCEPT !.dentries[c.name] = [alive |-> b, ino |-> c.ino]].dentries
                  = [t.dentries EXCEPT ![c.name] = [alive |-> b, ino |-> c.ino]]
             /\ [t EXCEPT !.dentries[c.name] = [alive |-> b, ino |-> c.ino]].status = t.status
  <2>1. [t.dentries EXCEPT ![c.name] = [alive |-> b, ino |-> c.ino]]
          \in [Name -> [alive : BOOLEAN, ino : Ino] \cup {None}]
    BY DEF TxType, CallType
  <2> QED
    BY <2>1 DEF TxType
<1>3. /\ tx_mkdir(t, self, c.name, c.ino).dentries
           = [t.dentries EXCEPT ![c.name] = [alive |-> TRUE, ino |-> c.ino]]
      /\ tx_mkdir(t, self, c.name, c.ino).status = t.status
      /\ tx_rmdir(t, self, c.name, c.ino).dentries
           = [t.dentries EXCEPT ![c.name] = [alive |-> FALSE, ino |-> c.ino]]
      /\ tx_rmdir(t, self, c.name, c.ino).status = t.status
  BY <1>1, <1>2 DEF tx_mkdir, tx_rmdir
<1>4. /\ tx_mkdir(t, self, c.name, c.ino) \in TxType
      /\ tx_rmdir(t, self, c.name, c.ino) \in TxType
  <2>1. c.name \in Name \cup {None} /\ c.ino \in Ino
    BY DEF CallType
  <2> QED BY <2>1, EntryType
<1>5. /\ tx_mkreg(t, self, c.name, c.ino, i).dentries = tx_mkdir(t, self, c.name, c.ino).dentries
      /\ tx_mkreg(t, self, c.name, c.ino, i).status = t.status
      /\ tx_rmreg(t, self, c.name, c.ino).dentries = tx_rmdir(t, self, c.name, c.ino).dentries
      /\ tx_rmreg(t, self, c.name, c.ino).status = t.status
      /\ tx_chreg(t, c.ino, i).dentries = t.dentries
      /\ tx_chreg(t, c.ino, i).status = t.status
  BY <1>3, <1>4 DEF tx_mkreg, tx_rmreg, tx_chreg, TxType
<1>6. /\ tx_mkself(t, self).dentries = t.dentries /\ tx_mkself(t, self).status = "created"
      /\ tx_rmself(t).dentries = t.dentries /\ tx_rmself(t).status = "deleted"
      /\ tx_chself(t, self).dentries = t.dentries /\ tx_chself(t, self).status = t.status
  BY DEF tx_mkself, tx_rmself, tx_chself, TxType
<1>7. c.fn \in {"mkself", "rmself", "chself", "mkdir", "rmdir",
                "mkreg", "rmreg", "chreg"}
  BY DEF CallType
<1>8. (Makes(c) <=> c.fn \in {"mkdir", "mkreg"}) /\ Makes(c) \in BOOLEAN
  BY DEF Makes
<1>9. Makes(c) = TRUE \/ Makes(c) = FALSE
  BY <1>8
<1>10. CASE c.fn \in {"mkdir", "mkreg"}
  <2>1. Makes(c) = TRUE
    BY <1>8, <1>10
  <2> QED BY <1>3, <1>5, <1>10, <2>1 DEF Apply, NameCall
<1>11. CASE c.fn \in {"rmdir", "rmreg"}
  <2>1. Makes(c) = FALSE
    BY <1>8, <1>11
  <2> QED BY <1>3, <1>5, <1>11, <2>1 DEF Apply, NameCall
<1>12. CASE c.fn \in {"mkself", "rmself", "chself", "chreg"}
  BY <1>5, <1>6, <1>12 DEF Apply, NameCall
<1> QED BY <1>7, <1>10, <1>11, <1>12

(* A call that succeeds: what it changes, and what it leaves.              *)
LEMMA RecordForm ==
  ASSUME IInv, NEW w \in Worker, Record(w), Running', NEW c, c = Head(todo[w]),
         NEW g, g = held[w]
  PROVE  /\ c \in CallType /\ todo[w] # <<>> /\ c = todo[w][1] /\ g \in All(c.dir)
         /\ ~txs[c.dir][g].committed /\ ~Throws(txs[c.dir][g], c)
         /\ \A d \in Dir : /\ Len(txs'[d]) = Len(txs[d])
                           /\ \A h \in All(d) : d # c.dir \/ h # g => txs'[d][h] = txs[d][h]
         /\ txs'[c.dir][g] = Apply(txs[c.dir][g], c, inode[c.dir], inode[c.ino])
         /\ todo'[w] = Tail(todo[w]) /\ held'[w] = 0
         /\ \A i \in Worker : i # w => todo'[i] = todo[i] /\ held'[i] = held[i]
         /\ \A i \in Ino : lock'[i] = IF lock[i] = w /\ Len(todo[w]) = 1 THEN None ELSE lock[i]
         /\ UNCHANGED <<mem, inode, used, alive, ops, moved, open, done, commitVars, queue, cpVars,
                        stopped, failed, poolVars>>
<1>1. todo[w] # <<>> /\ g \in All(c.dir) /\ todo[w] \in Seq(CallType)
  BY DEF Record, IInv, TInv, TypeOK, Pointers, All
<1>2. c \in CallType /\ c = todo[w][1]
  BY <1>1
<1>3. c.dir \in Dir
  BY <1>2 DEF CallType
<1>4. ~Throws(txs[c.dir][g], c) /\ ~txs[c.dir][g].committed
  BY DEF Record, Running
<1> DEFINE a == Apply(txs[c.dir][g], c, inode[c.dir], inode[c.ino])
<1>5. /\ txs' = [txs EXCEPT ![c.dir] = [txs[c.dir] EXCEPT ![g] = a]]
      /\ todo' = [todo EXCEPT ![w] = Tail(todo[w])] /\ held' = [held EXCEPT ![w] = 0]
      /\ lock' = [i \in Ino |-> IF lock[i] = w /\ Len(todo[w]) = 1 THEN None ELSE lock[i]]
      /\ UNCHANGED <<mem, inode, used, alive, ops, moved, open, done, commitVars, queue, cpVars,
                     stopped, failed, poolVars>>
  BY <1>4 DEF Record
<1> HIDE DEF a
<1>6. \A d \in Dir : txs[d] \in Seq(TxType)
  BY DEF IInv, TInv, TypeOK
<1>7. /\ \A d \in Dir : d # c.dir => txs'[d] = txs[d]
      /\ txs'[c.dir] = [txs[c.dir] EXCEPT ![g] = a]
  BY <1>3, <1>5 DEF IInv, TInv, TypeOK
<1>8. /\ Len(txs'[c.dir]) = Len(txs[c.dir]) /\ txs'[c.dir][g] = a
      /\ \A h \in All(c.dir) : h # g => txs'[c.dir][h] = txs[c.dir][h]
  BY <1>1, <1>3, <1>6, <1>7 DEF All
<1>9. /\ todo'[w] = Tail(todo[w]) /\ held'[w] = 0
      /\ \A i \in Worker : i # w => todo'[i] = todo[i] /\ held'[i] = held[i]
  BY <1>5 DEF IInv, TInv, TypeOK
<1> QED BY <1>1, <1>2, <1>3, <1>4, <1>5, <1>7, <1>8, <1>9 DEF a

(* Steps that leave the calls and the entries alone.                       *)
LEMMA LoggedKept ==
  ASSUME IInv, Logged, UNCHANGED <<todo, lock, used, mem>>,
         \A w \in Worker : held'[w] \in {held[w], 0},
         \A d \in Dir : /\ Len(txs'[d]) = Len(txs[d])
                        /\ \A g \in All(d) : txs'[d][g].dentries = txs[d][g].dentries
  PROVE  Logged'
<1>1. \A d \in Dir : All(d)' = All(d)
  BY DEF All
<1>2. Locked'
  BY DEF Logged, Locked
<1>3. NothingNewer'
  <2> SUFFICES ASSUME NEW w \in Worker, held'[w] # 0, NameCall(Head(todo[w])),
                      NEW h \in All(Head(todo[w]).dir)', h > held'[w]
               PROVE  txs'[Head(todo[w]).dir][h].dentries = NoNames
    BY DEF NothingNewer
  <2>1. held'[w] = held[w] /\ held[w] # 0 /\ todo[w] # <<>>
    BY DEF IInv, TInv, Pointers
  <2>2. Head(todo[w]).dir \in Dir
    BY <2>1, HeadDir DEF IInv
  <2>3. h \in All(Head(todo[w]).dir) /\ h > held[w]
    BY <1>1, <2>1, <2>2
  <2>4. txs[Head(todo[w]).dir][h].dentries = NoNames
    BY <2>1, <2>3 DEF Logged, NothingNewer
  <2> QED BY <2>2, <2>3, <2>4
<1>4. ASSUME NEW d \in Dir, NEW n \in Name
      PROVE  NameLogged(d, n)'
  <2>1. PICK u \in Ino \cup {None} :
           /\ Says(NameLog(d, n), All(d), u)
           /\ \A w \in Worker : Path(NameTrace(todo[w], d, n), Len(todo[w]), u, mem[d][n])
           /\ ~Unrecorded(d, n) => u = mem[d][n]
    BY DEF Logged, NameLogged
  <2>2. \A g \in All(d) : NameLog(d, n)'[g] = NameLog(d, n)[g]
    BY <1>1 DEF NameLog
  <2>3. Says(NameLog(d, n)', All(d), u)
    BY <2>1, <2>2, SaysSame
  <2>4. Says(NameLog(d, n)', All(d)', u)
    BY <1>1, <2>3
  <2>5. Unrecorded(d, n)' <=> Unrecorded(d, n)
    BY DEF Unrecorded
  <2>6. \A w \in Worker : Path(NameTrace(todo'[w], d, n), Len(todo'[w]), u, mem'[d][n])
    BY <2>1
  <2>7. ~Unrecorded(d, n)' => u = mem'[d][n]
    BY <2>1, <2>5
  <2> QED BY <2>4, <2>6, <2>7 DEF NameLogged
<1> QED BY <1>2, <1>3, <1>4 DEF Logged

(* What get_entry does: the caller has the newest transaction.             *)
LEMMA GetEntryForm ==
  ASSUME IInv, Order, NEW w \in Worker, GetEntry(w), NEW e, e = Head(todo[w]).dir
  PROVE  /\ e \in Dir /\ todo[w] # <<>> /\ txs[e] \in Seq(TxType)
         /\ UNCHANGED <<todo, lock, used, mem>> /\ \A i \in Worker : i # w => held'[i] = held[i]
         /\ held'[w] = Len(txs'[e])
         /\ \A d \in Dir : /\ All(d) \subseteq All(d)'
                           /\ \A g \in All(d) : txs'[d][g] = txs[d][g]
                           /\ All(d)' = All(d) \/
                                /\ All(d)' = All(d) \cup {Len(txs[d]) + 1}
                                /\ txs'[d][Len(txs[d]) + 1] = NewTx
                           /\ d # e => txs'[d] = txs[d]
<1>0. e \in Dir
  BY HeadDir DEF GetEntry, IInv
<1>n. PICK new \in Nat : new = Len(txs[e]) + 1
  BY <1>0 DEF IInv, TInv, TypeOK
<1>1. txs[e] \in Seq(TxType) /\ todo[w] # <<>>
  BY <1>0 DEF GetEntry, IInv, TInv, TypeOK
<1>2. UNCHANGED <<todo, lock, used, mem>> /\ \A i \in Worker : i # w => held'[i] = held[i]
  BY DEF GetEntry, IInv, TInv, TypeOK
<1>3. held'[w] = Len(txs'[e])
  <2>1. CASE open[e] # 0
    <3>1. held'[w] = open[e] /\ txs' = txs
      BY <1>0, <2>1 DEF GetEntry, IInv, TInv, TypeOK
    <3>2. open[e] = Len(txs[e])
      BY <1>0, <1>1, <2>1 DEF Order, Unsealed
    <3> QED BY <3>1, <3>2
  <2>2. CASE open[e] = 0
    <3>1. held'[w] = new /\ txs' = [txs EXCEPT ![e] = Append(txs[e], NewTx)]
      BY <1>0, <1>n, <2>2 DEF GetEntry, IInv, TInv, TypeOK
    <3> QED BY <1>0, <1>1, <1>n, <3>1 DEF IInv, TInv, TypeOK
  <2> QED BY <2>1, <2>2
<1>4. \A d \in Dir : /\ All(d) \subseteq All(d)'
                     /\ \A g \in All(d) : txs'[d][g] = txs[d][g]
                     /\ All(d)' = All(d) \/
                          /\ All(d)' = All(d) \cup {Len(txs[d]) + 1}
                          /\ txs'[d][Len(txs[d]) + 1] = NewTx
                     /\ d # e => txs'[d] = txs[d]
  <2>1. CASE open[e] # 0
    <3>1. txs' = txs
      BY <1>0, <2>1 DEF GetEntry
    <3> QED BY <3>1 DEF All
  <2>2. CASE open[e] = 0
    <3>1. txs' = [txs EXCEPT ![e] = Append(txs[e], NewTx)]
      BY <1>0, <2>2 DEF GetEntry
    <3>2. /\ \A d \in Dir : d # e => txs'[d] = txs[d]
          /\ txs'[e] = Append(txs[e], NewTx)
      BY <1>0, <1>1, <3>1 DEF IInv, TInv, TypeOK
    <3>3. /\ Len(txs'[e]) = new /\ txs'[e][new] = NewTx
          /\ \A g \in All(e) : txs'[e][g] = txs[e][g]
      BY <1>0, <1>1, <1>n, <3>2, AppendProperties DEF All
    <3>4. Len(txs[e]) \in Nat
      BY <1>1
    <3>5. All(e)' = All(e) \cup {new}
      BY <1>n, <3>3, <3>4 DEF All
    <3>6. \A d \in Dir : d # e => All(d)' = All(d)
      BY <3>2 DEF All
    <3>7. ASSUME NEW d \in Dir
          PROVE  /\ All(d) \subseteq All(d)'
                 /\ \A g \in All(d) : txs'[d][g] = txs[d][g]
                 /\ All(d)' = All(d) \/
                      /\ All(d)' = All(d) \cup {Len(txs[d]) + 1}
                      /\ txs'[d][Len(txs[d]) + 1] = NewTx
                 /\ d # e => txs'[d] = txs[d]
      <4>1. CASE d = e
        BY <1>n, <3>3, <3>5, <4>1
      <4>2. CASE d # e
        BY <3>2, <3>6, <4>2
      <4> QED BY <4>1, <4>2
    <3> QED BY <3>7
  <2> QED BY <2>1, <2>2
<1> QED BY <1>0, <1>1, <1>2, <1>3, <1>4

(* A new transaction says nothing yet, and nothing is newer.  (get_entry)  *)
LEMMA GetEntryLogged ==
  ASSUME IInv, Order, Logged, NEW w \in Worker, GetEntry(w)
  PROVE  Logged'
<1>0. PICK e : e = Head(todo[w]).dir
  OBVIOUS
<1>1. e \in Dir /\ todo[w] # <<>> /\ txs[e] \in Seq(TxType)
  BY <1>0, GetEntryForm
<1>2. UNCHANGED <<todo, lock, used, mem>> /\ \A i \in Worker : i # w => held'[i] = held[i]
  BY <1>0, GetEntryForm
<1>3. held'[w] = Len(txs'[e])
  BY <1>0, GetEntryForm
<1>4. \A d \in Dir : /\ All(d) \subseteq All(d)'
                     /\ \A g \in All(d) : txs'[d][g] = txs[d][g]
                     /\ All(d)' = All(d) \/
                          /\ All(d)' = All(d) \cup {Len(txs[d]) + 1}
                          /\ txs'[d][Len(txs[d]) + 1] = NewTx
  BY <1>0, GetEntryForm
<1>5. Locked'
  BY <1>2 DEF Logged, Locked
<1>6. NothingNewer'
  <2> SUFFICES ASSUME NEW i \in Worker, held'[i] # 0, NameCall(Head(todo[i])),
                      NEW h \in All(Head(todo[i]).dir)', h > held'[i]
               PROVE  txs'[Head(todo[i]).dir][h].dentries = NoNames
    BY <1>2 DEF NothingNewer
  <2>1. CASE i = w
    <3>1. held'[i] = Len(txs'[e]) /\ h \in 1 .. Len(txs'[e]) /\ h > held'[i]
      BY <1>0, <1>2, <1>3, <2>1 DEF All
    <3>2. txs'[e] \in Seq(TxType)
      BY <1>1, JournalStepInv DEF JournalStep, IInv, TInv, TypeOK
    <3>3. Len(txs'[e]) \in Nat
      BY <3>2
    <3> QED BY <3>1, <3>3
  <2>2. CASE i # w
    <3>1. held[i] # 0 /\ held'[i] = held[i]
      BY <1>2, <2>2
    <3>2. Head(todo[i]).dir \in Dir
      BY <3>1, HeadDir DEF IInv, TInv, Pointers
    <3>3. CASE h \in All(Head(todo[i]).dir)
      <4>1. txs[Head(todo[i]).dir][h].dentries = NoNames
        BY <3>1, <3>3 DEF Logged, NothingNewer
      <4> QED BY <1>4, <3>2, <3>3, <4>1
    <3>4. CASE h \notin All(Head(todo[i]).dir)
      <4>1. h = Len(txs[Head(todo[i]).dir]) + 1
        BY <1>2, <1>4, <3>2, <3>4
      <4>2. txs'[Head(todo[i]).dir][h] = NewTx
        BY <1>2, <1>4, <3>2, <3>4, <4>1
      <4> QED BY <4>2 DEF NewTx
    <3> QED BY <3>3, <3>4
  <2> QED BY <2>1, <2>2
<1>7. ASSUME NEW d \in Dir, NEW n \in Name
      PROVE  NameLogged(d, n)'
  <2>1. PICK u \in Ino \cup {None} :
           /\ Says(NameLog(d, n), All(d), u)
           /\ \A i \in Worker : Path(NameTrace(todo[i], d, n), Len(todo[i]), u, mem[d][n])
           /\ ~Unrecorded(d, n) => u = mem[d][n]
    BY DEF Logged, NameLogged
  <2>2. \A g \in All(d) : NameLog(d, n)'[g] = NameLog(d, n)[g]
    BY <1>4 DEF NameLog
  <2>3. Says(NameLog(d, n)', All(d)', u)
    <3>1. CASE All(d)' = All(d)
      <4>1. Says(NameLog(d, n)', All(d), u)
        BY <2>1, <2>2, SaysSame
      <4> QED BY <3>1, <4>1
    <3>2. CASE All(d)' = All(d) \cup {Len(txs[d]) + 1} /\ txs'[d][Len(txs[d]) + 1] = NewTx
      <4>1. Len(txs[d]) \in Nat
        BY DEF IInv, TInv, TypeOK
      <4>2. Len(txs[d]) + 1 \in Nat /\ All(d) \in SUBSET Nat
        BY <4>1 DEF All
      <4>3. \A h \in All(d) : h < Len(txs[d]) + 1
        BY <4>1 DEF All
      <4>4. NameLog(d, n)'[Len(txs[d]) + 1] = None
        BY <3>2 DEF NameLog, NewTx, NoNames
      <4>5. Says(NameLog(d, n)', All(d) \cup {Len(txs[d]) + 1}, u)
        BY <2>1, <2>2, <4>2, <4>3, <4>4, SaysTop
      <4> QED BY <3>2, <4>5
    <3> QED BY <1>4, <3>1, <3>2
  <2>4. Unrecorded(d, n)' <=> Unrecorded(d, n)
    BY <1>2 DEF Unrecorded
  <2>5. \A i \in Worker : Path(NameTrace(todo'[i], d, n), Len(todo'[i]), u, mem'[d][n])
    BY <1>2, <2>1
  <2>6. ~Unrecorded(d, n)' => u = mem'[d][n]
    BY <1>2, <2>1, <2>4
  <2> QED BY <2>3, <2>5, <2>6 DEF NameLogged
<1> QED BY <1>5, <1>6, <1>7 DEF Logged

(* A recorded call writes what it leaves: nobody else has a call about the *)
(* directory's names, and nothing newer mentions them.                     *)
LEMMA RecordLogged ==
  ASSUME IInv, Logged, NEW w \in Worker, Record(w), Running'
  PROVE  Logged'
<1>1. PICK c : c = Head(todo[w])
  OBVIOUS
<1>2. PICK g : g = held[w]
  OBVIOUS
<1>3. /\ c \in CallType /\ todo[w] # <<>> /\ c = todo[w][1] /\ g \in All(c.dir)
      /\ \A d \in Dir : /\ Len(txs'[d]) = Len(txs[d])
                        /\ \A h \in All(d) : d # c.dir \/ h # g => txs'[d][h] = txs[d][h]
      /\ txs'[c.dir][g] = Apply(txs[c.dir][g], c, inode[c.dir], inode[c.ino])
      /\ todo'[w] = Tail(todo[w]) /\ held'[w] = 0
      /\ \A i \in Worker : i # w => todo'[i] = todo[i] /\ held'[i] = held[i]
      /\ \A i \in Ino : lock'[i] = IF lock[i] = w /\ Len(todo[w]) = 1 THEN None ELSE lock[i]
      /\ UNCHANGED <<mem, used>>
  BY <1>1, <1>2, RecordForm
<1>4. PICK m \in Nat : m + 1 = Len(todo[w])
  <2>1. todo[w] \in Seq(CallType)
    BY DEF IInv, TInv, TypeOK
  <2>2. Len(todo[w]) \in Nat /\ Len(todo[w]) # 0
    BY <1>3, <2>1
  <2>3. Len(todo[w]) - 1 \in Nat /\ (Len(todo[w]) - 1) + 1 = Len(todo[w])
    BY <2>2
  <2> QED BY <2>3
<1>5. Len(todo'[w]) = m /\ \A k \in 1 .. m : todo'[w][k] = todo[w][k + 1] /\ k + 1 \in 1 .. Len(todo[w])
  <2>1. todo[w] \in Seq(CallType)
    BY DEF IInv, TInv, TypeOK
  <2> QED BY <1>3, <1>4, <2>1
<1>6. 1 \in 1 .. Len(todo[w]) /\ c.dir \in Dir /\ c.ino \in Ino
  BY <1>3, <1>4 DEF CallType
<1>7. /\ SelfCall(c) => lock[c.dir] = w
      /\ c.name \in Name <=> NameCall(c)
  BY <1>3, <1>6 DEF Logged, Locked
<1>8. /\ txs'[c.dir][g].dentries =
           IF NameCall(c) THEN [txs[c.dir][g].dentries EXCEPT ![c.name] =
                                  [alive |-> Makes(c), ino |-> c.ino]]
           ELSE txs[c.dir][g].dentries
      /\ txs[c.dir][g].dentries \in [Name -> [alive : BOOLEAN, ino : Ino] \cup {None}]
  <2>1. txs[c.dir][g] \in TxType
    <3>1. txs[c.dir] \in Seq(TxType)
      BY <1>6 DEF IInv, TInv, TypeOK
    <3> QED BY <1>3, <3>1 DEF All
  <2>2. inode[c.dir] \in InodeType /\ inode[c.ino] \in InodeType
    BY <1>6 DEF IInv, TInv, TypeOK, Ino
  <2>3. txs[c.dir][g].dentries \in [Name -> [alive : BOOLEAN, ino : Ino] \cup {None}]
    BY <2>1 DEF TxType
  <2>4. Apply(txs[c.dir][g], c, inode[c.dir], inode[c.ino]).dentries =
          IF NameCall(c) THEN [txs[c.dir][g].dentries EXCEPT ![c.name] =
                                 [alive |-> Makes(c), ino |-> c.ino]]
          ELSE txs[c.dir][g].dentries
    BY <1>3, <1>7, <2>1, <2>2, ApplyNames
  <2> QED BY <1>3, <2>3, <2>4
<1>9. \A d \in Dir : All(d)' = All(d) /\ All(d) \in SUBSET Nat
  BY <1>3 DEF All
<1>10. \A i \in Worker, k \in Nat : i # w /\ k \in 1 .. Len(todo[i]) /\ SelfCall(todo[i][k]) /\ SelfCall(c) =>
         todo[i][k].dir # c.dir
  BY <1>7 DEF Logged, Locked
<1>11. \A i \in Worker, k \in Nat : k \in 1 .. Len(todo[i]) => todo[i][k].dir \in Ino
  <2>1. \A i \in Worker : todo[i] \in Seq(CallType)
    BY DEF IInv, TInv, TypeOK
  <2>2. \A i \in Worker, k \in Nat : k \in 1 .. Len(todo[i]) => todo[i][k] \in CallType
    BY <2>1
  <2> QED BY <2>2 DEF CallType, Ino
<1>12. Locked'
  <2> SUFFICES ASSUME NEW i \in Worker, NEW k \in 1 .. Len(todo'[i])
               PROVE  /\ SelfCall(todo'[i][k]) => lock'[todo'[i][k].dir] = i
                      /\ todo'[i][k].name \in Name <=> NameCall(todo'[i][k])
                      /\ todo'[i][k].dir \in used'
    BY DEF Locked
  <2>1. CASE i = w
    <3>1. PICK j \in 1 .. Len(todo[w]) : todo'[w][k] = todo[w][j]
      BY <1>5, <2>1
    <3>2. j \in Nat
      BY <3>1
    <3>3. k \in 1 .. m
      BY <1>5, <2>1
    <3>4. Len(todo[w]) # 1
      <4>1. m # 0
        BY <3>3
      <4>2. m + 1 # 1
        BY <4>1
      <4> QED BY <1>4, <4>2
    <3>5. /\ SelfCall(todo[w][j]) => lock[todo[w][j].dir] = w
          /\ todo[w][j].name \in Name <=> NameCall(todo[w][j])
          /\ todo[w][j].dir \in used
      BY DEF Logged, Locked
    <3>6. lock'[todo[w][j].dir] = lock[todo[w][j].dir]
      BY <1>3, <1>11, <3>2, <3>4
    <3> QED BY <1>3, <2>1, <3>1, <3>5, <3>6
  <2>2. CASE i # w
    <3>1. k \in 1 .. Len(todo[i]) /\ k \in Nat /\ todo'[i] = todo[i]
      BY <1>3, <2>2
    <3>2. /\ SelfCall(todo[i][k]) => lock[todo[i][k].dir] = i
          /\ todo[i][k].name \in Name <=> NameCall(todo[i][k])
          /\ todo[i][k].dir \in used
      BY <3>1 DEF Logged, Locked
    <3> QED BY <1>3, <1>11, <2>2, <3>1, <3>2
  <2> QED BY <2>1, <2>2
<1>13. NothingNewer'
  <2> SUFFICES ASSUME NEW i \in Worker, held'[i] # 0, NameCall(Head(todo'[i])),
                      NEW h \in All(Head(todo[i]).dir)', h > held'[i]
               PROVE  txs'[Head(todo'[i]).dir][h].dentries = NoNames
    BY DEF NothingNewer
  <2>1. i # w /\ todo'[i] = todo[i] /\ held'[i] = held[i]
    BY <1>3
  <2>2. PICK e : e = Head(todo[i])
    OBVIOUS
  <2>3. todo[i] # <<>> /\ todo[i] \in Seq(CallType)
    BY <2>1 DEF IInv, TInv, TypeOK, Pointers
  <2>4. e = todo[i][1] /\ e \in CallType /\ 1 \in 1 .. Len(todo[i])
    BY <2>2, <2>3
  <2>5. e.dir \in Dir
    BY <2>4 DEF CallType
  <2>6. h \in All(e.dir)
    BY <1>3, <2>1, <2>2, <2>5 DEF All
  <2>7. txs[e.dir][h].dentries = NoNames
    BY <2>1, <2>2, <2>6 DEF Logged, NothingNewer
  <2>8. CASE e.dir = c.dir /\ h = g
    <3>1. NameCall(e) /\ SelfCall(e)
      BY <2>1, <2>2 DEF NameCall, SelfCall
    <3>2. ~SelfCall(c)
      BY <1>10, <2>1, <2>4, <2>8, <3>1
    <3>3. ~NameCall(c)
      BY <3>2 DEF NameCall, SelfCall
    <3> QED BY <1>8, <2>1, <2>2, <2>7, <2>8, <3>3
  <2>9. CASE ~(e.dir = c.dir /\ h = g)
    BY <1>3, <2>1, <2>2, <2>5, <2>6, <2>7, <2>9
  <2> QED BY <2>8, <2>9
<1>14. ASSUME NEW d \in Dir, NEW n \in Name
       PROVE  NameLogged(d, n)'
  <2>1. PICK u \in Ino \cup {None} :
           /\ Says(NameLog(d, n), All(d), u)
           /\ \A i \in Worker : Path(NameTrace(todo[i], d, n), Len(todo[i]), u, mem[d][n])
           /\ ~Unrecorded(d, n) => u = mem[d][n]
    BY DEF Logged, NameLogged
  <2>2. PICK T : T = NameTrace(todo[w], d, n)
    OBVIOUS
  <2>3. PICK M : M = NameTrace(todo'[w], d, n)
    OBVIOUS
  <2>4. /\ \A k \in 1 .. m : M[k] = T[k + 1]
        /\ T[1] = NameStep(c, d, n)
        /\ \A k \in 1 .. m : M[k] = NameStep(todo'[w][k], d, n)
    <3>1. \A k \in 1 .. m : M[k] = NameStep(todo'[w][k], d, n)
      BY <1>5, <2>3 DEF NameTrace
    <3>2. \A k \in 1 .. Len(todo[w]) : T[k] = NameStep(todo[w][k], d, n)
      BY <2>2 DEF NameTrace
    <3>3. \A k \in 1 .. m : M[k] = T[k + 1]
      BY <1>5, <3>1, <3>2
    <3>4. T[1] = NameStep(c, d, n)
      BY <1>3, <1>6, <3>2
    <3> QED BY <3>1, <3>3, <3>4
  <2>5. Path(T, m + 1, u, mem[d][n])
    BY <1>4, <2>1, <2>2
  <2>6. /\ ~T[1].is => Path(M, m, u, mem[d][n])
        /\ T[1].is => /\ u = T[1].from /\ Path(M, m, T[1].to, mem[d][n])
                      /\ (\A k \in 1 .. m : ~M[k].is) => T[1].to = mem[d][n]
    BY <2>4, <2>5, PathTail
  <2>7. CASE About(c, d, n)
    <3>1. c.dir = d /\ c.name = n /\ NameCall(c) /\ SelfCall(c)
      BY <1>7, <2>7 DEF About, NameCall, SelfCall
    <3>2. T[1].is /\ T[1].to = Leaves(c)
      BY <2>4, <2>7 DEF NameStep, Step
    <3>3. ASSUME NEW i \in Worker
          PROVE  Path(NameTrace(todo'[i], d, n), Len(todo'[i]), Leaves(c), mem'[d][n])
      <4>1. CASE i = w
        BY <1>3, <1>5, <2>3, <2>6, <3>2, <4>1
      <4>2. CASE i # w
        <5>1. \A k \in 1 .. Len(todo[i]) : ~About(todo[i][k], d, n)
          <6> SUFFICES ASSUME NEW k \in 1 .. Len(todo[i]), About(todo[i][k], d, n)
                       PROVE  FALSE
            OBVIOUS
          <6>1. k \in Nat /\ todo[i][k].dir = d /\ todo[i][k].name = n
            BY DEF About
          <6>2. NameCall(todo[i][k])
            BY <6>1 DEF Logged, Locked
          <6>3. SelfCall(todo[i][k])
            BY <6>2 DEF NameCall, SelfCall
          <6> QED BY <1>10, <3>1, <4>2, <6>1, <6>3
        <5>2. \A k \in 1 .. Len(todo[i]) : ~NameTrace(todo[i], d, n)[k].is
          BY <5>1 DEF NameTrace, NameStep, Skip
        <5>3. Path(NameTrace(todo[i], d, n), Len(todo[i]), Leaves(c), mem'[d][n])
          BY <5>2 DEF Path
        <5> QED BY <1>3, <4>2, <5>3
      <4> QED BY <4>1, <4>2
    <3>4. Says(NameLog(d, n)', All(d), Leaves(c))
      <4>1. \A h \in All(d) : h # g => NameLog(d, n)'[h] = NameLog(d, n)[h]
        BY <1>3, <1>9 DEF NameLog
      <4>2. \A h \in All(d) : h > g => NameLog(d, n)[h] = None
        <5> SUFFICES ASSUME NEW h \in All(d), h > g
                     PROVE  NameLog(d, n)[h] = None
          OBVIOUS
        <5>1. held[w] # 0
          BY DEF Record
        <5>2. txs[d][h].dentries = NoNames
          BY <1>1, <1>2, <3>1, <5>1 DEF Logged, NothingNewer
        <5> QED BY <5>2 DEF NameLog, NoNames
      <4>3. NameLog(d, n)'[g] = [alive |-> Makes(c), ino |-> c.ino]
        <5>1. g \in All(d)'
          BY <1>3, <1>9, <3>1
        <5>2. NameLog(d, n)'[g] = txs'[d][g].dentries[n]
          BY <5>1 DEF NameLog
        <5> QED BY <1>8, <3>1, <5>2
      <4>4. /\ NameLog(d, n)'[g] # None
            /\ EntryIno(NameLog(d, n)'[g]) = Leaves(c)
        <5>1. Makes(c) \in BOOLEAN
          BY DEF Makes
        <5>2. [alive |-> Makes(c), ino |-> c.ino] \in [alive : BOOLEAN, ino : Ino]
          BY <1>6, <5>1
        <5> QED BY <4>3, <5>2, NoneAssumption DEF EntryIno, Leaves
      <4>5. g \in All(d) /\ All(d) \in SUBSET Nat
        BY <1>3, <1>9, <3>1
      <4> QED BY <4>1, <4>2, <4>4, <4>5, SaysWrite
    <3>5. Says(NameLog(d, n)', All(d)', Leaves(c))
      BY <1>9, <3>4
    <3>6. ~Unrecorded(d, n)' => Leaves(c) = mem'[d][n]
      <4> SUFFICES ASSUME ~Unrecorded(d, n)'
                   PROVE  Leaves(c) = mem'[d][n]
        OBVIOUS
      <4>1. \A k \in 1 .. m : ~About(todo'[w][k], d, n)
        BY <1>5 DEF Unrecorded, About
      <4>2. \A k \in 1 .. m : ~M[k].is
        BY <2>4, <4>1 DEF NameStep, Skip
      <4> QED BY <1>3, <2>6, <3>2, <4>2
    <3>7. Leaves(c) \in Ino \cup {None}
      BY <1>6 DEF Leaves
    <3> QED BY <3>3, <3>5, <3>6, <3>7 DEF NameLogged
  <2>8. CASE ~About(c, d, n)
    <3>1. ~T[1].is
      BY <2>4, <2>8 DEF NameStep, Skip
    <3>2. ASSUME NEW i \in Worker
          PROVE  Path(NameTrace(todo'[i], d, n), Len(todo'[i]), u, mem'[d][n])
      <4>1. CASE i = w
        BY <1>3, <1>5, <2>3, <2>6, <3>1, <4>1
      <4>2. CASE i # w
        BY <1>3, <2>1, <4>2
      <4> QED BY <4>1, <4>2
    <3>3. \A h \in All(d) : NameLog(d, n)'[h] = NameLog(d, n)[h]
      <4> SUFFICES ASSUME NEW h \in All(d)
                   PROVE  txs'[d][h].dentries[n] = txs[d][h].dentries[n]
        BY <1>9 DEF NameLog
      <4>1. CASE d = c.dir /\ h = g
        BY <1>8, <2>8, <4>1 DEF About
      <4>2. CASE ~(d = c.dir /\ h = g)
        BY <1>3, <4>2
      <4> QED BY <4>1, <4>2
    <3>4. Says(NameLog(d, n)', All(d), u)
      BY <2>1, <3>3, SaysSame
    <3>5. Says(NameLog(d, n)', All(d)', u)
      BY <1>9, <3>4
    <3>6. Unrecorded(d, n) => Unrecorded(d, n)'
      <4> SUFFICES ASSUME NEW i \in Worker, NEW k \in 1 .. Len(todo[i]), About(todo[i][k], d, n)
                   PROVE  Unrecorded(d, n)'
        BY DEF Unrecorded, About
      <4>1. CASE i # w
        <5>1. k \in 1 .. Len(todo'[i]) /\ About(todo'[i][k], d, n)
          BY <1>3, <4>1
        <5> QED BY <5>1 DEF Unrecorded, About
      <4>2. CASE i = w
        <5>1. k # 1 /\ k \in 1 .. m + 1
          BY <1>3, <1>4, <2>8, <4>2
        <5>2. k - 1 \in 1 .. m /\ (k - 1) + 1 = k
          BY <5>1
        <5>3. k - 1 \in 1 .. Len(todo'[w]) /\ About(todo'[w][k - 1], d, n)
          BY <1>5, <4>2, <5>2
        <5> QED BY <5>3 DEF Unrecorded, About
      <4> QED BY <4>1, <4>2
    <3>7. ~Unrecorded(d, n)' => u = mem'[d][n]
      BY <1>3, <2>1, <3>6
    <3> QED BY <3>2, <3>5, <3>7 DEF NameLogged
  <2> QED BY <2>7, <2>8
<1> QED BY <1>12, <1>13, <1>14 DEF Logged

----------------------------------------------------------------------------
(* The operations.                                                         *)

(* Nothing is known of a directory whose number is not given out.          *)
Known ==
  /\ alive \subseteq used
  /\ \A d \in Dir : d \notin used =>
       mem[d] = NoNames /\ txs[d] = <<>> /\ dentryObj[d] = None

(* What the journal sees of an operation that begins: the worker's calls   *)
(* are about directories it has just locked and take every name from what  *)
(* was in memory to what is there now.                                     *)
Starts(w) ==
  /\ todo[w] = <<>> /\ held[w] = 0
  /\ \A i \in Worker : i # w => todo'[i] = todo[i]
  /\ \A i \in Ino : lock[i] # None => lock'[i] = lock[i]
  /\ \A k \in 1 .. Len(todo'[w]) :
       /\ SelfCall(todo'[w][k]) => /\ lock[todo'[w][k].dir] = None
                                   /\ lock'[todo'[w][k].dir] = w
       /\ todo'[w][k].name \in Name <=> NameCall(todo'[w][k])
       /\ todo'[w][k].dir \in used'
       /\ todo'[w][k].fn = "rmself" => todo'[w][k].dir \notin alive'
       /\ todo'[w][k].fn = "mkself" =>
            /\ todo'[w][k].dir \notin used
            /\ \A j \in 1 .. Len(todo'[w]) : todo'[w][j].dir = todo'[w][k].dir => j = k
  /\ \A d \in Dir, n \in Name :
       /\ Path(NameTrace(todo'[w], d, n), Len(todo'[w]), mem[d][n], mem'[d][n])
       /\ mem'[d][n] # mem[d][n] =>
            \E k \in 1 .. Len(todo'[w]) : About(todo'[w][k], d, n)
  /\ used \subseteq used' /\ alive' \subseteq used'
  /\ \A d \in alive' : d \notin alive => d \notin used

LEMMA BeginForm ==
  ASSUME IInv, NEW w \in Worker, NEW locks, NEW calls, Begin(w, locks, calls)
  PROVE  /\ todo[w] = <<>> /\ held[w] = 0 /\ todo'[w] = calls
         /\ \A i \in Worker : i # w => todo'[i] = todo[i]
         /\ \A i \in Ino : lock[i] # None => lock'[i] = lock[i]
         /\ \A i \in Ino : i \in locks => lock[i] = None /\ lock'[i] = w
<1>1. /\ todo' = [todo EXCEPT ![w] = calls] /\ todo[w] = <<>>
      /\ lock' = [i \in Ino |-> IF i \in locks THEN w ELSE lock[i]]
      /\ \A i \in locks : lock[i] = None
  BY DEF Begin
<1>2. held[w] = 0
  BY <1>1 DEF IInv, TInv, Pointers
<1> QED BY <1>1, <1>2 DEF IInv, TInv, TypeOK

LEMMA CreateStarts ==
  ASSUME IInv, Known, NEW w \in Worker, NEW d \in Dir, NEW n \in Name, NEW f \in File,
         Create(w, d, n, f)
  PROVE  Starts(w)
<1>1. PICK c : c = JCall("mkreg", d, n, f)
  OBVIOUS
<1>2. /\ d \in alive /\ mem[d][n] = None /\ Begin(w, {d}, <<c>>)
      /\ mem' = [mem EXCEPT ![d][n] = f] /\ used' = used \cup {f} /\ alive' = alive
  BY <1>1 DEF Create
<1>3. /\ todo[w] = <<>> /\ held[w] = 0 /\ todo'[w] = <<c>>
      /\ \A i \in Worker : i # w => todo'[i] = todo[i]
      /\ \A i \in Ino : lock[i] # None => lock'[i] = lock[i]
      /\ \A i \in Ino : i \in {d} => lock[i] = None /\ lock'[i] = w
  BY <1>2, BeginForm
<1>4. /\ Len(todo'[w]) = 1 /\ todo'[w][1] = c /\ 1 .. 1 = {1}
      /\ c.fn = "mkreg" /\ c.dir = d /\ c.name = n /\ c.ino = f
  BY <1>1, <1>3 DEF JCall
<1>5. \A e \in Dir, m \in Name : mem'[e][m] = IF e = d /\ m = n THEN f ELSE mem[e][m]
  BY <1>2 DEF IInv, TInv, TypeOK
<1>6. ASSUME NEW e \in Dir, NEW m \in Name
      PROVE  /\ Path(NameTrace(todo'[w], e, m), Len(todo'[w]), mem[e][m], mem'[e][m])
             /\ mem'[e][m] # mem[e][m] => \E k \in 1 .. Len(todo'[w]) : About(todo'[w][k], e, m)
  <2>1. NameTrace(todo'[w], e, m)[1] =
          IF e = d /\ m = n THEN Step(None, f) ELSE Skip
    BY <1>4 DEF NameTrace, NameStep, About, Finds, Leaves, Makes
  <2>2. Path(NameTrace(todo'[w], e, m), 1, mem[e][m], mem'[e][m])
    <3>1. NameTrace(todo'[w], e, m)[1].is =>
            /\ mem[e][m] = NameTrace(todo'[w], e, m)[1].from
            /\ NameTrace(todo'[w], e, m)[1].to = mem'[e][m]
      BY <1>2, <1>5, <2>1 DEF Step, Skip
    <3> QED BY <3>1, PathOne
  <2>3. mem'[e][m] # mem[e][m] => About(todo'[w][1], e, m)
    BY <1>4, <1>5 DEF About
  <2> QED BY <1>4, <2>2, <2>3
<1>7. d \in used /\ d \in Ino /\ alive' \subseteq used' /\ used \subseteq used'
  BY <1>2 DEF Known, Ino
<1> QED BY <1>2, <1>3, <1>4, <1>6, <1>7 DEF Starts, NameCall

LEMMA UnlinkStarts ==
  ASSUME IInv, Known, NEW w \in Worker, NEW d \in Dir, NEW n \in Name, Unlink(w, d, n)
  PROVE  Starts(w)
<1>1. PICK f \in File : f = mem[d][n]
  BY DEF Unlink
<1>2. PICK c : c = JCall("rmreg", d, n, f)
  OBVIOUS
<1>3. /\ d \in alive /\ Begin(w, {d, f}, <<c>>)
      /\ mem' = [mem EXCEPT ![d][n] = None] /\ used' = used /\ alive' = alive
  BY <1>1, <1>2 DEF Unlink
<1>4. /\ todo[w] = <<>> /\ held[w] = 0 /\ todo'[w] = <<c>>
      /\ \A i \in Worker : i # w => todo'[i] = todo[i]
      /\ \A i \in Ino : lock[i] # None => lock'[i] = lock[i]
      /\ \A i \in Ino : i \in {d, f} => lock[i] = None /\ lock'[i] = w
  BY <1>3, BeginForm
<1>5. /\ Len(todo'[w]) = 1 /\ todo'[w][1] = c /\ 1 .. 1 = {1}
      /\ c.fn = "rmreg" /\ c.dir = d /\ c.name = n /\ c.ino = f
  BY <1>2, <1>4 DEF JCall
<1>6. \A e \in Dir, m \in Name : mem'[e][m] = IF e = d /\ m = n THEN None ELSE mem[e][m]
  BY <1>3 DEF IInv, TInv, TypeOK
<1>7. ASSUME NEW e \in Dir, NEW m \in Name
      PROVE  /\ Path(NameTrace(todo'[w], e, m), Len(todo'[w]), mem[e][m], mem'[e][m])
             /\ mem'[e][m] # mem[e][m] => \E k \in 1 .. Len(todo'[w]) : About(todo'[w][k], e, m)
  <2>1. NameTrace(todo'[w], e, m)[1] =
          IF e = d /\ m = n THEN Step(f, None) ELSE Skip
    BY <1>5 DEF NameTrace, NameStep, About, Finds, Leaves, Makes
  <2>2. Path(NameTrace(todo'[w], e, m), 1, mem[e][m], mem'[e][m])
    <3>1. NameTrace(todo'[w], e, m)[1].is =>
            /\ mem[e][m] = NameTrace(todo'[w], e, m)[1].from
            /\ NameTrace(todo'[w], e, m)[1].to = mem'[e][m]
      BY <1>1, <1>6, <2>1 DEF Step, Skip
    <3> QED BY <3>1, PathOne
  <2>3. mem'[e][m] # mem[e][m] => About(todo'[w][1], e, m)
    BY <1>5, <1>6 DEF About
  <2> QED BY <1>5, <2>2, <2>3
<1>8. d \in used /\ d \in Ino /\ alive' \subseteq used' /\ used \subseteq used'
  BY <1>3 DEF Known, Ino
<1> QED BY <1>3, <1>4, <1>5, <1>7, <1>8 DEF Starts, NameCall

(* A step without a name.                                                  *)
LEMMA Nameless ==
  ASSUME NEW w, Len(todo'[w]) = 1, todo'[w][1].name = None, mem' = mem,
         NEW e \in Dir, NEW m \in Name
  PROVE  Path(NameTrace(todo'[w], e, m), Len(todo'[w]), mem[e][m], mem'[e][m])
<1>1. None \notin Name
  BY DistinctAssumption
<1>2. ~About(todo'[w][1], e, m)
  BY <1>1 DEF About
<1>3. NameTrace(todo'[w], e, m)[1] = Skip
  BY <1>2 DEF NameTrace, NameStep
<1>4. ~NameTrace(todo'[w], e, m)[1].is
  BY <1>3 DEF Skip
<1>5. Path(NameTrace(todo'[w], e, m), 1, mem[e][m], mem'[e][m])
  BY <1>4, PathOne
<1> QED BY <1>5

LEMMA ChangeStarts ==
  ASSUME IInv, Known, NEW w \in Worker, NEW d \in Dir,
         ChangeDir(w, d) \/ \E n \in Name : ChangeFile(w, d, n)
  PROVE  Starts(w)
<1>1. PICK c, locks :
        /\ \/ c.fn = "chself" /\ locks = {d}
           \/ c.fn = "chreg"
        /\ c.dir = d /\ c.name = None /\ d \in alive /\ Begin(w, locks, <<c>>)
        /\ UNCHANGED <<mem, used, alive>>
  <2>1. CASE ChangeDir(w, d)
    <3>1. PICK c : c = JCall("chself", d, None, d)
      OBVIOUS
    <3>2. c.fn = "chself" /\ c.dir = d /\ c.name = None
      BY <3>1 DEF JCall
    <3> QED BY <2>1, <3>1, <3>2 DEF ChangeDir
  <2>2. CASE \E n \in Name : ChangeFile(w, d, n)
    <3>1. PICK n \in Name : ChangeFile(w, d, n)
      BY <2>2
    <3>2. PICK c : c = JCall("chreg", d, None, mem[d][n])
      OBVIOUS
    <3>3. c.fn = "chreg" /\ c.dir = d /\ c.name = None
      BY <3>2 DEF JCall
    <3> QED BY <3>1, <3>2, <3>3 DEF ChangeFile
  <2> QED BY <2>1, <2>2
<1>2. /\ todo[w] = <<>> /\ held[w] = 0 /\ todo'[w] = <<c>>
      /\ \A i \in Worker : i # w => todo'[i] = todo[i]
      /\ \A i \in Ino : lock[i] # None => lock'[i] = lock[i]
      /\ \A i \in Ino : i \in locks => lock[i] = None /\ lock'[i] = w
  BY <1>1, BeginForm
<1>3. Len(todo'[w]) = 1 /\ todo'[w][1] = c /\ 1 .. 1 = {1}
  BY <1>2
<1>4. \A e \in Dir, m \in Name :
        Path(NameTrace(todo'[w], e, m), Len(todo'[w]), mem[e][m], mem'[e][m])
  BY <1>1, <1>3, Nameless
<1>5. None \notin Name
  BY DistinctAssumption
<1>6. d \in used /\ d \in Ino /\ alive' \subseteq used' /\ used \subseteq used'
  BY <1>1 DEF Known, Ino
<1> QED BY <1>1, <1>2, <1>3, <1>4, <1>5, <1>6 DEF Starts, NameCall, SelfCall

LEMMA MkdirStarts ==
  ASSUME IInv, Known, NEW w \in Worker, NEW d \in Dir, NEW n \in Name, NEW x \in Dir,
         Mkdir(w, d, n, x)
  PROVE  Starts(w)
<1>1. PICK a, b : a = JCall("mkdir", d, n, x) /\ b = JCall("mkself", x, None, x)
  OBVIOUS
<1>2. /\ d \in alive /\ mem[d][n] = None /\ x \notin used /\ Begin(w, {d, x}, <<a, b>>)
      /\ mem' = [mem EXCEPT ![d][n] = x] /\ used' = used \cup {x} /\ alive' = alive \cup {x}
  BY <1>1 DEF Mkdir
<1>3. /\ todo[w] = <<>> /\ held[w] = 0 /\ todo'[w] = <<a, b>>
      /\ \A i \in Worker : i # w => todo'[i] = todo[i]
      /\ \A i \in Ino : lock[i] # None => lock'[i] = lock[i]
      /\ \A i \in Ino : i \in {d, x} => lock[i] = None /\ lock'[i] = w
  BY <1>2, BeginForm
<1>4. /\ Len(todo'[w]) = 2 /\ todo'[w][1] = a /\ todo'[w][2] = b /\ 1 .. 2 = {1, 2}
      /\ a.fn = "mkdir" /\ a.dir = d /\ a.name = n /\ a.ino = x
      /\ b.fn = "mkself" /\ b.dir = x /\ b.name = None
  BY <1>1, <1>3 DEF JCall
<1>5. \A e \in Dir, m \in Name : mem'[e][m] = IF e = d /\ m = n THEN x ELSE mem[e][m]
  BY <1>2 DEF IInv, TInv, TypeOK
<1>6. None \notin Name
  BY DistinctAssumption
<1>7. ASSUME NEW e \in Dir, NEW m \in Name
      PROVE  /\ Path(NameTrace(todo'[w], e, m), Len(todo'[w]), mem[e][m], mem'[e][m])
             /\ mem'[e][m] # mem[e][m] => \E k \in 1 .. Len(todo'[w]) : About(todo'[w][k], e, m)
  <2>1. PICK T : T = NameTrace(todo'[w], e, m)
    OBVIOUS
  <2>2. /\ T[1] = IF e = d /\ m = n THEN Step(None, x) ELSE Skip
        /\ T[2] = Skip
    BY <1>4, <1>6, <2>1 DEF NameTrace, NameStep, About, Finds, Leaves, Makes
  <2>3. Path(T, 2, mem[e][m], mem'[e][m])
    <3>1. /\ ~T[2].is
          /\ T[1].is => mem[e][m] = T[1].from /\ T[1].to = mem'[e][m]
      BY <1>2, <1>5, <2>2 DEF Step, Skip
    <3> QED BY <3>1, PathTwo
  <2>4. mem'[e][m] # mem[e][m] => About(todo'[w][1], e, m)
    BY <1>4, <1>5 DEF About
  <2> QED BY <1>4, <2>1, <2>3, <2>4
<1>8. /\ d \in used /\ d \in Ino /\ x \in Ino /\ d # x
      /\ alive' \subseteq used' /\ used \subseteq used'
      /\ \A e \in alive' : e \notin alive => e \notin used
  BY <1>2 DEF Known, Ino
<1>9. \A k \in 1 .. Len(todo'[w]) :
       /\ SelfCall(todo'[w][k]) => /\ lock[todo'[w][k].dir] = None
                                   /\ lock'[todo'[w][k].dir] = w
       /\ todo'[w][k].name \in Name <=> NameCall(todo'[w][k])
       /\ todo'[w][k].dir \in used'
       /\ todo'[w][k].fn # "rmself"
       /\ todo'[w][k].fn = "mkself" =>
            /\ todo'[w][k].dir \notin used
            /\ \A j \in 1 .. Len(todo'[w]) : todo'[w][j].dir = todo'[w][k].dir => j = k
  BY <1>2, <1>3, <1>4, <1>6, <1>8 DEF NameCall
<1> QED BY <1>3, <1>7, <1>8, <1>9 DEF Starts

LEMMA RmdirStarts ==
  ASSUME IInv, Known, NEW w \in Worker, NEW d \in Dir, NEW n \in Name, Rmdir(w, d, n)
  PROVE  Starts(w)
<1>0. PICK x \in Dir : x = mem[d][n]
  BY DEF Rmdir, IInv, TInv, TypeOK
<1>1. PICK a, b : a = JCall("rmself", x, None, x) /\ b = JCall("rmdir", d, n, x)
  OBVIOUS
<1>2. /\ d \in alive /\ x \in alive /\ Begin(w, {d, x}, <<a, b>>)
      /\ mem' = [mem EXCEPT ![d][n] = None] /\ used' = used /\ alive' = alive \ {x}
  BY <1>0, <1>1 DEF Rmdir
<1>3. /\ todo[w] = <<>> /\ held[w] = 0 /\ todo'[w] = <<a, b>>
      /\ \A i \in Worker : i # w => todo'[i] = todo[i]
      /\ \A i \in Ino : lock[i] # None => lock'[i] = lock[i]
      /\ \A i \in Ino : i \in {d, x} => lock[i] = None /\ lock'[i] = w
  BY <1>2, BeginForm
<1>4. /\ Len(todo'[w]) = 2 /\ todo'[w][1] = a /\ todo'[w][2] = b /\ 1 .. 2 = {1, 2}
      /\ a.fn = "rmself" /\ a.dir = x /\ a.name = None
      /\ b.fn = "rmdir" /\ b.dir = d /\ b.name = n /\ b.ino = x
  BY <1>1, <1>3 DEF JCall
<1>5. \A e \in Dir, m \in Name : mem'[e][m] = IF e = d /\ m = n THEN None ELSE mem[e][m]
  BY <1>2 DEF IInv, TInv, TypeOK
<1>6. None \notin Name
  BY DistinctAssumption
<1>7. ASSUME NEW e \in Dir, NEW m \in Name
      PROVE  /\ Path(NameTrace(todo'[w], e, m), Len(todo'[w]), mem[e][m], mem'[e][m])
             /\ mem'[e][m] # mem[e][m] => \E k \in 1 .. Len(todo'[w]) : About(todo'[w][k], e, m)
  <2>1. PICK T : T = NameTrace(todo'[w], e, m)
    OBVIOUS
  <2>2. /\ T[1] = Skip
        /\ T[2] = IF e = d /\ m = n THEN Step(x, None) ELSE Skip
    BY <1>4, <1>6, <2>1 DEF NameTrace, NameStep, About, Finds, Leaves, Makes
  <2>3. Path(T, 2, mem[e][m], mem'[e][m])
    <3>1. /\ ~T[1].is
          /\ T[2].is => mem[e][m] = T[2].from /\ T[2].to = mem'[e][m]
      BY <1>0, <1>5, <2>2 DEF Step, Skip
    <3> QED BY <3>1, PathTwo
  <2>4. mem'[e][m] # mem[e][m] => About(todo'[w][2], e, m)
    BY <1>4, <1>5 DEF About
  <2> QED BY <1>4, <2>1, <2>3, <2>4
<1>8. /\ d \in used /\ x \in used /\ d \in Ino /\ x \in Ino
      /\ alive' \subseteq used' /\ used \subseteq used'
      /\ \A e \in alive' : e \in alive /\ e # x
  BY <1>2 DEF Known, Ino
<1>9. \A k \in 1 .. Len(todo'[w]) :
       /\ SelfCall(todo'[w][k]) => /\ lock[todo'[w][k].dir] = None
                                   /\ lock'[todo'[w][k].dir] = w
       /\ todo'[w][k].name \in Name <=> NameCall(todo'[w][k])
       /\ todo'[w][k].dir \in used'
       /\ todo'[w][k].fn = "rmself" => todo'[w][k].dir \notin alive'
       /\ todo'[w][k].fn # "mkself"
  BY <1>2, <1>3, <1>4, <1>6, <1>8 DEF NameCall
<1> QED BY <1>3, <1>7, <1>8, <1>9 DEF Starts

(* A file moves to a free name, or takes the place of another.             *)
LEMMA RenameStarts ==
  ASSUME IInv, Known, NEW w \in Worker, NEW d \in Dir, NEW n \in Name, NEW m \in Name,
         Rename(w, d, n, m)
  PROVE  Starts(w)
<1>1. PICK f \in File : f = mem[d][n]
  BY DEF Rename
<1>2. PICK old \in File \cup {None} : old = mem[d][m]
  BY DEF Rename
<1>3. PICK r, a, b : /\ r = JCall("rmreg", d, m, old) /\ a = JCall("rmreg", d, n, f)
                     /\ b = JCall("mkreg", d, m, f)
  OBVIOUS
<1>4. PICK calls : calls = (IF old = None THEN <<>> ELSE <<r>>) \o <<a, b>>
  OBVIOUS
<1>5. PICK locks : locks = {d, f} \cup ({old} \ {None})
  OBVIOUS
<1>6. /\ d \in alive /\ n # m /\ Begin(w, locks, calls)
      /\ mem' = [mem EXCEPT ![d] = [@ EXCEPT ![n] = None, ![m] = f]]
      /\ used' = used /\ alive' = alive
  BY <1>1, <1>2, <1>3, <1>4, <1>5 DEF Rename
<1>7. /\ todo[w] = <<>> /\ held[w] = 0 /\ todo'[w] = calls
      /\ \A i \in Worker : i # w => todo'[i] = todo[i]
      /\ \A i \in Ino : lock[i] # None => lock'[i] = lock[i]
      /\ \A i \in Ino : i \in locks => lock[i] = None /\ lock'[i] = w
  BY <1>6, BeginForm
<1>8. /\ r.fn = "rmreg" /\ r.dir = d /\ r.name = m /\ r.ino = old
      /\ a.fn = "rmreg" /\ a.dir = d /\ a.name = n /\ a.ino = f
      /\ b.fn = "mkreg" /\ b.dir = d /\ b.name = m /\ b.ino = f
  BY <1>3 DEF JCall
<1>9. \A e \in Dir, p \in Name :
        mem'[e][p] = IF e = d /\ p = m THEN f
                     ELSE IF e = d /\ p = n THEN None ELSE mem[e][p]
  <2>1. mem[d] \in [Name -> Ino \cup {None}]
    BY DEF IInv, TInv, TypeOK
  <2>2. mem'[d] = [mem[d] EXCEPT ![n] = None, ![m] = f] /\ \A e \in Dir : e # d => mem'[e] = mem[e]
    BY <1>6 DEF IInv, TInv, TypeOK
  <2> QED BY <1>6, <2>1, <2>2
<1>10. /\ d \in used /\ d \in Ino /\ d \in locks
       /\ alive' \subseteq used' /\ used \subseteq used'
       /\ \A e \in alive' : e \in alive
  BY <1>5, <1>6 DEF Known, Ino
<1>11. CASE old = None
  <2>1. calls = <<a, b>>
    BY <1>4, <1>11
  <2>2. Len(todo'[w]) = 2 /\ todo'[w][1] = a /\ todo'[w][2] = b /\ 1 .. 2 = {1, 2}
    BY <1>7, <2>1
  <2>3. ASSUME NEW e \in Dir, NEW p \in Name
        PROVE  /\ Path(NameTrace(todo'[w], e, p), Len(todo'[w]), mem[e][p], mem'[e][p])
               /\ mem'[e][p] # mem[e][p] => \E k \in 1 .. Len(todo'[w]) : About(todo'[w][k], e, p)
    <3>1. PICK T : T = NameTrace(todo'[w], e, p)
      OBVIOUS
    <3>2. /\ T[1] = IF e = d /\ p = n THEN Step(f, None) ELSE Skip
          /\ T[2] = IF e = d /\ p = m THEN Step(None, f) ELSE Skip
      BY <1>8, <2>2, <3>1 DEF NameTrace, NameStep, About, Finds, Leaves, Makes
    <3>3. Path(T, 2, mem[e][p], mem'[e][p])
      <4>1. /\ T[1].is => ~T[2].is /\ mem[e][p] = T[1].from /\ T[1].to = mem'[e][p]
            /\ T[2].is => mem[e][p] = T[2].from /\ T[2].to = mem'[e][p]
        <5>1. CASE e = d /\ p = n
          BY <1>1, <1>6, <1>9, <3>2, <5>1 DEF Step, Skip
        <5>2. CASE e = d /\ p = m
          <6>1. mem[e][p] = None /\ mem'[e][p] = f
            BY <1>2, <1>9, <1>11, <5>2
          <6>2. T[1] = Skip /\ T[2] = Step(None, f)
            BY <1>6, <3>2, <5>2
          <6> QED BY <6>1, <6>2 DEF Step, Skip
        <5>3. CASE ~(e = d /\ p \in {n, m})
          BY <3>2, <5>3 DEF Skip
        <5> QED BY <5>1, <5>2, <5>3
      <4> QED BY <4>1, PathTwo
    <3>4. mem'[e][p] # mem[e][p] => About(todo'[w][1], e, p) \/ About(todo'[w][2], e, p)
      BY <1>8, <1>9, <2>2 DEF About
    <3> QED BY <2>2, <3>1, <3>3, <3>4
  <2> QED BY <1>7, <1>8, <1>10, <2>2, <2>3 DEF Starts, NameCall
<1>12. CASE old # None
  <2>1. calls = <<r>> \o <<a, b>>
    BY <1>4, <1>12
  <2>2. /\ Len(todo'[w]) = 3 /\ todo'[w][1] = r /\ todo'[w][2] = a /\ todo'[w][3] = b
        /\ 1 .. 3 = {1, 2, 3}
    <3>1. <<r>> \in Seq({r, a, b}) /\ <<a, b>> \in Seq({r, a, b})
      OBVIOUS
    <3>2. /\ Len(<<r>> \o <<a, b>>) = Len(<<r>>) + Len(<<a, b>>)
          /\ \A i \in 1 .. Len(<<r>>) + Len(<<a, b>>) :
               (<<r>> \o <<a, b>>)[i] = IF i <= Len(<<r>>) THEN <<r>>[i]
                                       ELSE <<a, b>>[i - Len(<<r>>)]
      BY <3>1, ConcatProperties
    <3>3. Len(<<r>>) = 1 /\ Len(<<a, b>>) = 2
      OBVIOUS
    <3>4. Len(calls) = 3 /\ calls[1] = r /\ calls[2] = a /\ calls[3] = b
      BY <2>1, <3>2, <3>3
    <3> QED BY <1>7, <3>4
  <2>3. ASSUME NEW e \in Dir, NEW p \in Name
        PROVE  /\ Path(NameTrace(todo'[w], e, p), Len(todo'[w]), mem[e][p], mem'[e][p])
               /\ mem'[e][p] # mem[e][p] => \E k \in 1 .. Len(todo'[w]) : About(todo'[w][k], e, p)
    <3>1. PICK T : T = NameTrace(todo'[w], e, p)
      OBVIOUS
    <3>2. /\ T[1] = IF e = d /\ p = m THEN Step(old, None) ELSE Skip
          /\ T[2] = IF e = d /\ p = n THEN Step(f, None) ELSE Skip
          /\ T[3] = IF e = d /\ p = m THEN Step(None, f) ELSE Skip
      BY <1>8, <2>2, <3>1 DEF NameTrace, NameStep, About, Finds, Leaves, Makes
    <3>3. Path(T, 3, mem[e][p], mem'[e][p])
      <4>1. /\ T[1].is => /\ ~T[2].is /\ T[3].is /\ mem[e][p] = T[1].from
                          /\ T[1].to = T[3].from
            /\ T[2].is => ~T[1].is /\ ~T[3].is /\ mem[e][p] = T[2].from /\ T[2].to = mem'[e][p]
            /\ T[3].is => T[1].is /\ T[3].to = mem'[e][p]
        BY <1>1, <1>2, <1>6, <1>9, <3>2 DEF Step, Skip
      <4> QED BY <4>1, PathThree
    <3>4. mem'[e][p] # mem[e][p] => About(todo'[w][2], e, p) \/ About(todo'[w][3], e, p)
      BY <1>8, <1>9, <2>2 DEF About
    <3> QED BY <2>2, <3>1, <3>3, <3>4
  <2> QED BY <1>7, <1>8, <1>10, <2>2, <2>3 DEF Starts, NameCall
<1> QED BY <1>11, <1>12

LEMMA ThreeJoined ==
  ASSUME NEW a, NEW b, NEW r
  PROVE  <<a>> \o <<r>> \o <<b>> = <<a, r, b>>
<1>1. PICK S : S = {a, r, b}
  OBVIOUS
<1>2. PICK x : x = <<a>> \o <<r>>
  OBVIOUS
<1>3. PICK s : s = x \o <<b>>
  OBVIOUS
<1>4. /\ <<a>> \in Seq(S) /\ <<r>> \in Seq(S) /\ <<b>> \in Seq(S)
      /\ Len(<<a>>) = 1 /\ Len(<<r>>) = 1 /\ Len(<<b>>) = 1
  BY <1>1
<1>5. x \in Seq(S) /\ Len(x) = 2 /\ x[1] = a /\ x[2] = r
  <2>1. x \in Seq(S) /\ Len(x) = 1 + 1
    BY <1>2, <1>4, ConcatProperties
  <2>2. \A i \in 1 .. 1 + 1 : x[i] = IF i <= 1 THEN <<a>>[i] ELSE <<r>>[i - 1]
    BY <1>2, <1>4, ConcatProperties
  <2> QED BY <2>1, <2>2
<1>6. s \in Seq(S) /\ Len(s) = 3 /\ s[1] = a /\ s[2] = r /\ s[3] = b
  <2>1. s \in Seq(S) /\ Len(s) = 2 + 1
    BY <1>3, <1>4, <1>5, ConcatProperties
  <2>2. \A i \in 1 .. 2 + 1 : s[i] = IF i <= 2 THEN x[i] ELSE <<b>>[i - 2]
    <3>1. PICK y : y = <<b>>
      OBVIOUS
    <3>2. y \in Seq(S) /\ Len(y) = 1 /\ s = x \o y
      BY <1>3, <1>4, <3>1
    <3>3. \A i \in 1 .. 2 + 1 : s[i] = IF i <= 2 THEN x[i] ELSE y[i - 2]
      BY <1>5, <3>2, ConcatProperties
    <3> QED BY <3>1, <3>3
  <2>3. s[1] = x[1] /\ s[2] = x[2]
    BY <2>2
  <2>4. s[3] = b
    <3>1. 3 \in 1 .. 2 + 1 /\ ~(3 <= 2) /\ 3 - 2 = 1
      OBVIOUS
    <3>2. s[3] = <<b>>[1]
      BY <2>2, <3>1
    <3> QED BY <3>2
  <2>5. Len(s) = 3
    BY <2>1
  <2> QED BY <1>5, <2>1, <2>3, <2>4, <2>5
<1>7. s = <<a, r, b>>
  BY <1>6
<1> QED BY <1>2, <1>3, <1>7

LEMMA TwoJoined ==
  ASSUME NEW a, NEW b
  PROVE  <<a>> \o <<>> \o <<b>> = <<a, b>>
<1>1. PICK S : S = {a, b}
  OBVIOUS
<1>2. <<a>> \o <<>> = <<a>>
  OBVIOUS
<1>3. PICK s : s = <<a>> \o <<b>>
  OBVIOUS
<1>4. <<a>> \in Seq(S) /\ <<b>> \in Seq(S) /\ Len(<<a>>) = 1 /\ Len(<<b>>) = 1
  BY <1>1
<1>5. s \in Seq(S) /\ Len(s) = 2 /\ s[1] = a /\ s[2] = b
  <2>1. s \in Seq(S) /\ Len(s) = 1 + 1
    BY <1>3, <1>4, ConcatProperties
  <2>2. \A i \in 1 .. 1 + 1 : s[i] = IF i <= 1 THEN <<a>>[i] ELSE <<b>>[i - 1]
    BY <1>3, <1>4, ConcatProperties
  <2> QED BY <2>1, <2>2
<1>6. s = <<a, b>>
  BY <1>5
<1> QED BY <1>2, <1>3, <1>6

(* A file moves to another directory: the two directories are locked.      *)
LEMMA RenameAwayStarts ==
  ASSUME IInv, Known, NEW w \in Worker, NEW d \in Dir, NEW e \in Dir, NEW n \in Name,
         NEW m \in Name, RenameAway(w, d, n, e, m)
  PROVE  Starts(w)
<1>1. PICK f \in File : f = mem[d][n]
  BY DEF RenameAway
<1>2. PICK old \in File \cup {None} : old = mem[e][m]
  BY DEF RenameAway
<1>3. PICK r, a, b : /\ r = JCall("rmreg", e, m, old) /\ a = JCall("rmreg", d, n, f)
                     /\ b = JCall("mkreg", e, m, f)
  OBVIOUS
<1>4. PICK calls : calls = <<a>> \o (IF old = None THEN <<>> ELSE <<r>>) \o <<b>>
  OBVIOUS
<1>5. PICK locks : locks = {d, e, f} \cup ({old} \ {None})
  OBVIOUS
<1>6. /\ d \in alive /\ e \in alive /\ d # e /\ Begin(w, locks, calls)
      /\ mem' = [mem EXCEPT ![d][n] = None, ![e][m] = f]
      /\ used' = used /\ alive' = alive
  BY <1>1, <1>2, <1>3, <1>4, <1>5 DEF RenameAway
<1>7. /\ todo[w] = <<>> /\ held[w] = 0 /\ todo'[w] = calls
      /\ \A i \in Worker : i # w => todo'[i] = todo[i]
      /\ \A i \in Ino : lock[i] # None => lock'[i] = lock[i]
      /\ \A i \in Ino : i \in locks => lock[i] = None /\ lock'[i] = w
  BY <1>6, BeginForm
<1>8. /\ r.fn = "rmreg" /\ r.dir = e /\ r.name = m /\ r.ino = old
      /\ a.fn = "rmreg" /\ a.dir = d /\ a.name = n /\ a.ino = f
      /\ b.fn = "mkreg" /\ b.dir = e /\ b.name = m /\ b.ino = f
  BY <1>3 DEF JCall
<1>9. \A i \in Dir, p \in Name :
        mem'[i][p] = IF i = e /\ p = m THEN f
                     ELSE IF i = d /\ p = n THEN None ELSE mem[i][p]
  <2>1. mem \in [Dir -> [Name -> Ino \cup {None}]]
    BY DEF IInv, TInv, TypeOK
  <2> QED BY <1>6, <2>1
<1>10. /\ d \in used /\ d \in Ino /\ d \in locks
       /\ e \in used /\ e \in Ino /\ e \in locks
       /\ alive' \subseteq used' /\ used \subseteq used'
       /\ \A i \in alive' : i \in alive
  BY <1>5, <1>6 DEF Known, Ino
<1>11. CASE old = None
  <2>1. calls = <<a, b>>
    <3>1. calls = <<a>> \o <<>> \o <<b>>
      BY <1>4, <1>11
    <3> QED BY <3>1, TwoJoined
  <2>2. Len(todo'[w]) = 2 /\ todo'[w][1] = a /\ todo'[w][2] = b /\ 1 .. 2 = {1, 2}
    BY <1>7, <2>1
  <2>3. ASSUME NEW i \in Dir, NEW p \in Name
        PROVE  /\ Path(NameTrace(todo'[w], i, p), Len(todo'[w]), mem[i][p], mem'[i][p])
               /\ mem'[i][p] # mem[i][p] => \E k \in 1 .. Len(todo'[w]) : About(todo'[w][k], i, p)
    <3>1. PICK T : T = NameTrace(todo'[w], i, p)
      OBVIOUS
    <3>2. /\ T[1] = IF i = d /\ p = n THEN Step(f, None) ELSE Skip
          /\ T[2] = IF i = e /\ p = m THEN Step(None, f) ELSE Skip
      BY <1>8, <2>2, <3>1 DEF NameTrace, NameStep, About, Finds, Leaves, Makes
    <3>3. Path(T, 2, mem[i][p], mem'[i][p])
      <4>1. /\ T[1].is => ~T[2].is /\ mem[i][p] = T[1].from /\ T[1].to = mem'[i][p]
            /\ T[2].is => mem[i][p] = T[2].from /\ T[2].to = mem'[i][p]
        <5>1. CASE i = d /\ p = n
          <6>1. mem[i][p] = f /\ mem'[i][p] = None
            BY <1>1, <1>6, <1>9, <5>1
          <6>2. T[1] = Step(f, None) /\ T[2] = Skip
            BY <1>6, <3>2, <5>1
          <6> QED BY <6>1, <6>2 DEF Step, Skip
        <5>2. CASE i = e /\ p = m
          <6>1. mem[i][p] = None /\ mem'[i][p] = f
            BY <1>2, <1>9, <1>11, <5>2
          <6>2. T[1] = Skip /\ T[2] = Step(None, f)
            BY <1>6, <3>2, <5>2
          <6> QED BY <6>1, <6>2 DEF Step, Skip
        <5>3. CASE ~(i = d /\ p = n) /\ ~(i = e /\ p = m)
          BY <3>2, <5>3 DEF Skip
        <5> QED BY <5>1, <5>2, <5>3
      <4> QED BY <4>1, PathTwo
    <3>4. mem'[i][p] # mem[i][p] => About(todo'[w][1], i, p) \/ About(todo'[w][2], i, p)
      BY <1>8, <1>9, <2>2 DEF About
    <3> QED BY <2>2, <3>1, <3>3, <3>4
  <2> QED BY <1>7, <1>8, <1>10, <2>2, <2>3 DEF Starts, NameCall
<1>12. CASE old # None
  <2>1. calls = <<a, r, b>>
    <3>1. calls = <<a>> \o <<r>> \o <<b>>
      BY <1>4, <1>12
    <3> QED BY <3>1, ThreeJoined
  <2>2. /\ Len(todo'[w]) = 3 /\ todo'[w][1] = a /\ todo'[w][2] = r /\ todo'[w][3] = b
        /\ 1 .. 3 = {1, 2, 3}
    BY <1>7, <2>1
  <2>3. ASSUME NEW i \in Dir, NEW p \in Name
        PROVE  /\ Path(NameTrace(todo'[w], i, p), Len(todo'[w]), mem[i][p], mem'[i][p])
               /\ mem'[i][p] # mem[i][p] => \E k \in 1 .. Len(todo'[w]) : About(todo'[w][k], i, p)
    <3>1. PICK T : T = NameTrace(todo'[w], i, p)
      OBVIOUS
    <3>2. /\ T[1] = IF i = d /\ p = n THEN Step(f, None) ELSE Skip
          /\ T[2] = IF i = e /\ p = m THEN Step(old, None) ELSE Skip
          /\ T[3] = IF i = e /\ p = m THEN Step(None, f) ELSE Skip
      BY <1>8, <2>2, <3>1 DEF NameTrace, NameStep, About, Finds, Leaves, Makes
    <3>3. Path(T, 3, mem[i][p], mem'[i][p])
      <4>1. /\ T[1].is => ~T[2].is /\ ~T[3].is /\ mem[i][p] = T[1].from /\ T[1].to = mem'[i][p]
            /\ T[2].is => /\ ~T[1].is /\ T[3].is /\ mem[i][p] = T[2].from
                          /\ T[2].to = T[3].from
            /\ T[3].is => T[2].is /\ T[3].to = mem'[i][p]
        <5>1. CASE i = d /\ p = n
          <6>1. mem[i][p] = f /\ mem'[i][p] = None
            BY <1>1, <1>6, <1>9, <5>1
          <6>2. T[1] = Step(f, None) /\ T[2] = Skip /\ T[3] = Skip
            BY <1>6, <3>2, <5>1
          <6> QED BY <6>1, <6>2 DEF Step, Skip
        <5>2. CASE i = e /\ p = m
          <6>1. mem[i][p] = old /\ mem'[i][p] = f
            BY <1>2, <1>9, <5>2
          <6>2. T[1] = Skip /\ T[2] = Step(old, None) /\ T[3] = Step(None, f)
            BY <1>6, <3>2, <5>2
          <6> QED BY <6>1, <6>2 DEF Step, Skip
        <5>3. CASE ~(i = d /\ p = n) /\ ~(i = e /\ p = m)
          BY <3>2, <5>3 DEF Skip
        <5> QED BY <5>1, <5>2, <5>3
      <4> QED BY <4>1, PathThree
    <3>4. mem'[i][p] # mem[i][p] => About(todo'[w][1], i, p) \/ About(todo'[w][3], i, p)
      BY <1>8, <1>9, <2>2 DEF About
    <3> QED BY <2>2, <3>1, <3>3, <3>4
  <2> QED BY <1>7, <1>8, <1>10, <2>2, <2>3 DEF Starts, NameCall
<1> QED BY <1>11, <1>12

LEMMA OperationStarts ==
  ASSUME IInv, Known, NEW w \in Worker, Operation(w)
  PROVE  Starts(w)
BY CreateStarts, UnlinkStarts, RenameStarts, RenameAwayStarts, MkdirStarts, RmdirStarts,
   ChangeStarts
DEF Operation

(* An operation that begins has the directories it changes to itself:      *)
(* nobody had a call left about their names.                               *)
LEMMA StartsLogged ==
  ASSUME IInv, Known, Logged, NEW w \in Worker, Starts(w), UNCHANGED <<held, txs>>
  PROVE  Logged'
<1>1. /\ todo[w] = <<>> /\ held[w] = 0
      /\ \A i \in Worker : i # w => todo'[i] = todo[i]
      /\ \A i \in Ino : lock[i] # None => lock'[i] = lock[i]
      /\ used \subseteq used'
  BY DEF Starts
<1>2. \A i \in Worker, k \in Nat : k \in 1 .. Len(todo[i]) => todo[i][k].dir \in Ino
  <2>1. \A i \in Worker : todo[i] \in Seq(CallType)
    BY DEF IInv, TInv, TypeOK
  <2>2. \A i \in Worker, k \in Nat : k \in 1 .. Len(todo[i]) => todo[i][k] \in CallType
    BY <2>1
  <2> QED BY <2>2 DEF CallType, Ino
<1>3. None \notin Worker /\ None \notin Name
  BY DistinctAssumption
<1>4. ASSUME NEW i \in Worker, NEW k \in Nat, k \in 1 .. Len(todo[i])
      PROVE  /\ SelfCall(todo[i][k]) => lock[todo[i][k].dir] = i /\ lock'[todo[i][k].dir] = i
             /\ todo[i][k].name \in Name <=> NameCall(todo[i][k])
             /\ todo[i][k].dir \in used'
  <2>1. /\ SelfCall(todo[i][k]) => lock[todo[i][k].dir] = i
        /\ todo[i][k].name \in Name <=> NameCall(todo[i][k])
        /\ todo[i][k].dir \in used
    BY <1>4 DEF Logged, Locked
  <2>2. todo[i][k].dir \in Ino /\ i # None
    BY <1>2, <1>3, <1>4
  <2> QED BY <1>1, <2>1, <2>2
<1>5. Locked'
  <2> SUFFICES ASSUME NEW i \in Worker, NEW k \in 1 .. Len(todo'[i])
               PROVE  /\ SelfCall(todo'[i][k]) => lock'[todo'[i][k].dir] = i
                      /\ todo'[i][k].name \in Name <=> NameCall(todo'[i][k])
                      /\ todo'[i][k].dir \in used'
    BY DEF Locked
  <2>1. CASE i = w
    BY <2>1 DEF Starts
  <2>2. CASE i # w
    BY <1>1, <1>4, <2>2
  <2> QED BY <2>1, <2>2
<1>6. NothingNewer'
  <2> SUFFICES ASSUME NEW i \in Worker, held'[i] # 0, NameCall(Head(todo'[i])),
                      NEW h \in All(Head(todo[i]).dir)', h > held'[i]
               PROVE  txs'[Head(todo'[i]).dir][h].dentries = NoNames
    BY DEF NothingNewer
  <2>1. i # w /\ todo'[i] = todo[i] /\ held[i] # 0
    BY <1>1
  <2>2. h \in All(Head(todo[i]).dir)
    BY <2>1 DEF All
  <2> QED BY <2>1, <2>2 DEF Logged, NothingNewer
<1>7. ASSUME NEW d \in Dir, NEW n \in Name
      PROVE  NameLogged(d, n)'
  <2>1. PICK u \in Ino \cup {None} :
           /\ Says(NameLog(d, n), All(d), u)
           /\ \A i \in Worker : Path(NameTrace(todo[i], d, n), Len(todo[i]), u, mem[d][n])
           /\ ~Unrecorded(d, n) => u = mem[d][n]
    BY DEF Logged, NameLogged
  <2>2. Says(NameLog(d, n)', All(d)', u)
    <3>1. NameLog(d, n)' = NameLog(d, n) /\ All(d)' = All(d)
      BY DEF NameLog, All
    <3> QED BY <2>1, <3>1
  <2>3. /\ Path(NameTrace(todo'[w], d, n), Len(todo'[w]), mem[d][n], mem'[d][n])
        /\ mem'[d][n] # mem[d][n] => \E k \in 1 .. Len(todo'[w]) : About(todo'[w][k], d, n)
    BY DEF Starts
  <2>4. CASE \E k \in 1 .. Len(todo'[w]) : About(todo'[w][k], d, n)
    <3>1. PICK k \in 1 .. Len(todo'[w]) : About(todo'[w][k], d, n)
      BY <2>4
    <3>2. NameCall(todo'[w][k]) /\ todo'[w][k].dir = d
      BY <3>1 DEF Starts, About
    <3>3. SelfCall(todo'[w][k])
      BY <3>2 DEF NameCall, SelfCall
    <3>4. lock[d] = None
      BY <3>1, <3>2, <3>3 DEF Starts
    <3>5. ASSUME NEW i \in Worker, NEW j \in 1 .. Len(todo[i]), About(todo[i][j], d, n)
          PROVE  FALSE
      <4>1. j \in Nat /\ todo[i][j].dir = d /\ todo[i][j].name = n
        BY <3>5 DEF About
      <4>2. NameCall(todo[i][j])
        BY <1>4, <4>1
      <4>3. SelfCall(todo[i][j])
        BY <4>2 DEF NameCall, SelfCall
      <4> QED BY <1>3, <1>4, <3>4, <4>1, <4>3
    <3>6. ~Unrecorded(d, n)
      BY <3>5 DEF Unrecorded, About
    <3>7. u = mem[d][n]
      BY <2>1, <3>6
    <3>8. ASSUME NEW i \in Worker
          PROVE  Path(NameTrace(todo'[i], d, n), Len(todo'[i]), u, mem'[d][n])
      <4>1. CASE i = w
        BY <2>3, <3>7, <4>1
      <4>2. CASE i # w
        <5>1. \A j \in 1 .. Len(todo[i]) : ~NameTrace(todo[i], d, n)[j].is
          BY <3>5 DEF NameTrace, NameStep, Skip
        <5>2. Path(NameTrace(todo[i], d, n), Len(todo[i]), u, mem'[d][n])
          BY <5>1 DEF Path
        <5> QED BY <1>1, <4>2, <5>2
      <4> QED BY <4>1, <4>2
    <3>9. Unrecorded(d, n)'
      BY <2>4 DEF Unrecorded, About
    <3> QED BY <2>2, <3>8, <3>9 DEF NameLogged
  <2>5. CASE ~\E k \in 1 .. Len(todo'[w]) : About(todo'[w][k], d, n)
    <3>1. mem'[d][n] = mem[d][n]
      BY <2>3, <2>5
    <3>2. ASSUME NEW i \in Worker
          PROVE  Path(NameTrace(todo'[i], d, n), Len(todo'[i]), u, mem'[d][n])
      <4>1. CASE i = w
        <5>1. \A j \in 1 .. Len(todo'[w]) : ~NameTrace(todo'[w], d, n)[j].is
          BY <2>5 DEF NameTrace, NameStep, Skip
        <5> QED BY <4>1, <5>1 DEF Path
      <4>2. CASE i # w
        BY <1>1, <2>1, <3>1, <4>2
      <4> QED BY <4>1, <4>2
    <3>3. Unrecorded(d, n) => Unrecorded(d, n)'
      <4> SUFFICES ASSUME NEW i \in Worker, NEW j \in 1 .. Len(todo[i]), About(todo[i][j], d, n)
                   PROVE  Unrecorded(d, n)'
        BY DEF Unrecorded, About
      <4>1. i # w
        BY <1>1
      <4>2. j \in 1 .. Len(todo'[i]) /\ About(todo'[i][j], d, n)
        BY <1>1, <4>1
      <4> QED BY <4>2 DEF Unrecorded, About
    <3>4. ~Unrecorded(d, n)' => u = mem'[d][n]
      BY <2>1, <3>1, <3>3
    <3> QED BY <2>2, <3>2, <3>4 DEF NameLogged
  <2> QED BY <2>4, <2>5
<1> QED BY <1>5, <1>6, <1>7 DEF Logged

----------------------------------------------------------------------------
(* The pool: what a directory's dentry object says is what the             *)
(* transactions say that have been applied to it.                          *)
Applied(d) ==
  done[d] \cup {g \in All(d) : AtWork(d, g) /\ kpc[QueueOf[d]] = "clear"}

PoolName(d, n) == IF dentryObj[d] = None THEN None ELSE dentryObj[d][n]

(* A directory's transactions say once that it was made, and it has no     *)
(* dentry object before that one is applied; only removed directories have *)
(* a transaction that says so.                                             *)
Births ==
  \A d \in Dir :
    /\ \A g \in All(d) : \A h \in All(d) :
         txs[d][g].status = "created" /\ txs[d][h].status = "created" => g = h
    /\ \A g \in All(d) : txs[d][g].status = "created" /\ g \notin Applied(d) =>
         dentryObj[d] = None
    /\ \A g \in All(d) : txs[d][g].status = "deleted" => d \notin alive

(* The calls that will say so.                                             *)
Making ==
  \A w \in Worker : \A k \in 1 .. Len(todo[w]) :
    /\ todo[w][k].fn = "rmself" => todo[w][k].dir \notin alive
    /\ todo[w][k].fn = "mkself" =>
         /\ dentryObj[todo[w][k].dir] = None
         /\ \A g \in All(todo[w][k].dir) : txs[todo[w][k].dir][g].status # "created"
         /\ \A j \in 1 .. Len(todo[w]) : todo[w][j].dir = todo[w][k].dir => j = k

(* A checkpoint thread has read the directory it is about to write.        *)
Loaded ==
  \A q \in Queue : kpc[q] = "save" =>
    /\ \A n \in Name : buf[q][n] = PoolName(job[q][1], n)
    /\ JobTx(q).status = "created" \/ dentryObj[job[q][1]] # None

InPool ==
  \A d \in alive : \A n \in Name : Says(NameLog(d, n), Applied(d), PoolName(d, n))

Pooled == Known /\ Births /\ Making /\ Loaded /\ InPool

LEMMA AppliedIn ==
  ASSUME IInv, Order, NEW d \in Dir
  PROVE  /\ Applied(d) \subseteq All(d) /\ Applied(d) \in SUBSET Nat
         /\ \A g \in Applied(d) : txs[d][g].committed
<1>1. done[d] \subseteq All(d) /\ All(d) \subseteq Nat
  BY DEF Order, All
<1>2. \A g \in All(d) : ~txs[d][g].committed => g \notin done[d] /\ ~AtWork(d, g)
  BY OldestFirst
<1> QED BY <1>1, <1>2 DEF Applied

(* The job of a busy checkpoint thread.                                    *)
LEMMA JobThere ==
  ASSUME IInv, Order, NEW q \in Queue, kpc[q] \notin {"idle", "exit"}
  PROVE  /\ job[q][1] \in Dir /\ job[q][2] \in All(job[q][1])
         /\ JobTx(q).committed /\ QueueOf[job[q][1]] = q
         /\ AtWork(job[q][1], job[q][2])
<1>1. job[q] \in Dir \X Nat
  BY DEF IInv, TInv, TypeOK
<1>2. Written(job[q][1], job[q][2])
  BY DEF IInv, WrittenFirst
<1>3. QueueOf[job[q][1]] = q
  BY DEF Order, AtHome
<1> QED BY <1>1, <1>2, <1>3 DEF Written, All, JobTx, AtWork

(* Steps that do not touch what a checkpoint thread has loaded.            *)
LEMMA LoadedKept ==
  ASSUME IInv, Order, Loaded,
         \A d \in Dir : \A g \in All(d) : txs'[d][g].status = txs[d][g].status,
         \A q \in Queue : kpc'[q] = "save" =>
           /\ kpc[q] = "save" /\ job'[q] = job[q] /\ buf'[q] = buf[q]
           /\ dentryObj'[job[q][1]] = dentryObj[job[q][1]]
  PROVE  Loaded'
<1> SUFFICES ASSUME NEW q \in Queue, kpc'[q] = "save"
             PROVE  /\ \A n \in Name : buf'[q][n] = PoolName(job[q][1], n)'
                    /\ JobTx(q)'.status = "created" \/ dentryObj'[job'[q][1]] # None
  BY DEF Loaded
<1>1. /\ kpc[q] = "save" /\ job'[q] = job[q] /\ buf'[q] = buf[q]
      /\ dentryObj'[job[q][1]] = dentryObj[job[q][1]]
  OBVIOUS
<1>2. job[q][1] \in Dir /\ job[q][2] \in All(job[q][1])
  BY <1>1, JobThere
<1>3. JobTx(q)'.status = JobTx(q).status
  BY <1>1, <1>2 DEF JobTx
<1> QED BY <1>1, <1>3 DEF Loaded, PoolName

(* Steps that leave memory and the dentry objects alone and change no      *)
(* entry or status there is.                                               *)
LEMMA PooledKept ==
  ASSUME IInv, Order, Pooled, UNCHANGED <<used, alive, mem, todo, dentryObj>>,
         \A d \in Dir :
           /\ Applied(d)' = Applied(d) /\ All(d) \subseteq All(d)'
           /\ \A g \in All(d) : /\ txs'[d][g].dentries = txs[d][g].dentries
                                /\ txs'[d][g].status = txs[d][g].status
           /\ \A g \in All(d)' : g \notin All(d) => txs'[d][g].status = "unchanged"
           /\ d \notin used => txs'[d] = <<>>,
         Loaded'
  PROVE  Pooled'
<1>1. \A d \in Dir : \A g \in All(d)' :
        txs'[d][g].status # "unchanged" =>
          g \in All(d) /\ txs'[d][g].status = txs[d][g].status
  OBVIOUS
<1>2. Known'
  BY DEF Pooled, Known
<1>3. Births'
  <2> SUFFICES ASSUME NEW d \in Dir
               PROVE  /\ \A g \in All(d)' : \A h \in All(d)' :
                           txs'[d][g].status = "created" /\ txs'[d][h].status = "created" => g = h
                      /\ \A g \in All(d)' : txs'[d][g].status = "created" /\ g \notin Applied(d)' =>
                           dentryObj'[d] = None
                      /\ \A g \in All(d)' : txs'[d][g].status = "deleted" => d \notin alive'
    BY DEF Births
  <2>1. /\ \A g \in All(d) : \A h \in All(d) :
             txs[d][g].status = "created" /\ txs[d][h].status = "created" => g = h
        /\ \A g \in All(d) : txs[d][g].status = "created" /\ g \notin Applied(d) =>
             dentryObj[d] = None
        /\ \A g \in All(d) : txs[d][g].status = "deleted" => d \notin alive
    BY DEF Pooled, Births
  <2>2. \A g \in All(d)' : txs'[d][g].status \in {"created", "deleted"} =>
          g \in All(d) /\ txs'[d][g].status = txs[d][g].status
    BY <1>1
  <2> QED BY <2>1, <2>2
<1>4. Making'
  <2>1. \A w \in Worker : \A k \in 1 .. Len(todo[w]) :
          /\ todo[w][k].fn = "rmself" => todo[w][k].dir \notin alive
          /\ todo[w][k].fn = "mkself" =>
               /\ dentryObj[todo[w][k].dir] = None
               /\ \A g \in 1 .. Len(txs'[todo[w][k].dir]) :
                    txs'[todo[w][k].dir][g].status # "created"
               /\ \A j \in 1 .. Len(todo[w]) : todo[w][j].dir = todo[w][k].dir => j = k
    <3> SUFFICES ASSUME NEW w \in Worker, NEW k \in 1 .. Len(todo[w])
                 PROVE  /\ todo[w][k].fn = "rmself" => todo[w][k].dir \notin alive
                        /\ todo[w][k].fn = "mkself" =>
                             /\ dentryObj[todo[w][k].dir] = None
                             /\ \A g \in 1 .. Len(txs'[todo[w][k].dir]) :
                                  txs'[todo[w][k].dir][g].status # "created"
                             /\ \A j \in 1 .. Len(todo[w]) : todo[w][j].dir = todo[w][k].dir => j = k
      OBVIOUS
    <3>1. PICK e \in Dir : e = todo[w][k].dir
      <4>1. todo[w] \in Seq(CallType)
        BY DEF IInv, TInv, TypeOK
      <4>2. todo[w][k] \in CallType
        BY <4>1
      <4> QED BY <4>2 DEF CallType
    <3>2. \A g \in 1 .. Len(txs'[e]) : txs'[e][g].status = "created" =>
            g \in 1 .. Len(txs[e]) /\ txs[e][g].status = "created"
      BY <1>1 DEF All
    <3>3. /\ todo[w][k].fn = "rmself" => e \notin alive
          /\ todo[w][k].fn = "mkself" =>
               /\ dentryObj[e] = None
               /\ \A g \in 1 .. Len(txs[e]) : txs[e][g].status # "created"
               /\ \A j \in 1 .. Len(todo[w]) : todo[w][j].dir = e => j = k
      BY <3>1 DEF Pooled, Making, All
    <3> QED BY <3>1, <3>2, <3>3
  <2>2. todo' = todo /\ alive' = alive /\ dentryObj' = dentryObj
    OBVIOUS
  <2> QED BY <2>1, <2>2 DEF Making, All
<1>5. Loaded'
  OBVIOUS
<1>6. InPool'
  <2> SUFFICES ASSUME NEW d \in alive, NEW n \in Name
               PROVE  Says(NameLog(d, n)', Applied(d)', PoolName(d, n)')
    BY DEF InPool
  <2>1. d \in Dir
    BY DEF IInv, TInv, TypeOK
  <2>2. \A g \in Applied(d) : NameLog(d, n)'[g] = NameLog(d, n)[g]
    <3>1. \A g \in Applied(d) : g \in All(d) /\ g \in All(d)'
      BY <2>1, AppliedIn
    <3> QED BY <2>1, <3>1 DEF NameLog
  <2>3. Says(NameLog(d, n), Applied(d), PoolName(d, n))
    BY DEF Pooled, InPool
  <2>4. Says(NameLog(d, n)', Applied(d), PoolName(d, n))
    BY <2>2, <2>3, SaysSame
  <2>5. Applied(d)' = Applied(d) /\ PoolName(d, n)' = PoolName(d, n)
    BY <2>1 DEF PoolName
  <2> QED BY <2>4, <2>5
<1> QED BY <1>2, <1>3, <1>4, <1>5, <1>6 DEF Pooled

(* An operation that begins. *)
LEMMA StartsPooled ==
  ASSUME IInv, IInv', Order, Logged, Pooled, NEW w \in Worker, Starts(w),
         UNCHANGED <<txs, done, queue, kpc, job, buf, dentryObj>>
  PROVE  Pooled'
<1>1. /\ todo[w] = <<>>
      /\ \A i \in Worker : i # w => todo'[i] = todo[i]
      /\ used \subseteq used' /\ alive' \subseteq used'
      /\ \A d \in alive' : d \notin alive => d \notin used
  BY DEF Starts
<1>2. \A d \in Dir : /\ All(d)' = All(d) /\ Applied(d)' = Applied(d)
                     /\ d \notin used => All(d) = {}
  <2> SUFFICES ASSUME NEW d \in Dir
               PROVE  /\ All(d)' = All(d) /\ Applied(d)' = Applied(d)
                      /\ d \notin used => All(d) = {}
    OBVIOUS
  <2>1. All(d)' = All(d)
    BY DEF All
  <2>2. \A g : AtWork(d, g)' <=> AtWork(d, g)
    BY DEF AtWork
  <2>3. d \notin used => All(d) = {}
    BY DEF Pooled, Known, All
  <2> QED BY <2>1, <2>2, <2>3 DEF Applied
<1>3. Known'
  <2> SUFFICES ASSUME NEW d \in Dir, d \notin used'
               PROVE  mem'[d] = NoNames /\ txs'[d] = <<>> /\ dentryObj'[d] = None
    BY <1>1 DEF Known
  <2>1. d \notin used
    BY <1>1
  <2>2. mem[d] = NoNames /\ txs[d] = <<>> /\ dentryObj[d] = None
    BY <2>1 DEF Pooled, Known
  <2>3. \A n \in Name : mem'[d][n] = mem[d][n]
    <3> SUFFICES ASSUME NEW n \in Name, mem'[d][n] # mem[d][n] PROVE FALSE
      OBVIOUS
    <3>1. PICK k \in 1 .. Len(todo'[w]) : About(todo'[w][k], d, n)
      BY DEF Starts
    <3>2. d \in used'
      BY <3>1 DEF Starts, About
    <3> QED BY <3>2
  <2>4. mem'[d] \in [Name -> Ino \cup {None}] /\ mem[d] \in [Name -> Ino \cup {None}]
    BY DEF IInv, TInv, TypeOK
  <2>5. mem'[d] = mem[d]
    BY <2>3, <2>4
  <2> QED BY <2>2, <2>5
<1>4. Births'
  <2> SUFFICES ASSUME NEW d \in Dir
               PROVE  /\ \A g \in All(d)' : \A h \in All(d)' :
                           txs'[d][g].status = "created" /\ txs'[d][h].status = "created" => g = h
                      /\ \A g \in All(d)' : txs'[d][g].status = "created" /\ g \notin Applied(d)' =>
                           dentryObj'[d] = None
                      /\ \A g \in All(d)' : txs'[d][g].status = "deleted" => d \notin alive'
    BY DEF Births
  <2>1. /\ \A g \in All(d) : \A h \in All(d) :
             txs[d][g].status = "created" /\ txs[d][h].status = "created" => g = h
        /\ \A g \in All(d) : txs[d][g].status = "created" /\ g \notin Applied(d) =>
             dentryObj[d] = None
        /\ \A g \in All(d) : txs[d][g].status = "deleted" => d \notin alive
    BY DEF Pooled, Births
  <2> QED BY <1>1, <1>2, <2>1
<1>5. Making'
  <2> SUFFICES ASSUME NEW i \in Worker, NEW k \in 1 .. Len(todo'[i])
               PROVE  /\ todo'[i][k].fn = "rmself" => todo'[i][k].dir \notin alive'
                      /\ todo'[i][k].fn = "mkself" =>
                           /\ dentryObj'[todo'[i][k].dir] = None
                           /\ \A g \in 1 .. Len(txs'[todo'[i][k].dir]) :
                                txs'[todo'[i][k].dir][g].status # "created"
                           /\ \A j \in 1 .. Len(todo'[i]) : todo'[i][j].dir = todo'[i][k].dir => j = k
    BY DEF Making, All
  <2>1. PICK e \in Dir : e = todo'[i][k].dir
    <3>1. todo'[i] \in Seq(CallType)
      BY DEF IInv, TInv, TypeOK
    <3>2. todo'[i][k] \in CallType
      BY <3>1
    <3> QED BY <3>2 DEF CallType
  <2>2. CASE i = w
    <3>1. /\ todo'[i][k].fn = "rmself" => e \notin alive'
          /\ todo'[i][k].fn = "mkself" =>
               /\ e \notin used
               /\ \A j \in 1 .. Len(todo'[w]) : todo'[w][j].dir = e => j = k
      BY <2>1, <2>2 DEF Starts
    <3>2. e \notin used => dentryObj[e] = None /\ Len(txs[e]) = 0
      BY DEF Pooled, Known
    <3> QED BY <2>1, <2>2, <3>1, <3>2
  <2>3. CASE i # w
    <3>1. k \in 1 .. Len(todo[i]) /\ todo'[i] = todo[i]
      BY <1>1, <2>3
    <3>2. e \in used
      BY <2>1, <3>1 DEF Logged, Locked
    <3>3. /\ todo[i][k].fn = "rmself" => e \notin alive
          /\ todo[i][k].fn = "mkself" =>
               /\ dentryObj[e] = None
               /\ \A g \in 1 .. Len(txs[e]) : txs[e][g].status # "created"
               /\ \A j \in 1 .. Len(todo[i]) : todo[i][j].dir = e => j = k
      <4>1. Making
        BY DEF Pooled
      <4> QED BY <2>1, <3>1, <4>1 DEF Making, All
    <3> QED BY <1>1, <2>1, <3>1, <3>2, <3>3
  <2> QED BY <2>2, <2>3
<1>6. Loaded'
  BY DEF Pooled, Loaded, PoolName, JobTx
<1>7. InPool'
  <2> SUFFICES ASSUME NEW d \in alive', NEW n \in Name
               PROVE  Says(NameLog(d, n)', Applied(d)', PoolName(d, n)')
    BY DEF InPool
  <2>1. d \in Dir
    BY DEF IInv, TInv, TypeOK
  <2>2. NameLog(d, n)' = NameLog(d, n) /\ Applied(d)' = Applied(d) /\ PoolName(d, n)' = PoolName(d, n)
    BY <1>2, <2>1 DEF NameLog, All, PoolName
  <2>3. CASE d \in alive
    <3>1. Says(NameLog(d, n), Applied(d), PoolName(d, n))
      BY <2>3 DEF Pooled, InPool
    <3> QED BY <2>2, <3>1
  <2>4. CASE d \notin alive
    <3>1. d \notin used
      BY <1>1, <2>4
    <3>2. PoolName(d, n) = None /\ Applied(d) = {}
      BY <1>2, <2>1, <3>1, AppliedIn DEF Pooled, Known, PoolName
    <3>3. Says(NameLog(d, n), Applied(d), PoolName(d, n))
      BY <3>2 DEF Says, Silent
    <3> QED BY <2>2, <3>3
  <2> QED BY <2>3, <2>4
<1> QED BY <1>3, <1>4, <1>5, <1>6, <1>7 DEF Pooled

(* What a caller gets is not applied, and a new transaction says nothing.  *)
LEMMA GetEntryPooled ==
  ASSUME IInv, Order, Logged, Pooled, NEW w \in Worker, GetEntry(w)
  PROVE  Pooled'
<1>0. PICK e : e = Head(todo[w]).dir
  OBVIOUS
<1>1. e \in Dir /\ todo[w] # <<>>
  BY <1>0, GetEntryForm
<1>2. \A d \in Dir : /\ All(d) \subseteq All(d)'
                     /\ \A g \in All(d) : txs'[d][g] = txs[d][g]
                     /\ All(d)' = All(d) \/
                          /\ All(d)' = All(d) \cup {Len(txs[d]) + 1}
                          /\ txs'[d][Len(txs[d]) + 1] = NewTx
                     /\ d # e => txs'[d] = txs[d]
  BY <1>0, GetEntryForm
<1>3. UNCHANGED <<used, alive, mem, todo, dentryObj, done, kpc, job, buf>>
  BY DEF GetEntry, cpVars, poolVars
<1>4. e \in used
  <2>1. todo[w] \in Seq(CallType)
    BY DEF IInv, TInv, TypeOK
  <2>2. e = todo[w][1].dir /\ 1 \in 1 .. Len(todo[w])
    BY <1>0, <1>1, <2>1
  <2> QED BY <2>2 DEF Logged, Locked
<1>5. ASSUME NEW d \in Dir
      PROVE  /\ Applied(d)' = Applied(d) /\ All(d) \subseteq All(d)'
             /\ \A g \in All(d) : /\ txs'[d][g].dentries = txs[d][g].dentries
                                  /\ txs'[d][g].status = txs[d][g].status
             /\ \A g \in All(d)' : g \notin All(d) => txs'[d][g].status = "unchanged"
             /\ d \notin used => txs'[d] = <<>>
  <2>1. \A g \in All(d)' : g \notin All(d) => txs'[d][g].status = "unchanged"
    BY <1>2 DEF NewTx
  <2>2. d \notin used => txs'[d] = <<>>
    BY <1>2, <1>4 DEF Pooled, Known
  <2>3. \A g : AtWork(d, g)' <=> AtWork(d, g)
    BY <1>3 DEF AtWork
  <2>4. \A g \in All(d)' : AtWork(d, g) => g \in All(d)
    BY InRange DEF All
  <2>5. Applied(d)' = Applied(d)
    BY <1>2, <1>3, <2>3, <2>4 DEF Applied
  <2> QED BY <1>2, <2>1, <2>2, <2>5
<1>6. Loaded'
  <2>1. \A q \in Queue : kpc'[q] = "save" =>
          /\ kpc[q] = "save" /\ job'[q] = job[q] /\ buf'[q] = buf[q]
          /\ dentryObj'[job[q][1]] = dentryObj[job[q][1]]
    BY <1>3
  <2> QED BY <1>5, <2>1, LoadedKept DEF Pooled
<1> QED BY <1>3, <1>5, <1>6, PooledKept

(* What is recorded is in a transaction that is not sealed, hence not yet  *)
(* applied.                                                                *)
LEMMA RecordPooled ==
  ASSUME IInv, Order, Logged, Pooled, NEW w \in Worker, Record(w), Running'
  PROVE  Pooled'
<1>1. PICK c : c = Head(todo[w])
  OBVIOUS
<1>2. PICK g : g = held[w]
  OBVIOUS
<1>3. /\ c \in CallType /\ todo[w] # <<>> /\ c = todo[w][1] /\ g \in All(c.dir)
      /\ ~txs[c.dir][g].committed
      /\ \A d \in Dir : /\ Len(txs'[d]) = Len(txs[d])
                        /\ \A h \in All(d) : d # c.dir \/ h # g => txs'[d][h] = txs[d][h]
      /\ txs'[c.dir][g] = Apply(txs[c.dir][g], c, inode[c.dir], inode[c.ino])
      /\ todo'[w] = Tail(todo[w])
      /\ \A i \in Worker : i # w => todo'[i] = todo[i]
  BY <1>1, <1>2, RecordForm
<1>4. UNCHANGED <<used, alive, mem, dentryObj, done, kpc, job, buf>>
  <2>1. UNCHANGED <<mem, inode, used, alive, ops, moved, open, done, commitVars, queue, cpVars,
                    stopped, failed, poolVars>>
    BY <1>1, <1>2, RecordForm
  <2> QED BY <2>1 DEF cpVars, poolVars
<1>5. c.dir \in Dir /\ 1 \in 1 .. Len(todo[w]) /\ todo[w] \in Seq(CallType)
  <2>1. todo[w] \in Seq(CallType)
    BY DEF IInv, TInv, TypeOK
  <2>2. 1 \in 1 .. Len(todo[w])
    BY <1>3, <2>1
  <2>3. c.dir \in Dir
    BY <1>3 DEF CallType
  <2> QED BY <2>1, <2>2, <2>3
<1>6. \A k \in 1 .. Len(todo'[w]) : k + 1 \in 1 .. Len(todo[w]) /\ todo'[w][k] = todo[w][k + 1]
  BY <1>3, <1>5
<1>7. c.dir \in used /\ (SelfCall(c) => lock[c.dir] = w)
  BY <1>3, <1>5 DEF Logged, Locked
<1>8. txs'[c.dir][g].status =
        IF c.fn = "mkself" THEN "created"
        ELSE IF c.fn = "rmself" THEN "deleted" ELSE txs[c.dir][g].status
  <2>1. txs[c.dir][g] \in TxType
    <3>1. txs[c.dir] \in Seq(TxType)
      BY <1>5 DEF IInv, TInv, TypeOK
    <3> QED BY <1>3, <3>1 DEF All
  <2>2. inode[c.dir] \in InodeType /\ inode[c.ino] \in InodeType
    BY <1>3 DEF IInv, TInv, TypeOK, Ino, CallType
  <2>3. c.name \in Name <=> NameCall(c)
    BY <1>3, <1>5 DEF Logged, Locked
  <2>4. Apply(txs[c.dir][g], c, inode[c.dir], inode[c.ino]).status =
          IF c.fn = "mkself" THEN "created"
          ELSE IF c.fn = "rmself" THEN "deleted" ELSE txs[c.dir][g].status
    <3>1. c \in CallType
      BY <1>3
    <3> QED BY <2>1, <2>2, <2>3, <3>1, ApplyNames
  <2>5. txs'[c.dir][g].status = Apply(txs[c.dir][g], c, inode[c.dir], inode[c.ino]).status
    BY <1>3
  <2> QED BY <2>4, <2>5, Zenon
<1>9. ASSUME NEW d \in Dir
      PROVE  /\ All(d)' = All(d) /\ Applied(d)' = Applied(d)
             /\ \A h \in All(d) : /\ h \in Nat
                                  /\ (d # c.dir \/ h # g => txs'[d][h] = txs[d][h])
             /\ \A h \in Applied(d) : h \in All(d) /\ txs'[d][h] = txs[d][h]
  <2>1. All(d)' = All(d)
    BY <1>3 DEF All
  <2>2. \A h : AtWork(d, h)' <=> AtWork(d, h)
    BY <1>4 DEF AtWork
  <2>3. \A h \in Applied(d) : h \in All(d) /\ txs[d][h].committed
    BY AppliedIn
  <2>4. \A h \in Applied(d) : h \in All(d) /\ txs'[d][h] = txs[d][h]
    BY <1>3, <2>3
  <2>5. Applied(d)' = Applied(d)
    BY <1>4, <2>1, <2>2 DEF Applied
  <2> QED BY <1>3, <2>1, <2>4, <2>5 DEF All
<1>10. g \notin Applied(c.dir)
  BY <1>3, <1>5, AppliedIn
<1>11. /\ c.fn = "rmself" => c.dir \notin alive
       /\ c.fn = "mkself" =>
            /\ dentryObj[c.dir] = None
            /\ \A h \in All(c.dir) : txs[c.dir][h].status # "created"
            /\ \A j \in 1 .. Len(todo[w]) : todo[w][j].dir = c.dir => j = 1
  BY <1>3, <1>5 DEF Pooled, Making
<1>12. Known'
  <2> SUFFICES ASSUME NEW d \in Dir, d \notin used
               PROVE  txs'[d] = <<>>
    BY <1>4 DEF Pooled, Known
  <2>1. txs[d] = <<>> /\ Len(txs'[d]) = Len(txs[d])
    BY <1>3 DEF Pooled, Known
  <2>2. txs'[d] \in Seq(TxType)
    BY JournalStepInv DEF JournalStep, IInv, TInv, TypeOK
  <2> QED BY <2>1, <2>2
<1>13. Births'
  <2> SUFFICES ASSUME NEW d \in Dir
               PROVE  /\ \A h \in All(d)' : \A i \in All(d)' :
                           txs'[d][h].status = "created" /\ txs'[d][i].status = "created" => h = i
                      /\ \A h \in All(d)' : txs'[d][h].status = "created" /\ h \notin Applied(d)' =>
                           dentryObj'[d] = None
                      /\ \A h \in All(d)' : txs'[d][h].status = "deleted" => d \notin alive'
    BY DEF Births
  <2>1. /\ \A h \in All(d) : \A i \in All(d) :
             txs[d][h].status = "created" /\ txs[d][i].status = "created" => h = i
        /\ \A h \in All(d) : txs[d][h].status = "created" /\ h \notin Applied(d) =>
             dentryObj[d] = None
        /\ \A h \in All(d) : txs[d][h].status = "deleted" => d \notin alive
    BY DEF Pooled, Births
  <2>2. CASE d # c.dir
    BY <1>4, <1>9, <2>1, <2>2
  <2>3. CASE d = c.dir
    <3>1. \A h \in All(d) : h # g => txs'[d][h].status = txs[d][h].status
      BY <1>9
    <3>2. CASE c.fn = "mkself"
      <4>1. txs'[d][g].status = "created"
        BY <1>8, <2>3, <3>2
      <4> QED BY <1>4, <1>9, <1>11, <2>1, <2>3, <3>1, <3>2, <4>1
    <3>3. CASE c.fn = "rmself"
      <4>1. txs'[d][g].status = "deleted"
        BY <1>8, <2>3, <3>3
      <4> QED BY <1>4, <1>9, <1>11, <2>1, <2>3, <3>1, <3>3, <4>1
    <3>4. CASE c.fn \notin {"mkself", "rmself"}
      <4>1. txs'[d][g].status = txs[d][g].status
        BY <1>8, <2>3, <3>4
      <4>2. \A h \in All(d) : txs'[d][h].status = txs[d][h].status
        BY <3>1, <4>1
      <4> QED BY <1>4, <1>9, <2>1, <4>2
    <3> QED BY <3>2, <3>3, <3>4
  <2> QED BY <2>2, <2>3
<1>14. Making'
  <2> SUFFICES ASSUME NEW i \in Worker, NEW k \in 1 .. Len(todo'[i])
               PROVE  /\ todo'[i][k].fn = "rmself" => todo'[i][k].dir \notin alive'
                      /\ todo'[i][k].fn = "mkself" =>
                           /\ dentryObj'[todo'[i][k].dir] = None
                           /\ \A h \in 1 .. Len(txs'[todo'[i][k].dir]) :
                                txs'[todo'[i][k].dir][h].status # "created"
                           /\ \A j \in 1 .. Len(todo'[i]) : todo'[i][j].dir = todo'[i][k].dir => j = k
    BY DEF Making, All
  <2>1. PICK k0 \in 1 .. Len(todo[i]) :
          /\ todo[i][k0] = todo'[i][k] /\ (i = w => k0 = k + 1)
          /\ \A j \in 1 .. Len(todo'[i]) : todo'[i][j].dir = todo[i][k0].dir =>
               \E j0 \in 1 .. Len(todo[i]) :
                 /\ todo[i][j0].dir = todo[i][k0].dir
                 /\ IF i = w THEN j0 = j + 1 ELSE j0 = j
    <3>1. CASE i = w
      BY <1>6, <3>1
    <3>2. CASE i # w
      BY <1>3, <3>2
    <3> QED BY <3>1, <3>2
  <2>2. PICK e : e = todo[i][k0]
    OBVIOUS
  <2>3. e.dir \in Dir /\ (SelfCall(e) => lock[e.dir] = i)
    <3>1. todo[i] \in Seq(CallType)
      BY DEF IInv, TInv, TypeOK
    <3>2. todo[i][k0] \in CallType
      BY <3>1
    <3> QED BY <2>2, <3>2 DEF CallType, Logged, Locked
  <2>4. /\ e.fn = "rmself" => e.dir \notin alive
        /\ e.fn = "mkself" =>
             /\ dentryObj[e.dir] = None
             /\ \A h \in 1 .. Len(txs[e.dir]) : txs[e.dir][h].status # "created"
             /\ \A j \in 1 .. Len(todo[i]) : todo[i][j].dir = e.dir => j = k0
    BY <2>2 DEF Pooled, Making, All
  <2>5. ASSUME e.fn = "mkself", NEW h \in 1 .. Len(txs'[e.dir])
        PROVE  txs'[e.dir][h].status # "created"
    <3>1. h \in All(e.dir) /\ txs[e.dir][h].status # "created"
      BY <1>3, <2>3, <2>4, <2>5 DEF All
    <3>2. CASE e.dir # c.dir \/ h # g
      BY <1>9, <2>3, <3>1, <3>2
    <3>3. CASE e.dir = c.dir /\ h = g
      <4>1. c.fn # "mkself"
        <5> SUFFICES ASSUME c.fn = "mkself" PROVE FALSE
          OBVIOUS
        <5>1. i = w
          BY <1>7, <2>3, <2>5, <3>3 DEF SelfCall
        <5>2. k0 = k + 1 /\ k \in Nat /\ k0 # 1 /\ k \in 1 .. Len(todo'[w])
          BY <2>1, <5>1
        <5> QED BY <1>11, <2>2, <3>3, <5>1, <5>2
      <4>2. txs'[e.dir][h].status \in {"deleted", txs[e.dir][h].status}
        BY <1>8, <3>3, <4>1
      <4> QED BY <3>1, <4>2
    <3> QED BY <3>2, <3>3
  <2>6. ASSUME e.fn = "mkself", NEW j \in 1 .. Len(todo'[i]), todo'[i][j].dir = e.dir
        PROVE  j = k
    <3>1. PICK j0 \in 1 .. Len(todo[i]) :
            todo[i][j0].dir = e.dir /\ IF i = w THEN j0 = j + 1 ELSE j0 = j
      BY <2>1, <2>2, <2>6
    <3>2. j0 = k0
      BY <2>4, <2>6, <3>1
    <3>3. CASE i = w
      BY <2>1, <3>1, <3>2, <3>3
    <3>4. CASE i # w
      <4>1. todo'[i] = todo[i]
        BY <1>3, <3>4
      <4>2. todo[i][j].dir = todo[i][k].dir /\ todo[i][k] = e /\ k \in 1 .. Len(todo[i])
        BY <2>1, <2>2, <2>6, <4>1
      <4> QED BY <2>6, <4>1, <4>2 DEF Pooled, Making
    <3> QED BY <3>3, <3>4
  <2> QED BY <1>4, <2>1, <2>2, <2>4, <2>5, <2>6
<1>15. Loaded'
  <2> SUFFICES ASSUME NEW q \in Queue, kpc'[q] = "save"
               PROVE  /\ \A n \in Name : buf'[q][n] = PoolName(job[q][1], n)'
                      /\ JobTx(q)'.status = "created" \/ dentryObj'[job'[q][1]] # None
    BY DEF Loaded
  <2>1. kpc[q] = "save"
    BY <1>4
  <2>2. job[q][1] \in Dir /\ job[q][2] \in All(job[q][1]) /\ JobTx(q).committed
    BY <2>1, JobThere
  <2>3. JobTx(q)' = JobTx(q)
    BY <1>3, <1>4, <2>2 DEF JobTx
  <2> QED BY <1>4, <2>1, <2>3 DEF Pooled, Loaded, PoolName
<1>16. InPool'
  <2> SUFFICES ASSUME NEW d \in alive, NEW n \in Name
               PROVE  Says(NameLog(d, n)', Applied(d)', PoolName(d, n)')
    BY <1>4 DEF InPool
  <2>1. d \in Dir
    BY DEF IInv, TInv, TypeOK
  <2>2. \A h \in Applied(d) : NameLog(d, n)'[h] = NameLog(d, n)[h]
    BY <1>9, <2>1 DEF NameLog
  <2>3. Says(NameLog(d, n), Applied(d), PoolName(d, n))
    BY DEF Pooled, InPool
  <2>4. Says(NameLog(d, n)', Applied(d), PoolName(d, n))
    BY <2>2, <2>3, SaysSame
  <2>5. Applied(d)' = Applied(d) /\ PoolName(d, n)' = PoolName(d, n)
    BY <1>4, <1>9, <2>1 DEF PoolName
  <2> QED BY <2>4, <2>5
<1> QED BY <1>12, <1>13, <1>14, <1>15, <1>16 DEF Pooled

(* What a step of a checkpoint thread's makes of the applied transactions. *)
Advanced(q, v, e, g) ==
  /\ \A d \in Dir : d # e => Applied(d)' = Applied(d)
  /\ v = "save" => Applied(e)' = Applied(e)
  /\ v = "clear" => Applied(e)' = Applied(e) \cup {g}
  /\ \A h \in Applied(e) : h < g /\ h \in Nat
  /\ \A p \in Queue : p # q => kpc'[p] = kpc[p]
  /\ \A p \in Queue : p # q /\ kpc[p] = "save" => job[p][1] # e

LEMMA AppliedBy ==
  ASSUME IInv, Order, NEW q \in Queue, kpc[q] \in {"load", "save"},
         NEW v \in {"save", "clear"}, kpc' = [kpc EXCEPT ![q] = v],
         txs' = txs, done' = done, job' = job,
         NEW e, e = job[q][1], NEW g, g = job[q][2]
  PROVE  Advanced(q, v, e, g)
<1>1. e \in Dir /\ g \in Nat /\ job[q] = <<e, g>>
  BY DEF IInv, TInv, TypeOK
<1>2. QueueOf[e] = q /\ AtWork(e, g) /\ g \in All(e)
  BY <1>1, JobThere
<1>3. kpc'[q] = v /\ \A p \in Queue : p # q => kpc'[p] = kpc[p]
  BY DEF IInv, TInv, TypeOK
<1>4. \A d \in Dir, h \in Nat : AtWork(d, h)' <=> AtWork(d, h)
  BY <1>3, QueueAssumption DEF AtWork
<1>5. \A d \in Dir : All(d)' = All(d) /\ All(d) \subseteq Nat
  BY DEF All
<1>6. \A h \in Nat : AtWork(e, h) <=> h = g
  BY <1>1, <1>2 DEF AtWork
<1>7. ASSUME NEW d \in Dir, d # e
      PROVE  Applied(d)' = Applied(d)
  <2>1. CASE QueueOf[d] = q
    <3>1. \A h \in Nat : ~AtWork(d, h)
      BY <1>1, <1>7, <2>1 DEF AtWork
    <3> QED BY <1>4, <1>5, <3>1 DEF Applied
  <2>2. CASE QueueOf[d] # q
    <3>1. kpc'[QueueOf[d]] = kpc[QueueOf[d]]
      BY <1>3, <2>2, QueueAssumption
    <3> QED BY <1>4, <1>5, <3>1 DEF Applied
  <2> QED BY <2>1, <2>2
<1>8. Applied(e) = done[e] /\ done'[e] = done[e]
  BY <1>2 DEF Applied
<1>9. v # "clear" => Applied(e)' = Applied(e)
  BY <1>2, <1>3, <1>8 DEF Applied
<1>10. v = "clear" => Applied(e)' = Applied(e) \cup {g}
  <2> SUFFICES ASSUME v = "clear" PROVE Applied(e)' = done[e] \cup {g}
    BY <1>8
  <2>1. \A h \in All(e) : AtWork(e, h)' <=> h = g
    BY <1>1, <1>4, <1>5, <1>6
  <2> QED BY <1>1, <1>2, <1>3, <1>5, <2>1 DEF Applied
<1>11. \A h \in Applied(e) : h < g /\ h \in Nat
  <2>1. g \in All(e) \ done[e]
    BY <1>1, <1>2, OldestFirst
  <2>2. \A h \in done[e] : h < g
    BY <1>1, <2>1, OldestFirst
  <2>3. done[e] \subseteq Nat
    BY <1>1, <1>5, <1>8, AppliedIn
  <2> QED BY <1>8, <2>2, <2>3
<1>12. \A p \in Queue : p # q /\ kpc[p] = "save" => job[p][1] # e
  <2> SUFFICES ASSUME NEW p \in Queue, p # q, kpc[p] = "save"
               PROVE  job[p][1] # e
    OBVIOUS
  <2>1. QueueOf[job[p][1]] = p
    BY JobThere
  <2> QED BY <1>2, <2>1
<1> QED BY <1>1, <1>3, <1>7, <1>8, <1>9, <1>10, <1>11, <1>12 DEF Advanced

(* A removed directory is not one whose names matter.                      *)
LEMMA RemovedPooled ==
  ASSUME IInv, Order, Pooled, NEW q \in Queue, SyncRemoved(q)
  PROVE  Pooled'
<1>1. /\ kpc[q] = "load" /\ kpc' = [kpc EXCEPT ![q] = "clear"]
      /\ JobTx(q).status = "deleted"
      /\ dentryObj' = [dentryObj EXCEPT ![job[q][1]] = None]
      /\ UNCHANGED <<used, alive, mem, todo, txs, done, job, buf>>
  BY DEF SyncRemoved, memVars
<1>2. PICK e : e = job[q][1]
  OBVIOUS
<1>3. e \in Dir /\ job[q][2] \in All(e) /\ e \notin alive
  <2>1. e \in Dir /\ job[q][2] \in All(e)
    BY <1>1, <1>2, JobThere
  <2> QED BY <1>1, <1>2, <2>1 DEF Pooled, Births, JobTx
<1>4. /\ \A d \in Dir : d # e => Applied(d)' = Applied(d)
      /\ Applied(e)' = Applied(e) \cup {job[q][2]}
      /\ \A p \in Queue : p # q => kpc'[p] = kpc[p]
      /\ \A p \in Queue : p # q /\ kpc[p] = "save" => job[p][1] # e
  <2>0. PICK v : v = "clear"
    OBVIOUS
  <2>1. kpc[q] \in {"load", "save"} /\ v \in {"save", "clear"}
    BY <1>1, <2>0
  <2>2. kpc' = [kpc EXCEPT ![q] = v]
    BY <1>1, <2>0
  <2>3. txs' = txs /\ done' = done /\ job' = job
    BY <1>1
  <2>4. PICK g : g = job[q][2]
    OBVIOUS
  <2>5. Advanced(q, v, e, g)
    BY <1>2, <2>1, <2>2, <2>3, <2>4, AppliedBy
  <2> QED BY <2>0, <2>4, <2>5 DEF Advanced
<1>5. \A d \in Dir : dentryObj'[d] = IF d = e THEN None ELSE dentryObj[d]
  BY <1>1, <1>2 DEF IInv, TInv, TypeOK
<1>6. \A d \in Dir : All(d)' = All(d)
  BY <1>1 DEF All
<1>7. Known'
  BY <1>1, <1>5 DEF Pooled, Known
<1>8. Births'
  <2> SUFFICES ASSUME NEW d \in Dir
               PROVE  /\ \A g \in All(d)' : \A h \in All(d)' :
                           txs'[d][g].status = "created" /\ txs'[d][h].status = "created" => g = h
                      /\ \A g \in All(d)' : txs'[d][g].status = "created" /\ g \notin Applied(d)' =>
                           dentryObj'[d] = None
                      /\ \A g \in All(d)' : txs'[d][g].status = "deleted" => d \notin alive'
    BY DEF Births
  <2>1. /\ \A g \in All(d) : \A h \in All(d) :
             txs[d][g].status = "created" /\ txs[d][h].status = "created" => g = h
        /\ \A g \in All(d) : txs[d][g].status = "created" /\ g \notin Applied(d) =>
             dentryObj[d] = None
        /\ \A g \in All(d) : txs[d][g].status = "deleted" => d \notin alive
    BY DEF Pooled, Births
  <2> QED BY <1>1, <1>4, <1>5, <1>6, <2>1
<1>9. Making'
  <2> SUFFICES ASSUME NEW w \in Worker, NEW k \in 1 .. Len(todo[w])
               PROVE  /\ todo[w][k].fn = "rmself" => todo[w][k].dir \notin alive
                      /\ todo[w][k].fn = "mkself" =>
                           /\ dentryObj'[todo[w][k].dir] = None
                           /\ \A g \in 1 .. Len(txs[todo[w][k].dir]) :
                                txs[todo[w][k].dir][g].status # "created"
                           /\ \A j \in 1 .. Len(todo[w]) : todo[w][j].dir = todo[w][k].dir => j = k
    BY <1>1 DEF Making, All
  <2>1. todo[w][k].dir \in Dir
    <3>1. todo[w] \in Seq(CallType)
      BY DEF IInv, TInv, TypeOK
    <3>2. todo[w][k] \in CallType
      BY <3>1
    <3> QED BY <3>2 DEF CallType
  <2> QED BY <1>5, <2>1 DEF Pooled, Making, All
<1>10. Loaded'
  <2>1. kpc'[q] = "clear"
    BY <1>1 DEF IInv, TInv, TypeOK
  <2>2. \A p \in Queue : kpc'[p] = "save" =>
          /\ kpc[p] = "save" /\ job'[p] = job[p] /\ buf'[p] = buf[p]
          /\ dentryObj'[job[p][1]] = dentryObj[job[p][1]]
    <3> SUFFICES ASSUME NEW p \in Queue, kpc'[p] = "save"
                 PROVE  kpc[p] = "save" /\ dentryObj'[job[p][1]] = dentryObj[job[p][1]]
      BY <1>1
    <3>1. p # q /\ kpc[p] = "save" /\ job[p][1] # e
      BY <1>4, <2>1
    <3>2. job[p][1] \in Dir
      BY <3>1, JobThere
    <3> QED BY <1>5, <3>1, <3>2
  <2> QED BY <1>1, <2>2, LoadedKept DEF Pooled
<1>11. InPool'
  <2> SUFFICES ASSUME NEW d \in alive, NEW n \in Name
               PROVE  Says(NameLog(d, n)', Applied(d)', PoolName(d, n)')
    BY <1>1 DEF InPool
  <2>1. d \in Dir /\ d # e
    BY <1>3 DEF IInv, TInv, TypeOK
  <2>2. NameLog(d, n)' = NameLog(d, n) /\ Applied(d)' = Applied(d) /\ PoolName(d, n)' = PoolName(d, n)
    BY <1>1, <1>4, <1>5, <2>1 DEF NameLog, All, PoolName
  <2>3. Says(NameLog(d, n), Applied(d), PoolName(d, n))
    BY DEF Pooled, InPool
  <2> QED BY <2>2, <2>3
<1> QED BY <1>7, <1>8, <1>9, <1>10, <1>11 DEF Pooled

(* A new directory is empty when its first transaction is applied; any     *)
(* other has its object read.                                              *)
LEMMA LoadPooled ==
  ASSUME IInv, Order, Pooled, NEW q \in Queue, SyncLoad(q), Running'
  PROVE  Pooled'
<1>1. /\ kpc[q] = "load" /\ kpc' = [kpc EXCEPT ![q] = "save"]
      /\ UNCHANGED <<used, alive, mem, todo, txs, done, job, dentryObj>>
      /\ ReadDentry(q)
  BY DEF SyncLoad, memVars
<1>2. PICK e : e = job[q][1]
  OBVIOUS
<1>3. e \in Dir /\ job[q][2] \in All(e)
  BY <1>1, <1>2, JobThere
<1>4. /\ \A d \in Dir : Applied(d)' = Applied(d)
      /\ \A h \in Applied(e) : h < job[q][2] /\ h \in Nat
      /\ \A p \in Queue : p # q => kpc'[p] = kpc[p]
  <2>0. PICK v : v = "save"
    OBVIOUS
  <2>1. kpc[q] \in {"load", "save"} /\ v \in {"save", "clear"}
    BY <1>1, <2>0
  <2>2. kpc' = [kpc EXCEPT ![q] = v]
    BY <1>1, <2>0
  <2>3. txs' = txs /\ done' = done /\ job' = job
    BY <1>1
  <2>4. PICK g : g = job[q][2]
    OBVIOUS
  <2>5. Advanced(q, v, e, g)
    BY <1>2, <2>1, <2>2, <2>3, <2>4, AppliedBy
  <2> QED BY <2>0, <2>4, <2>5 DEF Advanced
<1>5. /\ \A p \in Queue : p # q => buf'[p] = buf[p]
      /\ \/ JobTx(q).status = "created" /\ buf'[q] = NoNames
         \/ JobTx(q).status # "created" /\ dentryObj[e] # None /\ buf'[q] = dentryObj[e]
  BY <1>1, <1>2 DEF ReadDentry, Running, IInv, TInv, TypeOK
<1>6. JobTx(q).status = "created" => dentryObj[e] = None
  <2>1. job[q][2] \notin Applied(e)
    <3>1. job[q][2] \in Nat
      BY <1>3 DEF All
    <3> QED BY <1>4, <3>1
  <2> QED BY <1>2, <1>3, <2>1 DEF Pooled, Births, JobTx
<1>7. Loaded'
  <2> SUFFICES ASSUME NEW p \in Queue, kpc'[p] = "save"
               PROVE  /\ \A n \in Name : buf'[p][n] = PoolName(job[p][1], n)
                      /\ JobTx(p).status = "created" \/ dentryObj[job[p][1]] # None
    BY <1>1 DEF Loaded, PoolName, JobTx
  <2>1. CASE p = q
    BY <1>2, <1>5, <1>6, <2>1 DEF PoolName, NoNames
  <2>2. CASE p # q
    BY <1>4, <1>5, <2>2 DEF Pooled, Loaded
  <2> QED BY <2>1, <2>2
<1>8. ASSUME NEW d \in Dir
      PROVE  /\ Applied(d)' = Applied(d) /\ All(d) \subseteq All(d)'
             /\ \A g \in All(d) : /\ txs'[d][g].dentries = txs[d][g].dentries
                                  /\ txs'[d][g].status = txs[d][g].status
             /\ \A g \in All(d)' : g \notin All(d) => txs'[d][g].status = "unchanged"
             /\ d \notin used => txs'[d] = <<>>
  BY <1>1, <1>4 DEF All, Pooled, Known
<1> QED BY <1>1, <1>7, <1>8, PooledKept

(* The object gets what the transaction says, and keeps the rest.          *)
LEMMA SavePooled ==
  ASSUME IInv, Order, Pooled, NEW q \in Queue, SyncSave(q)
  PROVE  Pooled'
<1>1. /\ kpc[q] = "save" /\ kpc' = [kpc EXCEPT ![q] = "clear"]
      /\ buf' = [buf EXCEPT ![q] = NoNames]
      /\ UNCHANGED <<used, alive, mem, todo, txs, done, job>>
  BY DEF SyncSave, memVars
<1>2. PICK e : e = job[q][1]
  OBVIOUS
<1>3. PICK g : g = job[q][2]
  OBVIOUS
<1>4. e \in Dir /\ g \in All(e) /\ g \in Nat /\ JobTx(q) = txs[e][g]
  BY <1>1, <1>2, <1>3, JobThere DEF JobTx, All
<1>5. /\ \A d \in Dir : d # e => Applied(d)' = Applied(d)
      /\ Applied(e)' = Applied(e) \cup {g}
      /\ \A h \in Applied(e) : h < g /\ h \in Nat
      /\ \A p \in Queue : p # q => kpc'[p] = kpc[p]
      /\ \A p \in Queue : p # q /\ kpc[p] = "save" => job[p][1] # e
  <2>0. PICK v : v = "clear"
    OBVIOUS
  <2>1. kpc[q] \in {"load", "save"} /\ v \in {"save", "clear"}
    BY <1>1, <2>0
  <2>2. kpc' = [kpc EXCEPT ![q] = v]
    BY <1>1, <2>0
  <2>3. txs' = txs /\ done' = done /\ job' = job
    BY <1>1
  <2>4. Advanced(q, v, e, g)
    BY <1>2, <1>3, <2>1, <2>2, <2>3, AppliedBy
  <2> QED BY <2>0, <2>4 DEF Advanced
<1>6. PICK o : o = [n \in Name |->
         IF IsAlive(txs[e][g].dentries[n]) THEN txs[e][g].dentries[n].ino
         ELSE IF IsDead(txs[e][g].dentries[n]) THEN None ELSE buf[q][n]]
  OBVIOUS
<1>7. \A d \in Dir : dentryObj'[d] = IF d = e THEN o ELSE dentryObj[d]
  <2>1. dentryObj' = [dentryObj EXCEPT ![e] = o]
    BY <1>2, <1>4, <1>6 DEF SyncSave
  <2> QED BY <2>1 DEF IInv, TInv, TypeOK
<1>8. \A d \in Dir : All(d)' = All(d)
  BY <1>1 DEF All
<1>9. \A n \in Name : txs[e][g].dentries[n] \in [alive : BOOLEAN, ino : Ino] \cup {None}
  <2>1. txs[e] \in Seq(TxType)
    BY <1>4 DEF IInv, TInv, TypeOK
  <2>2. txs[e][g] \in TxType
    BY <1>4, <2>1 DEF All
  <2> QED BY <2>2 DEF TxType
<1>10. o # None
  <2>1. \A n \in Name : buf[q][n] \in Ino \cup {None}
    BY DEF IInv, TInv, TypeOK
  <2>2. \A n \in Name : o[n] \in Ino \cup {None}
    BY <1>6, <1>9, <2>1 DEF IsAlive
  <2>3. o \in [Name -> Ino \cup {None}]
    BY <1>6, <2>2
  <2> QED BY <2>3, NoneAssumption
<1>11. /\ \A n \in Name : buf[q][n] = PoolName(e, n)
       /\ txs[e][g].status = "created" \/ dentryObj[e] # None
  BY <1>1, <1>2, <1>4 DEF Pooled, Loaded
<1>12. Known'
  <2>1. e \in used
    BY <1>4 DEF Pooled, Known, All
  <2> QED BY <1>1, <1>7, <2>1 DEF Pooled, Known
<1>13. Births'
  <2> SUFFICES ASSUME NEW d \in Dir
               PROVE  /\ \A i \in All(d)' : \A h \in All(d)' :
                           txs'[d][i].status = "created" /\ txs'[d][h].status = "created" => i = h
                      /\ \A i \in All(d)' : txs'[d][i].status = "created" /\ i \notin Applied(d)' =>
                           dentryObj'[d] = None
                      /\ \A i \in All(d)' : txs'[d][i].status = "deleted" => d \notin alive'
    BY DEF Births
  <2>1. /\ \A i \in All(d) : \A h \in All(d) :
             txs[d][i].status = "created" /\ txs[d][h].status = "created" => i = h
        /\ \A i \in All(d) : txs[d][i].status = "created" /\ i \notin Applied(d) =>
             dentryObj[d] = None
        /\ \A i \in All(d) : txs[d][i].status = "deleted" => d \notin alive
    BY DEF Pooled, Births
  <2>2. CASE d # e
    BY <1>1, <1>5, <1>7, <1>8, <2>1, <2>2
  <2>3. CASE d = e
    <3>1. \A i \in All(e) : txs[e][i].status = "created" => i \in Applied(e) \cup {g}
      BY <1>4, <1>11, <2>1, <2>3
    <3> QED BY <1>1, <1>5, <1>8, <2>1, <2>3, <3>1
  <2> QED BY <2>2, <2>3
<1>14. Making'
  <2> SUFFICES ASSUME NEW w \in Worker, NEW k \in 1 .. Len(todo[w])
               PROVE  /\ todo[w][k].fn = "rmself" => todo[w][k].dir \notin alive
                      /\ todo[w][k].fn = "mkself" =>
                           /\ dentryObj'[todo[w][k].dir] = None
                           /\ \A i \in 1 .. Len(txs[todo[w][k].dir]) :
                                txs[todo[w][k].dir][i].status # "created"
                           /\ \A j \in 1 .. Len(todo[w]) : todo[w][j].dir = todo[w][k].dir => j = k
    BY <1>1 DEF Making, All
  <2>1. PICK i \in Dir : i = todo[w][k].dir
    <3>1. todo[w] \in Seq(CallType)
      BY DEF IInv, TInv, TypeOK
    <3>2. todo[w][k] \in CallType
      BY <3>1
    <3> QED BY <3>2 DEF CallType
  <2>2. /\ todo[w][k].fn = "rmself" => i \notin alive
        /\ todo[w][k].fn = "mkself" =>
             /\ dentryObj[i] = None
             /\ \A h \in 1 .. Len(txs[i]) : txs[i][h].status # "created"
             /\ \A j \in 1 .. Len(todo[w]) : todo[w][j].dir = i => j = k
    BY <2>1 DEF Pooled, Making, All
  <2>3. todo[w][k].fn = "mkself" => i # e
    BY <1>4, <1>11, <2>2 DEF All
  <2> QED BY <1>7, <2>1, <2>2, <2>3
<1>15. Loaded'
  <2>1. kpc'[q] = "clear" /\ \A p \in Queue : p # q => buf'[p] = buf[p]
    BY <1>1 DEF IInv, TInv, TypeOK
  <2>2. \A p \in Queue : kpc'[p] = "save" =>
          /\ kpc[p] = "save" /\ job'[p] = job[p] /\ buf'[p] = buf[p]
          /\ dentryObj'[job[p][1]] = dentryObj[job[p][1]]
    <3> SUFFICES ASSUME NEW p \in Queue, kpc'[p] = "save"
                 PROVE  /\ kpc[p] = "save" /\ buf'[p] = buf[p]
                        /\ dentryObj'[job[p][1]] = dentryObj[job[p][1]]
      BY <1>1
    <3>1. p # q /\ kpc[p] = "save" /\ job[p][1] # e
      BY <1>5, <2>1
    <3>2. job[p][1] \in Dir
      BY <3>1, JobThere
    <3> QED BY <1>7, <2>1, <3>1, <3>2
  <2> QED BY <1>1, <2>2, LoadedKept DEF Pooled
<1>16. InPool'
  <2> SUFFICES ASSUME NEW d \in alive, NEW n \in Name
               PROVE  Says(NameLog(d, n)', Applied(d)', PoolName(d, n)')
    BY <1>1 DEF InPool
  <2>1. d \in Dir /\ NameLog(d, n)' = NameLog(d, n)
    BY <1>1 DEF IInv, TInv, TypeOK, NameLog, All
  <2>2. Says(NameLog(d, n), Applied(d), PoolName(d, n))
    BY DEF Pooled, InPool
  <2>3. CASE d # e
    <3>1. Applied(d)' = Applied(d) /\ PoolName(d, n)' = PoolName(d, n)
      BY <1>5, <1>7, <2>1, <2>3 DEF PoolName
    <3> QED BY <2>1, <2>2, <3>1
  <2>4. CASE d = e
    <3>1. PICK L : L = NameLog(e, n)
      OBVIOUS
    <3>2. L[g] = txs[e][g].dentries[n]
      BY <1>4, <3>1 DEF NameLog
    <3>3. PoolName(e, n)' = o[n]
      BY <1>4, <1>7, <1>10 DEF PoolName
    <3>4. /\ L[g] # None => Says(L, Applied(e) \cup {g}, EntryIno(L[g]))
          /\ L[g] = None => \A v : Says(L, Applied(e), v) => Says(L, Applied(e) \cup {g}, v)
      <4>1. Applied(e) \in SUBSET Nat /\ \A h \in Applied(e) : h < g /\ L[h] = L[h]
        BY <1>5
      <4> QED BY <1>4, <4>1, SaysTop
    <3>5. CASE L[g] # None
      <4>1. o[n] = EntryIno(L[g])
        <5>1. L[g].alive \in BOOLEAN
          BY <1>9, <3>2, <3>5
        <5>2. o[n] = IF IsAlive(L[g]) THEN L[g].ino
                     ELSE IF IsDead(L[g]) THEN None ELSE buf[q][n]
          BY <1>6, <3>2
        <5> QED BY <3>5, <5>1, <5>2 DEF IsAlive, IsDead, EntryIno
      <4>2. Says(L, Applied(e) \cup {g}, o[n])
        BY <3>4, <3>5, <4>1
      <4> QED BY <1>5, <2>1, <2>4, <3>1, <3>3, <4>2
    <3>6. CASE L[g] = None
      <4>1. o[n] = PoolName(e, n)
        BY <1>6, <1>11, <3>2, <3>6 DEF IsAlive, IsDead
      <4>2. Says(L, Applied(e) \cup {g}, o[n])
        BY <2>2, <2>4, <3>1, <3>4, <3>6, <4>1
      <4> QED BY <1>5, <2>1, <2>4, <3>1, <3>3, <4>2
    <3> QED BY <3>5, <3>6
  <2> QED BY <2>3, <2>4
<1> QED BY <1>12, <1>13, <1>14, <1>15, <1>16 DEF Pooled

----------------------------------------------------------------------------
(* The remaining steps.                                                    *)

(* A step that leaves every log alone, and what the checkpoint threads do. *)
LEMMA QuietNames ==
  ASSUME IInv, Order, Logged, Pooled,
         UNCHANGED <<used, alive, mem, todo, lock, dentryObj, done, kpc, job, buf>>,
         \A w \in Worker : held'[w] \in {held[w], 0},
         \A d \in Dir : /\ Len(txs'[d]) = Len(txs[d])
                        /\ \A g \in All(d) : /\ txs'[d][g].dentries = txs[d][g].dentries
                                             /\ txs'[d][g].status = txs[d][g].status,
         \A d \in Dir : txs[d] = <<>> => txs'[d] = <<>>
  PROVE  Logged' /\ Pooled'
<1>1. Logged'
  BY LoggedKept
<1>2. ASSUME NEW d \in Dir
      PROVE  /\ Applied(d)' = Applied(d) /\ All(d) \subseteq All(d)'
             /\ \A g \in All(d) : /\ txs'[d][g].dentries = txs[d][g].dentries
                                  /\ txs'[d][g].status = txs[d][g].status
             /\ \A g \in All(d)' : g \notin All(d) => txs'[d][g].status = "unchanged"
             /\ d \notin used => txs'[d] = <<>>
  <2>1. All(d)' = All(d)
    BY DEF All
  <2>2. \A g : AtWork(d, g)' <=> AtWork(d, g)
    BY DEF AtWork
  <2>3. Applied(d)' = Applied(d)
    BY <2>1, <2>2 DEF Applied
  <2>4. d \notin used => txs'[d] = <<>>
    BY DEF Pooled, Known
  <2> QED BY <2>1, <2>3, <2>4
<1>3. Loaded'
  <2>1. \A q \in Queue : kpc'[q] = "save" =>
          /\ kpc[q] = "save" /\ job'[q] = job[q] /\ buf'[q] = buf[q]
          /\ dentryObj'[job[q][1]] = dentryObj[job[q][1]]
    OBVIOUS
  <2> QED BY <2>1, LoadedKept DEF Pooled
<1>4. Pooled'
  BY <1>2, <1>3, PooledKept
<1> QED BY <1>1, <1>4

(* Sealing a transaction changes nothing it says.                          *)
LEMMA CommitNames ==
  ASSUME IInv, Order, Logged, Pooled, NEW e \in Dir, Commit(e)
  PROVE  Logged' /\ Pooled'
<1>1. PICK b : b = batch[e]
  OBVIOUS
<1>2. ~txs[e][b].committed
  BY <1>1, CommitOrder
<1>3. PICK t : t = [txs[e][b] EXCEPT !.committed = TRUE, !.offset = Len(journalObj[e]) + 1]
  OBVIOUS
<1>4. /\ b \in 1 .. Len(txs[e]) /\ t \in TxType
      /\ txs' = [txs EXCEPT ![e] = [txs[e] EXCEPT ![b] = t]]
  BY <1>1, <1>2, <1>3, CommitChange DEF IInv
<1>5. txs[e] \in Seq(TxType) /\ txs \in [Dir -> Seq(TxType)]
  BY DEF IInv, TInv, TypeOK
<1>6. txs[e][b] \in TxType
  BY <1>4, <1>5
<1>7. t.dentries = txs[e][b].dentries /\ t.status = txs[e][b].status
  BY <1>3, <1>6 DEF TxType
<1>8. ASSUME NEW d \in Dir
      PROVE  /\ Len(txs'[d]) = Len(txs[d])
             /\ \A g \in All(d) : /\ txs'[d][g].dentries = txs[d][g].dentries
                                  /\ txs'[d][g].status = txs[d][g].status
             /\ txs[d] = <<>> => txs'[d] = <<>>
  <2>1. CASE d # e
    BY <1>4, <1>5, <2>1
  <2>2. CASE d = e
    <3>1. txs'[e] = [txs[e] EXCEPT ![b] = t]
      BY <1>4, <1>5
    <3>2. Len(txs'[e]) = Len(txs[e]) /\ \A g \in All(e) : txs'[e][g] = IF g = b THEN t ELSE txs[e][g]
      BY <1>5, <3>1 DEF All
    <3>3. txs[e] # <<>>
      BY <1>4
    <3> QED BY <1>7, <2>2, <3>2, <3>3
  <2> QED BY <2>1, <2>2
<1>9. /\ UNCHANGED <<used, alive, mem, todo, lock, dentryObj, done, kpc, job, buf>>
      /\ \A w \in Worker : held'[w] \in {held[w], 0}
  BY DEF Commit, memVars, cpVars
<1> QED BY <1>8, <1>9, QuietNames

(* What a checkpoint thread takes from its queue is not applied yet, what  *)
(* it puts aside stays applied.                                            *)
LEMMA MovedNames ==
  ASSUME IInv, Order, Logged, Pooled,
         UNCHANGED <<used, alive, mem, todo, lock, held, dentryObj, txs, buf>>,
         NEW q \in Queue, kpc[q] # "save", kpc'[q] # "save",
         \A p \in Queue : p # q => kpc'[p] = kpc[p] /\ job'[p] = job[p],
         \A d \in Dir : Applied(d)' = Applied(d)
  PROVE  Logged' /\ Pooled'
<1>1. Logged'
  BY LoggedKept
<1>2. ASSUME NEW d \in Dir
      PROVE  /\ Applied(d)' = Applied(d) /\ All(d) \subseteq All(d)'
             /\ \A g \in All(d) : /\ txs'[d][g].dentries = txs[d][g].dentries
                                  /\ txs'[d][g].status = txs[d][g].status
             /\ \A g \in All(d)' : g \notin All(d) => txs'[d][g].status = "unchanged"
             /\ d \notin used => txs'[d] = <<>>
  BY DEF All, Pooled, Known
<1>3. Loaded'
  <2>1. \A p \in Queue : kpc'[p] = "save" =>
          /\ kpc[p] = "save" /\ job'[p] = job[p] /\ buf'[p] = buf[p]
          /\ dentryObj'[job[p][1]] = dentryObj[job[p][1]]
    OBVIOUS
  <2> QED BY <2>1, LoadedKept DEF Pooled
<1>4. Pooled'
  BY <1>2, <1>3, PooledKept
<1> QED BY <1>1, <1>4

LEMMA DispatchNames ==
  ASSUME IInv, Order, Logged, Pooled, NEW q \in Queue, Dispatch(q)
  PROVE  Logged' /\ Pooled'
<1>1. /\ UNCHANGED <<used, alive, mem, todo, lock, held, dentryObj, txs, buf, done>>
      /\ kpc[q] = "idle"
  BY DEF Dispatch, memVars, poolVars
<1>2. /\ kpc'[q] \in {"load", "exit"}
      /\ \A p \in Queue : p # q => kpc'[p] = kpc[p] /\ job'[p] = job[p]
  BY DEF Dispatch, IInv, TInv, TypeOK
<1>3. ASSUME NEW d \in Dir
      PROVE  Applied(d)' = Applied(d)
  <2>1. All(d)' = All(d) /\ done'[d] = done[d] /\ QueueOf[d] \in Queue
    BY <1>1, QueueAssumption DEF All
  <2>2. CASE QueueOf[d] = q
    BY <1>1, <1>2, <2>1, <2>2 DEF Applied
  <2>3. CASE QueueOf[d] # q
    BY <1>2, <2>1, <2>3 DEF Applied, AtWork
  <2> QED BY <2>2, <2>3
<1> QED BY <1>1, <1>2, <1>3, MovedNames

LEMMA ClearNames ==
  ASSUME IInv, Order, Logged, Pooled, NEW q \in Queue, Clear(q)
  PROVE  Logged' /\ Pooled'
<1>1. /\ UNCHANGED <<used, alive, mem, todo, lock, held, dentryObj, txs, buf>>
      /\ kpc[q] = "clear"
      /\ kpc' = [kpc EXCEPT ![q] = "idle"] /\ job' = [job EXCEPT ![q] = <<Root, 0>>]
  BY DEF Clear, memVars
<1>2. /\ kpc'[q] = "idle"
      /\ \A p \in Queue : p # q => kpc'[p] = kpc[p] /\ job'[p] = job[p]
  BY <1>1 DEF IInv, TInv, TypeOK
<1>3. PICK e : e = job[q][1]
  OBVIOUS
<1>4. PICK g : g = job[q][2]
  OBVIOUS
<1>5. e \in Dir /\ g \in All(e) /\ QueueOf[e] = q /\ AtWork(e, g)
  BY <1>1, <1>3, <1>4, JobThere
<1>6. \A d \in Dir : done'[d] = IF d = e THEN done[d] \cup {g} ELSE done[d]
  <2>1. done' = [done EXCEPT ![e] = done[e] \cup {g}]
    BY <1>3, <1>4 DEF Clear
  <2> QED BY <1>5, <2>1 DEF IInv, TInv, TypeOK
<1>7. ASSUME NEW d \in Dir
      PROVE  Applied(d)' = Applied(d)
  <2>1. All(d)' = All(d) /\ QueueOf[d] \in Queue
    BY <1>1, QueueAssumption DEF All
  <2>2. CASE QueueOf[d] = q
    <3>1. Applied(d)' = done'[d]
      BY <1>2, <2>1, <2>2 DEF Applied
    <3>2. job[q] = <<e, g>>
      BY <1>3, <1>4 DEF IInv, TInv, TypeOK
    <3>3. \A h \in All(d) : AtWork(d, h) <=> d = e /\ h = g
      BY <1>1, <2>2, <3>2 DEF AtWork
    <3>4. Applied(d) = IF d = e THEN done[d] \cup {g} ELSE done[d]
      BY <1>1, <1>5, <2>2, <3>3 DEF Applied
    <3> QED BY <1>6, <3>1, <3>4
  <2>3. CASE QueueOf[d] # q
    BY <1>2, <1>5, <1>6, <2>1, <2>3 DEF Applied, AtWork
  <2> QED BY <2>2, <2>3
<1> QED BY <1>1, <1>2, <1>7, MovedNames

(* A process that has thrown does nothing. *)
LEMMA StepsRun == Next => Running
<1>1. \A w \in Worker : Operation(w) => Running
  <2> SUFFICES ASSUME NEW w \in Worker, Operation(w) PROVE Running
    OBVIOUS
  <2>1. \E locks, calls : Begin(w, locks, calls)
    BY OperationBegins
  <2> QED BY <2>1 DEF Begin
<1>2. \A w \in Worker : JournalStep(w) => Running
  BY DEF JournalStep, GetEntry, Retry, Record
<1>3. CommitStep \/ RaiseStop => Running
  BY DEF CommitStep, ReplaceMap, Commit, Issue, Leave, RaiseStop
<1>4. \A q \in Queue : CheckpointStep(q) => Running
  BY DEF CheckpointStep, Dispatch, SyncRemoved, SyncLoad, SyncSave, Clear
<1> QED BY <1>1, <1>2, <1>3, <1>4 DEF Next

(* Steps of a checkpoint thread. *)
LEMMA SyncNames ==
  ASSUME IInv, Order, Logged, Pooled, NEW q \in Queue, Running',
         SyncRemoved(q) \/ SyncLoad(q) \/ SyncSave(q)
  PROVE  Logged' /\ Pooled'
<1>1. UNCHANGED <<used, mem, todo, lock, held, txs>>
  BY DEF SyncRemoved, SyncLoad, SyncSave, memVars
<1>2. Logged'
  BY <1>1, LoggedKept
<1>3. Pooled'
  BY RemovedPooled, LoadPooled, SavePooled
<1> QED BY <1>2, <1>3

(* At first there is nothing to say. *)
LEMMA InitNames == Init => Logged /\ Pooled
<1> SUFFICES ASSUME Init PROVE Logged /\ Pooled
  OBVIOUS
<1>1. /\ \A w \in Worker : todo[w] = <<>> /\ held[w] = 0
      /\ \A d \in Dir : /\ txs[d] = <<>> /\ done[d] = {} /\ mem[d] = NoNames
                        /\ dentryObj[d] = IF d = Root THEN NoNames ELSE None
      /\ \A q \in Queue : kpc[q] = "idle"
      /\ used = {Root} /\ alive = {Root}
  BY DEF Init
<1>2. ASSUME NEW d \in Dir
      PROVE  All(d) = {} /\ Applied(d) = {}
  BY <1>1 DEF All, Applied
<1>3. ASSUME NEW d \in Dir, NEW n \in Name
      PROVE  NameLogged(d, n) /\ Says(NameLog(d, n), Applied(d), None)
  <2>1. Says(NameLog(d, n), All(d), None) /\ Says(NameLog(d, n), Applied(d), None)
    BY <1>2 DEF Says, Silent
  <2>2. mem[d][n] = None
    BY <1>1 DEF NoNames
  <2>3. \A w \in Worker : Path(NameTrace(todo[w], d, n), Len(todo[w]), None, mem[d][n])
    BY <1>1 DEF Path
  <2> QED BY <2>1, <2>2, <2>3 DEF NameLogged
<1>4. Locked /\ NothingNewer
  BY <1>1 DEF Locked, NothingNewer
<1>5. Known /\ Births /\ Making /\ Loaded
  BY <1>1, <1>2, RootAssumption DEF Known, Births, Making, Loaded
<1>6. InPool
  <2> SUFFICES ASSUME NEW n \in Name
               PROVE  Says(NameLog(Root, n), Applied(Root), PoolName(Root, n))
    BY <1>1 DEF InPool
  <2>1. PoolName(Root, n) = None
    BY <1>1, RootAssumption DEF PoolName, NoNames
  <2> QED BY <1>3, <2>1, RootAssumption
<1> QED BY <1>3, <1>4, <1>5, <1>6 DEF Logged, Pooled

(* After an exception there is nothing more to keep. *)
Names == Running => Logged /\ Pooled

(* Every step keeps what the transactions and the pool say. *)
LEMMA NextNames ==
  ASSUME IInv, IInv', Order, Names, [Next]_vars
  PROVE  Names'
<1> SUFFICES ASSUME Running' PROVE Logged' /\ Pooled'
  BY DEF Names
<1>1. CASE UNCHANGED vars
  <2>1. /\ UNCHANGED <<used, alive, mem, todo, lock, dentryObj, done, kpc, job, buf, held, txs>>
        /\ failed' = failed
    BY <1>1 DEF vars, memVars, cpVars, poolVars
  <2>2. Logged /\ Pooled
    BY <2>1 DEF Names, Running
  <2> QED BY <2>1, <2>2, QuietNames
<1>2. ASSUME Next
      PROVE  Running
  BY <1>2, StepsRun
<1>3. ASSUME Next
      PROVE  Logged /\ Pooled /\ Known
  BY <1>2, <1>3 DEF Names, Pooled
<1>4. ASSUME NEW w \in Worker, Operation(w)
      PROVE  Logged' /\ Pooled'
  <2>1. Next
    BY <1>4 DEF Next
  <2>2. Starts(w)
    BY <1>3, <1>4, <2>1, OperationStarts
  <2>3. UNCHANGED <<txs, done, queue, kpc, job, buf, dentryObj, held>>
    BY <1>4, BeginQuiet DEF cpVars, poolVars
  <2> QED BY <1>3, <2>1, <2>2, <2>3, StartsLogged, StartsPooled
<1>5. ASSUME NEW w \in Worker, GetEntry(w)
      PROVE  Logged' /\ Pooled'
  BY <1>3, <1>5, GetEntryLogged, GetEntryPooled DEF Next, JournalStep
<1>6. ASSUME NEW w \in Worker, Retry(w)
      PROVE  Logged' /\ Pooled'
  <2>1. UNCHANGED <<used, alive, mem, todo, lock, dentryObj, done, kpc, job, buf, txs>>
    BY <1>6 DEF Retry, cpVars, poolVars
  <2>2. \A i \in Worker : held'[i] \in {held[i], 0}
    BY <1>6 DEF Retry, IInv, TInv, TypeOK
  <2> QED BY <1>3, <1>6, <2>1, <2>2, QuietNames DEF Next, JournalStep
<1>7. ASSUME NEW w \in Worker, Record(w)
      PROVE  Logged' /\ Pooled'
  BY <1>3, <1>7, RecordLogged, RecordPooled DEF Next, JournalStep
<1>8. ASSUME ReplaceMap \/ Issue \/ Leave \/ RaiseStop
      PROVE  Logged' /\ Pooled'
  <2>1. UNCHANGED <<used, alive, mem, todo, lock, dentryObj, done, kpc, job, buf, txs, held>>
    BY <1>8 DEF ReplaceMap, Issue, Leave, RaiseStop, memVars, cpVars, poolVars
  <2>2. Logged /\ Pooled
    BY <1>3, <1>8 DEF Next, CommitStep
  <2> QED BY <2>1, <2>2, QuietNames
<1>9. ASSUME NEW d \in Dir, Commit(d)
      PROVE  Logged' /\ Pooled'
  BY <1>3, <1>9, CommitNames DEF Next, CommitStep
<1>10. ASSUME NEW q \in Queue, CheckpointStep(q)
       PROVE  Logged' /\ Pooled'
  <2>1. Logged /\ Pooled
    BY <1>3, <1>10 DEF Next
  <2> QED BY <1>10, <2>1, DispatchNames, SyncNames, ClearNames DEF CheckpointStep
<1> QED
  BY <1>1, <1>4, <1>5, <1>6, <1>7, <1>8, <1>9, <1>10 DEF Next, JournalStep, CommitStep

LEMMA NamesInductive == Spec => [](IInv /\ Order /\ Names)
<1>1. Init => IInv /\ Order /\ Names
  BY InitInv, InitOrder, InitNames DEF Names
<1>2. IInv /\ Order /\ Names /\ [Next]_vars => (IInv /\ Order /\ Names)'
  BY StepInv, NextOrder, NextNames
<1> QED BY <1>1, <1>2, PTL DEF Spec

(* What the pool would say of a name, once all transactions are            *)
(* checkpointed, is what they say together.                                *)
LEMMA FutureSays ==
  ASSUME IInv, Order, Pooled, NEW d \in alive, NEW n \in Name,
         NEW v, Says(NameLog(d, n), All(d), v)
  PROVE  FutureName(d, n) = v
<1>1. PICK L : L = NameLog(d, n)
  OBVIOUS
<1>2. d \in Dir /\ All(d) \in SUBSET Nat /\ done[d] \subseteq All(d)
  BY DEF IInv, TInv, TypeOK, Order, All
<1>3. \A g \in All(d) : L[g] = txs[d][g].dentries[n]
  BY <1>1 DEF NameLog
<1>4. Pending(d) = All(d) \ done[d]
  BY DEF Pending, All
<1>5. PICK R : R = {g \in All(d) \ done[d] : L[g] # None}
  OBVIOUS
<1>6. R = {g \in Pending(d) : txs[d][g].dentries[n] # None}
  BY <1>3, <1>4, <1>5
<1>7. FutureName(d, n) =
        IF R # {} THEN IF txs[d][Newest(R)].dentries[n].alive
                       THEN txs[d][Newest(R)].dentries[n].ino ELSE None
        ELSE PoolName(d, n)
  BY <1>6 DEF FutureName, PoolName
<1>8. \/ \E g \in All(d) \ done[d] : Latest(L, All(d) \ done[d], L[g]) /\ v = EntryIno(L[g])
      \/ Silent(L, All(d) \ done[d]) /\ Says(L, done[d], v)
  <2>1. \A g \in All(d) \ done[d], h \in done[d] : h < g
    BY <1>2, OldestFirst
  <2> QED BY <1>1, <1>2, <2>1, SaysSplit
<1>9. CASE \E g \in All(d) \ done[d] : Latest(L, All(d) \ done[d], L[g]) /\ v = EntryIno(L[g])
  <2>1. PICK g \in All(d) \ done[d] : Latest(L, All(d) \ done[d], L[g]) /\ v = EntryIno(L[g])
    BY <1>9
  <2>2. R # {} /\ Newest(R) \in All(d) \ done[d] /\ L[Newest(R)] = L[g]
    BY <1>2, <1>5, <2>1, NewestIs
  <2>3. txs[d][Newest(R)].dentries[n] = L[g]
    BY <1>3, <2>2
  <2> QED BY <1>7, <2>1, <2>2, <2>3 DEF EntryIno
<1>10. CASE Silent(L, All(d) \ done[d]) /\ Says(L, done[d], v)
  <2>1. R = {}
    BY <1>5, <1>10 DEF Silent
  <2>2. Says(L, Applied(d), v)
    <3>1. done[d] \subseteq Applied(d) /\ Applied(d) \subseteq All(d)
      BY <1>2, AppliedIn DEF Applied
    <3>2. \A g \in Applied(d) : g \notin done[d] => L[g] = None
      BY <1>10, <3>1 DEF Silent
    <3>3. Silent(L, Applied(d)) <=> Silent(L, done[d])
      BY <3>1, <3>2 DEF Silent
    <3>4. \A u : Latest(L, done[d], u) => Latest(L, Applied(d), u)
      BY <3>1, <3>2 DEF Latest
    <3> QED BY <1>10, <3>1, <3>3, <3>4 DEF Says
  <2>3. Says(L, Applied(d), PoolName(d, n))
    BY <1>1 DEF Pooled, InPool
  <2>4. Applied(d) \in SUBSET Nat
    BY <1>2, AppliedIn
  <2>5. PoolName(d, n) = v
    BY <2>2, <2>3, <2>4, SaysUnique
  <2> QED BY <1>7, <2>1, <2>5
<1> QED BY <1>8, <1>9, <1>10

(***************************************************************************)
(* No change of a name that tx_mkdir, tx_rmdir, tx_mkreg or tx_rmreg has   *)
(* recorded is lost or overtaken on its way from the leader's memory       *)
(* through the transactions, the queues and transaction::sync to the       *)
(* directory's dentry object.                                              *)
(***************************************************************************)
THEOREM NamesAreKept == Spec => []NamesKept
<1>1. IInv /\ Order /\ Names => NamesKept
  <2> SUFFICES ASSUME IInv, Order, Logged, Pooled,
                      NEW d \in alive, NEW n \in Name, ~Unrecorded(d, n)
               PROVE  FutureName(d, n) = mem[d][n]
    BY DEF NamesKept, Names
  <2>1. d \in Dir
    BY DEF IInv, TInv, TypeOK
  <2>2. Says(NameLog(d, n), All(d), mem[d][n])
    BY <2>1 DEF Logged, NameLogged
  <2> QED BY <2>2, FutureSays
<1> QED BY <1>1, NamesInductive, PTL

====
