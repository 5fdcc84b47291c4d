--------------------------- MODULE JournalProofs ---------------------------
(***************************************************************************)
(* Proofs about Journal, for any directories, names, files, workers and    *)
(* queues and any number of operations and retries.                        *)
(***************************************************************************)
EXTENDS Journal, SequenceTheorems, TLAPS

(* The indices that stand for pointers point to transactions.              *)
Pointers ==
  /\ \A w \in Worker :
       held[w] # 0 => /\ todo[w] # <<>>
                      /\ held[w] \in 1 .. Len(txs[Head(todo[w]).dir])
  /\ \A d \in Dir : open[d] <= Len(txs[d]) /\ batch[d] <= Len(txs[d])

(* Transaction g of d is sealed, and in the journal object.                *)
Written(d, g) ==
  /\ g \in 1 .. Len(txs[d])
  /\ txs[d][g].committed
  /\ txs[d][g].offset \in 1 .. Len(journalObj[d])
  /\ journalObj[d][txs[d][g].offset].tx = g

(* Whatever is on its way to a checkpoint thread, or at one, is written.   *)
WrittenFirst ==
  /\ cpc = "issue" /\ Running => Written(cdir, batch[cdir])
  /\ \A q \in Queue, k \in Nat :
       k \in 1 .. Len(queue[q]) /\ queue[q][k] # Stop =>
         Written(queue[q][k][1], queue[q][k][2])
  /\ \A q \in Queue : kpc[q] \notin {"idle", "exit"} =>
       Written(job[q][1], job[q][2])

(* The end marker is the last thing in a queue.                            *)
StopIsLast ==
  /\ \A q \in Queue, k \in Nat :
       k \in 1 .. Len(queue[q]) /\ queue[q][k] = Stop =>
         cpc = "exit" /\ k = Len(queue[q])
  /\ \A q \in Queue : kpc[q] = "exit" => cpc = "exit" /\ queue[q] = <<>>

(* Where a committed transaction is until it is checkpointed.              *)
AtCommit(d, g) == cpc = "issue" /\ cdir = d /\ batch[d] = g
Queued(d, g) == \E k \in 1 .. Len(queue[QueueOf[d]]) : queue[QueueOf[d]][k] = <<d, g>>
AtWork(d, g) ==
  kpc[QueueOf[d]] \notin {"idle", "exit"} /\ job[QueueOf[d]] = <<d, g>>

NoneForgotten ==
  \A d \in Dir, g \in Nat :
    g \in 1 .. Len(txs[d]) /\ txs[d][g].committed =>
      g \in done[d] \/ AtCommit(d, g) \/ Queued(d, g) \/ AtWork(d, g)

TInv == TypeOK /\ Pointers
IInv == TInv /\ WrittenFirst /\ StopIsLast /\ NoneForgotten

----------------------------------------------------------------------------
(* What a journal call makes of a transaction is one, sealed or not as     *)
(* before.                                                                 *)
LEMMA StampSelfType ==
  ASSUME NEW t \in TxType, NEW self \in InodeType
  PROVE  StampSelf(t, self) \in TxType
<1>1. CASE t.s_inode = None
  BY <1>1 DEF StampSelf, TxType
<1>2. CASE t.s_inode # None
  <2>1. t.s_inode \in InodeType
    BY <1>2 DEF TxType
  <2>2. [t.s_inode EXCEPT !.time = self.time] \in InodeType
    BY <2>1 DEF InodeType
  <2> QED
    BY <1>2, <2>2 DEF StampSelf, TxType
<1> QED
  BY <1>1, <1>2

LEMMA EntryType ==
  ASSUME NEW t \in TxType, NEW self \in InodeType, NEW n \in Name \cup {None},
         NEW i \in Ino
  PROVE  /\ tx_mkdir(t, self, n, i) \in TxType
         /\ tx_rmdir(t, self, n, i) \in TxType
<1>1. ASSUME NEW b \in BOOLEAN
      PROVE  [t EXCEPT !.dentries[n] = [alive |-> b, ino |-> i]] \in TxType
  <2>1. [t.dentries EXCEPT ![n] = [alive |-> b, ino |-> i]]
          \in [Name -> [alive : BOOLEAN, ino : Ino] \cup {None}]
    BY DEF TxType
  <2> QED
    BY <2>1 DEF TxType
<1> QED
  BY <1>1, StampSelfType DEF tx_mkdir, tx_rmdir

LEMMA FileInodeType ==
  ASSUME NEW t \in TxType, NEW f \in Ino, NEW fi \in InodeType \cup {None, Null}
  PROVE  [t EXCEPT !.f_inodes[f] = fi] \in TxType
<1>1. [t.f_inodes EXCEPT ![f] = fi] \in [File -> InodeType \cup {None, Null}]
  BY DEF TxType
<1> QED
  BY <1>1 DEF TxType

LEMMA ApplyType ==
  ASSUME NEW t \in TxType, NEW c \in CallType, NEW self \in InodeType,
         NEW i \in InodeType
  PROVE  Apply(t, c, self, i) \in TxType
<1>1. c.name \in Name \cup {None} /\ c.ino \in Ino
  BY DEF CallType
<1>2. tx_mkself(t, self) \in TxType
  BY DEF tx_mkself, TxType
<1>3. tx_rmself(t) \in TxType
  BY DEF tx_rmself, TxType
<1>4. tx_chself(t, self) \in TxType
  BY DEF tx_chself, TxType
<1>5. /\ tx_mkdir(t, self, c.name, c.ino) \in TxType
      /\ tx_rmdir(t, self, c.name, c.ino) \in TxType
  BY <1>1, EntryType
<1>6. /\ tx_mkreg(t, self, c.name, c.ino, i) \in TxType
      /\ tx_rmreg(t, self, c.name, c.ino) \in TxType
      /\ tx_chreg(t, c.ino, i) \in TxType
  BY <1>1, <1>5, FileInodeType DEF tx_mkreg, tx_rmreg, tx_chreg
<1>7. c.fn \in {"mkself", "rmself", "chself", "mkdir", "rmdir",
                "mkreg", "rmreg", "chreg"}
  BY DEF CallType
<1> QED
  BY <1>2, <1>3, <1>4, <1>5, <1>6, <1>7 DEF Apply

----------------------------------------------------------------------------
(* The initial state is well typed, and no pointer is set.                 *)
LEMMA TypeInit == Init => TInv
<1> SUFFICES ASSUME Init PROVE TInv
  OBVIOUS
<1> USE RootAssumption
<1>1. NewInode \in InodeType /\ NoNames \in [Name -> Ino \cup {None}]
  BY DEF NewInode, InodeType, NoNames
<1>2. /\ queue \in [Queue -> Seq((Dir \X Nat) \cup {Stop})]
      /\ todo \in [Worker -> Seq(CallType)]
      /\ txs \in [Dir -> Seq(TxType)]
      /\ journalObj \in [Dir -> Seq([tx : Nat, size : BOOLEAN, valid : BOOLEAN])]
  BY DEF Init
<1>3. /\ inodeObj \in [Ino -> InodeType \cup {None}]
      /\ dentryObj \in [Dir -> [Name -> Ino \cup {None}] \cup {None}]
  BY <1>1 DEF Init
<1>4. TypeOK
  BY <1>1, <1>2, <1>3 DEF Init, TypeOK, Ino
<1>5. Pointers
  BY DEF Init, Pointers
<1> QED
  BY <1>4, <1>5 DEF TInv

(* An operation that begins takes its locks and leaves its calls to do.    *)
LEMMA BeginType ==
  ASSUME TInv, NEW w \in Worker, NEW locks, NEW calls \in Seq(CallType),
         Begin(w, locks, calls),
         mem' \in [Dir -> [Name -> Ino \cup {None}]],
         inode' \in [Ino -> InodeType],
         used' \subseteq Ino, alive' \subseteq Dir, moved' \subseteq File
  PROVE  TInv'
<1>1. /\ lock' \in [Ino -> Worker \cup {None}]
      /\ todo' \in [Worker -> Seq(CallType)]
      /\ ops' \in Nat
  BY DEF Begin, TInv, TypeOK
<1>2. TypeOK'
  BY <1>1 DEF Begin, TInv, TypeOK, commitVars, cpVars, poolVars
<1>3. held[w] = 0
  BY DEF Begin, TInv, Pointers
<1>4. Pointers'
  <2>1. /\ held' = held /\ txs' = txs /\ open' = open /\ batch' = batch
        /\ todo' = [todo EXCEPT ![w] = calls]
    BY DEF Begin, commitVars
  <2> QED
    BY <1>3, <2>1 DEF TInv, TypeOK, Pointers
<1> QED
  BY <1>2, <1>4 DEF TInv

LEMMA JCallType ==
  ASSUME NEW fn \in {"mkself", "rmself", "chself", "mkdir", "rmdir",
                     "mkreg", "rmreg", "chreg"},
         NEW d \in Dir, NEW n \in Name \cup {None}, NEW i \in Ino
  PROVE  JCall(fn, d, n, i) \in CallType
BY DEF JCall, CallType

LEMMA InodeChange ==
  ASSUME TInv, NEW i \in Ino
  PROVE  /\ [inode EXCEPT ![i].time = @ + 1] \in [Ino -> InodeType]
         /\ [inode EXCEPT ![i].attr = @ + 1] \in [Ino -> InodeType]
<1>1. inode[i] \in InodeType
  BY DEF TInv, TypeOK
<1>2. /\ [inode[i] EXCEPT !.time = @ + 1] \in InodeType
      /\ [inode[i] EXCEPT !.attr = @ + 1] \in InodeType
  BY <1>1 DEF InodeType
<1> QED
  BY <1>2 DEF TInv, TypeOK

(* Every operation preserves the types. *)
LEMMA OperationType ==
  ASSUME TInv, NEW w \in Worker, Operation(w)
  PROVE  TInv'
<1> USE DEF Ino
<1>1. ASSUME NEW d \in Dir, NEW n \in Name, NEW f \in File, Create(w, d, n, f)
      PROVE  TInv'
  <2>1. <<JCall("mkreg", d, n, f)>> \in Seq(CallType)
    BY JCallType
  <2>2. mem' \in [Dir -> [Name -> Ino \cup {None}]] /\ used' \subseteq Ino
    BY <1>1 DEF Create, TInv, TypeOK
  <2> QED
    BY <1>1, <2>1, <2>2, BeginType, InodeChange DEF Create, Touch, TInv, TypeOK
<1>2. ASSUME NEW d \in Dir, NEW n \in Name, Unlink(w, d, n)
      PROVE  TInv'
  <2>1. <<JCall("rmreg", d, n, mem[d][n])>> \in Seq(CallType)
    BY <1>2, JCallType DEF Unlink
  <2>2. mem' \in [Dir -> [Name -> Ino \cup {None}]]
    BY <1>2 DEF Unlink, TInv, TypeOK
  <2> QED
    BY <1>2, <2>1, <2>2, BeginType, InodeChange DEF Unlink, Touch, TInv, TypeOK
<1>3. ASSUME NEW d \in Dir, NEW n \in Name, NEW m \in Name, Rename(w, d, n, m)
      PROVE  TInv'
  <2> DEFINE f == mem[d][n]
             old == mem[d][m]
             replace == IF old = None THEN <<>> ELSE <<JCall("rmreg", d, m, old)>>
             move == <<JCall("rmreg", d, n, f), JCall("mkreg", d, m, f)>>
  <2>1. f \in Ino /\ old \in Ino \cup {None}
    BY <1>3 DEF Rename
  <2>2. replace \in Seq(CallType)
    <3>1. CASE old = None
      BY <3>1
    <3>2. CASE old # None
      <4>1. JCall("rmreg", d, m, old) \in CallType
        BY <2>1, <3>2, JCallType
      <4> QED
        BY <3>2, <4>1
    <3> QED
      BY <3>1, <3>2
  <2>3. move \in Seq(CallType)
    <3>1. JCall("rmreg", d, n, f) \in CallType /\ JCall("mkreg", d, m, f) \in CallType
      BY <2>1, JCallType
    <3> QED
      BY <3>1
  <2>4. replace \o move \in Seq(CallType)
    BY <2>2, <2>3, ConcatProperties
  <2>5. mem' \in [Dir -> [Name -> Ino \cup {None}]]
    BY <1>3, <2>1 DEF Rename, TInv, TypeOK
  <2>6. Begin(w, {d, f} \cup ({old} \ {None}), replace \o move)
    BY <1>3 DEF Rename
  <2>7. /\ inode' \in [Ino -> InodeType] /\ used' \subseteq Ino
        /\ alive' \subseteq Dir /\ moved' \subseteq File
    BY <1>3, InodeChange DEF Rename, Touch, TInv, TypeOK
  <2> HIDE DEF replace, move, f, old
  <2> QED
    BY <2>4, <2>5, <2>6, <2>7, BeginType
<1>4. ASSUME NEW d \in Dir, NEW x \in Dir, NEW n \in Name, Mkdir(w, d, n, x)
      PROVE  TInv'
  <2>1. JCall("mkdir", d, n, x) \in CallType /\ JCall("mkself", x, None, x) \in CallType
    BY JCallType
  <2>2. <<JCall("mkdir", d, n, x), JCall("mkself", x, None, x)>> \in Seq(CallType)
    BY <2>1
  <2>3. /\ mem' \in [Dir -> [Name -> Ino \cup {None}]]
        /\ used' \subseteq Ino /\ alive' \subseteq Dir /\ moved' \subseteq File
    BY <1>4 DEF Mkdir, TInv, TypeOK
  <2> QED
    BY <1>4, <2>2, <2>3, BeginType, InodeChange DEF Mkdir, Touch
<1>5. ASSUME NEW d \in Dir, NEW n \in Name, Rmdir(w, d, n)
      PROVE  TInv'
  <2> DEFINE x == mem[d][n]
  <2>1. x \in Dir
    BY <1>5 DEF Rmdir, TInv, TypeOK
  <2>2. JCall("rmself", x, None, x) \in CallType /\ JCall("rmdir", d, n, x) \in CallType
    BY <2>1, JCallType
  <2>3. <<JCall("rmself", x, None, x), JCall("rmdir", d, n, x)>> \in Seq(CallType)
    BY <2>2
  <2>4. /\ mem' \in [Dir -> [Name -> Ino \cup {None}]]
        /\ used' \subseteq Ino /\ alive' \subseteq Dir /\ moved' \subseteq File
    BY <1>5 DEF Rmdir, TInv, TypeOK
  <2> QED
    BY <1>5, <2>3, <2>4, BeginType, InodeChange DEF Rmdir, Touch
<1>6. ASSUME NEW d \in Dir, ChangeDir(w, d)
      PROVE  TInv'
  <2>1. <<JCall("chself", d, None, d)>> \in Seq(CallType)
    BY JCallType
  <2> QED
    BY <1>6, <2>1, BeginType, InodeChange DEF ChangeDir, TInv, TypeOK
<1>7. ASSUME NEW d \in Dir, NEW n \in Name, ChangeFile(w, d, n)
      PROVE  TInv'
  <2>1. <<JCall("chreg", d, None, mem[d][n])>> \in Seq(CallType)
    BY <1>7, JCallType DEF ChangeFile
  <2>2. inode' \in [Ino -> InodeType]
    BY <1>7, InodeChange DEF ChangeFile
  <2> QED
    BY <1>7, <2>1, <2>2, BeginType DEF ChangeFile, TInv, TypeOK
<1>8. ASSUME NEW d \in Dir, NEW e \in Dir, NEW n \in Name, NEW m \in Name,
             RenameAway(w, d, n, e, m)
      PROVE  TInv'
  <2> DEFINE f == mem[d][n]
             old == mem[e][m]
             replace == IF old = None THEN <<>> ELSE <<JCall("rmreg", e, m, old)>>
             gone == <<JCall("rmreg", d, n, f)>>
             made == <<JCall("mkreg", e, m, f)>>
  <2>1. f \in File /\ old \in Ino \cup {None}
    BY <1>8 DEF RenameAway
  <2>2. replace \in Seq(CallType)
    <3>1. CASE old = None
      BY <3>1
    <3>2. CASE old # None
      <4>1. JCall("rmreg", e, m, old) \in CallType
        BY <2>1, <3>2, JCallType
      <4> QED
        BY <3>2, <4>1
    <3> QED
      BY <3>1, <3>2
  <2>3. gone \in Seq(CallType) /\ made \in Seq(CallType)
    <3>1. JCall("rmreg", d, n, f) \in CallType /\ JCall("mkreg", e, m, f) \in CallType
      BY <2>1, JCallType
    <3> QED
      BY <3>1
  <2>4. gone \o replace \o made \in Seq(CallType)
    BY <2>2, <2>3, ConcatProperties
  <2>5. mem' \in [Dir -> [Name -> Ino \cup {None}]]
    <3>1. mem' = [mem EXCEPT ![d][n] = None, ![e][m] = f]
      BY <1>8 DEF RenameAway
    <3> HIDE DEF f
    <3> QED
      BY <2>1, <3>1 DEF TInv, TypeOK
  <2>6. Begin(w, {d, e, f} \cup ({old} \ {None}), gone \o replace \o made)
    BY <1>8 DEF RenameAway
  <2>7. moved' \subseteq File
    BY <1>8, <2>1 DEF RenameAway, TInv, TypeOK
  <2>8. inode' \in [Ino -> InodeType] /\ used' \subseteq Ino /\ alive' \subseteq Dir
    BY <1>8 DEF RenameAway, TInv, TypeOK
  <2> HIDE DEF replace, gone, made, f, old
  <2> QED
    BY <2>4, <2>5, <2>6, <2>7, <2>8, BeginType
<1> QED
  BY <1>1, <1>2, <1>3, <1>4, <1>5, <1>6, <1>7, <1>8 DEF Operation

(* So do the steps of a journal call. *)
LEMMA JournalStepType ==
  ASSUME TInv, NEW w \in Worker, JournalStep(w)
  PROVE  TInv'
<1>1. CASE GetEntry(w)
  <2> DEFINE d == Head(todo[w]).dir
  <2>1. d \in Dir /\ txs[d] \in Seq(TxType)
    <3>1. Head(todo[w]) \in CallType
      BY <1>1 DEF GetEntry, TInv, TypeOK
    <3> QED
      BY <3>1 DEF CallType, TInv, TypeOK
  <2>2. NewTx \in TxType
    BY DEF NewTx, TxType, NoNames
  <2>3. Append(txs[d], NewTx) \in Seq(TxType)
    BY <2>1, <2>2
  <2>4. /\ tries' \in [Worker -> Nat] /\ held' \in [Worker -> Nat]
        /\ open' \in [Dir -> Nat] /\ txs' \in [Dir -> Seq(TxType)]
    <3>1. CASE open[d] # 0
      <4>1. /\ tries' = [tries EXCEPT ![w] = @ + 1]
            /\ held' = [held EXCEPT ![w] = open[d]] /\ open' = open /\ txs' = txs
        BY <1>1, <3>1 DEF GetEntry
      <4> QED
        BY <2>1, <4>1 DEF TInv, TypeOK
    <3>2. CASE open[d] = 0
      <4>1. /\ tries' = [tries EXCEPT ![w] = @ + 1]
            /\ held' = [held EXCEPT ![w] = Len(txs[d]) + 1]
            /\ open' = [open EXCEPT ![d] = Len(txs[d]) + 1]
            /\ txs' = [txs EXCEPT ![d] = Append(txs[d], NewTx)]
        BY <1>1, <3>2 DEF GetEntry
      <4>2. Len(txs[d]) + 1 \in Nat
        BY <2>1
      <4> DEFINE new == Append(txs[d], NewTx)
                 len == Len(txs[d]) + 1
      <4> HIDE DEF d, new, len
      <4>3. tries' \in [Worker -> Nat]
        BY <4>1 DEF TInv, TypeOK
      <4>4. held' \in [Worker -> Nat] /\ open' \in [Dir -> Nat]
        BY <4>1, <4>2 DEF TInv, TypeOK, len
      <4>5. new \in Seq(TxType) /\ txs' = [txs EXCEPT ![d] = new]
        BY <2>3, <4>1 DEF new
      <4>6. txs' \in [Dir -> Seq(TxType)]
        BY <4>5 DEF TInv, TypeOK
      <4> QED
        BY <4>3, <4>4, <4>6
    <3> QED
      BY <3>1, <3>2
  <2>5. TypeOK'
    BY <1>1, <2>4 DEF GetEntry, TInv, TypeOK, commitVars, cpVars, poolVars
  <2>6. /\ todo' = todo /\ batch' = batch /\ todo[w] # <<>>
    BY <1>1 DEF GetEntry, commitVars
  <2>7. Pointers'
    <3>1. CASE open[d] # 0
      <4>1. txs' = txs /\ open' = open /\ held' = [held EXCEPT ![w] = open[d]]
        BY <1>1, <3>1 DEF GetEntry
      <4>2. open[d] \in 1 .. Len(txs[d])
        BY <2>1, <3>1 DEF TInv, TypeOK, Pointers
      <4> HIDE DEF d
      <4>3. ASSUME NEW v \in Worker, held'[v] # 0
            PROVE  /\ todo'[v] # <<>>
                   /\ held'[v] \in 1 .. Len(txs'[Head(todo'[v]).dir])
        <5>1. CASE v = w
          BY <2>6, <4>1, <4>2, <5>1 DEF TInv, TypeOK, d
        <5>2. CASE v # w
          <6>1. held'[v] = held[v] /\ todo' = todo /\ txs' = txs
            BY <2>6, <4>1, <5>2 DEF TInv, TypeOK
          <6> QED
            BY <4>3, <6>1 DEF TInv, Pointers
        <5> QED
          BY <5>1, <5>2
      <4> QED
        BY <2>6, <4>1, <4>3 DEF TInv, Pointers
    <3>2. CASE open[d] = 0
      <4>1. /\ held' = [held EXCEPT ![w] = Len(txs[d]) + 1]
            /\ open' = [open EXCEPT ![d] = Len(txs[d]) + 1]
            /\ txs' = [txs EXCEPT ![d] = Append(@, NewTx)]
        BY <1>1, <3>2 DEF GetEntry
      <4>2. \A e \in Dir : /\ txs[e] \in Seq(TxType) /\ txs'[e] \in Seq(TxType)
                           /\ Len(txs[e]) <= Len(txs'[e])
        BY <2>1, <2>2, <4>1 DEF TInv, TypeOK
      <4>3. Len(txs'[d]) = Len(txs[d]) + 1
        BY <2>1, <4>1 DEF TInv, TypeOK
      <4>4. \A e \in Dir : open'[e] <= Len(txs'[e]) /\ batch'[e] <= Len(txs'[e])
        BY <2>1, <2>6, <4>1, <4>2, <4>3 DEF TInv, TypeOK, Pointers
      <4>5. ASSUME NEW v \in Worker, held'[v] # 0
            PROVE  /\ todo'[v] # <<>>
                   /\ held'[v] \in 1 .. Len(txs'[Head(todo'[v]).dir])
        <5>1. CASE v = w
          BY <2>1, <2>6, <4>1, <4>3, <5>1 DEF TInv, TypeOK
        <5>2. CASE v # w
          <6>1. held[v] = held'[v] /\ held[v] # 0
            BY <4>1, <4>5, <5>2 DEF TInv, TypeOK
          <6>2. todo[v] # <<>> /\ held[v] \in 1 .. Len(txs[Head(todo[v]).dir])
            BY <6>1 DEF TInv, Pointers
          <6>3. Head(todo[v]) \in CallType
            BY <6>2 DEF TInv, TypeOK
          <6>4. Head(todo[v]).dir \in Dir
            BY <6>3 DEF CallType
          <6> QED
            BY <2>6, <4>2, <6>1, <6>2, <6>4
        <5> QED
          BY <5>1, <5>2
      <4> QED
        BY <4>4, <4>5 DEF Pointers
    <3> QED
      BY <3>1, <3>2
  <2> QED
    BY <2>5, <2>7 DEF TInv
<1>2. CASE Retry(w)
  <2>1. TypeOK'
    BY <1>2 DEF Retry, TInv, TypeOK, commitVars, cpVars, poolVars
  <2>2. Pointers'
    BY <1>2 DEF Retry, TInv, TypeOK, Pointers, commitVars
  <2> QED
    BY <2>1, <2>2 DEF TInv
<1>3. CASE Record(w)
  <2> DEFINE c == Head(todo[w])
             g == held[w]
             a == Apply(txs[c.dir][g], c, inode[c.dir], inode[c.ino])
  <2>1. todo[w] # <<>> /\ g \in 1 .. Len(txs[c.dir])
    BY <1>3 DEF Record, TInv, Pointers
  <2>2. c \in CallType
    BY <2>1 DEF TInv, TypeOK
  <2>3. c.dir \in Dir /\ c.dir \in Ino /\ c.ino \in Ino
    BY <2>2 DEF CallType, Ino
  <2>4. txs[c.dir] \in Seq(TxType) /\ txs[c.dir][g] \in TxType
    BY <2>1, <2>3 DEF TInv, TypeOK
  <2>5. a \in TxType
    BY <2>2, <2>3, <2>4, ApplyType DEF TInv, TypeOK
  <2>6. [txs[c.dir] EXCEPT ![g] = a] \in Seq(TxType)
    BY <2>1, <2>4, <2>5
  <2>7. Tail(todo[w]) \in Seq(CallType)
    BY <2>1 DEF TInv, TypeOK
  <2>8. CASE Throws(txs[c.dir][g], c)
    <3>1. /\ failed' = "logic_error" /\ UNCHANGED <<txs, todo, lock>>
          /\ held' = [held EXCEPT ![w] = 0] /\ tries' = [tries EXCEPT ![w] = 0]
      BY <1>3, <2>8 DEF Record
    <3>2. TypeOK'
      <4>1. held' \in [Worker -> Nat] /\ tries' \in [Worker -> Nat]
        BY <3>1 DEF TInv, TypeOK
      <4>2. UNCHANGED <<mem, inode, used, alive, ops, moved, open, done, cpc, batch, cdir,
                        queue, kpc, job, buf, stopped, inodeObj, dentryObj, journalObj>>
        BY <1>3 DEF Record, commitVars, cpVars, poolVars
      <4> QED
        BY <3>1, <4>1, <4>2 DEF TInv, TypeOK
    <3>3. Pointers'
      BY <1>3, <3>1 DEF Record, TInv, TypeOK, Pointers, commitVars
    <3> QED
      BY <3>2, <3>3 DEF TInv
  <2>9. CASE ~Throws(txs[c.dir][g], c)
    <3>1. /\ txs' = [txs EXCEPT ![c.dir] = [txs[c.dir] EXCEPT ![g] = a]]
          /\ todo' = [todo EXCEPT ![w] = Tail(@)]
          /\ held' = [held EXCEPT ![w] = 0] /\ tries' = [tries EXCEPT ![w] = 0]
          /\ lock' = [i \in Ino |-> IF lock[i] = w /\ Len(todo[w]) = 1
                                      THEN None ELSE lock[i]]
          /\ failed' = failed
      BY <1>3, <2>9 DEF Record
    <3>2. /\ txs' \in [Dir -> Seq(TxType)] /\ todo' \in [Worker -> Seq(CallType)]
          /\ held' \in [Worker -> Nat] /\ tries' \in [Worker -> Nat]
          /\ lock' \in [Ino -> Worker \cup {None}]
      BY <2>3, <2>6, <2>7, <3>1 DEF TInv, TypeOK
    <3>3. TypeOK'
      BY <1>3, <3>1, <3>2 DEF Record, TInv, TypeOK, commitVars, cpVars, poolVars
    <3>4. \A e \in Dir : Len(txs'[e]) = Len(txs[e])
      <4>1. Len([txs[c.dir] EXCEPT ![g] = a]) = Len(txs[c.dir])
        BY <2>4
      <4> DEFINE changed == [txs[c.dir] EXCEPT ![g] = a]
      <4> HIDE DEF changed
      <4>2. txs' = [txs EXCEPT ![c.dir] = changed] /\ Len(changed) = Len(txs[c.dir])
        BY <3>1, <4>1 DEF changed
      <4> QED
        BY <2>3, <4>2 DEF TInv, TypeOK
    <3>5. ASSUME NEW v \in Worker, held'[v] # 0
          PROVE  /\ todo'[v] # <<>>
                 /\ held'[v] \in 1 .. Len(txs'[Head(todo'[v]).dir])
      <4>1. v # w /\ held[v] = held'[v] /\ todo'[v] = todo[v]
        BY <3>1, <3>5 DEF TInv, TypeOK
      <4>2. todo[v] # <<>> /\ held[v] \in 1 .. Len(txs[Head(todo[v]).dir])
        BY <3>5, <4>1 DEF TInv, Pointers
      <4>3. Head(todo[v]) \in CallType
        BY <4>2 DEF TInv, TypeOK
      <4> QED
        BY <3>4, <4>1, <4>2, <4>3 DEF CallType
    <3>6. \A e \in Dir : open'[e] <= Len(txs'[e]) /\ batch'[e] <= Len(txs'[e])
      BY <1>3, <3>4 DEF Record, commitVars, TInv, Pointers
    <3>7. Pointers'
      BY <3>5, <3>6 DEF Pointers
    <3> QED
      BY <3>3, <3>7 DEF TInv
  <2> QED
    BY <2>8, <2>9
<1> QED
  BY <1>1, <1>2, <1>3 DEF JournalStep

(* A worker with a call to make makes it for a directory.                  *)
LEMMA HeadDir ==
  ASSUME TInv, NEW w \in Worker, todo[w] # <<>>
  PROVE  Head(todo[w]).dir \in Dir
<1>1. todo[w] \in Seq(CallType)
  BY DEF TInv, TypeOK
<1>2. Head(todo[w]) \in CallType
  BY <1>1
<1> QED
  BY <1>2 DEF CallType

(* Steps of the commit thread: the transaction it seals is one it took.    *)
LEMMA CommitChange ==
  ASSUME TInv, NEW d \in Dir, Commit(d), ~txs[d][batch[d]].committed
  PROVE  LET g == batch[d]
             sealed == [txs[d][g] EXCEPT !.committed = TRUE,
                                         !.offset = Len(journalObj[d]) + 1]
         IN /\ g \in 1 .. Len(txs[d])
            /\ sealed \in TxType
            /\ sealed.committed /\ sealed.offset = Len(journalObj[d]) + 1
            /\ txs' = [txs EXCEPT ![d] = [txs[d] EXCEPT ![g] = sealed]]
            /\ [txs[d] EXCEPT ![g] = sealed] \in Seq(TxType)
            /\ journalObj' = [journalObj EXCEPT ![d] =
                                Append(journalObj[d], Serialized(g))]
            /\ Append(journalObj[d], Serialized(g)) \in
                 Seq([tx : Nat, size : BOOLEAN, valid : BOOLEAN])
            /\ cdir' = d /\ cpc' = "issue" /\ failed' = failed
<1> DEFINE g == batch[d]
           sealed == [txs[d][g] EXCEPT !.committed = TRUE,
                                       !.offset = Len(journalObj[d]) + 1]
<1>1. g \in 1 .. Len(txs[d])
  BY DEF Commit, TInv, TypeOK, Pointers
<1>2. txs[d] \in Seq(TxType) /\ txs[d][g] \in TxType
  BY <1>1 DEF TInv, TypeOK
<1>3. Len(journalObj[d]) + 1 \in Nat
  BY DEF TInv, TypeOK
<1>4. sealed \in TxType /\ sealed.committed /\ sealed.offset = Len(journalObj[d]) + 1
  BY <1>2, <1>3 DEF TxType
<1>5. [txs[d] EXCEPT ![g] = sealed] \in Seq(TxType)
  BY <1>1, <1>2, <1>4
<1>6. Serialized(g) \in [tx : Nat, size : BOOLEAN, valid : BOOLEAN]
  BY <1>1 DEF Serialized
<1>7. Append(journalObj[d], Serialized(g)) \in
        Seq([tx : Nat, size : BOOLEAN, valid : BOOLEAN])
  BY <1>6 DEF TInv, TypeOK
<1>8. /\ txs' = [txs EXCEPT ![d] = [txs[d] EXCEPT ![g] = sealed]]
      /\ journalObj' = [journalObj EXCEPT ![d] =
                          Append(journalObj[d], Serialized(g))]
      /\ cdir' = d /\ cpc' = "issue" /\ failed' = failed
  BY DEF Commit, TInv, TypeOK
<1> QED
  BY <1>1, <1>4, <1>5, <1>7, <1>8

LEMMA CommitStepType ==
  ASSUME TInv, CommitStep \/ RaiseStop
  PROVE  TInv'
<1> USE RootAssumption, QueueAssumption
<1>1. CASE ReplaceMap
  <2>1. TypeOK'
    BY <1>1 DEF ReplaceMap, TInv, TypeOK, memVars, cpVars, poolVars
  <2>2. Pointers'
    BY <1>1 DEF ReplaceMap, TInv, TypeOK, Pointers, memVars
  <2> QED
    BY <2>1, <2>2 DEF TInv
<1>2. ASSUME NEW d \in Dir, Commit(d) PROVE TInv'
  <2>1. UNCHANGED <<mem, inode, used, alive, lock, todo, held, tries, ops, moved, open,
                    done, batch, queue, kpc, job, buf, stopped, inodeObj, dentryObj>>
    BY <1>2 DEF Commit, memVars, cpVars
  <2>2. CASE txs[d][batch[d]].committed
    <3>1. /\ failed' = "logic_error" /\ txs' = txs /\ journalObj' = journalObj
          /\ cdir' = d /\ cpc' = "issue"
      BY <1>2, <2>2 DEF Commit
    <3>2. TypeOK'
      BY <2>1, <3>1 DEF TInv, TypeOK
    <3>3. Pointers'
      BY <2>1, <3>1 DEF TInv, Pointers
    <3> QED
      BY <3>2, <3>3 DEF TInv
  <2>3. CASE ~txs[d][batch[d]].committed
    <3> DEFINE g == batch[d]
               sealed == [txs[d][g] EXCEPT !.committed = TRUE,
                                           !.offset = Len(journalObj[d]) + 1]
               seq == [txs[d] EXCEPT ![g] = sealed]
               obj == Append(journalObj[d], Serialized(g))
    <3>1. /\ txs' = [txs EXCEPT ![d] = seq] /\ seq \in Seq(TxType)
          /\ journalObj' = [journalObj EXCEPT ![d] = obj]
          /\ obj \in Seq([tx : Nat, size : BOOLEAN, valid : BOOLEAN])
          /\ cdir' = d /\ cpc' = "issue" /\ failed' = failed
      BY <1>2, <2>3, CommitChange
    <3>2. Len(seq) = Len(txs[d])
      BY <3>1 DEF TInv, TypeOK
    <3> HIDE DEF seq, obj
    <3>3. TypeOK'
      BY <2>1, <3>1 DEF TInv, TypeOK
    <3>4. \A e \in Dir : Len(txs'[e]) = Len(txs[e])
      BY <3>1, <3>2 DEF TInv, TypeOK
    <3>5. \A v \in Worker : todo[v] # <<>> => Head(todo[v]).dir \in Dir
      BY HeadDir
    <3>6. Pointers'
      BY <2>1, <3>4, <3>5 DEF TInv, Pointers
    <3> QED
      BY <3>3, <3>6 DEF TInv
  <2> QED
    BY <2>2, <2>3
<1>3. CASE Issue
  <2>1. Append(queue[QueueOf[cdir]], <<cdir, batch[cdir]>>)
          \in Seq((Dir \X Nat) \cup {Stop})
    BY DEF TInv, TypeOK
  <2>2. queue' \in [Queue -> Seq((Dir \X Nat) \cup {Stop})]
    BY <1>3, <2>1 DEF Issue, TInv, TypeOK
  <2>3. TypeOK'
    BY <1>3, <2>2 DEF Issue, TInv, TypeOK, memVars, cpVars, poolVars
  <2>4. Pointers'
    BY <1>3 DEF Issue, TInv, TypeOK, Pointers, memVars
  <2> QED
    BY <2>3, <2>4 DEF TInv
<1>4. CASE Leave
  <2>1. \A q \in Queue : Append(queue[q], Stop) \in Seq((Dir \X Nat) \cup {Stop})
    BY DEF TInv, TypeOK
  <2>2. TypeOK'
    BY <1>4, <2>1 DEF Leave, TInv, TypeOK, memVars, cpVars, poolVars
  <2>3. Pointers'
    BY <1>4 DEF Leave, TInv, TypeOK, Pointers, memVars
  <2> QED
    BY <2>2, <2>3 DEF TInv
<1>5. CASE RaiseStop
  BY <1>5 DEF RaiseStop, TInv, TypeOK, Pointers, memVars, commitVars, cpVars, poolVars
<1> QED
  BY <1>1, <1>2, <1>3, <1>4, <1>5 DEF CommitStep

(* Steps of a checkpoint thread: its job is a transaction because it has   *)
(* been written.                                                           *)
LEMMA CheckpointStepType ==
  ASSUME TInv, WrittenFirst, NEW q \in Queue, CheckpointStep(q)
  PROVE  TInv'
<1> USE RootAssumption
<1> DEFINE d == job[q][1]
           g == job[q][2]
<1>0. d \in Dir /\ d \in Ino /\ g \in Nat
  BY DEF TInv, TypeOK, Ino
<1>a. kpc[q] \notin {"idle", "exit"} => JobTx(q) \in TxType
  <2> SUFFICES ASSUME kpc[q] \notin {"idle", "exit"} PROVE JobTx(q) \in TxType
    OBVIOUS
  <2>1. g \in 1 .. Len(txs[d])
    BY DEF WrittenFirst, Written
  <2>2. txs[d] \in Seq(TxType)
    BY <1>0 DEF TInv, TypeOK
  <2> QED
    BY <2>1, <2>2 DEF JobTx
<1>1. CASE Dispatch(q)
  <2>1. Head(queue[q]) \in (Dir \X Nat) \cup {Stop} /\
        Tail(queue[q]) \in Seq((Dir \X Nat) \cup {Stop})
    <3>1. queue[q] \in Seq((Dir \X Nat) \cup {Stop}) /\ queue[q] # <<>>
      BY <1>1 DEF Dispatch, TInv, TypeOK
    <3> QED
      BY <3>1
  <2>2. /\ queue' \in [Queue -> Seq((Dir \X Nat) \cup {Stop})]
        /\ kpc' \in [Queue -> {"idle", "load", "save", "clear", "exit"}]
        /\ job' \in [Queue -> Dir \X Nat]
    BY <1>1, <2>1 DEF Dispatch, TInv, TypeOK
  <2>3. TypeOK'
    BY <1>1, <2>2 DEF Dispatch, TInv, TypeOK, memVars, commitVars, poolVars
  <2>4. Pointers'
    BY <1>1 DEF Dispatch, TInv, Pointers, memVars, commitVars
  <2> QED
    BY <2>3, <2>4 DEF TInv
<1>2. CASE SyncRemoved(q)
  <2>1. TypeOK'
    BY <1>0, <1>2 DEF SyncRemoved, TInv, TypeOK, memVars, commitVars
  <2>2. Pointers'
    BY <1>2 DEF SyncRemoved, TInv, Pointers, memVars, commitVars
  <2> QED
    BY <2>1, <2>2 DEF TInv
<1>3. CASE SyncLoad(q)
  <2>1. JobTx(q).s_inode \in InodeType \cup {None}
    BY <1>a, <1>3 DEF SyncLoad, TxType
  <2>2. inodeObj' \in [Ino -> InodeType \cup {None}]
    BY <1>0, <1>3, <2>1 DEF SyncLoad, TInv, TypeOK
  <2>3. /\ buf' \in [Queue -> [Name -> Ino \cup {None}]]
        /\ failed' \in {"no", "logic_error", "corrupted"}
    <3>1. NoNames \in [Name -> Ino \cup {None}]
      BY DEF NoNames
    <3>2. dentryObj[d] # None => dentryObj[d] \in [Name -> Ino \cup {None}]
      BY <1>0 DEF TInv, TypeOK
    <3> QED
      BY <1>3, <3>1, <3>2 DEF SyncLoad, ReadDentry, TInv, TypeOK
  <2>4. kpc' \in [Queue -> {"idle", "load", "save", "clear", "exit"}]
    BY <1>3 DEF SyncLoad, TInv, TypeOK
  <2>5. TypeOK'
    BY <1>3, <2>2, <2>3, <2>4 DEF SyncLoad, TInv, TypeOK, memVars, commitVars
  <2>6. Pointers'
    BY <1>3 DEF SyncLoad, TInv, Pointers, memVars, commitVars
  <2> QED
    BY <2>5, <2>6 DEF TInv
<1>4. CASE SyncSave(q)
  <2> DEFINE e == JobTx(q).dentries
             fi == JobTx(q).f_inodes
  <2>1. /\ e \in [Name -> [alive : BOOLEAN, ino : Ino] \cup {None}]
        /\ fi \in [File -> InodeType \cup {None, Null}]
    BY <1>a, <1>4 DEF SyncSave, TxType
  <2>2. \A n \in Name : IsAlive(e[n]) => e[n].ino \in Ino
    BY <2>1 DEF IsAlive
  <2>3. [n \in Name |-> IF IsAlive(e[n]) THEN e[n].ino
                        ELSE IF IsDead(e[n]) THEN None ELSE buf[q][n]]
          \in [Name -> Ino \cup {None}]
    BY <2>2 DEF TInv, TypeOK
  <2>4. dentryObj' \in [Dir -> [Name -> Ino \cup {None}] \cup {None}]
    BY <1>0, <1>4, <2>3 DEF SyncSave, TInv, TypeOK
  <2>5. inodeObj' \in [Ino -> InodeType \cup {None}]
    BY <1>4, <2>1 DEF SyncSave, TInv, TypeOK
  <2>6. /\ buf' \in [Queue -> [Name -> Ino \cup {None}]]
        /\ kpc' \in [Queue -> {"idle", "load", "save", "clear", "exit"}]
    BY <1>4 DEF SyncSave, TInv, TypeOK, NoNames
  <2>7. TypeOK'
    BY <1>4, <2>4, <2>5, <2>6 DEF SyncSave, TInv, TypeOK, memVars, commitVars
  <2>8. Pointers'
    BY <1>4 DEF SyncSave, TInv, Pointers, memVars, commitVars
  <2> QED
    BY <2>7, <2>8 DEF TInv
<1>5. CASE Clear(q)
  <2> DEFINE o == JobTx(q).offset
             R == [tx : Nat, size : BOOLEAN, valid : BOOLEAN]
             rec == [journalObj[d][o] EXCEPT !.size = FALSE]
             obj == [journalObj[d] EXCEPT ![o] = rec]
  <2>1. o \in 1 .. Len(journalObj[d])
    BY <1>5 DEF Clear, WrittenFirst, Written, JobTx
  <2>2. journalObj[d] \in Seq(R)
    BY <1>0 DEF TInv, TypeOK
  <2>3. journalObj[d][o] \in R
    BY <2>1, <2>2, ElementOfSeq
  <2>4. rec \in R
    BY <2>3
  <2>5. obj \in Seq(R)
    BY <2>1, <2>2, <2>4
  <2>6. journalObj' = [journalObj EXCEPT ![d] = obj]
    BY <1>5 DEF Clear
  <2> HIDE DEF obj
  <2>7. journalObj' \in [Dir -> Seq(R)]
    BY <1>0, <2>5, <2>6 DEF TInv, TypeOK
  <2>8. /\ done' \in [Dir -> SUBSET Nat] /\ job' \in [Queue -> Dir \X Nat]
        /\ kpc' \in [Queue -> {"idle", "load", "save", "clear", "exit"}]
    BY <1>0, <1>5 DEF Clear, TInv, TypeOK
  <2>9. TypeOK'
    BY <1>5, <2>7, <2>8 DEF Clear, TInv, TypeOK, memVars, commitVars
  <2>10. Pointers'
    BY <1>5 DEF Clear, TInv, Pointers, memVars, commitVars
  <2> QED
    BY <2>9, <2>10 DEF TInv
<1> QED
  BY <1>1, <1>2, <1>3, <1>4, <1>5 DEF CheckpointStep

----------------------------------------------------------------------------
(* A journal call does not seal a transaction. *)
LEMMA ApplyKeeps ==
  ASSUME NEW t \in TxType, NEW c \in CallType, NEW self \in InodeType,
         NEW i \in InodeType
  PROVE  Apply(t, c, self, i).committed = t.committed
<1>1. \A u \in TxType : StampSelf(u, self).committed = u.committed
  BY DEF StampSelf, TxType
<1>2. \A b \in BOOLEAN : [t EXCEPT !.dentries[c.name] =
                              [alive |-> b, ino |-> c.ino]] \in TxType
  <2> SUFFICES ASSUME NEW b \in BOOLEAN
               PROVE  [t EXCEPT !.dentries[c.name] =
                              [alive |-> b, ino |-> c.ino]] \in TxType
    OBVIOUS
  <2>1. [t.dentries EXCEPT ![c.name] = [alive |-> b, ino |-> c.ino]]
          \in [Name -> [alive : BOOLEAN, ino : Ino] \cup {None}]
    BY DEF TxType, CallType
  <2> QED
    BY <2>1 DEF TxType
<1>3. /\ tx_mkdir(t, self, c.name, c.ino).committed = t.committed
      /\ tx_rmdir(t, self, c.name, c.ino).committed = t.committed
  BY <1>1, <1>2 DEF tx_mkdir, tx_rmdir, TxType
<1>4. c.name \in Name \cup {None} /\ c.ino \in Ino
  BY DEF CallType
<1>5. /\ tx_mkdir(t, self, c.name, c.ino) \in TxType
      /\ tx_rmdir(t, self, c.name, c.ino) \in TxType
  BY <1>4, EntryType
<1>6. /\ tx_mkreg(t, self, c.name, c.ino, i).committed = t.committed
      /\ tx_rmreg(t, self, c.name, c.ino).committed = t.committed
      /\ tx_chreg(t, c.ino, i).committed = t.committed
  BY <1>3, <1>5 DEF tx_mkreg, tx_rmreg, tx_chreg, TxType
<1>7. /\ tx_mkself(t, self).committed = t.committed
      /\ tx_rmself(t).committed = t.committed
      /\ tx_chself(t, self).committed = t.committed
  BY DEF tx_mkself, tx_rmself, tx_chself, TxType
<1>8. c.fn \in {"mkself", "rmself", "chself", "mkdir", "rmdir",
                "mkreg", "rmreg", "chreg"}
  BY DEF CallType
<1> QED
  BY <1>3, <1>6, <1>7, <1>8 DEF Apply

(* The initial state satisfies the inductive invariant. *)
LEMMA InitInv == Init => IInv
BY TypeInit DEF Init, IInv, WrittenFirst, StopIsLast, NoneForgotten

(***************************************************************************)
(* A step that moves no transaction along, seals none and takes none out   *)
(* of the journal preserves the invariant.                                 *)
(***************************************************************************)
LEMMA QuietStep ==
  ASSUME IInv, TInv', Running,
         UNCHANGED <<cpc, cdir, queue, job, done>>,
         cpc = "issue" => batch' = batch,
         \A q \in Queue : /\ kpc'[q] = "idle" <=> kpc[q] = "idle"
                          /\ kpc'[q] = "exit" <=> kpc[q] = "exit",
         \A d \in Dir, g \in Nat : Written(d, g) => Written(d, g)',
         \A d \in Dir, g \in Nat :
           g \in 1 .. Len(txs'[d]) /\ txs'[d][g].committed =>
             g \in 1 .. Len(txs[d]) /\ txs[d][g].committed
  PROVE  IInv'
<1>1. WrittenFirst'
  <2>1. cpc' = "issue" /\ Running' => Written(cdir, batch[cdir])'
    <3> SUFFICES ASSUME cpc' = "issue" PROVE Written(cdir, batch[cdir])'
      OBVIOUS
    <3>1. cdir \in Dir /\ batch[cdir] \in Nat
      BY DEF IInv, TInv, TypeOK
    <3>2. Written(cdir, batch[cdir])
      BY DEF IInv, WrittenFirst
    <3>3. PICK e \in Dir, h \in Nat : e = cdir /\ h = batch[cdir]
      BY <3>1
    <3>4. Written(e, h)'
      BY <3>2, <3>3
    <3> QED
      BY <3>3, <3>4 DEF Written
  <2>2. ASSUME NEW q \in Queue, NEW k \in Nat, k \in 1 .. Len(queue'[q]),
               queue'[q][k] # Stop
        PROVE  Written(queue[q][k][1], queue[q][k][2])'
    <3>1. queue[q] \in Seq((Dir \X Nat) \cup {Stop})
      BY DEF IInv, TInv, TypeOK
    <3>2. queue[q][k] \in Dir \X Nat
      BY <2>2, <3>1, ElementOfSeq
    <3>3. Written(queue[q][k][1], queue[q][k][2])
      BY <2>2 DEF IInv, WrittenFirst
    <3> QED
      BY <3>2, <3>3 DEF Written
  <2>3. ASSUME NEW q \in Queue, kpc'[q] \notin {"idle", "exit"}
        PROVE  Written(job[q][1], job[q][2])'
    <3>1. job[q] \in Dir \X Nat
      BY DEF IInv, TInv, TypeOK
    <3>2. Written(job[q][1], job[q][2])
      BY <2>3 DEF IInv, WrittenFirst
    <3> QED
      BY <3>1, <3>2 DEF Written
  <2> QED
    BY <2>1, <2>2, <2>3 DEF WrittenFirst
<1>2. StopIsLast'
  BY DEF IInv, StopIsLast
<1>3. NoneForgotten'
  BY QueueAssumption DEF IInv, NoneForgotten, AtCommit, Queued, AtWork
<1> QED
  BY <1>1, <1>2, <1>3 DEF IInv

LEMMA OperationInv ==
  ASSUME IInv, NEW w \in Worker, Operation(w)
  PROVE  IInv'
<1>1. Running /\ UNCHANGED <<cpc, cdir, queue, job, done, batch, kpc, txs, journalObj>>
  <2>1. ASSUME NEW locks, NEW calls, Begin(w, locks, calls)
        PROVE  /\ Running
               /\ UNCHANGED <<cpc, cdir, queue, job, done, batch, kpc, txs, journalObj>>
    BY <2>1 DEF Begin, commitVars, cpVars, poolVars
  <2>2. CASE \E d \in Dir, n \in Name, f \in File : Create(w, d, n, f)
    BY <2>1, <2>2 DEF Create
  <2>3. CASE \E d \in Dir, n \in Name : Unlink(w, d, n)
    BY <2>1, <2>3 DEF Unlink
  <2>4. CASE \E d \in Dir, n, m \in Name : Rename(w, d, n, m)
    BY <2>1, <2>4, Zenon DEF Rename
  <2>5. CASE \E d, x \in Dir, n \in Name : Mkdir(w, d, n, x)
    BY <2>1, <2>5 DEF Mkdir
  <2>6. CASE \E d \in Dir, n \in Name : Rmdir(w, d, n)
    BY <2>1, <2>6 DEF Rmdir
  <2>7. CASE \E d \in Dir : ChangeDir(w, d)
    BY <2>1, <2>7 DEF ChangeDir
  <2>8. CASE \E d \in Dir, n \in Name : ChangeFile(w, d, n)
    BY <2>1, <2>8 DEF ChangeFile
  <2>9. CASE \E d, e \in Dir, n, m \in Name : RenameAway(w, d, n, e, m)
    <3>1. PICK d \in Dir, e \in Dir, n \in Name, m \in Name : RenameAway(w, d, n, e, m)
      BY <2>9
    <3>2. \E locks, calls : Begin(w, locks, calls)
      BY <3>1, Zenon DEF RenameAway
    <3> QED
      BY <2>1, <3>2
  <2> QED
    BY <2>2, <2>3, <2>4, <2>5, <2>6, <2>7, <2>8, <2>9 DEF Operation
<1>2. TInv'
  BY OperationType DEF IInv
<1>3. \A d \in Dir, g \in Nat : Written(d, g) => Written(d, g)'
  BY <1>1 DEF Written
<1> QED
  BY <1>1, <1>2, <1>3, QuietStep

LEMMA GetEntryKeeps ==
  ASSUME TInv, NEW w \in Worker, GetEntry(w)
  PROVE  \A d \in Dir, g \in Nat :
           /\ g \in 1 .. Len(txs[d]) => g \in 1 .. Len(txs'[d]) /\ txs'[d][g] = txs[d][g]
           /\ g \in 1 .. Len(txs'[d]) /\ txs'[d][g].committed =>
                g \in 1 .. Len(txs[d]) /\ txs[d][g].committed
<1> DEFINE e == Head(todo[w]).dir
<1>1. e \in Dir
  BY HeadDir DEF GetEntry
<1>2. CASE open[e] # 0
  BY <1>2 DEF GetEntry
<1>3. CASE open[e] = 0
  <2> SUFFICES ASSUME NEW d \in Dir, NEW g \in Nat
               PROVE  /\ g \in 1 .. Len(txs[d]) =>
                           g \in 1 .. Len(txs'[d]) /\ txs'[d][g] = txs[d][g]
                      /\ g \in 1 .. Len(txs'[d]) /\ txs'[d][g].committed =>
                           g \in 1 .. Len(txs[d]) /\ txs[d][g].committed
    OBVIOUS
  <2>1. txs' = [txs EXCEPT ![e] = Append(txs[e], NewTx)]
    BY <1>3 DEF GetEntry
  <2>2. txs[d] \in Seq(TxType) /\ ~NewTx.committed
    BY DEF TInv, TypeOK, NewTx
  <2>3. CASE d # e
    BY <1>1, <2>1, <2>3 DEF TInv, TypeOK
  <2>4. CASE d = e
    <3>1. txs'[d] = Append(txs[d], NewTx)
      BY <1>1, <2>1, <2>4 DEF TInv, TypeOK
    <3>2. /\ Len(txs'[d]) = Len(txs[d]) + 1
          /\ \A i \in 1 .. Len(txs[d]) : txs'[d][i] = txs[d][i]
          /\ txs'[d][Len(txs[d]) + 1] = NewTx
      BY <2>2, <3>1, AppendProperties
    <3>3. Len(txs[d]) \in Nat
      BY <2>2
    <3>4. g \in 1 .. Len(txs'[d]) /\ g \notin 1 .. Len(txs[d]) => txs'[d][g] = NewTx
      BY <3>2, <3>3
    <3> QED
      BY <2>2, <3>2, <3>3, <3>4
  <2> QED
    BY <2>3, <2>4
<1> QED
  BY <1>2, <1>3

LEMMA RecordKeeps ==
  ASSUME TInv, NEW w \in Worker, Record(w)
  PROVE  \A d \in Dir, g \in Nat :
           /\ Len(txs'[d]) = Len(txs[d])
           /\ g \in 1 .. Len(txs[d]) =>
                /\ txs'[d][g].committed <=> txs[d][g].committed
                /\ txs[d][g].committed => txs'[d][g] = txs[d][g]
<1> DEFINE c == Head(todo[w])
           h == held[w]
           t == txs[c.dir][h]
           a == Apply(t, c, inode[c.dir], inode[c.ino])
<1>1. todo[w] # <<>> /\ h \in 1 .. Len(txs[c.dir])
  BY DEF Record, TInv, Pointers
<1>2. c \in CallType
  BY <1>1 DEF TInv, TypeOK
<1>3. c.dir \in Dir /\ c.dir \in Ino /\ c.ino \in Ino
  BY <1>2 DEF CallType, Ino
<1>4. txs[c.dir] \in Seq(TxType) /\ t \in TxType
  BY <1>1, <1>3 DEF TInv, TypeOK
<1>5. a.committed = t.committed /\ ~t.committed
  <2>1. inode[c.dir] \in InodeType /\ inode[c.ino] \in InodeType
    BY <1>3 DEF TInv, TypeOK
  <2>2. a.committed = t.committed
    BY <1>2, <1>4, <2>1, ApplyKeeps
  <2>3. ~t.committed
    BY DEF Record
  <2> QED
    BY <2>2, <2>3
<1>6. CASE Throws(t, c)
  BY <1>6 DEF Record
<1>7. CASE ~Throws(t, c)
  <2>1. txs' = [txs EXCEPT ![c.dir] = [txs[c.dir] EXCEPT ![h] = a]]
    BY <1>7 DEF Record
  <2> HIDE DEF a
  <2> SUFFICES ASSUME NEW d \in Dir, NEW g \in Nat
               PROVE  /\ Len(txs'[d]) = Len(txs[d])
                      /\ g \in 1 .. Len(txs[d]) =>
                           /\ txs'[d][g].committed <=> txs[d][g].committed
                           /\ txs[d][g].committed => txs'[d][g] = txs[d][g]
    OBVIOUS
  <2>2. CASE d # c.dir
    BY <1>3, <2>1, <2>2 DEF TInv, TypeOK
  <2>3. CASE d = c.dir
    <3>1. txs'[d] = [txs[d] EXCEPT ![h] = a]
      BY <1>3, <2>1, <2>3 DEF TInv, TypeOK
    <3>2. Len(txs'[d]) = Len(txs[d])
      BY <1>4, <2>3, <3>1
    <3>3. g \in 1 .. Len(txs[d]) => txs'[d][g] = IF g = h THEN a ELSE txs[d][g]
      BY <1>4, <2>3, <3>1
    <3> QED
      BY <1>5, <2>3, <3>2, <3>3
  <2> QED
    BY <2>2, <2>3
<1> QED
  BY <1>6, <1>7

LEMMA JournalStepInv ==
  ASSUME IInv, NEW w \in Worker, JournalStep(w)
  PROVE  IInv'
<1>1. Running /\ UNCHANGED <<cpc, cdir, queue, job, done, batch, kpc, journalObj>>
  BY DEF JournalStep, GetEntry, Retry, Record, commitVars, cpVars, poolVars
<1>2. TInv /\ TInv'
  BY JournalStepType DEF IInv
<1>3. \A d \in Dir, g \in Nat :
        /\ g \in 1 .. Len(txs[d]) /\ txs[d][g].committed =>
             g \in 1 .. Len(txs'[d]) /\ txs'[d][g] = txs[d][g]
        /\ g \in 1 .. Len(txs'[d]) /\ txs'[d][g].committed =>
             g \in 1 .. Len(txs[d]) /\ txs[d][g].committed
  <2>1. CASE GetEntry(w)
    BY <1>2, <2>1, GetEntryKeeps
  <2>2. CASE Retry(w)
    BY <2>2 DEF Retry
  <2>3. CASE Record(w)
    BY <1>2, <2>3, RecordKeeps
  <2> QED
    BY <2>1, <2>2, <2>3 DEF JournalStep
<1>4. \A d \in Dir, g \in Nat : Written(d, g) => Written(d, g)'
  BY <1>1, <1>3 DEF Written
<1> QED
  BY <1>1, <1>2, <1>3, <1>4, QuietStep

----------------------------------------------------------------------------
(* What is in a queue, or at a checkpoint thread, stays written. *)
LEMMA QueuedKept ==
  ASSUME IInv, \A d \in Dir, g \in Nat : Written(d, g) => Written(d, g)',
         NEW q \in Queue, NEW k \in Nat, k \in 1 .. Len(queue[q]), queue[q][k] # Stop
  PROVE  \E d \in Dir, g \in Nat : queue[q][k] = <<d, g>> /\ Written(d, g)'
<1>1. queue[q] \in Seq((Dir \X Nat) \cup {Stop})
  BY DEF IInv, TInv, TypeOK
<1>2. queue[q][k] \in Dir \X Nat
  BY <1>1, ElementOfSeq
<1>3. PICK d \in Dir, g \in Nat : queue[q][k] = <<d, g>>
  BY <1>2
<1>4. Written(queue[q][k][1], queue[q][k][2])
  BY DEF IInv, WrittenFirst
<1>5. queue[q][k][1] = d /\ queue[q][k][2] = g
  BY <1>3
<1>6. Written(d, g)
  BY <1>4, <1>5
<1> QED
  BY <1>3, <1>6

LEMMA JobKept ==
  ASSUME IInv, \A d \in Dir, g \in Nat : Written(d, g) => Written(d, g)',
         NEW q \in Queue, kpc[q] \notin {"idle", "exit"}
  PROVE  \E d \in Dir, g \in Nat : job[q] = <<d, g>> /\ Written(d, g)'
<1>1. job[q] \in Dir \X Nat
  BY DEF IInv, TInv, TypeOK
<1>2. PICK d \in Dir, g \in Nat : job[q] = <<d, g>>
  BY <1>1
<1>3. Written(job[q][1], job[q][2])
  BY DEF IInv, WrittenFirst
<1>4. job[q][1] = d /\ job[q][2] = g
  BY <1>2
<1>5. Written(d, g)
  BY <1>3, <1>4
<1> QED
  BY <1>2, <1>5

(* Sealing a transaction keeps the ones that are written, and writes it.   *)
LEMMA CommitKeeps ==
  ASSUME TInv, NEW d \in Dir, Commit(d), ~txs[d][batch[d]].committed
  PROVE  /\ \A e \in Dir, h \in Nat : Written(e, h) => Written(e, h)'
         /\ Written(d, batch[d])'
         /\ \A e \in Dir, h \in Nat :
              h \in 1 .. Len(txs'[e]) /\ txs'[e][h].committed /\ ~(e = d /\ h = batch[d])
                => h \in 1 .. Len(txs[e]) /\ txs[e][h].committed
<1> DEFINE g == batch[d]
           o == Len(journalObj[d]) + 1
           sealed == [txs[d][g] EXCEPT !.committed = TRUE,
                                       !.offset = Len(journalObj[d]) + 1]
           R == [tx : Nat, size : BOOLEAN, valid : BOOLEAN]
<1>1. /\ g \in 1 .. Len(txs[d])
      /\ sealed.committed /\ sealed.offset = o
      /\ txs' = [txs EXCEPT ![d] = [txs[d] EXCEPT ![g] = sealed]]
      /\ journalObj' = [journalObj EXCEPT ![d] = Append(journalObj[d], Serialized(g))]
  BY CommitChange
<1>2. /\ \A e \in Dir : txs[e] \in Seq(TxType) /\ journalObj[e] \in Seq(R)
      /\ txs \in [Dir -> Seq(TxType)] /\ journalObj \in [Dir -> Seq(R)]
      /\ batch' = batch
  BY DEF TInv, TypeOK, Commit
<1> HIDE DEF sealed
<1>3. \A e \in Dir : e # d => txs'[e] = txs[e] /\ journalObj'[e] = journalObj[e]
  BY <1>1, <1>2
<1>4. txs'[d] = [txs[d] EXCEPT ![g] = sealed]
  BY <1>1, <1>2
<1>5. /\ Len(txs'[d]) = Len(txs[d])
      /\ txs'[d][g] = sealed
      /\ \A h \in 1 .. Len(txs[d]) : h # g => txs'[d][h] = txs[d][h]
  BY <1>1, <1>2, <1>4
<1>6. journalObj'[d] = Append(journalObj[d], Serialized(g))
  BY <1>1, <1>2
<1>7. Serialized(g) \in R
  BY <1>1 DEF Serialized
<1>8. /\ Len(journalObj'[d]) = o
      /\ journalObj'[d][o] = Serialized(g)
      /\ \A i \in 1 .. Len(journalObj[d]) : journalObj'[d][i] = journalObj[d][i]
  BY <1>2, <1>6, <1>7, AppendProperties
<1>9. Len(journalObj[d]) \in Nat
  BY <1>2
<1>10. Written(d, batch[d])'
  <2>1. Serialized(g).tx = g
    BY DEF Serialized
  <2> QED
    BY <1>1, <1>2, <1>5, <1>8, <1>9, <2>1 DEF Written
<1>11. ASSUME NEW e \in Dir, NEW h \in Nat, Written(e, h)
       PROVE  Written(e, h)'
  <2>1. CASE e # d
    BY <1>3, <1>11, <2>1 DEF Written
  <2>2. CASE e = d
    <3> DEFINE i == txs[d][h].offset
    <3>1. /\ h # g /\ h \in 1 .. Len(txs[d]) /\ txs[d][h].committed
          /\ i \in 1 .. Len(journalObj[d]) /\ journalObj[d][i].tx = h
      BY <1>11, <2>2 DEF Written
    <3>2. txs'[d][h] = txs[d][h] /\ h \in 1 .. Len(txs'[d])
      BY <1>5, <3>1
    <3>3. i \in 1 .. Len(journalObj'[d]) /\ journalObj'[d][i] = journalObj[d][i]
      BY <1>8, <1>9, <3>1
    <3> QED
      BY <2>2, <3>1, <3>2, <3>3 DEF Written
  <2> QED
    BY <2>1, <2>2
<1>12. \A e \in Dir, h \in Nat :
         h \in 1 .. Len(txs'[e]) /\ txs'[e][h].committed /\ ~(e = d /\ h = g) =>
           h \in 1 .. Len(txs[e]) /\ txs[e][h].committed
  BY <1>3, <1>5
<1> QED
  BY <1>10, <1>11, <1>12

LEMMA CommitInv ==
  ASSUME IInv, NEW d \in Dir, Commit(d)
  PROVE  IInv'
<1>1. TInv /\ TInv'
  BY CommitStepType DEF IInv, CommitStep
<1>2. /\ cpc = "loop" /\ cpc' = "issue" /\ cdir' = d
      /\ UNCHANGED <<batch, queue, kpc, job, done>>
  BY DEF Commit, cpVars
<1>3. StopIsLast'
  BY <1>2 DEF IInv, StopIsLast
<1>4. CASE txs[d][batch[d]].committed
  <2>1. failed' = "logic_error" /\ txs' = txs /\ journalObj' = journalObj
    BY <1>4 DEF Commit
  <2>2. WrittenFirst'
    BY <1>2, <2>1 DEF IInv, WrittenFirst, Written, Running
  <2>3. NoneForgotten'
    BY <1>2, <2>1 DEF IInv, NoneForgotten, AtCommit, Queued, AtWork
  <2> QED
    BY <1>1, <1>3, <2>2, <2>3 DEF IInv
<1>5. CASE ~txs[d][batch[d]].committed
  <2>1. /\ \A e \in Dir, h \in Nat : Written(e, h) => Written(e, h)'
        /\ Written(d, batch[d])'
        /\ \A e \in Dir, h \in Nat :
             h \in 1 .. Len(txs'[e]) /\ txs'[e][h].committed /\ ~(e = d /\ h = batch[d])
               => h \in 1 .. Len(txs[e]) /\ txs[e][h].committed
    BY <1>1, <1>5, CommitKeeps
  <2>2. WrittenFirst'
    <3>1. Written(cdir, batch[cdir])'
      BY <1>2, <2>1 DEF Written
    <3>2. ASSUME NEW q \in Queue, NEW k \in Nat, k \in 1 .. Len(queue'[q]),
                 queue'[q][k] # Stop
          PROVE  Written(queue[q][k][1], queue[q][k][2])'
      <4>1. PICK e \in Dir, h \in Nat : queue[q][k] = <<e, h>> /\ Written(e, h)'
        BY <1>2, <2>1, <3>2, QueuedKept
      <4> QED
        BY <1>2, <4>1 DEF Written
    <3>3. ASSUME NEW q \in Queue, kpc'[q] \notin {"idle", "exit"}
          PROVE  Written(job[q][1], job[q][2])'
      <4>1. PICK e \in Dir, h \in Nat : job[q] = <<e, h>> /\ Written(e, h)'
        BY <1>2, <2>1, <3>3, JobKept
      <4> QED
        BY <1>2, <4>1 DEF Written
    <3> QED
      BY <3>1, <3>2, <3>3 DEF WrittenFirst
  <2>3. NoneForgotten'
    <3> SUFFICES ASSUME NEW e \in Dir, NEW h \in Nat, h \in 1 .. Len(txs'[e]),
                        txs'[e][h].committed
                 PROVE  \/ h \in done'[e] \/ AtCommit(e, h)'
                        \/ Queued(e, h)' \/ AtWork(e, h)'
      BY DEF NoneForgotten
    <3>1. CASE e = d /\ h = batch[d]
      BY <1>2, <3>1 DEF AtCommit
    <3>2. CASE ~(e = d /\ h = batch[d])
      <4>1. h \in done[e] \/ Queued(e, h) \/ AtWork(e, h)
        BY <1>2, <2>1, <3>2 DEF IInv, NoneForgotten, AtCommit
      <4> QED
        BY <1>2, <4>1 DEF Queued, AtWork
    <3> QED
      BY <3>1, <3>2
  <2> QED
    BY <1>1, <1>3, <2>2, <2>3 DEF IInv
<1> QED
  BY <1>4, <1>5

(* What goes to the end of one queue, or of all, joins what is there.      *)
LEMMA QueueAppend ==
  ASSUME TInv, NEW q \in Queue, NEW x \in (Dir \X Nat) \cup {Stop},
         queue'[q] = Append(queue[q], x)
  PROVE  /\ Len(queue[q]) \in Nat /\ Len(queue'[q]) = Len(queue[q]) + 1
         /\ \A k \in 1 .. Len(queue[q]) : queue'[q][k] = queue[q][k]
         /\ queue'[q][Len(queue[q]) + 1] = x
<1>1. queue[q] \in Seq((Dir \X Nat) \cup {Stop})
  BY DEF TInv, TypeOK
<1> QED
  BY <1>1, AppendProperties

LEMMA IssueInv ==
  ASSUME IInv, Issue
  PROVE  IInv'
<1> USE QueueAssumption
<1> DEFINE c == QueueOf[cdir]
           h == batch[cdir]
<1>1. TInv /\ TInv'
  BY CommitStepType DEF IInv, CommitStep
<1>2. /\ Running /\ cpc = "issue" /\ cpc' = "loop"
      /\ UNCHANGED <<txs, journalObj, kpc, job, done>>
  BY DEF Issue, cpVars, poolVars
<1>3. /\ c \in Queue /\ cdir \in Dir /\ h \in Nat
      /\ <<cdir, h>> \in Dir \X Nat /\ <<cdir, h>> # Stop
  BY <1>1, StopAssumption DEF TInv, TypeOK
<1>4. \A q \in Queue : queue'[q] = IF q = c THEN Append(queue[q], <<cdir, h>>)
                                   ELSE queue[q]
  BY <1>1, <1>3 DEF Issue, TInv, TypeOK
<1>5. /\ Len(queue[c]) \in Nat /\ Len(queue'[c]) = Len(queue[c]) + 1
      /\ \A k \in 1 .. Len(queue[c]) : queue'[c][k] = queue[c][k]
      /\ queue'[c][Len(queue[c]) + 1] = <<cdir, h>>
  BY <1>1, <1>3, <1>4, QueueAppend
<1>6. \A d \in Dir, g \in Nat : Written(d, g) => Written(d, g)'
  BY <1>2 DEF Written
<1>7. Written(cdir, h)
  BY <1>2 DEF IInv, WrittenFirst
<1>8. ASSUME NEW q \in Queue, NEW k \in Nat, k \in 1 .. Len(queue'[q])
      PROVE  \/ k \in 1 .. Len(queue[q]) /\ queue'[q][k] = queue[q][k]
             \/ queue'[q][k] = <<cdir, h>>
  <2>1. CASE q # c
    BY <1>4, <1>8, <2>1
  <2>2. CASE q = c /\ k = Len(queue[c]) + 1
    BY <1>5, <2>2
  <2>3. CASE q = c /\ k # Len(queue[c]) + 1
    <3>1. k \in 1 .. Len(queue[c])
      BY <1>5, <1>8, <2>3
    <3> QED
      BY <1>5, <2>3, <3>1
  <2> QED
    BY <2>1, <2>2, <2>3
<1> HIDE DEF c, h
<1>9. WrittenFirst'
  <2>1. ASSUME NEW q \in Queue, NEW k \in Nat, k \in 1 .. Len(queue'[q]),
               queue'[q][k] # Stop
        PROVE  Written(queue[q][k][1], queue[q][k][2])'
    <3>1. PICK d \in Dir, g \in Nat : queue'[q][k] = <<d, g>> /\ Written(d, g)'
      <4>1. CASE k \in 1 .. Len(queue[q]) /\ queue'[q][k] = queue[q][k]
        BY <1>6, <2>1, <4>1, QueuedKept
      <4>2. CASE queue'[q][k] = <<cdir, h>>
        BY <1>3, <1>6, <1>7, <4>2
      <4> QED
        BY <1>8, <2>1, <4>1, <4>2
    <3> QED
      BY <3>1 DEF Written
  <2>2. ASSUME NEW q \in Queue, kpc'[q] \notin {"idle", "exit"}
        PROVE  Written(job[q][1], job[q][2])'
    <3>1. PICK d \in Dir, g \in Nat : job[q] = <<d, g>> /\ Written(d, g)'
      BY <1>2, <1>6, <2>2, JobKept
    <3> QED
      BY <1>2, <3>1 DEF Written
  <2> QED
    BY <1>2, <2>1, <2>2 DEF WrittenFirst
<1>10. StopIsLast'
  BY <1>2, <1>3, <1>8 DEF IInv, StopIsLast
<1>11. NoneForgotten'
  <2> SUFFICES ASSUME NEW d \in Dir, NEW g \in Nat, g \in 1 .. Len(txs[d]),
                      txs[d][g].committed
               PROVE  g \in done[d] \/ Queued(d, g)' \/ AtWork(d, g)'
    BY <1>2 DEF NoneForgotten
  <2>1. g \in done[d] \/ AtCommit(d, g) \/ Queued(d, g) \/ AtWork(d, g)
    BY DEF IInv, NoneForgotten
  <2>2. CASE AtCommit(d, g)
    <3>1. d = cdir /\ g = h /\ QueueOf[d] = c
      BY <2>2 DEF AtCommit, c, h
    <3>2. Len(queue[c]) + 1 \in 1 .. Len(queue'[c])
      BY <1>5
    <3> QED
      BY <1>5, <3>1, <3>2 DEF Queued
  <2>3. CASE Queued(d, g)
    <3> DEFINE p == QueueOf[d]
    <3>1. PICK k \in 1 .. Len(queue[p]) : queue[p][k] = <<d, g>>
      BY <2>3 DEF Queued
    <3>2. k \in 1 .. Len(queue'[p]) /\ queue'[p][k] = <<d, g>>
      <4>1. CASE p = c
        BY <1>5, <3>1, <4>1
      <4>2. CASE p # c
        BY <1>4, <3>1, <4>2
      <4> QED
        BY <4>1, <4>2
    <3> QED
      BY <3>2 DEF Queued
  <2>4. CASE AtWork(d, g)
    BY <1>2, <2>4 DEF AtWork
  <2> QED
    BY <2>1, <2>2, <2>3, <2>4
<1> QED
  BY <1>1, <1>9, <1>10, <1>11 DEF IInv

LEMMA LeaveInv ==
  ASSUME IInv, Leave
  PROVE  IInv'
<1> USE QueueAssumption
<1>1. TInv /\ TInv'
  BY CommitStepType DEF IInv, CommitStep
<1>2. /\ cpc = "loop" /\ cpc' = "exit"
      /\ UNCHANGED <<txs, journalObj, kpc, job, done>>
  BY DEF Leave, cpVars, poolVars
<1>3. \A q \in Queue : queue'[q] = Append(queue[q], Stop)
  BY DEF Leave
<1>4. \A q \in Queue :
        /\ Len(queue[q]) \in Nat /\ Len(queue'[q]) = Len(queue[q]) + 1
        /\ \A k \in 1 .. Len(queue[q]) : queue'[q][k] = queue[q][k]
        /\ queue'[q][Len(queue[q]) + 1] = Stop
  BY <1>1, <1>3, QueueAppend
<1>5. \A d \in Dir, g \in Nat : Written(d, g) => Written(d, g)'
  BY <1>2 DEF Written
<1>6. ASSUME NEW q \in Queue, NEW k \in Nat, k \in 1 .. Len(queue'[q])
      PROVE  \/ k \in 1 .. Len(queue[q]) /\ queue'[q][k] = queue[q][k]
             \/ k = Len(queue'[q]) /\ queue'[q][k] = Stop
  BY <1>4, <1>6
<1>7. WrittenFirst'
  <2>1. ASSUME NEW q \in Queue, NEW k \in Nat, k \in 1 .. Len(queue'[q]),
               queue'[q][k] # Stop
        PROVE  Written(queue[q][k][1], queue[q][k][2])'
    <3>1. k \in 1 .. Len(queue[q]) /\ queue'[q][k] = queue[q][k]
      BY <1>6, <2>1
    <3>2. PICK d \in Dir, g \in Nat : queue'[q][k] = <<d, g>> /\ Written(d, g)'
      BY <1>5, <2>1, <3>1, QueuedKept
    <3> QED
      BY <3>2 DEF Written
  <2>2. ASSUME NEW q \in Queue, kpc'[q] \notin {"idle", "exit"}
        PROVE  Written(job[q][1], job[q][2])'
    <3>1. PICK d \in Dir, g \in Nat : job[q] = <<d, g>> /\ Written(d, g)'
      BY <1>2, <1>5, <2>2, JobKept
    <3> QED
      BY <1>2, <3>1 DEF Written
  <2> QED
    BY <1>2, <2>1, <2>2 DEF WrittenFirst
<1>8. StopIsLast'
  BY <1>2, <1>6 DEF IInv, StopIsLast
<1>9. NoneForgotten'
  <2> SUFFICES ASSUME NEW d \in Dir, NEW g \in Nat, g \in 1 .. Len(txs[d]),
                      txs[d][g].committed
               PROVE  g \in done[d] \/ Queued(d, g)' \/ AtWork(d, g)'
    BY <1>2 DEF NoneForgotten
  <2>1. g \in done[d] \/ Queued(d, g) \/ AtWork(d, g)
    BY <1>2 DEF IInv, NoneForgotten, AtCommit
  <2>2. QueueOf[d] \in Queue
    OBVIOUS
  <2>3. CASE Queued(d, g)
    <3> DEFINE p == QueueOf[d]
    <3>1. PICK k \in 1 .. Len(queue[p]) : queue[p][k] = <<d, g>>
      BY <2>3 DEF Queued
    <3>2. k \in 1 .. Len(queue'[p]) /\ queue'[p][k] = <<d, g>>
      BY <1>4, <2>2, <3>1
    <3> QED
      BY <3>2 DEF Queued
  <2>4. CASE AtWork(d, g)
    BY <1>2, <2>4 DEF AtWork
  <2> QED
    BY <2>1, <2>3, <2>4
<1> QED
  BY <1>1, <1>7, <1>8, <1>9 DEF IInv

LEMMA CommitStepInv ==
  ASSUME IInv, CommitStep \/ RaiseStop
  PROVE  IInv'
<1>1. TInv'
  BY CommitStepType DEF IInv
<1>2. CASE ReplaceMap \/ RaiseStop
  <2>1. /\ Running /\ UNCHANGED <<cpc, cdir, queue, job, done, kpc, txs, journalObj>>
        /\ cpc = "issue" => batch' = batch
    BY <1>2 DEF ReplaceMap, RaiseStop, commitVars, cpVars, poolVars
  <2>2. \A d \in Dir, g \in Nat : Written(d, g) => Written(d, g)'
    BY <2>1 DEF Written
  <2> QED
    BY <1>1, <2>1, <2>2, QuietStep
<1> QED
  BY <1>2, CommitInv, IssueInv, LeaveInv DEF CommitStep

----------------------------------------------------------------------------
LEMMA DispatchInv ==
  ASSUME IInv, NEW q \in Queue, Dispatch(q)
  PROVE  IInv'
<1> USE QueueAssumption
<1>1. TInv /\ TInv'
  BY CheckpointStepType DEF IInv, CheckpointStep
<1>2. UNCHANGED <<txs, journalObj, cpc, cdir, batch, done, failed>>
  BY DEF Dispatch, commitVars, poolVars
<1>3. /\ kpc[q] = "idle" /\ queue[q] # <<>>
      /\ queue' = [queue EXCEPT ![q] = Tail(queue[q])]
  BY DEF Dispatch
<1>4. queue[q] \in Seq((Dir \X Nat) \cup {Stop})
  BY <1>1 DEF TInv, TypeOK
<1>5. /\ Len(queue[q]) \in Nat \ {0} /\ Head(queue[q]) = queue[q][1]
      /\ Len(Tail(queue[q])) = Len(queue[q]) - 1
      /\ \A k \in 1 .. Len(queue[q]) - 1 : Tail(queue[q])[k] = queue[q][k + 1]
  BY <1>3, <1>4
<1>a. /\ queue'[q] = Tail(queue[q])
      /\ \A p \in Queue : p # q => queue'[p] = queue[p]
  BY <1>1, <1>3 DEF TInv, TypeOK
<1>6. /\ Len(queue'[q]) = Len(queue[q]) - 1
      /\ \A k \in 1 .. Len(queue[q]) - 1 : queue'[q][k] = queue[q][k + 1]
      /\ \A p \in Queue : p # q => queue'[p] = queue[p]
  BY <1>5, <1>a
<1>b. Len(queue[q]) \in Nat \ {0}
  BY <1>5
<1>7. /\ \A p \in Queue : p # q => kpc'[p] = kpc[p] /\ job'[p] = job[p]
      /\ queue[q][1] = Stop => kpc'[q] = "exit"
      /\ queue[q][1] # Stop => kpc'[q] = "load" /\ job'[q] = queue[q][1]
  <2>1. CASE Head(queue[q]) = Stop
    BY <1>1, <1>5, <2>1 DEF Dispatch, TInv, TypeOK
  <2>2. CASE Head(queue[q]) # Stop
    BY <1>1, <1>5, <2>2 DEF Dispatch, TInv, TypeOK
  <2> QED
    BY <2>1, <2>2
<1>8. \A d \in Dir, g \in Nat : Written(d, g) => Written(d, g)'
  BY <1>2 DEF Written
<1>9. ASSUME NEW p \in Queue, NEW k \in Nat, k \in 1 .. Len(queue'[p])
      PROVE  IF p = q THEN k + 1 \in 1 .. Len(queue[p]) /\ queue'[p][k] = queue[p][k + 1]
             ELSE k \in 1 .. Len(queue[p]) /\ queue'[p][k] = queue[p][k]
  BY <1>6, <1>9, <1>b
<1>10. WrittenFirst'
  <2>1. cpc' = "issue" /\ Running' => Written(cdir, batch[cdir])'
    BY <1>2 DEF IInv, WrittenFirst, Running, Written
  <2>2. ASSUME NEW p \in Queue, NEW k \in Nat, k \in 1 .. Len(queue'[p]),
               queue'[p][k] # Stop
        PROVE  Written(queue[p][k][1], queue[p][k][2])'
    <3>1. PICK i \in Nat : i \in 1 .. Len(queue[p]) /\ queue'[p][k] = queue[p][i]
      BY <1>9, <2>2
    <3>2. PICK d \in Dir, g \in Nat : queue[p][i] = <<d, g>> /\ Written(d, g)'
      BY <1>8, <2>2, <3>1, QueuedKept
    <3> QED
      BY <3>1, <3>2 DEF Written
  <2>3. ASSUME NEW p \in Queue, kpc'[p] \notin {"idle", "exit"}
        PROVE  Written(job[p][1], job[p][2])'
    <3>1. PICK d \in Dir, g \in Nat : job'[p] = <<d, g>> /\ Written(d, g)'
      <4>1. CASE p = q
        <5>1. queue[q][1] # Stop /\ job'[q] = queue[q][1]
          BY <1>7, <2>3, <4>1
        <5>2. 1 \in Nat /\ 1 \in 1 .. Len(queue[q])
          BY <1>5
        <5> QED
          BY <1>8, <4>1, <5>1, <5>2, QueuedKept
      <4>2. CASE p # q
        BY <1>7, <1>8, <2>3, <4>2, JobKept
      <4> QED
        BY <4>1, <4>2
    <3> QED
      BY <3>1 DEF Written
  <2> QED
    BY <2>1, <2>2, <2>3 DEF WrittenFirst
<1>11. StopIsLast'
  <2>1. ASSUME NEW p \in Queue, NEW k \in Nat, k \in 1 .. Len(queue'[p]),
               queue'[p][k] = Stop
        PROVE  cpc' = "exit" /\ k = Len(queue'[p])
    <3>1. CASE p = q
      <4>1. k + 1 \in Nat /\ k + 1 \in 1 .. Len(queue[q]) /\ queue[q][k + 1] = Stop
        BY <1>9, <2>1, <3>1
      <4>2. cpc = "exit" /\ k + 1 = Len(queue[q])
        BY <4>1 DEF IInv, StopIsLast
      <4> QED
        BY <1>2, <1>6, <1>b, <3>1, <4>2
    <3>2. CASE p # q
      BY <1>2, <1>6, <2>1, <3>2 DEF IInv, StopIsLast
    <3> QED
      BY <3>1, <3>2
  <2>2. ASSUME NEW p \in Queue, kpc'[p] = "exit"
        PROVE  cpc' = "exit" /\ queue'[p] = <<>>
    <3>1. CASE p = q
      <4>1. queue[q][1] = Stop /\ 1 \in Nat /\ 1 \in 1 .. Len(queue[q])
        BY <1>5, <1>7, <2>2, <3>1
      <4>2. cpc = "exit" /\ Len(queue[q]) = 1
        BY <4>1 DEF IInv, StopIsLast
      <4>3. Tail(queue[q]) \in Seq((Dir \X Nat) \cup {Stop}) /\ Len(Tail(queue[q])) = 0
        BY <1>3, <1>4, <1>5, <4>2
      <4> QED
        BY <1>2, <1>a, <3>1, <4>2, <4>3, EmptySeq
    <3>2. CASE p # q
      BY <1>2, <1>6, <1>7, <2>2, <3>2 DEF IInv, StopIsLast
    <3> QED
      BY <3>1, <3>2
  <2> QED
    BY <2>1, <2>2 DEF StopIsLast
<1>12. NoneForgotten'
  <2> SUFFICES ASSUME NEW d \in Dir, NEW g \in Nat, g \in 1 .. Len(txs[d]),
                      txs[d][g].committed
               PROVE  g \in done[d] \/ AtCommit(d, g)' \/ Queued(d, g)' \/ AtWork(d, g)'
    BY <1>2 DEF NoneForgotten
  <2> DEFINE p == QueueOf[d]
  <2>1. g \in done[d] \/ AtCommit(d, g) \/ Queued(d, g) \/ AtWork(d, g)
    BY DEF IInv, NoneForgotten
  <2>2. p \in Queue /\ <<d, g>> # Stop
    BY StopAssumption
  <2>3. CASE AtCommit(d, g)
    BY <1>2, <2>3 DEF AtCommit
  <2>4. CASE Queued(d, g)
    <3>1. PICK k \in 1 .. Len(queue[p]) : queue[p][k] = <<d, g>>
      BY <2>4 DEF Queued
    <3>2. CASE p # q
      BY <1>6, <2>2, <3>1, <3>2 DEF Queued
    <3>3. CASE p = q /\ k = 1
      <4>1. kpc'[q] = "load" /\ job'[q] = <<d, g>>
        BY <1>7, <2>2, <3>1, <3>3
      <4> QED
        BY <3>3, <4>1 DEF AtWork
    <3>4. CASE p = q /\ k # 1
      <4>1. k - 1 \in 1 .. Len(queue'[p]) /\ queue'[p][k - 1] = <<d, g>>
        BY <1>6, <1>b, <3>1, <3>4
      <4> QED
        BY <4>1 DEF Queued
    <3> QED
      BY <3>2, <3>3, <3>4
  <2>5. CASE AtWork(d, g)
    BY <1>3, <1>7, <2>2, <2>5 DEF AtWork
  <2> QED
    BY <2>1, <2>3, <2>4, <2>5
<1> QED
  BY <1>1, <1>10, <1>11, <1>12 DEF IInv

(* Clearing the record leaves its transaction's number where it is.        *)
LEMMA ClearInv ==
  ASSUME IInv, NEW q \in Queue, Clear(q)
  PROVE  IInv'
<1> USE QueueAssumption
<1> DEFINE c == job[q][1]
           o == JobTx(q).offset
           R == [tx : Nat, size : BOOLEAN, valid : BOOLEAN]
           rec == [journalObj[c][o] EXCEPT !.size = FALSE]
<1>1. TInv /\ TInv'
  BY CheckpointStepType DEF IInv, CheckpointStep
<1>2. UNCHANGED <<txs, cpc, cdir, batch, queue, failed>> /\ kpc[q] = "clear"
  BY DEF Clear, commitVars
<1>3. /\ kpc'[q] = "idle"
      /\ \A p \in Queue : p # q => kpc'[p] = kpc[p] /\ job'[p] = job[p]
  BY <1>1 DEF Clear, TInv, TypeOK
<1>4. c \in Dir /\ job[q][2] \in Nat /\ job[q] = <<c, job[q][2]>>
  <2>1. job[q] \in Dir \X Nat
    BY <1>1 DEF TInv, TypeOK
  <2> QED
    BY <2>1
<1>5. \A d \in Dir : done[d] \subseteq done'[d]
  BY <1>1, <1>4 DEF Clear, TInv, TypeOK
<1>6. job[q][2] \in done'[c]
  BY <1>1, <1>4 DEF Clear, TInv, TypeOK
<1>7. journalObj' = [journalObj EXCEPT ![c] = [journalObj[c] EXCEPT ![o] = rec]]
  BY DEF Clear
<1>8. \A d \in Dir : journalObj[d] \in Seq(R)
  BY <1>1 DEF TInv, TypeOK
<1>9. o \in 1 .. Len(journalObj[c])
  BY <1>2 DEF IInv, WrittenFirst, Written, JobTx
<1>10. rec.tx = journalObj[c][o].tx
  <2>1. journalObj[c][o] \in R
    BY <1>4, <1>8, <1>9, ElementOfSeq
  <2> QED
    BY <2>1
<1> HIDE DEF c, o, rec
<1>11. ASSUME NEW d \in Dir
       PROVE  /\ Len(journalObj'[d]) = Len(journalObj[d])
              /\ \A i \in 1 .. Len(journalObj[d]) :
                   journalObj'[d][i].tx = journalObj[d][i].tx
  <2>1. CASE d # c
    BY <1>1, <1>4, <1>7, <2>1 DEF TInv, TypeOK
  <2>2. CASE d = c
    <3>1. journalObj'[d] = [journalObj[d] EXCEPT ![o] = rec]
      BY <1>1, <1>4, <1>7, <2>2 DEF TInv, TypeOK
    <3> QED
      BY <1>8, <1>9, <1>10, <2>2, <3>1
  <2> QED
    BY <2>1, <2>2
<1>12. \A d \in Dir, g \in Nat : Written(d, g) => Written(d, g)'
  BY <1>2, <1>11 DEF Written
<1>13. WrittenFirst'
  <2>1. cpc' = "issue" /\ Running' => Written(cdir, batch[cdir])'
    <3> SUFFICES ASSUME cpc' = "issue", Running' PROVE Written(cdir, batch[cdir])'
      OBVIOUS
    <3>1. PICK d \in Dir, g \in Nat : d = cdir /\ g = batch[cdir]
      BY <1>1 DEF TInv, TypeOK
    <3>2. Written(d, g)
      BY <1>2, <3>1 DEF IInv, WrittenFirst, Running
    <3>3. Written(d, g)'
      BY <1>12, <3>2
    <3> QED
      BY <1>2, <3>1, <3>3 DEF Written
  <2>2. ASSUME NEW p \in Queue, NEW k \in Nat, k \in 1 .. Len(queue'[p]),
               queue'[p][k] # Stop
        PROVE  Written(queue[p][k][1], queue[p][k][2])'
    <3>1. PICK d \in Dir, g \in Nat : queue[p][k] = <<d, g>> /\ Written(d, g)'
      BY <1>2, <1>12, <2>2, QueuedKept
    <3> QED
      BY <1>2, <3>1 DEF Written
  <2>3. ASSUME NEW p \in Queue, kpc'[p] \notin {"idle", "exit"}
        PROVE  Written(job[p][1], job[p][2])'
    <3>1. p # q
      BY <1>3, <2>3
    <3>2. PICK d \in Dir, g \in Nat : job[p] = <<d, g>> /\ Written(d, g)'
      BY <1>3, <1>12, <2>3, <3>1, JobKept
    <3> QED
      BY <1>3, <3>1, <3>2 DEF Written
  <2> QED
    BY <2>1, <2>2, <2>3 DEF WrittenFirst
<1>14. StopIsLast'
  BY <1>2, <1>3 DEF IInv, StopIsLast
<1>15. NoneForgotten'
  <2> SUFFICES ASSUME NEW d \in Dir, NEW g \in Nat, g \in 1 .. Len(txs[d]),
                      txs[d][g].committed
               PROVE  g \in done'[d] \/ AtCommit(d, g)' \/ Queued(d, g)' \/ AtWork(d, g)'
    BY <1>2 DEF NoneForgotten
  <2>1. g \in done[d] \/ AtCommit(d, g) \/ Queued(d, g) \/ AtWork(d, g)
    BY DEF IInv, NoneForgotten
  <2>2. CASE AtCommit(d, g) \/ Queued(d, g)
    BY <1>2, <2>2 DEF AtCommit, Queued
  <2>3. CASE AtWork(d, g)
    <3>1. CASE QueueOf[d] = q
      <4>1. d = c /\ g = job[q][2]
        BY <1>4, <2>3, <3>1 DEF AtWork
      <4> QED
        BY <1>6, <4>1
    <3>2. CASE QueueOf[d] # q
      BY <1>3, <2>3, <3>2 DEF AtWork
    <3> QED
      BY <3>1, <3>2
  <2> QED
    BY <1>5, <2>1, <2>2, <2>3
<1> QED
  BY <1>1, <1>13, <1>14, <1>15 DEF IInv

LEMMA CheckpointStepInv ==
  ASSUME IInv, NEW q \in Queue, CheckpointStep(q)
  PROVE  IInv'
<1>1. TInv /\ TInv'
  BY CheckpointStepType DEF IInv
<1>2. CASE SyncRemoved(q) \/ SyncLoad(q) \/ SyncSave(q)
  <2>1. Running /\ UNCHANGED <<cpc, cdir, queue, job, done, batch, txs, journalObj>>
    BY <1>2 DEF SyncRemoved, SyncLoad, SyncSave, commitVars
  <2>2. \A p \in Queue : /\ kpc'[p] = "idle" <=> kpc[p] = "idle"
                         /\ kpc'[p] = "exit" <=> kpc[p] = "exit"
    BY <1>1, <1>2 DEF SyncRemoved, SyncLoad, SyncSave, TInv, TypeOK
  <2>3. \A d \in Dir, g \in Nat : Written(d, g) => Written(d, g)'
    BY <2>1 DEF Written
  <2> QED
    BY <1>1, <2>1, <2>2, <2>3, QuietStep
<1> QED
  BY <1>2, DispatchInv, ClearInv DEF CheckpointStep

(***************************************************************************)
(* Every step of the workers, the commit thread and the checkpoint threads *)
(* preserves the inductive invariant.                                      *)
(***************************************************************************)
LEMMA StepInv == IInv /\ [Next]_vars => IInv'
<1> SUFFICES ASSUME IInv, [Next]_vars PROVE IInv'
  OBVIOUS
<1>1. CASE Next
  BY <1>1, OperationInv, JournalStepInv, CommitStepInv, CheckpointStepInv DEF Next
<1>2. CASE UNCHANGED vars
  <2>1. UNCHANGED <<mem, inode, used, alive, lock, todo, held, tries, ops, moved,
                    open, txs, done, cpc, batch, cdir, queue, kpc, job, buf, stopped, failed,
                    inodeObj, dentryObj, journalObj>>
    BY <1>2 DEF vars, memVars, commitVars, cpVars, poolVars
  <2>2. TypeOK'
    BY <2>1 DEF IInv, TInv, TypeOK
  <2>3. Pointers' /\ StopIsLast'
    BY <2>1 DEF IInv, TInv, Pointers, StopIsLast
  <2>4. WrittenFirst'
    BY <2>1 DEF IInv, WrittenFirst, Written, Running
  <2>5. NoneForgotten'
    BY <2>1 DEF IInv, NoneForgotten, AtCommit, Queued, AtWork
  <2> QED
    BY <2>2, <2>3, <2>4, <2>5 DEF IInv, TInv
<1> QED
  BY <1>1, <1>2

LEMMA Inductive == Spec => []IInv
BY InitInv, StepInv, PTL DEF Spec

(***************************************************************************)
(* The variables of the leader's memory, the journal and the metadata pool *)
(* keep their types: no index stands for a transaction or a record that    *)
(* does not exist when it is followed.                                     *)
(***************************************************************************)
THEOREM TypeCorrect == Spec => []TypeOK
<1>1. IInv => TypeOK
  BY DEF IInv, TInv
<1> QED
  BY <1>1, Inductive, PTL

(***************************************************************************)
(* A checkpoint thread (checkpoint::operator()) only ever works on a       *)
(* transaction that transaction::commit has sealed and written to the      *)
(* journal object of its directory.                                        *)
(***************************************************************************)
THEOREM WrittenAhead == Spec => []WriteAhead
<1>1. IInv => WriteAhead
  BY DEF IInv, WrittenFirst, Written, WriteAhead, JobTx
<1> QED
  BY <1>1, Inductive, PTL

(***************************************************************************)
(* When all checkpoint threads have ended (journal::~journal), every       *)
(* transaction that was ever committed is checkpointed.                    *)
(***************************************************************************)
THEOREM Drained == Spec => []DrainedAtExit
<1>1. ASSUME IInv PROVE DrainedAtExit
  <2> SUFFICES ASSUME \A q \in Queue : kpc[q] = "exit",
                      NEW d \in Dir, NEW g \in 1 .. Len(txs[d]), txs[d][g].committed
               PROVE  g \in done[d]
    BY DEF DrainedAtExit
  <2>1. QueueOf[d] \in Queue /\ g \in Nat
    BY <1>1, QueueAssumption DEF IInv, TInv, TypeOK
  <2>2. cpc = "exit" /\ queue[QueueOf[d]] = <<>> /\ kpc[QueueOf[d]] = "exit"
    BY <1>1, <2>1 DEF IInv, StopIsLast
  <2>3. ~AtCommit(d, g) /\ ~AtWork(d, g)
    BY <2>2 DEF AtCommit, AtWork
  <2>4. ~Queued(d, g)
    BY <2>2 DEF Queued
  <2> QED
    BY <1>1, <2>1, <2>3, <2>4 DEF IInv, NoneForgotten
<1> QED
  BY <1>1, Inductive, PTL
============================================================================
