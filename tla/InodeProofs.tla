----------------------------- MODULE InodeProofs -----------------------------
(***************************************************************************)
(* What the transactions of Journal say of inodes, for any directories,    *)
(* names, files, workers and queues: no check of a transaction fires, and  *)
(* no change of an inode is lost or overtaken.                             *)
(*                                                                         *)
(* One directory names a file, and unless the file has moved away from a   *)
(* transaction that has its inode still to write, no other directory will  *)
(* write it (OneHome).  Whether the transactions of a directory have a     *)
(* file is what the next call about it finds (FilesLogged).  A directory's *)
(* own inode goes with every call that changes an entry: its times are     *)
(* stamped on the copy a transaction has already, whose attributes are     *)
(* then those in memory (SelvesLogged).  What the applied transactions say *)
(* is in the inode objects (InodesPooled).                                 *)
(***************************************************************************)
EXTENDS CheckpointProofs

----------------------------------------------------------------------------
(* The inodes of files: what the calls find and leave, as far as the       *)
(* transactions can tell.  A file that is there has the word Root, as the  *)
(* entry of a name has an inode number, so that a log of files says what a *)
(* log of entries says.                                                    *)
FileCall(c) == c.fn \in {"mkreg", "rmreg", "chreg"}
OfFile(c, d, f) == FileCall(c) /\ c.dir = d /\ c.ino = f
FileStep(c, d, f) ==
  IF OfFile(c, d, f) THEN Step(IF c.fn = "mkreg" THEN None ELSE Root,
                               IF c.fn = "rmreg" THEN None ELSE Root)
  ELSE Skip
FileTrace(s, d, f) == [k \in 1 .. Len(s) |-> FileStep(s[k], d, f)]
FileWord(v) == IF v = None THEN None ELSE [alive |-> v # Null, ino |-> Root]
FileLog(d, f) == [g \in All(d) |-> txs[d][g].f_inodes[f]]
FileWords(d, f) == [g \in All(d) |-> FileWord(txs[d][g].f_inodes[f])]

Named(d, f) == \E n \in Name : mem[d][n] = f
Listed(d, f) == IF Named(d, f) THEN Root ELSE None
Unsaved(d, f) == \E w \in Worker : \E k \in 1 .. Len(todo[w]) : OfFile(todo[w][k], d, f)
FileAt(d, f) == Named(d, f) \/ Unsaved(d, f) \/ ~Silent(FileLog(d, f), All(d))

(* A change of a file's inode alone is made with the file's mutex, and no  *)
(* two workers have calls about one file of a directory.                   *)
FileLocked ==
  /\ \A w \in Worker : \A k \in 1 .. Len(todo[w]) :
       /\ FileCall(todo[w][k]) => todo[w][k].ino \in File
       /\ todo[w][k].fn = "chreg" => lock[todo[w][k].ino] = w
  /\ \A d \in Dir : \A f \in File : \A w \in Worker : \A i \in Worker :
       \A k \in 1 .. Len(todo[w]) : \A j \in 1 .. Len(todo[i]) :
         OfFile(todo[w][k], d, f) /\ OfFile(todo[i][j], d, f) => i = w

(* Nobody puts a file into a newer transaction than a caller has got.      *)
FileNothingNewer ==
  \A w \in Worker : held[w] # 0 /\ FileCall(Head(todo[w])) =>
    \A h \in All(Head(todo[w]).dir) : h > held[w] =>
      txs[Head(todo[w]).dir][h].f_inodes[Head(todo[w]).ino] = None

(* A directory has the inode of a file still to write: in a transaction    *)
(* that is not checkpointed, or by a call.                                 *)
Saves(c, d, f) == OfFile(c, d, f) /\ c.fn # "rmreg"
Bound(d, f) ==
  Carries(d, f) \/ \E w \in Worker : \E k \in 1 .. Len(todo[w]) : Saves(todo[w][k], d, f)

(* A file has one name, in one directory, and unless it moved too early no *)
(* other directory has its inode to write.                                 *)
OneHome ==
  /\ \A d \in Dir : \A f \in File : FileAt(d, f) => f \in used
  /\ \A d \in Dir : \A f \in File : Named(d, f) =>
       \A n \in Name : \A m \in Name : mem[d][n] = f /\ mem[d][m] = f => m = n
  /\ \A d \in Dir : \A e \in Dir : \A f \in File : Named(d, f) /\ Named(e, f) => e = d
  /\ \A d \in Dir : \A e \in Dir : \A f \in File :
       Named(d, f) /\ f \notin moved /\ Bound(e, f) => e = d

(* Whether the transactions have a file is what its next call finds, and   *)
(* the last call leaves what the table says; with no call left they have   *)
(* its inode.                                                              *)
FileLogged(d, f) ==
  /\ \E u \in {Root, None} :
       /\ Says(FileWords(d, f), All(d), u)
       /\ \A w \in Worker : Path(FileTrace(todo[w], d, f), Len(todo[w]), u, Listed(d, f))
       /\ ~Unsaved(d, f) => u = Listed(d, f)
  /\ ~Unsaved(d, f) /\ Named(d, f) => Latest(FileLog(d, f), All(d), inode[f])

FilesLogged == FileLocked /\ FileNothingNewer /\ OneHome
               /\ \A d \in Dir : \A f \in File : FileLogged(d, f)

LEMMA Word ==
  ASSUME NEW v
  PROVE  /\ FileWord(v) = None <=> v = None
         /\ v # None => EntryIno(FileWord(v)) = IF v = Null THEN None ELSE Root
<1>1. [alive |-> v # Null, ino |-> Root] \in [alive : BOOLEAN, ino : Ino]
  BY RootAssumption DEF Ino
<1>2. [alive |-> v # Null, ino |-> Root] # None
  BY <1>1, NoneAssumption
<1> QED BY <1>2 DEF FileWord, EntryIno

(* What a call does to the inodes in a transaction.                        *)
Stamped(s, self) == IF s = None THEN self ELSE [s EXCEPT !.time = self.time]

LEMMA ApplyInodes ==
  ASSUME NEW t \in TxType, NEW c \in CallType, NEW self \in InodeType,
         NEW i \in InodeType, FileCall(c) => c.ino \in File
  PROVE  /\ Apply(t, c, self, i).f_inodes =
              IF c.fn \in {"mkreg", "chreg"} THEN [t.f_inodes EXCEPT ![c.ino] = i]
              ELSE IF c.fn = "rmreg" THEN [t.f_inodes EXCEPT ![c.ino] = Null]
              ELSE t.f_inodes
         /\ Apply(t, c, self, i).s_inode =
              IF c.fn \in {"mkself", "chself"} THEN self
              ELSE IF NameCall(c) THEN Stamped(t.s_inode, self)
              ELSE t.s_inode
<1>1. \A u \in TxType : /\ StampSelf(u, self).f_inodes = u.f_inodes
                        /\ StampSelf(u, self).s_inode = Stamped(u.s_inode, self)
  BY DEF StampSelf, Stamped, TxType
<1>2. ASSUME NEW b \in BOOLEAN
      PROVE  /\ [t EXCEPT !.dentries[c.name] = [alive |-> b, ino |-> c.ino]] \in TxType
             /\ [t EXCEPT !.dentries[c.name] = [alive |-> b, ino |-> c.ino]].f_inodes = t.f_inodes
             /\ [t EXCEPT !.dentries[c.name] = [alive |-> b, ino |-> c.ino]].s_inode = t.s_inode
  <2>1. [t.dentries EXCEPT ![c.name] = [alive |-> b, ino |-> c.ino]]
          \in [Name -> [alive : BOOLEAN, ino : Ino] \cup {None}]
    BY DEF TxType, CallType
  <2> QED
    BY <2>1 DEF TxType
<1>3. /\ tx_mkdir(t, self, c.name, c.ino).f_inodes = t.f_inodes
      /\ tx_mkdir(t, self, c.name, c.ino).s_inode = Stamped(t.s_inode, self)
      /\ tx_rmdir(t, self, c.name, c.ino).f_inodes = t.f_inodes
      /\ tx_rmdir(t, self, c.name, c.ino).s_inode = Stamped(t.s_inode, self)
  BY <1>1, <1>2 DEF tx_mkdir, tx_rmdir
<1>4. /\ tx_mkdir(t, self, c.name, c.ino) \in TxType
      /\ tx_rmdir(t, self, c.name, c.ino) \in TxType
  <2>1. c.name \in Name \cup {None} /\ c.ino \in Ino
    BY DEF CallType
  <2> QED BY <2>1, EntryType
<1>5. ASSUME NEW u \in TxType, NEW v
      PROVE  /\ [u EXCEPT !.f_inodes[c.ino] = v].f_inodes = [u.f_inodes EXCEPT ![c.ino] = v]
             /\ [u EXCEPT !.f_inodes[c.ino] = v].s_inode = u.s_inode
  BY DEF TxType
<1>6. /\ tx_mkreg(t, self, c.name, c.ino, i).f_inodes = [t.f_inodes EXCEPT ![c.ino] = i]
      /\ tx_mkreg(t, self, c.name, c.ino, i).s_inode = Stamped(t.s_inode, self)
      /\ tx_rmreg(t, self, c.name, c.ino).f_inodes = [t.f_inodes EXCEPT ![c.ino] = Null]
      /\ tx_rmreg(t, self, c.name, c.ino).s_inode = Stamped(t.s_inode, self)
      /\ tx_chreg(t, c.ino, i).f_inodes = [t.f_inodes EXCEPT ![c.ino] = i]
      /\ tx_chreg(t, c.ino, i).s_inode = t.s_inode
  BY <1>3, <1>4, <1>5 DEF tx_mkreg, tx_rmreg, tx_chreg
<1>7. /\ tx_mkself(t, self).f_inodes = t.f_inodes /\ tx_mkself(t, self).s_inode = self
      /\ tx_rmself(t).f_inodes = t.f_inodes /\ tx_rmself(t).s_inode = t.s_inode
      /\ tx_chself(t, self).f_inodes = t.f_inodes /\ tx_chself(t, self).s_inode = self
  BY DEF tx_mkself, tx_rmself, tx_chself, TxType
<1>8. c.fn \in {"mkself", "rmself", "chself", "mkdir", "rmdir",
                "mkreg", "rmreg", "chreg"}
  BY DEF CallType
<1>9. CASE c.fn \in {"mkdir", "rmdir"}
  BY <1>3, <1>9 DEF Apply, NameCall
<1>10. CASE c.fn \in {"mkreg", "rmreg", "chreg"}
  BY <1>6, <1>10 DEF Apply, NameCall
<1>11. CASE c.fn \in {"mkself", "rmself", "chself"}
  BY <1>7, <1>11 DEF Apply, NameCall
<1> QED BY <1>8, <1>9, <1>10, <1>11

(* A directory does not come to carry an inode by a step that writes none  *)
(* to its transactions.                                                    *)
LEMMA CarriesStays ==
  ASSUME NEW d \in Dir, NEW f \in File, Carries(d, f)', done[d] \subseteq done'[d],
         \A g \in All(d)' \ done'[d] : txs'[d][g].f_inodes[f] \notin {None, Null} =>
           g \in All(d) /\ txs[d][g].f_inodes[f] \notin {None, Null}
  PROVE  Carries(d, f)
<1>1. PICK g \in All(d)' \ done'[d] : txs'[d][g].f_inodes[f] \notin {None, Null}
  BY DEF Carries, Pending, All
<1>2. g \in All(d) \ done[d] /\ txs[d][g].f_inodes[f] \notin {None, Null}
  BY <1>1
<1> QED BY <1>2 DEF Carries, Pending, All

(* What happens to no name and brings no directory an inode to write keeps *)
(* the homes.                                                              *)
LEMMA HomesStay ==
  ASSUME OneHome, mem' = mem, moved' = moved, used' = used,
         \A d \in Dir : \A f \in File : (FileAt(d, f)' => FileAt(d, f)) /\
                                       (Bound(d, f)' => Bound(d, f))
  PROVE  OneHome'
<1>1. \A d \in Dir : \A f \in File : Named(d, f)' <=> Named(d, f)
  BY DEF Named
<1>2. \A d \in Dir : \A f \in File : FileAt(d, f)' => f \in used'
  BY DEF OneHome
<1>3. \A d \in Dir : \A f \in File : Named(d, f)' =>
        \A n \in Name : \A m \in Name : mem'[d][n] = f /\ mem'[d][m] = f => m = n
  BY <1>1 DEF OneHome
<1>4. \A d \in Dir : \A e \in Dir : \A f \in File : Named(d, f)' /\ Named(e, f)' => e = d
  BY <1>1 DEF OneHome
<1>5. \A d \in Dir : \A e \in Dir : \A f \in File :
        Named(d, f)' /\ f \notin moved' /\ Bound(e, f)' => e = d
  BY <1>1 DEF OneHome
<1> QED BY <1>2, <1>3, <1>4, <1>5 DEF OneHome

(* Steps that leave the calls and the inodes of files alone.               *)
LEMMA FilesKept ==
  ASSUME IInv, FilesLogged, UNCHANGED <<todo, lock, used, mem, moved, inode>>,
         \A d \in Dir : done[d] \subseteq done'[d],
         \A w \in Worker : held'[w] \in {held[w], 0},
         \A d \in Dir : /\ Len(txs'[d]) = Len(txs[d])
                        /\ \A g \in All(d) : txs'[d][g].f_inodes = txs[d][g].f_inodes
  PROVE  FilesLogged'
<1>1. \A d \in Dir : All(d)' = All(d)
  BY DEF All
<1>2. FileLocked'
  BY DEF FilesLogged, FileLocked, OfFile
<1>3. FileNothingNewer'
  <2> SUFFICES ASSUME NEW w \in Worker, held'[w] # 0, FileCall(Head(todo[w])),
                      NEW h \in All(Head(todo[w]).dir)', h > held'[w]
               PROVE  txs'[Head(todo[w]).dir][h].f_inodes[Head(todo[w]).ino] = None
    BY DEF FileNothingNewer
  <2>1. held'[w] = held[w] /\ held[w] # 0 /\ todo[w] # <<>>
    BY DEF IInv, TInv, Pointers
  <2>2. Head(todo[w]).dir \in Dir
    BY <2>1, HeadDir DEF IInv
  <2>3. h \in All(Head(todo[w]).dir) /\ h > held[w]
    BY <1>1, <2>1, <2>2
  <2>4. txs[Head(todo[w]).dir][h].f_inodes[Head(todo[w]).ino] = None
    BY <2>1, <2>3 DEF FilesLogged, FileNothingNewer
  <2> QED BY <2>2, <2>3, <2>4
<1>4. ASSUME NEW d \in Dir, NEW f \in File
      PROVE  /\ Unsaved(d, f)' <=> Unsaved(d, f)
             /\ Named(d, f)' <=> Named(d, f)
             /\ \A g \in All(d) : FileLog(d, f)'[g] = FileLog(d, f)[g]
             /\ \A g \in All(d) : FileWords(d, f)'[g] = FileWords(d, f)[g]
             /\ FileAt(d, f)' <=> FileAt(d, f)
  <2>1. Unsaved(d, f)' <=> Unsaved(d, f)
    BY DEF Unsaved
  <2>2. Named(d, f)' <=> Named(d, f)
    BY DEF Named
  <2>3. /\ \A g \in All(d) : FileLog(d, f)'[g] = FileLog(d, f)[g]
        /\ \A g \in All(d) : FileWords(d, f)'[g] = FileWords(d, f)[g]
    BY <1>1 DEF FileLog, FileWords
  <2>4. Silent(FileLog(d, f)', All(d)') <=> Silent(FileLog(d, f), All(d))
    BY <1>1, <2>3 DEF Silent
  <2> QED BY <2>1, <2>2, <2>3, <2>4 DEF FileAt
<1>5. OneHome'
  <2>1. ASSUME NEW d \in Dir, NEW f \in File, Bound(d, f)'
        PROVE  Bound(d, f)
    <3>1. \A g \in All(d)' : g \in All(d) /\ txs'[d][g].f_inodes = txs[d][g].f_inodes
      BY <1>1
    <3>2. Carries(d, f)' => Carries(d, f)
      BY <3>1, CarriesStays
    <3> QED BY <2>1, <3>2 DEF Bound
  <2> QED BY <1>4, <2>1, HomesStay DEF FilesLogged
<1>6. ASSUME NEW d \in Dir, NEW f \in File
      PROVE  FileLogged(d, f)'
  <2>1. PICK u \in {Root, None} :
           /\ Says(FileWords(d, f), All(d), u)
           /\ \A w \in Worker : Path(FileTrace(todo[w], d, f), Len(todo[w]), u, Listed(d, f))
           /\ ~Unsaved(d, f) => u = Listed(d, f)
    BY DEF FilesLogged, FileLogged
  <2>2. Says(FileWords(d, f)', All(d), u)
    BY <1>4, <2>1, SaysSame
  <2>3. Says(FileWords(d, f)', All(d)', u)
    BY <1>1, <2>2
  <2>4. Listed(d, f)' = Listed(d, f)
    BY <1>4 DEF Listed
  <2>5. \A w \in Worker : Path(FileTrace(todo'[w], d, f), Len(todo'[w]), u, Listed(d, f)')
    BY <2>1, <2>4
  <2>6. ~Unsaved(d, f)' => u = Listed(d, f)'
    BY <1>4, <2>1, <2>4
  <2>7. ~Unsaved(d, f)' /\ Named(d, f)' => Latest(FileLog(d, f)', All(d)', inode'[f])
    <3> SUFFICES ASSUME ~Unsaved(d, f), Named(d, f)
                 PROVE  Latest(FileLog(d, f)', All(d), inode[f])
      BY <1>1, <1>4
    <3>1. Latest(FileLog(d, f), All(d), inode[f])
      BY DEF FilesLogged, FileLogged
    <3> QED BY <1>4, <3>1, LogSame
  <2> QED BY <2>3, <2>5, <2>6, <2>7 DEF FileLogged
<1> QED BY <1>2, <1>3, <1>5, <1>6 DEF FilesLogged

(* A new transaction has no file yet.                                      *)
LEMMA GetEntryFiles ==
  ASSUME IInv, Order, FilesLogged, NEW w \in Worker, GetEntry(w)
  PROVE  FilesLogged'
<1>0. PICK e : e = Head(todo[w]).dir
  OBVIOUS
<1>1. e \in Dir /\ todo[w] # <<>> /\ txs[e] \in Seq(TxType)
  BY <1>0, GetEntryForm
<1>2. /\ UNCHANGED <<todo, lock, used, mem, moved, inode, done>>
      /\ \A i \in Worker : i # w => held'[i] = held[i]
  BY <1>0, GetEntryForm DEF GetEntry
<1>3. held'[w] = Len(txs'[e])
  BY <1>0, GetEntryForm
<1>4. \A d \in Dir : /\ All(d) \subseteq All(d)'
                     /\ \A g \in All(d) : txs'[d][g] = txs[d][g]
                     /\ All(d)' = All(d) \/
                          /\ All(d)' = All(d) \cup {Len(txs[d]) + 1}
                          /\ txs'[d][Len(txs[d]) + 1] = NewTx
  BY <1>0, GetEntryForm
<1>5. FileLocked'
  BY <1>2 DEF FilesLogged, FileLocked, OfFile
<1>6. FileNothingNewer'
  <2> SUFFICES ASSUME NEW i \in Worker, held'[i] # 0, FileCall(Head(todo[i])),
                      NEW h \in All(Head(todo[i]).dir)', h > held'[i]
               PROVE  txs'[Head(todo[i]).dir][h].f_inodes[Head(todo[i]).ino] = None
    BY <1>2 DEF FileNothingNewer
  <2>0. todo[i] # <<>>
    <3>1. CASE i = w
      BY <1>1, <3>1
    <3>2. CASE i # w
      BY <1>2, <3>2 DEF IInv, TInv, Pointers
    <3> QED BY <3>1, <3>2
  <2>1. CASE i = w
    <3>1. held'[i] = Len(txs'[e]) /\ h \in 1 .. Len(txs'[e]) /\ h > held'[i]
      BY <1>0, <1>2, <1>3, <2>1 DEF All
    <3>2. txs'[e] \in Seq(TxType)
      BY <1>1, JournalStepInv DEF JournalStep, IInv, TInv, TypeOK
    <3>3. Len(txs'[e]) \in Nat
      BY <3>2
    <3> QED BY <3>1, <3>3
  <2>2. CASE i # w
    <3>1. held[i] # 0 /\ held'[i] = held[i]
      BY <1>2, <2>2
    <3>2. PICK c : c = Head(todo[i])
      OBVIOUS
    <3>3. c \in CallType /\ c = todo[i][1] /\ 1 \in 1 .. Len(todo[i])
      <4>1. todo[i] \in Seq(CallType)
        BY DEF IInv, TInv, TypeOK
      <4> QED BY <2>0, <3>2, <4>1
    <3>4. c.dir \in Dir /\ c.ino \in File
      BY <3>2, <3>3 DEF CallType, FilesLogged, FileLocked
    <3>5. CASE h \in All(c.dir)
      <4>1. txs[c.dir][h].f_inodes[c.ino] = None
        BY <3>1, <3>2, <3>5 DEF FilesLogged, FileNothingNewer
      <4> QED BY <1>4, <3>2, <3>4, <3>5, <4>1
    <3>6. CASE h \notin All(c.dir)
      <4>1. h = Len(txs[c.dir]) + 1
        BY <1>2, <1>4, <3>2, <3>4, <3>6
      <4>2. txs'[c.dir][h] = NewTx
        BY <1>2, <1>4, <3>2, <3>4, <3>6, <4>1
      <4> QED BY <3>2, <3>4, <4>2 DEF NewTx
    <3> QED BY <3>5, <3>6
  <2> QED BY <2>1, <2>2
<1>7. ASSUME NEW d \in Dir, NEW f \in File
      PROVE  /\ Unsaved(d, f)' <=> Unsaved(d, f)
             /\ Named(d, f)' <=> Named(d, f)
             /\ \A g \in All(d) : FileLog(d, f)'[g] = FileLog(d, f)[g]
             /\ \A g \in All(d) : FileWords(d, f)'[g] = FileWords(d, f)[g]
             /\ All(d)' # All(d) =>
                  /\ All(d)' = All(d) \cup {Len(txs[d]) + 1}
                  /\ FileLog(d, f)'[Len(txs[d]) + 1] = None
                  /\ FileWords(d, f)'[Len(txs[d]) + 1] = None
  <2>1. Unsaved(d, f)' <=> Unsaved(d, f)
    BY <1>2 DEF Unsaved
  <2>2. Named(d, f)' <=> Named(d, f)
    BY <1>2 DEF Named
  <2>3. /\ \A g \in All(d) : FileLog(d, f)'[g] = FileLog(d, f)[g]
        /\ \A g \in All(d) : FileWords(d, f)'[g] = FileWords(d, f)[g]
    BY <1>4 DEF FileLog, FileWords
  <2>4. All(d)' # All(d) =>
          /\ All(d)' = All(d) \cup {Len(txs[d]) + 1}
          /\ FileLog(d, f)'[Len(txs[d]) + 1] = None
          /\ FileWords(d, f)'[Len(txs[d]) + 1] = None
    BY <1>4 DEF FileLog, FileWords, FileWord, NewTx
  <2> QED BY <2>1, <2>2, <2>3, <2>4
<1>8. ASSUME NEW d \in Dir
      PROVE  /\ Len(txs[d]) + 1 \in Nat /\ All(d) \in SUBSET Nat
             /\ \A h \in All(d) : h < Len(txs[d]) + 1
  <2>1. Len(txs[d]) \in Nat
    BY DEF IInv, TInv, TypeOK
  <2> QED BY <2>1 DEF All
<1>9. OneHome'
  <2>1. ASSUME NEW d \in Dir, NEW f \in File
        PROVE  FileAt(d, f)' <=> FileAt(d, f)
    <3>1. Silent(FileLog(d, f)', All(d)') <=> Silent(FileLog(d, f), All(d))
      BY <1>7 DEF Silent
    <3> QED BY <1>7, <3>1 DEF FileAt
  <2>2. ASSUME NEW d \in Dir, NEW f \in File, Bound(d, f)'
        PROVE  Bound(d, f)
    <3>1. ASSUME NEW g \in All(d)', txs'[d][g].f_inodes[f] \notin {None, Null}
          PROVE  g \in All(d) /\ txs[d][g].f_inodes[f] \notin {None, Null}
      <4>1. CASE g \in All(d)
        BY <1>4, <3>1, <4>1
      <4>2. CASE g \notin All(d)
        <5>1. txs'[d][g] = NewTx
          BY <1>4, <4>2
        <5> QED BY <3>1, <5>1 DEF NewTx
      <4> QED BY <4>1, <4>2
    <3>2. Carries(d, f)' => Carries(d, f)
      BY <1>2, <3>1, CarriesStays
    <3> QED BY <1>2, <2>2, <3>2 DEF Bound
  <2> QED BY <1>2, <2>1, <2>2, HomesStay DEF FilesLogged
<1>10. ASSUME NEW d \in Dir, NEW f \in File
       PROVE  FileLogged(d, f)'
  <2>1. PICK u \in {Root, None} :
           /\ Says(FileWords(d, f), All(d), u)
           /\ \A i \in Worker : Path(FileTrace(todo[i], d, f), Len(todo[i]), u, Listed(d, f))
           /\ ~Unsaved(d, f) => u = Listed(d, f)
    BY DEF FilesLogged, FileLogged
  <2>2. Listed(d, f)' = Listed(d, f)
    BY <1>7 DEF Listed
  <2>3. Says(FileWords(d, f)', All(d)', u)
    <3>1. CASE All(d)' = All(d)
      <4>1. Says(FileWords(d, f)', All(d), u)
        BY <1>7, <2>1, SaysSame
      <4> QED BY <3>1, <4>1
    <3>2. CASE All(d)' # All(d)
      <4>1. FileWords(d, f)'[Len(txs[d]) + 1] = None
        BY <1>7, <3>2
      <4>2. Says(FileWords(d, f)', All(d) \cup {Len(txs[d]) + 1}, u)
        BY <1>7, <1>8, <2>1, <4>1, SaysTop
      <4> QED BY <1>7, <3>2, <4>2
    <3> QED BY <3>1, <3>2
  <2>4. \A i \in Worker : Path(FileTrace(todo'[i], d, f), Len(todo'[i]), u, Listed(d, f)')
    BY <1>2, <2>1, <2>2
  <2>5. ~Unsaved(d, f)' => u = Listed(d, f)'
    BY <1>7, <2>1, <2>2
  <2>6. ~Unsaved(d, f)' /\ Named(d, f)' => Latest(FileLog(d, f)', All(d)', inode'[f])
    <3> SUFFICES ASSUME ~Unsaved(d, f), Named(d, f)
                 PROVE  Latest(FileLog(d, f)', All(d)', inode[f])
      BY <1>2, <1>7
    <3>1. Latest(FileLog(d, f), All(d), inode[f])
      BY DEF FilesLogged, FileLogged
    <3>2. CASE All(d)' = All(d)
      <4>1. Latest(FileLog(d, f)', All(d), inode[f])
        BY <1>7, <3>1, LogSame
      <4> QED BY <3>2, <4>1
    <3>3. CASE All(d)' # All(d)
      <4>1. FileLog(d, f)'[Len(txs[d]) + 1] = None
        BY <1>7, <3>3
      <4>2. Latest(FileLog(d, f)', All(d) \cup {Len(txs[d]) + 1}, inode[f])
        BY <1>7, <1>8, <3>1, <4>1, LogTop
      <4> QED BY <1>7, <3>3, <4>2
    <3> QED BY <3>2, <3>3
  <2> QED BY <2>3, <2>4, <2>5, <2>6 DEF FileLogged
<1> QED BY <1>5, <1>6, <1>9, <1>10 DEF FilesLogged

(* A call about a file, and what the transaction then has of it.           *)
LEMMA RecordWord ==
  ASSUME IInv, FilesLogged, NEW w \in Worker, Record(w), Running', NEW c, c = Head(todo[w]),
         NEW g, g = held[w], NEW d \in Dir, NEW f \in File
  PROVE  /\ \A h \in All(d) : d # c.dir \/ h # g \/ ~OfFile(c, d, f) =>
              txs'[d][h].f_inodes[f] = txs[d][h].f_inodes[f]
         /\ OfFile(c, d, f) => txs'[d][g].f_inodes[f] =
                                 IF c.fn = "rmreg" THEN Null ELSE inode[f]
<1>1. /\ c \in CallType /\ todo[w] # <<>> /\ c = todo[w][1] /\ g \in All(c.dir)
      /\ \A e \in Dir : /\ Len(txs'[e]) = Len(txs[e])
                        /\ \A h \in All(e) : e # c.dir \/ h # g => txs'[e][h] = txs[e][h]
      /\ txs'[c.dir][g] = Apply(txs[c.dir][g], c, inode[c.dir], inode[c.ino])
  BY RecordForm
<1>2. c.dir \in Dir /\ c.ino \in Ino
  BY <1>1 DEF CallType
<1>3. txs[c.dir][g] \in TxType
  <2>1. txs[c.dir] \in Seq(TxType)
    BY <1>2 DEF IInv, TInv, TypeOK
  <2> QED BY <1>1, <2>1 DEF All
<1>4. inode[c.dir] \in InodeType /\ inode[c.ino] \in InodeType
  BY <1>2 DEF IInv, TInv, TypeOK, Ino
<1>5. FileCall(c) => c.ino \in File
  <2>1. 1 \in 1 .. Len(todo[w])
    <3>1. todo[w] \in Seq(CallType)
      BY DEF IInv, TInv, TypeOK
    <3> QED BY <1>1, <3>1
  <2> QED BY <1>1, <2>1 DEF FilesLogged, FileLocked
<1>6. txs'[c.dir][g].f_inodes =
        IF c.fn \in {"mkreg", "chreg"} THEN [txs[c.dir][g].f_inodes EXCEPT ![c.ino] = inode[c.ino]]
        ELSE IF c.fn = "rmreg" THEN [txs[c.dir][g].f_inodes EXCEPT ![c.ino] = Null]
        ELSE txs[c.dir][g].f_inodes
  <2>1. Apply(txs[c.dir][g], c, inode[c.dir], inode[c.ino]).f_inodes =
          IF c.fn \in {"mkreg", "chreg"} THEN [txs[c.dir][g].f_inodes EXCEPT ![c.ino] = inode[c.ino]]
          ELSE IF c.fn = "rmreg" THEN [txs[c.dir][g].f_inodes EXCEPT ![c.ino] = Null]
          ELSE txs[c.dir][g].f_inodes
    BY <1>1, <1>3, <1>4, <1>5, ApplyInodes
  <2> QED BY <1>1, <2>1
<1>7. txs[c.dir][g].f_inodes \in [File -> InodeType \cup {None, Null}]
  BY <1>3 DEF TxType
<1>8. ASSUME NEW h \in All(d), d # c.dir \/ h # g \/ ~OfFile(c, d, f)
      PROVE  txs'[d][h].f_inodes[f] = txs[d][h].f_inodes[f]
  <2>1. CASE d # c.dir \/ h # g
    BY <1>1, <2>1
  <2>2. CASE d = c.dir /\ h = g
    <3>1. ~FileCall(c) \/ c.ino # f
      BY <1>8, <2>2 DEF OfFile
    <3> QED BY <1>6, <1>7, <2>2, <3>1 DEF FileCall
  <2> QED BY <2>1, <2>2
<1>9. ASSUME OfFile(c, d, f)
      PROVE  txs'[d][g].f_inodes[f] = IF c.fn = "rmreg" THEN Null ELSE inode[f]
  BY <1>6, <1>7, <1>9 DEF OfFile, FileCall
<1> QED BY <1>8, <1>9

(* A recorded call leaves what the next one finds: nobody else has a call  *)
(* about the file, and nothing newer has it.                               *)
LEMMA RecordFiles ==
  ASSUME IInv, FilesLogged, NEW w \in Worker, Record(w), Running'
  PROVE  FilesLogged'
<1>1. PICK c : c = Head(todo[w])
  OBVIOUS
<1>2. PICK g : g = held[w]
  OBVIOUS
<1>3. /\ c \in CallType /\ todo[w] # <<>> /\ c = todo[w][1] /\ g \in All(c.dir)
      /\ \A d \in Dir : Len(txs'[d]) = Len(txs[d])
      /\ todo'[w] = Tail(todo[w]) /\ held'[w] = 0
      /\ \A i \in Worker : i # w => todo'[i] = todo[i] /\ held'[i] = held[i]
      /\ \A i \in Ino : lock'[i] = IF lock[i] = w /\ Len(todo[w]) = 1 THEN None ELSE lock[i]
      /\ UNCHANGED <<mem, used, moved, inode, done>>
  BY <1>1, <1>2, RecordForm
<1>4. PICK m \in Nat : m + 1 = Len(todo[w])
  <2>1. todo[w] \in Seq(CallType)
    BY DEF IInv, TInv, TypeOK
  <2>2. Len(todo[w]) \in Nat /\ Len(todo[w]) # 0
    BY <1>3, <2>1
  <2>3. Len(todo[w]) - 1 \in Nat /\ (Len(todo[w]) - 1) + 1 = Len(todo[w])
    BY <2>2
  <2> QED BY <2>3
<1>5. Len(todo'[w]) = m /\ \A k \in 1 .. m : todo'[w][k] = todo[w][k + 1] /\ k + 1 \in 1 .. Len(todo[w])
  <2>1. todo[w] \in Seq(CallType)
    BY DEF IInv, TInv, TypeOK
  <2> QED BY <1>3, <1>4, <2>1
<1>6. 1 \in 1 .. Len(todo[w]) /\ c.dir \in Dir /\ c.ino \in Ino
  BY <1>3, <1>4 DEF CallType
<1>7. FileCall(c) => c.ino \in File
  BY <1>3, <1>6 DEF FilesLogged, FileLocked
<1>8. \A d \in Dir : All(d)' = All(d) /\ All(d) \in SUBSET Nat
  BY <1>3 DEF All
<1>9. \A d \in Dir : \A f \in File :
        /\ \A h \in All(d) : d # c.dir \/ h # g \/ ~OfFile(c, d, f) =>
              txs'[d][h].f_inodes[f] = txs[d][h].f_inodes[f]
        /\ OfFile(c, d, f) => txs'[d][g].f_inodes[f] =
                                 IF c.fn = "rmreg" THEN Null ELSE inode[f]
  BY <1>1, <1>2, RecordWord
<1>10. \A i \in Worker : \A k \in 1 .. Len(todo'[i]) :
         \E j \in 1 .. Len(todo[i]) : todo'[i][k] = todo[i][j]
  <2> SUFFICES ASSUME NEW i \in Worker, NEW k \in 1 .. Len(todo'[i])
               PROVE  \E j \in 1 .. Len(todo[i]) : todo'[i][k] = todo[i][j]
    OBVIOUS
  <2>1. CASE i = w
    BY <1>5, <2>1
  <2>2. CASE i # w
    BY <1>3, <2>2
  <2> QED BY <2>1, <2>2
<1>11. FileLocked'
  <2>1. ASSUME NEW i \in Worker, NEW k \in 1 .. Len(todo'[i])
        PROVE  /\ FileCall(todo'[i][k]) => todo'[i][k].ino \in File
               /\ todo'[i][k].fn = "chreg" => lock'[todo'[i][k].ino] = i
    <3>1. PICK j \in 1 .. Len(todo[i]) : todo'[i][k] = todo[i][j]
      BY <1>10
    <3>2. /\ FileCall(todo[i][j]) => todo[i][j].ino \in File
          /\ todo[i][j].fn = "chreg" => lock[todo[i][j].ino] = i
      BY DEF FilesLogged, FileLocked
    <3>3. ASSUME todo[i][j].fn = "chreg"
          PROVE  lock'[todo[i][j].ino] = i
      <4>1. lock[todo[i][j].ino] = i /\ todo[i][j].ino \in Ino
        BY <3>2, <3>3 DEF FileCall, Ino
      <4>2. CASE i = w
        <5>1. k \in 1 .. m
          BY <1>5, <4>2
        <5>2. m # 0
          BY <5>1
        <5>3. m + 1 # 1
          BY <5>2
        <5>4. Len(todo[w]) # 1
          BY <1>4, <5>3
        <5> QED BY <1>3, <4>1, <5>4
      <4>3. CASE i # w
        BY <1>3, <4>1, <4>3
      <4> QED BY <4>2, <4>3
    <3> QED BY <3>1, <3>2, <3>3
  <2>2. ASSUME NEW d \in Dir, NEW f \in File, NEW a \in Worker, NEW i \in Worker,
               NEW k \in 1 .. Len(todo'[a]), NEW j \in 1 .. Len(todo'[i]),
               OfFile(todo'[a][k], d, f), OfFile(todo'[i][j], d, f)
        PROVE  i = a
    <3>1. PICK x \in 1 .. Len(todo[a]) : todo'[a][k] = todo[a][x]
      BY <1>10
    <3>2. PICK y \in 1 .. Len(todo[i]) : todo'[i][j] = todo[i][y]
      BY <1>10
    <3> QED BY <2>2, <3>1, <3>2 DEF FilesLogged, FileLocked
  <2> QED BY <2>1, <2>2 DEF FileLocked
<1>12. FileNothingNewer'
  <2> SUFFICES ASSUME NEW i \in Worker, held'[i] # 0, FileCall(Head(todo'[i])),
                      NEW h \in All(Head(todo[i]).dir)', h > held'[i]
               PROVE  txs'[Head(todo'[i]).dir][h].f_inodes[Head(todo'[i]).ino] = None
    BY DEF FileNothingNewer
  <2>1. i # w /\ todo'[i] = todo[i] /\ held'[i] = held[i]
    BY <1>3
  <2>2. PICK e : e = Head(todo[i])
    OBVIOUS
  <2>3. todo[i] # <<>> /\ todo[i] \in Seq(CallType)
    BY <2>1 DEF IInv, TInv, TypeOK, Pointers
  <2>4. e = todo[i][1] /\ e \in CallType /\ 1 \in 1 .. Len(todo[i])
    BY <2>2, <2>3
  <2>5. e.dir \in Dir /\ FileCall(e) /\ e.ino \in File
    <3>1. e.dir \in Dir
      BY <2>4 DEF CallType
    <3>2. FileCall(e)
      BY <2>1, <2>2
    <3>3. e.ino \in File
      BY <2>4, <3>2 DEF FilesLogged, FileLocked
    <3> QED BY <3>1, <3>2, <3>3
  <2>6. h \in All(e.dir)
    BY <1>8, <2>1, <2>2, <2>5
  <2>7. txs[e.dir][h].f_inodes[e.ino] = None
    BY <2>1, <2>2, <2>6 DEF FilesLogged, FileNothingNewer
  <2>8. ~OfFile(c, e.dir, e.ino)
    <3> SUFFICES ASSUME OfFile(c, e.dir, e.ino) PROVE FALSE
      OBVIOUS
    <3>1. OfFile(e, e.dir, e.ino)
      BY <2>5 DEF OfFile
    <3>2. i = w
      BY <1>3, <1>6, <2>4, <2>5, <3>1 DEF FilesLogged, FileLocked
    <3> QED BY <2>1, <3>2
  <2> QED BY <1>9, <2>1, <2>2, <2>5, <2>6, <2>7, <2>8
<1>13. ASSUME NEW d \in Dir, NEW f \in File
       PROVE  /\ Named(d, f)' <=> Named(d, f)
              /\ Unsaved(d, f)' => Unsaved(d, f)
              /\ ~OfFile(c, d, f) => (Unsaved(d, f) => Unsaved(d, f)')
              /\ OfFile(c, d, f) => Unsaved(d, f)
              /\ \A h \in All(d) : d # c.dir \/ h # g \/ ~OfFile(c, d, f) =>
                   /\ FileLog(d, f)'[h] = FileLog(d, f)[h]
                   /\ FileWords(d, f)'[h] = FileWords(d, f)[h]
  <2>1. Named(d, f)' <=> Named(d, f)
    BY <1>3 DEF Named
  <2>2. Unsaved(d, f)' => Unsaved(d, f)
    <3> SUFFICES ASSUME NEW i \in Worker, NEW k \in 1 .. Len(todo'[i]), OfFile(todo'[i][k], d, f)
                 PROVE  Unsaved(d, f)
      BY DEF Unsaved
    <3>1. PICK j \in 1 .. Len(todo[i]) : todo'[i][k] = todo[i][j]
      BY <1>10
    <3> QED BY <3>1 DEF Unsaved
  <2>3. ASSUME ~OfFile(c, d, f), Unsaved(d, f)
        PROVE  Unsaved(d, f)'
    <3>1. PICK i \in Worker : \E k \in 1 .. Len(todo[i]) : OfFile(todo[i][k], d, f)
      BY <2>3 DEF Unsaved
    <3>2. PICK k \in 1 .. Len(todo[i]) : OfFile(todo[i][k], d, f)
      BY <3>1
    <3>3. CASE i # w
      <4>1. k \in 1 .. Len(todo'[i]) /\ OfFile(todo'[i][k], d, f)
        BY <1>3, <3>2, <3>3
      <4> QED BY <4>1 DEF Unsaved
    <3>4. CASE i = w
      <4>1. k # 1 /\ k \in 1 .. m + 1
        BY <1>3, <1>4, <2>3, <3>2, <3>4
      <4>2. k - 1 \in 1 .. m /\ (k - 1) + 1 = k
        BY <4>1
      <4>3. k - 1 \in 1 .. Len(todo'[w]) /\ OfFile(todo'[w][k - 1], d, f)
        BY <1>5, <3>2, <3>4, <4>2
      <4> QED BY <4>3 DEF Unsaved
    <3> QED BY <3>3, <3>4
  <2>4. OfFile(c, d, f) => Unsaved(d, f)
    BY <1>3, <1>6 DEF Unsaved
  <2>5. \A h \in All(d) : d # c.dir \/ h # g \/ ~OfFile(c, d, f) =>
          /\ FileLog(d, f)'[h] = FileLog(d, f)[h]
          /\ FileWords(d, f)'[h] = FileWords(d, f)[h]
    BY <1>8, <1>9 DEF FileLog, FileWords
  <2> QED BY <2>1, <2>2, <2>3, <2>4, <2>5
<1>14. OneHome'
  <2>1. ASSUME NEW d \in Dir, NEW f \in File, FileAt(d, f)'
        PROVE  FileAt(d, f)
    <3>1. CASE OfFile(c, d, f)
      BY <1>13, <3>1 DEF FileAt
    <3>2. CASE ~OfFile(c, d, f)
      <4>1. Silent(FileLog(d, f)', All(d)') <=> Silent(FileLog(d, f), All(d))
        BY <1>8, <1>13, <3>2 DEF Silent
      <4> QED BY <1>13, <2>1, <4>1 DEF FileAt
    <3> QED BY <3>1, <3>2
  <2>2. ASSUME NEW d \in Dir, NEW f \in File, Bound(d, f)'
        PROVE  Bound(d, f)
    <3>1. CASE \E i \in Worker : \E k \in 1 .. Len(todo'[i]) : Saves(todo'[i][k], d, f)
      BY <1>10, <3>1 DEF Bound
    <3>2. CASE Saves(c, d, f)
      BY <1>3, <1>6, <3>2 DEF Bound
    <3>3. CASE Carries(d, f)' /\ ~Saves(c, d, f)
      <4>1. ASSUME NEW h \in All(d)', txs'[d][h].f_inodes[f] \notin {None, Null}
            PROVE  h \in All(d) /\ txs[d][h].f_inodes[f] \notin {None, Null}
        <5>1. h \in All(d)
          BY <1>8
        <5>2. ~(d = c.dir /\ h = g /\ OfFile(c, d, f))
          BY <1>9, <3>3, <4>1 DEF Saves
        <5> QED BY <1>9, <4>1, <5>1, <5>2
      <4> QED BY <1>3, <3>3, <4>1, CarriesStays DEF Bound
    <3> QED BY <2>2, <3>1, <3>2, <3>3 DEF Bound
  <2> QED BY <1>3, <2>1, <2>2, HomesStay DEF FilesLogged
<1>15. ASSUME NEW d \in Dir, NEW f \in File
       PROVE  FileLogged(d, f)'
  <2>1. PICK u \in {Root, None} :
           /\ Says(FileWords(d, f), All(d), u)
           /\ \A i \in Worker : Path(FileTrace(todo[i], d, f), Len(todo[i]), u, Listed(d, f))
           /\ ~Unsaved(d, f) => u = Listed(d, f)
    BY DEF FilesLogged, FileLogged
  <2>2. PICK T : T = FileTrace(todo[w], d, f)
    OBVIOUS
  <2>3. PICK M : M = FileTrace(todo'[w], d, f)
    OBVIOUS
  <2>4. /\ \A k \in 1 .. m : M[k] = T[k + 1]
        /\ T[1] = FileStep(c, d, f)
        /\ \A k \in 1 .. m : M[k] = FileStep(todo'[w][k], d, f)
    <3>1. \A k \in 1 .. m : M[k] = FileStep(todo'[w][k], d, f)
      BY <1>5, <2>3 DEF FileTrace
    <3>2. \A k \in 1 .. Len(todo[w]) : T[k] = FileStep(todo[w][k], d, f)
      BY <2>2 DEF FileTrace
    <3>3. \A k \in 1 .. m : M[k] = T[k + 1]
      BY <1>5, <3>1, <3>2
    <3>4. T[1] = FileStep(c, d, f)
      BY <1>3, <1>6, <3>2
    <3> QED BY <3>1, <3>3, <3>4
  <2>5. PICK l : l = Listed(d, f)
    OBVIOUS
  <2>6. Listed(d, f)' = l /\ (Named(d, f)' <=> Named(d, f))
    BY <1>13, <2>5 DEF Listed
  <2>7. Path(T, m + 1, u, l)
    BY <1>4, <2>1, <2>2, <2>5
  <2>8. /\ ~T[1].is => Path(M, m, u, l)
        /\ T[1].is => /\ u = T[1].from /\ Path(M, m, T[1].to, l)
                      /\ (\A k \in 1 .. m : ~M[k].is) => T[1].to = l
    BY <2>4, <2>7, PathTail
  <2>9. CASE OfFile(c, d, f)
    <3>1. PICK v : v = IF c.fn = "rmreg" THEN None ELSE Root
      OBVIOUS
    <3>2. T[1].is /\ T[1].to = v /\ v \in {Root, None} /\ c.dir = d /\ c.ino = f /\ FileCall(c)
      BY <2>4, <2>9, <3>1 DEF FileStep, Step, OfFile
    <3>3. ASSUME NEW i \in Worker
          PROVE  Path(FileTrace(todo'[i], d, f), Len(todo'[i]), v, l)
      <4>1. CASE i = w
        BY <1>5, <2>3, <2>8, <3>2, <4>1
      <4>2. CASE i # w
        <5>1. \A k \in 1 .. Len(todo[i]) : ~OfFile(todo[i][k], d, f)
          BY <1>3, <1>6, <2>9, <4>2 DEF FilesLogged, FileLocked
        <5>2. \A k \in 1 .. Len(todo[i]) : ~FileTrace(todo[i], d, f)[k].is
          BY <5>1 DEF FileTrace, FileStep, Skip
        <5>3. Path(FileTrace(todo[i], d, f), Len(todo[i]), v, l)
          BY <5>2 DEF Path
        <5> QED BY <1>3, <4>2, <5>3
      <4> QED BY <4>1, <4>2
    <3>4. \A h \in All(d) : h # g => /\ FileLog(d, f)'[h] = FileLog(d, f)[h]
                                     /\ FileWords(d, f)'[h] = FileWords(d, f)[h]
      BY <1>13
    <3>5. \A h \in All(d) : h > g => FileLog(d, f)[h] = None /\ FileWords(d, f)[h] = None
      <4> SUFFICES ASSUME NEW h \in All(d), h > g
                   PROVE  FileLog(d, f)[h] = None /\ FileWords(d, f)[h] = None
        OBVIOUS
      <4>1. held[w] # 0
        BY DEF Record
      <4>2. txs[d][h].f_inodes[f] = None
        BY <1>1, <1>2, <3>2, <4>1 DEF FilesLogged, FileNothingNewer
      <4> QED BY <4>2 DEF FileLog, FileWords, FileWord
    <3>6. g \in All(d) /\ g \in All(d)' /\ All(d) \in SUBSET Nat
      BY <1>3, <1>8, <3>2
    <3>7. /\ FileLog(d, f)'[g] = IF c.fn = "rmreg" THEN Null ELSE inode[f]
          /\ FileWords(d, f)'[g] = FileWord(FileLog(d, f)'[g])
      BY <1>9, <2>9, <3>6 DEF FileLog, FileWords
    <3>8. inode[f] # None /\ inode[f] # Null /\ Null # None
      <4>1. inode[f] \in InodeType
        BY DEF IInv, TInv, TypeOK, Ino
      <4> QED BY <4>1, NoneAssumption
    <3>9. FileWords(d, f)'[g] # None /\ EntryIno(FileWords(d, f)'[g]) = v
      BY <3>1, <3>7, <3>8, Word
    <3>10. Says(FileWords(d, f)', All(d), EntryIno(FileWords(d, f)'[g]))
      BY <3>4, <3>5, <3>6, <3>9, SaysWrite
    <3>11. Says(FileWords(d, f)', All(d)', v)
      BY <1>8, <3>9, <3>10
    <3>12. ~Unsaved(d, f)' => v = l
      <4> SUFFICES ASSUME ~Unsaved(d, f)' PROVE v = l
        OBVIOUS
      <4>1. \A k \in 1 .. m : ~OfFile(todo'[w][k], d, f)
        BY <1>5 DEF Unsaved
      <4>2. \A k \in 1 .. m : ~M[k].is
        BY <2>4, <4>1 DEF FileStep, Skip
      <4> QED BY <2>8, <3>2, <4>2
    <3>13. ~Unsaved(d, f)' /\ Named(d, f)' => Latest(FileLog(d, f)', All(d)', inode'[f])
      <4> SUFFICES ASSUME ~Unsaved(d, f)', Named(d, f)
                   PROVE  Latest(FileLog(d, f)', All(d), inode[f])
        BY <1>3, <1>8, <2>6
      <4>1. v = Root /\ Root # None
        BY <2>5, <3>12, DistinctAssumption, RootAssumption DEF Listed, Ino
      <4>2. FileLog(d, f)'[g] = inode[f]
        BY <3>1, <3>7, <4>1
      <4> QED BY <3>4, <3>5, <3>6, <3>8, <4>2, LogWrite
    <3> QED BY <2>6, <3>2, <3>3, <3>11, <3>12, <3>13 DEF FileLogged
  <2>10. CASE ~OfFile(c, d, f)
    <3>1. ~T[1].is
      BY <2>4, <2>10 DEF FileStep, Skip
    <3>2. ASSUME NEW i \in Worker
          PROVE  Path(FileTrace(todo'[i], d, f), Len(todo'[i]), u, l)
      <4>1. CASE i = w
        BY <1>5, <2>3, <2>8, <3>1, <4>1
      <4>2. CASE i # w
        BY <1>3, <2>1, <2>5, <4>2
      <4> QED BY <4>1, <4>2
    <3>3. \A h \in All(d) : /\ FileLog(d, f)'[h] = FileLog(d, f)[h]
                            /\ FileWords(d, f)'[h] = FileWords(d, f)[h]
      BY <1>13, <2>10
    <3>4. Says(FileWords(d, f)', All(d), u)
      BY <2>1, <3>3, SaysSame
    <3>5. Says(FileWords(d, f)', All(d)', u)
      BY <1>8, <3>4
    <3>6. ~Unsaved(d, f)' => u = l
      BY <1>13, <2>1, <2>5, <2>10
    <3>7. ~Unsaved(d, f)' /\ Named(d, f)' => Latest(FileLog(d, f)', All(d)', inode'[f])
      <4> SUFFICES ASSUME ~Unsaved(d, f), Named(d, f)
                   PROVE  Latest(FileLog(d, f)', All(d), inode[f])
        BY <1>3, <1>8, <1>13, <2>10
      <4>1. Latest(FileLog(d, f), All(d), inode[f])
        BY DEF FilesLogged, FileLogged
      <4> QED BY <3>3, <4>1, LogSame
    <3> QED BY <2>6, <3>2, <3>5, <3>6, <3>7 DEF FileLogged
  <2> QED BY <2>9, <2>10
<1> QED BY <1>11, <1>12, <1>14, <1>15 DEF FilesLogged

(* What the journal sees of the files of an operation that begins: its     *)
(* calls are about files nobody else has calls about, and take each from   *)
(* what the table said to what it says now.                                *)
Mentions(w, d, f) == \E k \in 1 .. Len(todo'[w]) : OfFile(todo'[w][k], d, f)

FileStarts(w) ==
  /\ \A k \in 1 .. Len(todo'[w]) : FileCall(todo'[w][k]) =>
       /\ todo'[w][k].ino \in File /\ todo'[w][k].ino \in used'
       /\ lock[todo'[w][k].dir] = None
       /\ todo'[w][k].ino \notin used \/ lock[todo'[w][k].ino] = None
       /\ todo'[w][k].fn = "chreg" => lock'[todo'[w][k].ino] = w
  /\ \A d \in Dir : \A f \in File :
       /\ Path(FileTrace(todo'[w], d, f), Len(todo'[w]), Listed(d, f), Listed(d, f)')
       /\ ~Mentions(w, d, f) => Named(d, f)' = Named(d, f)
       /\ ~Mentions(w, d, f) /\ Named(d, f) => inode'[f] = inode[f]
       /\ \A n \in Name : \A m \in Name : mem'[d][n] = f /\ mem'[d][m] = f => m = n

(* Its calls that save an inode are about a file the directory has then,   *)
(* and no other directory has a name or an inode to write of a file that   *)
(* has a name, unless it moved too early.                                  *)
HomeStarts(w) ==
  /\ moved \subseteq moved'
  /\ \A d \in Dir : \A f \in File : \A k \in 1 .. Len(todo'[w]) :
       Saves(todo'[w][k], d, f) => Named(d, f)'
  /\ \A d \in Dir : \A e \in Dir : \A f \in File : Named(d, f)' /\ Named(e, f)' => e = d
  /\ \A d \in Dir : \A e \in Dir : \A f \in File :
       Named(d, f)' /\ f \notin moved' /\ Bound(e, f) => e = d

LEMMA OneName ==
  ASSUME FilesLogged, NEW d \in Dir, NEW n \in Name, mem[d][n] \in File
  PROVE  /\ mem[d][n] \in used /\ Named(d, mem[d][n])
         /\ \A m \in Name : mem[d][m] = mem[d][n] => m = n
         /\ \A e \in Dir : Named(e, mem[d][n]) => e = d
<1>1. PICK f \in File : f = mem[d][n]
  OBVIOUS
<1>2. Named(d, f) /\ FileAt(d, f)
  BY <1>1 DEF Named, FileAt
<1>3. /\ f \in used
      /\ \A e \in Dir : Named(e, f) => e = d
      /\ \A m \in Name : mem[d][n] = f /\ mem[d][m] = f => m = n
  BY <1>2 DEF FilesLogged, OneHome
<1> QED BY <1>1, <1>2, <1>3

(* A directory has the inodes of files in use only.                        *)
LEMMA BoundUsed ==
  ASSUME FilesLogged, NEW d \in Dir, NEW f \in File, Bound(d, f)
  PROVE  f \in used
<1>1. CASE Carries(d, f)
  <2>1. PICK g \in All(d) : txs[d][g].f_inodes[f] # None
    BY <1>1 DEF Carries, Pending, All
  <2>2. FileLog(d, f)[g] # None
    BY <2>1 DEF FileLog
  <2>3. FileAt(d, f)
    BY <2>1, <2>2 DEF FileAt, Silent
  <2> QED BY <2>3 DEF FilesLogged, OneHome
<1>2. CASE \E w \in Worker : \E k \in 1 .. Len(todo[w]) : Saves(todo[w][k], d, f)
  <2>1. FileAt(d, f)
    BY <1>2 DEF FileAt, Unsaved, Saves
  <2> QED BY <2>1 DEF FilesLogged, OneHome
<1> QED BY <1>1, <1>2 DEF Bound

(* Operations that leave files where they are, or make one.                *)
LEMMA HomesStart ==
  ASSUME FilesLogged, NEW w \in Worker, moved' = moved, NEW e, NEW i,
         \A d \in Dir : \A f \in File :
           Named(d, f)' => Named(d, f) \/ (d = e /\ f = i /\ i \notin used),
         \A d \in Dir : \A f \in File : \A k \in 1 .. Len(todo'[w]) :
           Saves(todo'[w][k], d, f) => Named(d, f)'
  PROVE  HomeStarts(w)
<1>1. \A d \in Dir : \A f \in File : FileAt(d, f) => f \in used
  BY DEF FilesLogged, OneHome
<1>2. \A d \in Dir : \A f \in File : Named(d, f) \/ Bound(d, f) => f \in used
  BY <1>1, BoundUsed DEF FileAt
<1>3. ASSUME NEW d \in Dir, NEW x \in Dir, NEW f \in File, Named(d, f)', Named(x, f)'
      PROVE  x = d
  <2>1. CASE f \in used
    BY <1>3, <2>1 DEF FilesLogged, OneHome
  <2>2. CASE f \notin used
    BY <1>2, <1>3, <2>2
  <2> QED BY <2>1, <2>2
<1>4. ASSUME NEW d \in Dir, NEW x \in Dir, NEW f \in File,
             Named(d, f)', f \notin moved', Bound(x, f)
      PROVE  x = d
  <2>1. f \in used
    BY <1>2, <1>4
  <2> QED BY <1>4, <2>1 DEF FilesLogged, OneHome
<1> QED BY <1>3, <1>4 DEF HomeStarts

LEMMA TouchFiles ==
  ASSUME IInv, NEW d \in Dir, Touch(d), NEW f \in File
  PROVE  inode'[f] = inode[f]
<1>1. f # d /\ f \in Ino /\ d \in Ino
  BY DistinctAssumption DEF Ino
<1> QED BY <1>1 DEF Touch, IInv, TInv, TypeOK

(* The operations whose calls are about no file.                           *)
LEMMA FilelessStarts ==
  ASSUME FilesLogged, NEW w \in Worker, \A k \in 1 .. Len(todo'[w]) : ~FileCall(todo'[w][k]),
         \A d \in Dir : \A n \in Name : \A f \in File : mem'[d][n] = f <=> mem[d][n] = f,
         \A f \in File : inode'[f] = inode[f], moved' = moved
  PROVE  FileStarts(w) /\ HomeStarts(w)
<1>1. ASSUME NEW d \in Dir, NEW f \in File
      PROVE  /\ Path(FileTrace(todo'[w], d, f), Len(todo'[w]), Listed(d, f), Listed(d, f)')
             /\ Named(d, f)' = Named(d, f)
  <2>1. \A k \in 1 .. Len(todo'[w]) : ~FileTrace(todo'[w], d, f)[k].is
    BY DEF FileTrace, FileStep, OfFile, Skip
  <2>2. Named(d, f)' = Named(d, f)
    BY DEF Named
  <2> QED BY <2>1, <2>2 DEF Path
<1>2. \A d \in Dir : \A f \in File : \A n \in Name : \A m \in Name :
        mem'[d][n] = f /\ mem'[d][m] = f => m = n
  BY OneName
<1>3. HomeStarts(w)
  <2>1. \A d \in Dir : \A f \in File : Named(d, f)' => Named(d, f)
    BY <1>1
  <2>2. \A d \in Dir : \A f \in File : \A k \in 1 .. Len(todo'[w]) : ~Saves(todo'[w][k], d, f)
    BY DEF Saves, OfFile
  <2> QED BY <2>1, <2>2, HomesStart
<1> QED BY <1>1, <1>2, <1>3 DEF FileStarts

LEMMA DirFiles ==
  ASSUME IInv, FilesLogged, NEW w \in Worker,
         (\E d \in Dir : ChangeDir(w, d)) \/ (\E d \in Dir, n \in Name : Rmdir(w, d, n))
           \/ (\E d \in Dir, x \in Dir, n \in Name : Mkdir(w, d, n, x))
  PROVE  FileStarts(w) /\ HomeStarts(w)
<1>1. CASE \E d \in Dir : ChangeDir(w, d)
  <2>1. PICK d \in Dir : ChangeDir(w, d)
    BY <1>1
  <2>2. PICK c : c = JCall("chself", d, None, d)
    OBVIOUS
  <2>3. ~FileCall(c) /\ Begin(w, {d}, <<c>>)
    BY <2>1, <2>2 DEF ChangeDir, JCall, FileCall
  <2>4. todo'[w] = <<c>>
    BY <2>3, BeginForm
  <2>5. \A k \in 1 .. Len(todo'[w]) : ~FileCall(todo'[w][k])
    BY <2>3, <2>4
  <2>6. mem' = mem /\ moved' = moved
    BY <2>1 DEF ChangeDir
  <2>7. \A f \in File : inode'[f] = inode[f]
    <3>1. \A f \in File : f # d /\ f \in Ino
      BY DistinctAssumption DEF Ino
    <3> QED BY <2>1, <3>1 DEF ChangeDir, IInv, TInv, TypeOK
  <2> QED BY <2>5, <2>6, <2>7, FilelessStarts
<1>2. CASE \E d \in Dir, n \in Name : Rmdir(w, d, n)
  <2>1. PICK d \in Dir, n \in Name : Rmdir(w, d, n)
    BY <1>2
  <2>2. PICK x \in Dir : x = mem[d][n]
    BY <2>1 DEF Rmdir, IInv, TInv, TypeOK
  <2>3. PICK a, b : a = JCall("rmself", x, None, x) /\ b = JCall("rmdir", d, n, x)
    OBVIOUS
  <2>4. ~FileCall(a) /\ ~FileCall(b) /\ Begin(w, {d, x}, <<a, b>>)
    BY <2>1, <2>2, <2>3 DEF Rmdir, JCall, FileCall
  <2>5. todo'[w] = <<a, b>>
    BY <2>4, BeginForm
  <2>6. \A k \in 1 .. Len(todo'[w]) : ~FileCall(todo'[w][k])
    BY <2>4, <2>5
  <2>7. \A e \in Dir : \A m \in Name : mem'[e][m] = IF e = d /\ m = n THEN None ELSE mem[e][m]
    BY <2>1 DEF Rmdir, IInv, TInv, TypeOK
  <2>8. x \notin File /\ None \notin File
    BY DistinctAssumption DEF Ino
  <2>9. \A e \in Dir : \A m \in Name : \A f \in File : mem'[e][m] = f <=> mem[e][m] = f
    BY <2>2, <2>7, <2>8
  <2>10. \A f \in File : inode'[f] = inode[f]
    BY <2>1, TouchFiles DEF Rmdir
  <2>11. moved' = moved
    BY <2>1 DEF Rmdir
  <2> QED BY <2>6, <2>9, <2>10, <2>11, FilelessStarts
<1>3. CASE \E d \in Dir, x \in Dir, n \in Name : Mkdir(w, d, n, x)
  <2>1. PICK d \in Dir, x \in Dir, n \in Name : Mkdir(w, d, n, x)
    BY <1>3
  <2>3. PICK a, b : a = JCall("mkdir", d, n, x) /\ b = JCall("mkself", x, None, x)
    OBVIOUS
  <2>4. ~FileCall(a) /\ ~FileCall(b) /\ Begin(w, {d, x}, <<a, b>>) /\ mem[d][n] = None
    BY <2>1, <2>3 DEF Mkdir, JCall, FileCall
  <2>5. todo'[w] = <<a, b>>
    BY <2>4, BeginForm
  <2>6. \A k \in 1 .. Len(todo'[w]) : ~FileCall(todo'[w][k])
    BY <2>4, <2>5
  <2>7. \A e \in Dir : \A m \in Name : mem'[e][m] = IF e = d /\ m = n THEN x ELSE mem[e][m]
    BY <2>1 DEF Mkdir, IInv, TInv, TypeOK
  <2>8. x \notin File /\ None \notin File
    BY DistinctAssumption DEF Ino
  <2>9. \A e \in Dir : \A m \in Name : \A f \in File : mem'[e][m] = f <=> mem[e][m] = f
    BY <2>4, <2>7, <2>8
  <2>10. \A f \in File : inode'[f] = inode[f]
    BY <2>1, TouchFiles DEF Mkdir
  <2>11. moved' = moved
    BY <2>1 DEF Mkdir
  <2> QED BY <2>6, <2>9, <2>10, <2>11, FilelessStarts
<1> QED BY <1>1, <1>2, <1>3

LEMMA CreateFiles ==
  ASSUME IInv, FilesLogged, NEW w \in Worker, NEW d \in Dir, NEW n \in Name, NEW f \in File,
         Create(w, d, n, f)
  PROVE  FileStarts(w) /\ HomeStarts(w)
<1>1. PICK c : c = JCall("mkreg", d, n, f)
  OBVIOUS
<1>2. /\ mem[d][n] = None /\ Begin(w, {d}, <<c>>) /\ f \notin used
      /\ mem' = [mem EXCEPT ![d][n] = f] /\ used' = used \cup {f} /\ Touch(d)
      /\ moved' = moved
  BY <1>1 DEF Create
<1>3. todo'[w] = <<c>> /\ lock[d] = None
  BY <1>2, BeginForm DEF Ino
<1>4. /\ Len(todo'[w]) = 1 /\ todo'[w][1] = c /\ 1 .. 1 = {1}
      /\ c.fn = "mkreg" /\ c.dir = d /\ c.name = n /\ c.ino = f
  BY <1>1, <1>3 DEF JCall
<1>5. \A e \in Dir, m \in Name : mem'[e][m] = IF e = d /\ m = n THEN f ELSE mem[e][m]
  BY <1>2 DEF IInv, TInv, TypeOK
<1>6. \A e \in Dir, m \in Name : mem[e][m] # f
  BY <1>2, OneName
<1>7. None \notin File
  BY DistinctAssumption DEF Ino
<1>8. ASSUME NEW e \in Dir, NEW i \in File
      PROVE  /\ Path(FileTrace(todo'[w], e, i), Len(todo'[w]), Listed(e, i), Listed(e, i)')
             /\ ~Mentions(w, e, i) => Named(e, i)' = Named(e, i)
             /\ Named(e, i)' => Named(e, i) \/ (e = d /\ i = f)
             /\ e = d /\ i = f => Named(e, i)'
             /\ \A p \in Name : \A m \in Name : mem'[e][p] = i /\ mem'[e][m] = i => m = p
  <2>1. FileTrace(todo'[w], e, i)[1] = IF e = d /\ i = f THEN Step(None, Root) ELSE Skip
    BY <1>4 DEF FileTrace, FileStep, OfFile, FileCall
  <2>2. e = d /\ i = f => ~Named(e, i) /\ Named(e, i)'
    BY <1>5, <1>6 DEF Named
  <2>3. ~(e = d /\ i = f) => Named(e, i)' = Named(e, i)
    BY <1>2, <1>5, <1>7 DEF Named
  <2>4. Path(FileTrace(todo'[w], e, i), 1, Listed(e, i), Listed(e, i)')
    <3>1. FileTrace(todo'[w], e, i)[1].is =>
            /\ Listed(e, i) = FileTrace(todo'[w], e, i)[1].from
            /\ FileTrace(todo'[w], e, i)[1].to = Listed(e, i)'
      BY <2>1, <2>2 DEF Step, Skip, Listed
    <3> QED BY <3>1, PathOne
  <2>5. e = d /\ i = f => Mentions(w, e, i)
    BY <1>4 DEF Mentions, OfFile, FileCall
  <2>6. \A p \in Name : \A m \in Name : mem'[e][p] = i /\ mem'[e][m] = i => m = p
    <3> SUFFICES ASSUME NEW p \in Name, NEW m \in Name, mem'[e][p] = i, mem'[e][m] = i
                 PROVE  m = p
      OBVIOUS
    <3>1. CASE i = f
      BY <1>5, <1>6, <3>1
    <3>2. CASE i # f
      <4>1. mem[e][p] = i /\ mem[e][m] = i
        BY <1>5, <3>2
      <4> QED BY <4>1, OneName
    <3> QED BY <3>1, <3>2
  <2> QED BY <1>4, <2>2, <2>3, <2>4, <2>5, <2>6
<1>9. \A i \in File : inode'[i] = inode[i]
  BY <1>2, TouchFiles
<1>10. FileStarts(w)
  BY <1>2, <1>3, <1>4, <1>8, <1>9 DEF FileStarts
<1>11. HomeStarts(w)
  <2>1. \A e \in Dir : \A i \in File : \A k \in 1 .. Len(todo'[w]) :
          Saves(todo'[w][k], e, i) => Named(e, i)'
    BY <1>4, <1>8 DEF Saves, OfFile
  <2>2. \A e \in Dir : \A i \in File :
          Named(e, i)' => Named(e, i) \/ (e = d /\ i = f /\ f \notin used)
    BY <1>2, <1>8
  <2> QED BY <1>2, <2>1, <2>2, HomesStart
<1> QED BY <1>10, <1>11

LEMMA UnlinkFiles ==
  ASSUME IInv, FilesLogged, NEW w \in Worker, NEW d \in Dir, NEW n \in Name, Unlink(w, d, n)
  PROVE  FileStarts(w) /\ HomeStarts(w)
<1>1. PICK f \in File : f = mem[d][n]
  BY DEF Unlink
<1>2. PICK c : c = JCall("rmreg", d, n, f)
  OBVIOUS
<1>3. /\ Begin(w, {d, f}, <<c>>)
      /\ mem' = [mem EXCEPT ![d][n] = None] /\ used' = used /\ Touch(d)
      /\ moved' = moved
  BY <1>1, <1>2 DEF Unlink
<1>4. todo'[w] = <<c>> /\ lock[d] = None /\ lock[f] = None
  BY <1>3, BeginForm DEF Ino
<1>5. /\ Len(todo'[w]) = 1 /\ todo'[w][1] = c /\ 1 .. 1 = {1}
      /\ c.fn = "rmreg" /\ c.dir = d /\ c.name = n /\ c.ino = f
  BY <1>2, <1>4 DEF JCall
<1>6. \A e \in Dir, m \in Name : mem'[e][m] = IF e = d /\ m = n THEN None ELSE mem[e][m]
  BY <1>3 DEF IInv, TInv, TypeOK
<1>7. f \in used /\ Named(d, f) /\ \A m \in Name : mem[d][m] = f => m = n
  BY <1>1, OneName
<1>8. None \notin File
  BY DistinctAssumption DEF Ino
<1>9. ASSUME NEW e \in Dir, NEW i \in File
      PROVE  /\ Path(FileTrace(todo'[w], e, i), Len(todo'[w]), Listed(e, i), Listed(e, i)')
             /\ ~Mentions(w, e, i) => Named(e, i)' = Named(e, i)
             /\ Named(e, i)' => Named(e, i)
             /\ \A p \in Name : \A m \in Name : mem'[e][p] = i /\ mem'[e][m] = i => m = p
  <2>1. FileTrace(todo'[w], e, i)[1] = IF e = d /\ i = f THEN Step(Root, None) ELSE Skip
    BY <1>5 DEF FileTrace, FileStep, OfFile, FileCall
  <2>2. e = d /\ i = f => Named(e, i) /\ ~Named(e, i)'
    BY <1>6, <1>7, <1>8 DEF Named
  <2>3. ~(e = d /\ i = f) => Named(e, i)' = Named(e, i)
    BY <1>1, <1>6, <1>8 DEF Named
  <2>4. Path(FileTrace(todo'[w], e, i), 1, Listed(e, i), Listed(e, i)')
    <3>1. FileTrace(todo'[w], e, i)[1].is =>
            /\ Listed(e, i) = FileTrace(todo'[w], e, i)[1].from
            /\ FileTrace(todo'[w], e, i)[1].to = Listed(e, i)'
      BY <2>1, <2>2 DEF Step, Skip, Listed
    <3> QED BY <3>1, PathOne
  <2>5. e = d /\ i = f => Mentions(w, e, i)
    BY <1>5 DEF Mentions, OfFile, FileCall
  <2>6. \A p \in Name : \A m \in Name : mem'[e][p] = i /\ mem'[e][m] = i => m = p
    <3> SUFFICES ASSUME NEW p \in Name, NEW m \in Name, mem'[e][p] = i, mem'[e][m] = i
                 PROVE  m = p
      OBVIOUS
    <3>1. mem[e][p] = i /\ mem[e][m] = i
      BY <1>6, <1>8
    <3> QED BY <3>1, OneName
  <2> QED BY <1>5, <2>2, <2>3, <2>4, <2>5, <2>6
<1>10. \A i \in File : inode'[i] = inode[i]
  BY <1>3, TouchFiles
<1>11. FileStarts(w)
  BY <1>3, <1>4, <1>5, <1>7, <1>9, <1>10 DEF FileStarts
<1>12. HomeStarts(w)
  <2>1. \A e \in Dir : \A i \in File : \A k \in 1 .. Len(todo'[w]) : ~Saves(todo'[w][k], e, i)
    BY <1>5 DEF Saves
  <2> QED BY <1>3, <1>9, <2>1, HomesStart
<1> QED BY <1>11, <1>12

LEMMA ChangeFiles ==
  ASSUME IInv, FilesLogged, NEW w \in Worker, NEW d \in Dir, NEW n \in Name, ChangeFile(w, d, n)
  PROVE  FileStarts(w) /\ HomeStarts(w)
<1>1. PICK f \in File : f = mem[d][n]
  BY DEF ChangeFile
<1>2. PICK c : c = JCall("chreg", d, None, f)
  OBVIOUS
<1>3. /\ Begin(w, {f}, <<c>>) /\ lock[d] = None
      /\ mem' = mem /\ used' = used /\ inode' = [inode EXCEPT ![f].attr = @ + 1]
      /\ moved' = moved
  BY <1>1, <1>2 DEF ChangeFile
<1>4. todo'[w] = <<c>> /\ lock[f] = None /\ lock'[f] = w
  BY <1>3, BeginForm DEF Ino
<1>5. /\ Len(todo'[w]) = 1 /\ todo'[w][1] = c /\ 1 .. 1 = {1}
      /\ c.fn = "chreg" /\ c.dir = d /\ c.ino = f
  BY <1>2, <1>4 DEF JCall
<1>6. f \in used /\ Named(d, f) /\ \A e \in Dir : Named(e, f) => e = d
  BY <1>1, OneName
<1>7. ASSUME NEW e \in Dir, NEW i \in File
      PROVE  /\ Path(FileTrace(todo'[w], e, i), Len(todo'[w]), Listed(e, i), Listed(e, i)')
             /\ Named(e, i)' = Named(e, i)
             /\ ~Mentions(w, e, i) /\ Named(e, i) => inode'[i] = inode[i]
             /\ \A p \in Name : \A m \in Name : mem'[e][p] = i /\ mem'[e][m] = i => m = p
  <2>1. FileTrace(todo'[w], e, i)[1] = IF e = d /\ i = f THEN Step(Root, Root) ELSE Skip
    BY <1>5 DEF FileTrace, FileStep, OfFile, FileCall
  <2>2. Named(e, i)' = Named(e, i) /\ Listed(e, i)' = Listed(e, i)
    BY <1>3 DEF Named, Listed
  <2>3. Path(FileTrace(todo'[w], e, i), 1, Listed(e, i), Listed(e, i)')
    <3>1. FileTrace(todo'[w], e, i)[1].is =>
            /\ Listed(e, i) = FileTrace(todo'[w], e, i)[1].from
            /\ FileTrace(todo'[w], e, i)[1].to = Listed(e, i)'
      BY <1>6, <2>1, <2>2 DEF Step, Skip, Listed
    <3> QED BY <3>1, PathOne
  <2>4. e = d /\ i = f => Mentions(w, e, i)
    BY <1>5 DEF Mentions, OfFile, FileCall
  <2>5. i # f => inode'[i] = inode[i]
    BY <1>3 DEF IInv, TInv, TypeOK, Ino
  <2>6. \A p \in Name : \A m \in Name : mem'[e][p] = i /\ mem'[e][m] = i => m = p
    BY <1>3, OneName
  <2> QED BY <1>5, <1>6, <2>2, <2>3, <2>4, <2>5, <2>6
<1>8. FileStarts(w)
  BY <1>3, <1>4, <1>5, <1>6, <1>7 DEF FileStarts
<1>9. HomeStarts(w)
  <2>1. \A e \in Dir : \A i \in File : \A k \in 1 .. Len(todo'[w]) :
          Saves(todo'[w][k], e, i) => Named(e, i)'
    BY <1>5, <1>6, <1>7 DEF Saves, OfFile
  <2> QED BY <1>3, <1>7, <2>1, HomesStart
<1> QED BY <1>8, <1>9

(* A file that moves is removed under its old name first, and so is the    *)
(* one whose place it takes.                                               *)
LEMMA RenameFiles ==
  ASSUME IInv, FilesLogged, NEW w \in Worker, NEW d \in Dir, NEW n \in Name, NEW m \in Name,
         Rename(w, d, n, m)
  PROVE  FileStarts(w) /\ HomeStarts(w)
<1>1. PICK f \in File : f = mem[d][n]
  BY DEF Rename
<1>2. PICK old \in File \cup {None} : old = mem[d][m]
  BY DEF Rename
<1>3. PICK r, a, b : /\ r = JCall("rmreg", d, m, old) /\ a = JCall("rmreg", d, n, f)
                     /\ b = JCall("mkreg", d, m, f)
  OBVIOUS
<1>4. PICK calls : calls = (IF old = None THEN <<>> ELSE <<r>>) \o <<a, b>>
  OBVIOUS
<1>5. PICK locks : locks = {d, f} \cup ({old} \ {None})
  OBVIOUS
<1>6. /\ n # m /\ Begin(w, locks, calls)
      /\ mem' = [mem EXCEPT ![d] = [@ EXCEPT ![n] = None, ![m] = f]]
      /\ used' = used /\ Touch(d) /\ moved' = moved
  BY <1>1, <1>2, <1>3, <1>4, <1>5 DEF Rename
<1>7. todo'[w] = calls /\ \A i \in Ino : i \in locks => lock[i] = None
  BY <1>6, BeginForm
<1>8. lock[d] = None /\ lock[f] = None /\ (old # None => lock[old] = None)
  BY <1>5, <1>7 DEF Ino
<1>9. /\ r.fn = "rmreg" /\ r.dir = d /\ r.ino = old
      /\ a.fn = "rmreg" /\ a.dir = d /\ a.ino = f
      /\ b.fn = "mkreg" /\ b.dir = d /\ b.ino = f
  BY <1>3 DEF JCall
<1>10. \A e \in Dir, p \in Name :
         mem'[e][p] = IF e = d /\ p = m THEN f
                      ELSE IF e = d /\ p = n THEN None ELSE mem[e][p]
  <2>1. mem[d] \in [Name -> Ino \cup {None}]
    BY DEF IInv, TInv, TypeOK
  <2>2. mem'[d] = [mem[d] EXCEPT ![n] = None, ![m] = f] /\ \A e \in Dir : e # d => mem'[e] = mem[e]
    BY <1>6 DEF IInv, TInv, TypeOK
  <2> QED BY <1>6, <2>1, <2>2
<1>11. None \notin File
  BY DistinctAssumption DEF Ino
<1>12. f \in used /\ Named(d, f) /\ \A p \in Name : mem[d][p] = f => p = n
  BY <1>1, OneName
<1>13. old # None => old \in File /\ old \in used /\ Named(d, old)
                     /\ \A p \in Name : mem[d][p] = old => p = m
  BY <1>2, OneName
<1>14. old # f
  BY <1>2, <1>6, <1>12
<1>15. ASSUME NEW e \in Dir, NEW i \in File
       PROVE  /\ e = d /\ i = old => ~Named(e, i)'
              /\ ~(e = d /\ i = old) => Named(e, i)' = Named(e, i)
              /\ \A p \in Name : \A x \in Name : mem'[e][p] = i /\ mem'[e][x] = i => x = p
  <2>1. CASE e # d
    <3>1. \A p \in Name : mem'[e][p] = mem[e][p]
      BY <1>10, <2>1
    <3>2. Named(e, i)' = Named(e, i)
      BY <3>1 DEF Named
    <3>3. \A p \in Name : \A x \in Name : mem[e][p] = i /\ mem[e][x] = i => x = p
      BY OneName
    <3> QED BY <2>1, <3>1, <3>2, <3>3
  <2>2. CASE e = d /\ i = f
    <3>1. \A p \in Name : mem'[d][p] = f <=> p = m
      BY <1>6, <1>10, <1>11, <1>12
    <3>2. Named(e, i)' = Named(e, i)
      <4>1. Named(e, i)' /\ Named(e, i)
        BY <1>12, <2>2, <3>1 DEF Named
      <4>2. Named(e, i)' \in BOOLEAN /\ Named(e, i) \in BOOLEAN
        BY DEF Named
      <4> QED BY <4>1, <4>2
    <3> QED BY <1>14, <2>2, <3>1, <3>2
  <2>3. CASE e = d /\ i = old
    <3>1. \A p \in Name : mem'[d][p] # old
      BY <1>10, <1>11, <1>13, <1>14, <2>3
    <3> QED BY <2>3, <3>1 DEF Named
  <2>4. CASE e = d /\ i # old /\ i # f
    <3>1. \A p \in Name : mem'[d][p] = i <=> mem[d][p] = i
      BY <1>1, <1>2, <1>10, <1>11, <2>4
    <3>2. \A p \in Name : \A x \in Name : mem[d][p] = i /\ mem[d][x] = i => x = p
      BY OneName
    <3>3. Named(e, i)' = Named(e, i)
      BY <2>4, <3>1 DEF Named
    <3> QED BY <2>4, <3>1, <3>2, <3>3
  <2> QED BY <2>1, <2>2, <2>3, <2>4
<1>16. \A i \in File : inode'[i] = inode[i]
  BY <1>6, TouchFiles
<1>h. ASSUME \A k \in 1 .. Len(todo'[w]) : todo'[w][k] \in {r, a, b}
      PROVE  HomeStarts(w)
  <2>1. \A e \in Dir : \A i \in File : Named(e, i)' => Named(e, i)
    BY <1>15
  <2>2. Named(d, f)'
    BY <1>10 DEF Named
  <2>3. \A e \in Dir : \A i \in File : \A k \in 1 .. Len(todo'[w]) :
          Saves(todo'[w][k], e, i) => Named(e, i)'
    BY <1>9, <1>h, <2>2 DEF Saves, OfFile
  <2> QED BY <1>6, <2>1, <2>3, HomesStart
<1>17. CASE old = None
  <2>1. calls = <<a, b>>
    BY <1>4, <1>17
  <2>2. Len(todo'[w]) = 2 /\ todo'[w][1] = a /\ todo'[w][2] = b /\ 1 .. 2 = {1, 2}
    BY <1>7, <2>1
  <2>3. ASSUME NEW e \in Dir, NEW i \in File
        PROVE  /\ Path(FileTrace(todo'[w], e, i), Len(todo'[w]), Listed(e, i), Listed(e, i)')
               /\ ~Mentions(w, e, i) => Named(e, i)' = Named(e, i)
    <3>1. PICK T : T = FileTrace(todo'[w], e, i)
      OBVIOUS
    <3>2. /\ T[1] = IF e = d /\ i = f THEN Step(Root, None) ELSE Skip
          /\ T[2] = IF e = d /\ i = f THEN Step(None, Root) ELSE Skip
      BY <1>9, <2>2, <3>1 DEF FileTrace, FileStep, OfFile, FileCall
    <3>n. i # old
      BY <1>11, <1>17
    <3>3. Named(e, i)' = Named(e, i) /\ (e = d /\ i = f => Named(e, i))
      BY <1>12, <1>15, <3>n
    <3>4. Listed(e, i)' = Listed(e, i) /\ (e = d /\ i = f => Listed(e, i) = Root)
      BY <3>3 DEF Listed
    <3>5. Path(T, 2, Listed(e, i), Listed(e, i)')
      <4>1. /\ T[1].is => T[2].is /\ Listed(e, i) = T[1].from /\ T[1].to = T[2].from
            /\ T[2].is => T[1].is /\ T[2].to = Listed(e, i)'
        BY <3>2, <3>4 DEF Step, Skip
      <4> QED BY <4>1, PathTwo
    <3> QED BY <2>2, <3>1, <3>3, <3>5
  <2>4. FileStarts(w)
    BY <1>6, <1>8, <1>9, <1>12, <1>15, <1>16, <2>2, <2>3 DEF FileStarts
  <2>5. HomeStarts(w)
    BY <1>h, <2>2
  <2> QED BY <2>4, <2>5
<1>18. CASE old # None
  <2>1. calls = <<r>> \o <<a, b>>
    BY <1>4, <1>18
  <2>2. /\ Len(todo'[w]) = 3 /\ todo'[w][1] = r /\ todo'[w][2] = a /\ todo'[w][3] = b
        /\ 1 .. 3 = {1, 2, 3}
    <3>1. <<r>> \in Seq({r, a, b}) /\ <<a, b>> \in Seq({r, a, b})
      OBVIOUS
    <3>2. /\ Len(<<r>> \o <<a, b>>) = Len(<<r>>) + Len(<<a, b>>)
          /\ \A i \in 1 .. Len(<<r>>) + Len(<<a, b>>) :
               (<<r>> \o <<a, b>>)[i] = IF i <= Len(<<r>>) THEN <<r>>[i]
                                       ELSE <<a, b>>[i - Len(<<r>>)]
      BY <3>1, ConcatProperties
    <3>3. Len(<<r>>) = 1 /\ Len(<<a, b>>) = 2
      OBVIOUS
    <3>4. Len(calls) = 3 /\ calls[1] = r /\ calls[2] = a /\ calls[3] = b
      BY <2>1, <3>2, <3>3
    <3> QED BY <1>7, <3>4
  <2>3. ASSUME NEW e \in Dir, NEW i \in File
        PROVE  /\ Path(FileTrace(todo'[w], e, i), Len(todo'[w]), Listed(e, i), Listed(e, i)')
               /\ ~Mentions(w, e, i) => Named(e, i)' = Named(e, i)
    <3>1. PICK T : T = FileTrace(todo'[w], e, i)
      OBVIOUS
    <3>2. /\ T[1] = IF e = d /\ i = old THEN Step(Root, None) ELSE Skip
          /\ T[2] = IF e = d /\ i = f THEN Step(Root, None) ELSE Skip
          /\ T[3] = IF e = d /\ i = f THEN Step(None, Root) ELSE Skip
      BY <1>9, <2>2, <3>1 DEF FileTrace, FileStep, OfFile, FileCall
    <3>3. /\ e = d /\ i = old => Listed(e, i) = Root /\ Listed(e, i)' = None
          /\ e = d /\ i = f => Listed(e, i) = Root /\ Listed(e, i)' = Root
      BY <1>12, <1>13, <1>14, <1>15, <1>18 DEF Listed
    <3>4. Path(T, 3, Listed(e, i), Listed(e, i)')
      <4>1. /\ T[1].is => /\ ~T[2].is /\ ~T[3].is /\ Listed(e, i) = T[1].from
                          /\ T[1].to = Listed(e, i)'
            /\ T[2].is => /\ ~T[1].is /\ T[3].is /\ Listed(e, i) = T[2].from
                          /\ T[2].to = T[3].from
            /\ T[3].is => ~T[1].is /\ T[2].is /\ T[3].to = Listed(e, i)'
        BY <1>14, <3>2, <3>3 DEF Step, Skip
      <4> QED BY <4>1, PathThree
    <3>5. e = d /\ i = old => Mentions(w, e, i)
      BY <1>9, <2>2 DEF Mentions, OfFile, FileCall
    <3>6. ~(e = d /\ i = old) => Named(e, i)' = Named(e, i)
      BY <1>15
    <3> QED BY <2>2, <3>1, <3>4, <3>5, <3>6
  <2>4. \A k \in 1 .. Len(todo'[w]) :
          /\ todo'[w][k].ino \in {f, old} /\ todo'[w][k].dir = d /\ todo'[w][k].fn # "chreg"
    BY <1>9, <2>2
  <2>5. \A i \in {f, old} : i \in File /\ i \in used /\ Named(d, i) /\ lock[i] = None
    BY <1>8, <1>12, <1>13, <1>18
  <2>6. \A k \in 1 .. Len(todo'[w]) : FileCall(todo'[w][k]) =>
          /\ todo'[w][k].ino \in File /\ todo'[w][k].ino \in used'
          /\ lock[todo'[w][k].dir] = None
          /\ todo'[w][k].ino \notin used \/ lock[todo'[w][k].ino] = None
          /\ todo'[w][k].fn = "chreg" => lock'[todo'[w][k].ino] = w
    BY <1>6, <1>8, <2>4, <2>5
  <2>7. FileStarts(w)
    BY <1>15, <1>16, <2>3, <2>6 DEF FileStarts
  <2>8. HomeStarts(w)
    BY <1>h, <2>2
  <2> QED BY <2>7, <2>8
<1> QED BY <1>17, <1>18

(* Whoever has a call about a file has the directory locked, or the file.  *)
LEMMA NobodySaves ==
  ASSUME IInv, Logged, FilesLogged, NEW d \in Dir, NEW f \in File,
         lock[d] = None, lock[f] = None
  PROVE  ~Unsaved(d, f)
<1> SUFFICES ASSUME NEW i \in Worker, NEW j \in 1 .. Len(todo[i]), OfFile(todo[i][j], d, f)
             PROVE  FALSE
  BY DEF Unsaved
<1>1. None \notin Worker
  BY DistinctAssumption
<1>2. CASE todo[i][j].fn = "chreg"
  BY <1>1, <1>2 DEF FilesLogged, FileLocked, OfFile
<1>3. CASE todo[i][j].fn # "chreg"
  <2>1. SelfCall(todo[i][j]) /\ todo[i][j].dir = d
    BY <1>3 DEF OfFile, SelfCall
  <2> QED BY <1>1, <2>1 DEF Logged, Locked
<1> QED BY <1>2, <1>3

(* A file that moves to another directory has no call left, and if it did  *)
(* not move too early, the directory it leaves has nothing to write of it. *)
LEMMA RenameAwayFiles ==
  ASSUME IInv, Logged, FilesLogged, NEW w \in Worker, NEW d \in Dir, NEW e \in Dir,
         NEW n \in Name, NEW m \in Name, RenameAway(w, d, n, e, m)
  PROVE  FileStarts(w) /\ HomeStarts(w)
<1>1. PICK f \in File : f = mem[d][n]
  BY DEF RenameAway
<1>2. PICK old \in File \cup {None} : old = mem[e][m]
  BY DEF RenameAway
<1>3. PICK r, a, b : /\ r = JCall("rmreg", e, m, old) /\ a = JCall("rmreg", d, n, f)
                     /\ b = JCall("mkreg", e, m, f)
  OBVIOUS
<1>4. PICK calls : calls = <<a>> \o (IF old = None THEN <<>> ELSE <<r>>) \o <<b>>
  OBVIOUS
<1>5. PICK locks : locks = {d, e, f} \cup ({old} \ {None})
  OBVIOUS
<1>6. /\ d # e /\ Begin(w, locks, calls)
      /\ mem' = [mem EXCEPT ![d][n] = None, ![e][m] = f]
      /\ used' = used /\ inode' = inode
      /\ moved' = moved \cup (IF Carries(d, f) THEN {f} ELSE {})
  BY <1>1, <1>2, <1>3, <1>4, <1>5 DEF RenameAway
<1>7. todo'[w] = calls /\ \A i \in Ino : i \in locks => lock[i] = None
  BY <1>6, BeginForm
<1>8. lock[d] = None /\ lock[e] = None /\ lock[f] = None /\ (old # None => lock[old] = None)
  BY <1>5, <1>7 DEF Ino
<1>d. d # e /\ inode' = inode /\ used' = used
  BY <1>6
<1>9. /\ r.fn = "rmreg" /\ r.dir = e /\ r.ino = old
      /\ a.fn = "rmreg" /\ a.dir = d /\ a.ino = f
      /\ b.fn = "mkreg" /\ b.dir = e /\ b.ino = f
  BY <1>3 DEF JCall
<1>10. \A x \in Dir, p \in Name :
         mem'[x][p] = IF x = e /\ p = m THEN f
                      ELSE IF x = d /\ p = n THEN None ELSE mem[x][p]
  <2>1. mem \in [Dir -> [Name -> Ino \cup {None}]]
    BY DEF IInv, TInv, TypeOK
  <2> QED BY <1>6, <2>1
<1>11. None \notin File
  BY DistinctAssumption DEF Ino
<1>12. /\ f \in used /\ Named(d, f) /\ \A p \in Name : mem[d][p] = f => p = n
       /\ \A x \in Dir : Named(x, f) => x = d
  BY <1>1, OneName
<1>13. old # None => old \in File /\ old \in used /\ Named(e, old)
                     /\ \A p \in Name : mem[e][p] = old => p = m
  BY <1>2, OneName
<1>14. old # f
  <2>1. ~Named(e, f)
    BY <1>6, <1>12
  <2> QED BY <1>2, <2>1 DEF Named
<1>15. ASSUME NEW x \in Dir, NEW i \in File
       PROVE  /\ i = f => (Named(x, i)' <=> x = e)
              /\ x = e /\ i = old => ~Named(x, i)'
              /\ i # f /\ ~(x = e /\ i = old) => Named(x, i)' = Named(x, i)
              /\ \A p \in Name : \A q \in Name : mem'[x][p] = i /\ mem'[x][q] = i => q = p
  <2>1. CASE i = f
    <3>1. \A p \in Name : mem'[x][p] = f <=> x = e /\ p = m
      <4>1. \A p \in Name : mem[x][p] = f => x = d /\ p = n
        BY <1>12 DEF Named
      <4>2. ASSUME NEW p \in Name
            PROVE  mem'[x][p] = f <=> x = e /\ p = m
        <5>1. CASE x = e /\ p = m
          BY <1>10, <5>1
        <5>2. CASE x = d /\ p = n
          <6>1. mem'[x][p] = None /\ ~(x = e /\ p = m)
            BY <1>d, <1>10, <5>2
          <6> QED BY <1>11, <6>1
        <5>3. CASE ~(x = e /\ p = m) /\ ~(x = d /\ p = n)
          <6>1. mem'[x][p] = mem[x][p]
            BY <1>10, <5>3
          <6> QED BY <4>1, <5>3, <6>1
        <5> QED BY <5>1, <5>2, <5>3
      <4> QED BY <4>2
    <3>2. Named(x, i)' <=> x = e
      BY <2>1, <3>1 DEF Named
    <3> QED BY <1>14, <2>1, <3>1, <3>2
  <2>2. CASE x = e /\ i = old
    <3>1. \A p \in Name : mem'[e][p] # old
      <4> SUFFICES ASSUME NEW p \in Name, mem'[e][p] = old
                   PROVE  FALSE
        OBVIOUS
      <4>1. old \in File /\ old # None
        BY <1>11, <2>2
      <4>2. mem'[e][p] = IF p = m THEN f ELSE mem[e][p]
        BY <1>d, <1>10
      <4>3. mem[e][p] = old => p = m
        BY <1>13, <4>1
      <4> QED BY <1>14, <4>2, <4>3
    <3> QED BY <1>14, <2>2, <3>1 DEF Named
  <2>3. CASE i # f /\ ~(x = e /\ i = old)
    <3>1. \A p \in Name : mem'[x][p] = i <=> mem[x][p] = i
      BY <1>1, <1>2, <1>10, <1>11, <2>3
    <3>2. \A p \in Name : \A q \in Name : mem[x][p] = i /\ mem[x][q] = i => q = p
      BY OneName
    <3>3. Named(x, i)' = Named(x, i)
      BY <3>1 DEF Named
    <3> QED BY <2>3, <3>1, <3>2, <3>3
  <2> QED BY <2>1, <2>2, <2>3
<1>16. ASSUME \A k \in 1 .. Len(todo'[w]) : todo'[w][k] \in {r, a, b}
       PROVE  HomeStarts(w)
  <2>1. ~Unsaved(d, f)
    BY <1>8, NobodySaves
  <2>2. ASSUME NEW x \in Dir, NEW y \in Dir, NEW i \in File, Named(x, i)', Named(y, i)'
        PROVE  y = x
    <3>1. CASE i = f
      BY <1>15, <2>2, <3>1
    <3>2. CASE i # f
      <4>1. Named(x, i) /\ Named(y, i)
        BY <1>15, <2>2, <3>2
      <4> QED BY <4>1 DEF FilesLogged, OneHome
    <3> QED BY <3>1, <3>2
  <2>3. ASSUME NEW x \in Dir, NEW y \in Dir, NEW i \in File,
               Named(x, i)', i \notin moved', Bound(y, i)
        PROVE  y = x
    <3>1. CASE i = f
      <4>1. f \notin moved /\ ~Carries(d, f)
        BY <1>6, <2>3, <3>1
      <4>2. y = d
        BY <1>12, <2>3, <3>1, <4>1 DEF FilesLogged, OneHome
      <4>3. Unsaved(d, f)
        BY <2>3, <3>1, <4>1, <4>2 DEF Bound, Saves, Unsaved
      <4> QED BY <2>1, <4>3
    <3>2. CASE i # f
      <4>1. Named(x, i) /\ i \notin moved
        BY <1>6, <1>15, <2>3, <3>2
      <4> QED BY <2>3, <4>1 DEF FilesLogged, OneHome
    <3> QED BY <3>1, <3>2
  <2>4. Named(e, f)'
    BY <1>15
  <2>5. \A x \in Dir : \A i \in File : \A k \in 1 .. Len(todo'[w]) :
          Saves(todo'[w][k], x, i) => Named(x, i)'
    BY <1>9, <1>16, <2>4 DEF Saves, OfFile
  <2>6. moved \subseteq moved'
    BY <1>6
  <2> QED BY <2>2, <2>3, <2>5, <2>6 DEF HomeStarts
<1>17. CASE old = None
  <2>1. calls = <<a, b>>
    <3>1. calls = <<a>> \o <<>> \o <<b>>
      BY <1>4, <1>17
    <3> QED BY <3>1, TwoJoined
  <2>2. Len(todo'[w]) = 2 /\ todo'[w][1] = a /\ todo'[w][2] = b /\ 1 .. 2 = {1, 2}
    BY <1>7, <2>1
  <2>3. ASSUME NEW x \in Dir, NEW i \in File
        PROVE  /\ Path(FileTrace(todo'[w], x, i), Len(todo'[w]), Listed(x, i), Listed(x, i)')
               /\ ~Mentions(w, x, i) => Named(x, i)' = Named(x, i)
    <3>1. PICK T : T = FileTrace(todo'[w], x, i)
      OBVIOUS
    <3>2. /\ T[1] = IF x = d /\ i = f THEN Step(Root, None) ELSE Skip
          /\ T[2] = IF x = e /\ i = f THEN Step(None, Root) ELSE Skip
      BY <1>9, <2>2, <3>1 DEF FileTrace, FileStep, OfFile, FileCall
    <3>3. /\ x = d /\ i = f => Listed(x, i) = Root /\ Listed(x, i)' = None
          /\ x = e /\ i = f => Listed(x, i) = None /\ Listed(x, i)' = Root
      BY <1>6, <1>12, <1>15 DEF Listed
    <3>4. Path(T, 2, Listed(x, i), Listed(x, i)')
      <4>1. /\ T[1].is => ~T[2].is /\ Listed(x, i) = T[1].from /\ T[1].to = Listed(x, i)'
            /\ T[2].is => ~T[1].is /\ Listed(x, i) = T[2].from /\ T[2].to = Listed(x, i)'
        BY <1>6, <3>2, <3>3 DEF Step, Skip
      <4> QED BY <4>1, PathTwo
    <3>5. (x = d \/ x = e) /\ i = f => Mentions(w, x, i)
      BY <1>9, <2>2 DEF Mentions, OfFile, FileCall
    <3>6. ~((x = d \/ x = e) /\ i = f) => Named(x, i)' = Named(x, i)
      <4>1. i # old
        BY <1>11, <1>17
      <4>2. i = f /\ x # d => ~Named(x, i)
        BY <1>12
      <4>3. CASE i = f
        <5>1. x # e /\ x # d => ~Named(x, i)' /\ ~Named(x, i)
          BY <1>15, <4>2, <4>3
        <5>2. Named(x, i)' \in BOOLEAN /\ Named(x, i) \in BOOLEAN
          BY DEF Named
        <5> QED BY <4>3, <5>1, <5>2
      <4>4. CASE i # f
        BY <1>15, <4>1, <4>4
      <4> QED BY <4>3, <4>4
    <3> QED BY <2>2, <3>1, <3>4, <3>5, <3>6
  <2>4. FileStarts(w)
    <3>1. \A k \in 1 .. Len(todo'[w]) :
            /\ todo'[w][k].ino = f /\ todo'[w][k].dir \in {d, e} /\ todo'[w][k].fn # "chreg"
      BY <1>9, <2>2
    <3>2. \A k \in 1 .. Len(todo'[w]) : FileCall(todo'[w][k]) =>
            /\ todo'[w][k].ino \in File /\ todo'[w][k].ino \in used'
            /\ lock[todo'[w][k].dir] = None
            /\ todo'[w][k].ino \notin used \/ lock[todo'[w][k].ino] = None
            /\ todo'[w][k].fn = "chreg" => lock'[todo'[w][k].ino] = w
      BY <1>d, <1>8, <1>12, <3>1
    <3>3. \A x \in Dir : \A i \in File : \A p \in Name : \A q \in Name :
            mem'[x][p] = i /\ mem'[x][q] = i => q = p
      BY <1>15
    <3>4. \A i \in File : inode'[i] = inode[i]
      BY <1>d
    <3> QED BY <2>3, <3>2, <3>3, <3>4 DEF FileStarts
  <2>5. HomeStarts(w)
    BY <1>16, <2>2
  <2> QED BY <2>4, <2>5
<1>18. CASE old # None
  <2>1. calls = <<a, r, b>>
    <3>1. calls = <<a>> \o <<r>> \o <<b>>
      BY <1>4, <1>18
    <3> QED BY <3>1, ThreeJoined
  <2>2. /\ Len(todo'[w]) = 3 /\ todo'[w][1] = a /\ todo'[w][2] = r /\ todo'[w][3] = b
        /\ 1 .. 3 = {1, 2, 3}
    BY <1>7, <2>1
  <2>3. ASSUME NEW x \in Dir, NEW i \in File
        PROVE  /\ Path(FileTrace(todo'[w], x, i), Len(todo'[w]), Listed(x, i), Listed(x, i)')
               /\ ~Mentions(w, x, i) => Named(x, i)' = Named(x, i)
    <3>1. PICK T : T = FileTrace(todo'[w], x, i)
      OBVIOUS
    <3>2. /\ T[1] = IF x = d /\ i = f THEN Step(Root, None) ELSE Skip
          /\ T[2] = IF x = e /\ i = old THEN Step(Root, None) ELSE Skip
          /\ T[3] = IF x = e /\ i = f THEN Step(None, Root) ELSE Skip
      BY <1>9, <2>2, <3>1 DEF FileTrace, FileStep, OfFile, FileCall
    <3>3. /\ x = d /\ i = f => Listed(x, i) = Root /\ Listed(x, i)' = None
          /\ x = e /\ i = f => Listed(x, i) = None /\ Listed(x, i)' = Root
          /\ x = e /\ i = old => Listed(x, i) = Root /\ Listed(x, i)' = None
      BY <1>6, <1>12, <1>13, <1>15, <1>18 DEF Listed
    <3>4. Path(T, 3, Listed(x, i), Listed(x, i)')
      <4>1. /\ T[1].is => /\ ~T[2].is /\ ~T[3].is /\ Listed(x, i) = T[1].from
                          /\ T[1].to = Listed(x, i)'
            /\ T[2].is => /\ ~T[1].is /\ ~T[3].is /\ Listed(x, i) = T[2].from
                          /\ T[2].to = Listed(x, i)'
            /\ T[3].is => /\ ~T[1].is /\ ~T[2].is /\ Listed(x, i) = T[3].from
                          /\ T[3].to = Listed(x, i)'
        BY <1>6, <1>14, <3>2, <3>3 DEF Step, Skip
      <4> QED BY <4>1, PathThree
    <3>5. ((x = d \/ x = e) /\ i = f) \/ (x = e /\ i = old) => Mentions(w, x, i)
      BY <1>9, <2>2 DEF Mentions, OfFile, FileCall
    <3>6. ~((x = d \/ x = e) /\ i = f) /\ ~(x = e /\ i = old) => Named(x, i)' = Named(x, i)
      <4>2. i = f /\ x # d => ~Named(x, i)
        BY <1>12
      <4>3. CASE i = f
        <5>1. x # e /\ x # d => ~Named(x, i)' /\ ~Named(x, i)
          BY <1>15, <4>2, <4>3
        <5>2. Named(x, i)' \in BOOLEAN /\ Named(x, i) \in BOOLEAN
          BY DEF Named
        <5> QED BY <4>3, <5>1, <5>2
      <4>4. CASE i # f
        BY <1>15, <4>4
      <4> QED BY <4>3, <4>4
    <3> QED BY <2>2, <3>1, <3>4, <3>5, <3>6
  <2>4. \A k \in 1 .. Len(todo'[w]) :
          /\ todo'[w][k].ino \in {f, old} /\ todo'[w][k].dir \in {d, e}
          /\ todo'[w][k].fn # "chreg"
    BY <1>9, <2>2
  <2>5. \A i \in {f, old} : i \in File /\ i \in used' /\ lock[i] = None
    BY <1>6, <1>8, <1>12, <1>13, <1>18
  <2>6. \A k \in 1 .. Len(todo'[w]) : FileCall(todo'[w][k]) =>
          /\ todo'[w][k].ino \in File /\ todo'[w][k].ino \in used'
          /\ lock[todo'[w][k].dir] = None
          /\ todo'[w][k].ino \notin used \/ lock[todo'[w][k].ino] = None
          /\ todo'[w][k].fn = "chreg" => lock'[todo'[w][k].ino] = w
    BY <1>8, <2>4, <2>5
  <2>7. FileStarts(w)
    <3>3. \A x \in Dir : \A i \in File : \A p \in Name : \A q \in Name :
            mem'[x][p] = i /\ mem'[x][q] = i => q = p
      BY <1>15
    <3>4. \A i \in File : inode'[i] = inode[i]
      BY <1>d
    <3> QED BY <2>3, <2>6, <3>3, <3>4 DEF FileStarts
  <2>8. HomeStarts(w)
    BY <1>16, <2>2
  <2> QED BY <2>7, <2>8
<1> QED BY <1>17, <1>18

LEMMA OperationFiles ==
  ASSUME IInv, Logged, FilesLogged, NEW w \in Worker, Operation(w)
  PROVE  FileStarts(w) /\ HomeStarts(w)
BY CreateFiles, UnlinkFiles, RenameFiles, RenameAwayFiles, ChangeFiles, DirFiles DEF Operation

(* An operation that begins finds nobody with a call about its files.      *)
LEMMA StartsFiles ==
  ASSUME IInv, Logged, FilesLogged, NEW w \in Worker, Starts(w), FileStarts(w), HomeStarts(w),
         UNCHANGED <<held, txs, done>>
  PROVE  FilesLogged'
<1>1. /\ todo[w] = <<>> /\ held[w] = 0
      /\ \A i \in Worker : i # w => todo'[i] = todo[i]
      /\ \A i \in Ino : lock[i] # None => lock'[i] = lock[i]
      /\ used \subseteq used'
  BY DEF Starts
<1>2. None \notin Worker
  BY DistinctAssumption
<1>3. ASSUME NEW i \in Worker, NEW k \in 1 .. Len(todo[i])
      PROVE  /\ todo[i][k].dir \in Dir /\ todo[i][k].ino \in Ino
             /\ SelfCall(todo[i][k]) => lock[todo[i][k].dir] # None
             /\ FileCall(todo[i][k]) => todo[i][k].ino \in File
             /\ todo[i][k].fn = "chreg" => /\ lock[todo[i][k].ino] = i
                                           /\ lock'[todo[i][k].ino] = i
  <2>1. todo[i][k] \in CallType
    <3>1. todo[i] \in Seq(CallType)
      BY DEF IInv, TInv, TypeOK
    <3> QED BY <3>1
  <2>2. todo[i][k].dir \in Dir /\ todo[i][k].ino \in Ino
    BY <2>1 DEF CallType
  <2>3. SelfCall(todo[i][k]) => lock[todo[i][k].dir] # None
    BY <1>2 DEF Logged, Locked
  <2>4. /\ FileCall(todo[i][k]) => todo[i][k].ino \in File
        /\ todo[i][k].fn = "chreg" => lock[todo[i][k].ino] = i
    BY DEF FilesLogged, FileLocked
  <2>5. todo[i][k].fn = "chreg" => lock'[todo[i][k].ino] = i
    BY <1>1, <1>2, <2>2, <2>4
  <2> QED BY <2>2, <2>3, <2>4, <2>5
<1>4. ASSUME NEW d \in Dir, NEW f \in File, Mentions(w, d, f)
      PROVE  ~Unsaved(d, f)
  <2>1. PICK k \in 1 .. Len(todo'[w]) : OfFile(todo'[w][k], d, f)
    BY <1>4 DEF Mentions
  <2>2. lock[d] = None /\ (f \notin used \/ lock[f] = None)
    BY <2>1 DEF FileStarts, OfFile
  <2>3. Unsaved(d, f) => f \in used
    BY DEF FileAt, FilesLogged, OneHome
  <2> QED BY <2>2, <2>3, NobodySaves
<1>5. ASSUME NEW d \in Dir, NEW f \in File
      PROVE  /\ Unsaved(d, f)' <=> Unsaved(d, f) \/ Mentions(w, d, f)
             /\ FileLog(d, f)' = FileLog(d, f) /\ FileWords(d, f)' = FileWords(d, f)
             /\ All(d)' = All(d)
  <2>1. FileLog(d, f)' = FileLog(d, f) /\ FileWords(d, f)' = FileWords(d, f) /\ All(d)' = All(d)
    BY DEF FileLog, FileWords, All
  <2>2. ASSUME Unsaved(d, f)'
        PROVE  Unsaved(d, f) \/ Mentions(w, d, f)
    <3>1. PICK i \in Worker : \E k \in 1 .. Len(todo'[i]) : OfFile(todo'[i][k], d, f)
      BY <2>2 DEF Unsaved
    <3> QED BY <1>1, <3>1 DEF Unsaved, Mentions
  <2>3. ASSUME Unsaved(d, f)
        PROVE  Unsaved(d, f)'
    <3>1. PICK i \in Worker : \E k \in 1 .. Len(todo[i]) : OfFile(todo[i][k], d, f)
      BY <2>3 DEF Unsaved
    <3>2. i # w
      BY <1>1, <3>1
    <3> QED BY <1>1, <3>1, <3>2 DEF Unsaved
  <2>4. Mentions(w, d, f) => Unsaved(d, f)'
    BY DEF Mentions, Unsaved
  <2> QED BY <2>1, <2>2, <2>3, <2>4
<1>6. FileLocked'
  <2>1. ASSUME NEW i \in Worker, NEW k \in 1 .. Len(todo'[i])
        PROVE  /\ FileCall(todo'[i][k]) => todo'[i][k].ino \in File
               /\ todo'[i][k].fn = "chreg" => lock'[todo'[i][k].ino] = i
    <3>1. CASE i = w
      BY <3>1 DEF FileStarts, FileCall
    <3>2. CASE i # w
      BY <1>1, <1>3, <3>2
    <3> QED BY <3>1, <3>2
  <2>2. ASSUME NEW d \in Dir, NEW f \in File, NEW a \in Worker, NEW i \in Worker,
               NEW k \in 1 .. Len(todo'[a]), NEW j \in 1 .. Len(todo'[i]),
               OfFile(todo'[a][k], d, f), OfFile(todo'[i][j], d, f)
        PROVE  i = a
    <3>1. CASE a # w /\ i # w
      BY <1>1, <2>2, <3>1 DEF FilesLogged, FileLocked
    <3>2. CASE a = w /\ i # w
      <4>1. Mentions(w, d, f) /\ Unsaved(d, f)
        BY <1>1, <2>2, <3>2 DEF Mentions, Unsaved
      <4> QED BY <1>4, <4>1
    <3>3. CASE a # w /\ i = w
      <4>1. Mentions(w, d, f) /\ Unsaved(d, f)
        BY <1>1, <2>2, <3>3 DEF Mentions, Unsaved
      <4> QED BY <1>4, <4>1
    <3> QED BY <3>1, <3>2, <3>3
  <2> QED BY <2>1, <2>2 DEF FileLocked
<1>7. FileNothingNewer'
  <2> SUFFICES ASSUME NEW i \in Worker, held'[i] # 0, FileCall(Head(todo'[i])),
                      NEW h \in All(Head(todo[i]).dir)', h > held'[i]
               PROVE  txs'[Head(todo'[i]).dir][h].f_inodes[Head(todo'[i]).ino] = None
    BY DEF FileNothingNewer
  <2>1. i # w /\ todo'[i] = todo[i] /\ held[i] # 0
    BY <1>1
  <2>2. h \in All(Head(todo[i]).dir)
    BY <2>1 DEF All
  <2> QED BY <2>1, <2>2 DEF FilesLogged, FileNothingNewer
<1>8. ASSUME NEW d \in Dir, NEW f \in File, FileAt(d, f)'
      PROVE  FileAt(d, f) \/ Mentions(w, d, f)
  <2>1. CASE Named(d, f)'
    BY <2>1 DEF FileStarts, FileAt
  <2>2. CASE ~Named(d, f)'
    BY <1>5, <1>8, <2>2 DEF FileAt
  <2> QED BY <2>1, <2>2
<1>9. \A d \in Dir : \A f \in File : Mentions(w, d, f) => f \in used'
  BY DEF FileStarts, OfFile, Mentions
<1>10. \A d \in Dir : \A f \in File : FileAt(d, f) => f \in used
  BY DEF FilesLogged, OneHome
<1>11. OneHome'
  <2>1. \A d \in Dir : \A f \in File : FileAt(d, f)' => f \in used'
    BY <1>1, <1>8, <1>9, <1>10
  <2>2. \A d \in Dir : \A f \in File : \A n \in Name : \A m \in Name :
          mem'[d][n] = f /\ mem'[d][m] = f => m = n
    BY DEF FileStarts
  <2>3. \A d \in Dir : \A e \in Dir : \A f \in File : Named(d, f)' /\ Named(e, f)' => e = d
    BY DEF HomeStarts
  <2>4. ASSUME NEW d \in Dir, NEW e \in Dir, NEW f \in File,
               Named(d, f)', f \notin moved', Bound(e, f)'
        PROVE  e = d
    <3>1. Carries(e, f)' => Carries(e, f)
      BY DEF Carries, Pending
    <3>2. CASE Bound(e, f)
      BY <2>4, <3>2 DEF HomeStarts
    <3>3. CASE ~Bound(e, f)
      <4>1. PICK i \in Worker : \E k \in 1 .. Len(todo'[i]) : Saves(todo'[i][k], e, f)
        BY <2>4, <3>1, <3>3 DEF Bound
      <4>2. i = w
        BY <1>1, <3>3, <4>1 DEF Bound
      <4>3. Named(e, f)'
        BY <4>1, <4>2 DEF HomeStarts
      <4> QED BY <2>3, <2>4, <4>3
    <3> QED BY <3>2, <3>3
  <2> QED BY <2>1, <2>2, <2>3, <2>4 DEF OneHome
<1>12. ASSUME NEW d \in Dir, NEW f \in File
       PROVE  FileLogged(d, f)'
  <2>1. PICK u \in {Root, None} :
           /\ Says(FileWords(d, f), All(d), u)
           /\ \A i \in Worker : Path(FileTrace(todo[i], d, f), Len(todo[i]), u, Listed(d, f))
           /\ ~Unsaved(d, f) => u = Listed(d, f)
    BY DEF FilesLogged, FileLogged
  <2>2. Says(FileWords(d, f)', All(d)', u)
    BY <1>5, <2>1
  <2>3. CASE Mentions(w, d, f)
    <3>1. ~Unsaved(d, f) /\ Unsaved(d, f)' /\ u = Listed(d, f)
      BY <1>4, <1>5, <2>1, <2>3
    <3>2. ASSUME NEW i \in Worker
          PROVE  Path(FileTrace(todo'[i], d, f), Len(todo'[i]), u, Listed(d, f)')
      <4>1. CASE i = w
        BY <3>1, <4>1 DEF FileStarts
      <4>2. CASE i # w
        <5>1. \A j \in 1 .. Len(todo[i]) : ~OfFile(todo[i][j], d, f)
          BY <3>1 DEF Unsaved
        <5>2. \A j \in 1 .. Len(todo[i]) : ~FileTrace(todo[i], d, f)[j].is
          BY <5>1 DEF FileTrace, FileStep, Skip
        <5>3. Path(FileTrace(todo[i], d, f), Len(todo[i]), u, Listed(d, f)')
          BY <5>2 DEF Path
        <5> QED BY <1>1, <4>2, <5>3
      <4> QED BY <4>1, <4>2
    <3> QED BY <2>2, <3>1, <3>2 DEF FileLogged
  <2>4. CASE ~Mentions(w, d, f)
    <3>1. Named(d, f)' = Named(d, f) /\ (Named(d, f) => inode'[f] = inode[f])
      BY <2>4 DEF FileStarts
    <3>2. Listed(d, f)' = Listed(d, f) /\ (Unsaved(d, f)' <=> Unsaved(d, f))
      BY <1>5, <2>4, <3>1 DEF Listed
    <3>3. ASSUME NEW i \in Worker
          PROVE  Path(FileTrace(todo'[i], d, f), Len(todo'[i]), u, Listed(d, f)')
      <4>1. CASE i = w
        <5>1. \A j \in 1 .. Len(todo'[w]) : ~FileTrace(todo'[w], d, f)[j].is
          BY <2>4 DEF FileTrace, FileStep, Skip, Mentions
        <5> QED BY <4>1, <5>1 DEF Path
      <4>2. CASE i # w
        BY <1>1, <2>1, <3>2, <4>2
      <4> QED BY <4>1, <4>2
    <3>4. ~Unsaved(d, f)' => u = Listed(d, f)'
      BY <2>1, <3>2
    <3>5. ~Unsaved(d, f)' /\ Named(d, f)' => Latest(FileLog(d, f)', All(d)', inode'[f])
      <4> SUFFICES ASSUME ~Unsaved(d, f), Named(d, f)
                   PROVE  Latest(FileLog(d, f), All(d), inode[f])
        BY <1>5, <3>1, <3>2
      <4> QED BY DEF FilesLogged, FileLogged
    <3> QED BY <2>2, <3>3, <3>4, <3>5 DEF FileLogged
  <2> QED BY <2>3, <2>4
<1> QED BY <1>6, <1>7, <1>11, <1>12 DEF FilesLogged

----------------------------------------------------------------------------
(* The checks of transaction.cpp.                                          *)

(* A call that comes first finds what the transactions say.                *)
LEMMA FirstFinds ==
  ASSUME NEW T, NEW n \in Nat, n # 0, NEW u, NEW v, Path(T, n, u, v), T[1].is
  PROVE  u = T[1].from
<1>1. 1 \in 1 .. n /\ 1 .. 1 - 1 = {}
  OBVIOUS
<1> QED BY <1>1 DEF Path

(* The transaction a caller has got says the same, if it says anything.    *)
LEMMA HeldSays ==
  ASSUME NEW L, NEW S \in SUBSET Nat, NEW g \in S, \A h \in S : h > g => L[h] = None,
         L[g] # None, NEW u, Says(L, S, u)
  PROVE  u = EntryIno(L[g])
<1>1. Says(L, S, EntryIno(L[g]))
  BY LogRead DEF Says
<1> QED BY <1>1, SaysUnique

(* No journal call finds in the transaction what it may not.               *)
LEMMA RecordSafe ==
  ASSUME IInv, Logged, FilesLogged, NEW w \in Worker, held[w] # 0,
         NEW c, c = Head(todo[w]), NEW g, g = held[w]
  PROVE  ~Throws(txs[c.dir][g], c)
<1>1. todo[w] # <<>> /\ g \in All(c.dir) /\ todo[w] \in Seq(CallType)
  BY DEF IInv, TInv, TypeOK, Pointers, All
<1>2. c \in CallType /\ c = todo[w][1] /\ Len(todo[w]) \in Nat /\ Len(todo[w]) # 0
      /\ 1 \in 1 .. Len(todo[w])
  BY <1>1
<1>3. c.dir \in Dir /\ c.ino \in Ino /\ c.ino # None
  BY <1>2, DistinctAssumption DEF CallType
<1>4. PICK d \in Dir : d = c.dir
  BY <1>3
<1>5. PICK t \in TxType : t = txs[d][g]
  <2>1. txs[d] \in Seq(TxType)
    BY DEF IInv, TInv, TypeOK
  <2> QED BY <1>1, <1>4, <2>1 DEF All
<1>6. All(d) \in SUBSET Nat /\ g \in All(d)
  BY <1>1, <1>4 DEF All
<1>7. /\ c.name \in Name <=> NameCall(c)
      /\ FileCall(c) => c.ino \in File
  BY <1>2 DEF Logged, Locked, FilesLogged, FileLocked
<1>8. ASSUME NameCall(c), t.dentries[c.name] # None
      PROVE  Finds(c) = EntryIno(t.dentries[c.name])
  <2>1. PICK n \in Name : n = c.name
    BY <1>7, <1>8
  <2>2. PICK L : L = NameLog(d, n)
    OBVIOUS
  <2>3. L[g] = t.dentries[n] /\ L[g] # None
    BY <1>5, <1>6, <1>8, <2>1, <2>2 DEF NameLog
  <2>4. ASSUME NEW h \in All(d), h > g
        PROVE  L[h] = None
    <3>1. txs[d][h].dentries = NoNames
      BY <1>4, <1>8, <2>4 DEF Logged, NothingNewer
    <3> QED BY <2>2, <3>1 DEF NameLog, NoNames
  <2>5. PICK u : /\ Says(L, All(d), u)
                 /\ Path(NameTrace(todo[w], d, n), Len(todo[w]), u, mem[d][n])
    BY <2>2 DEF Logged, NameLogged
  <2>6. u = EntryIno(L[g])
    BY <1>6, <2>3, <2>4, <2>5, HeldSays
  <2>7. NameTrace(todo[w], d, n)[1].is /\ NameTrace(todo[w], d, n)[1].from = Finds(c)
    BY <1>2, <1>4, <2>1 DEF NameTrace, NameStep, About, Step
  <2>8. u = Finds(c)
    BY <1>2, <2>5, <2>7, FirstFinds
  <2> QED BY <2>1, <2>3, <2>6, <2>8
<1>9. ASSUME FileCall(c), t.f_inodes[c.ino] # None
      PROVE  (IF c.fn = "mkreg" THEN None ELSE Root)
                = EntryIno(FileWord(t.f_inodes[c.ino]))
  <2>1. PICK f \in File : f = c.ino
    BY <1>7, <1>9
  <2>2. PICK L : L = FileWords(d, f)
    OBVIOUS
  <2>3. L[g] = FileWord(t.f_inodes[f]) /\ L[g] # None
    BY <1>5, <1>6, <1>9, <2>1, <2>2, Word DEF FileWords
  <2>4. ASSUME NEW h \in All(d), h > g
        PROVE  L[h] = None
    <3>1. txs[d][h].f_inodes[f] = None
      BY <1>4, <1>9, <2>1, <2>4 DEF FilesLogged, FileNothingNewer
    <3> QED BY <2>2, <3>1, Word DEF FileWords
  <2>5. PICK u : /\ Says(L, All(d), u)
                 /\ Path(FileTrace(todo[w], d, f), Len(todo[w]), u, Listed(d, f))
    BY <2>2 DEF FilesLogged, FileLogged
  <2>6. u = EntryIno(L[g])
    BY <1>6, <2>3, <2>4, <2>5, HeldSays
  <2>7. /\ FileTrace(todo[w], d, f)[1].is
        /\ FileTrace(todo[w], d, f)[1].from = IF c.fn = "mkreg" THEN None ELSE Root
    BY <1>2, <1>4, <1>9, <2>1 DEF FileTrace, FileStep, OfFile, Step
  <2>8. u = IF c.fn = "mkreg" THEN None ELSE Root
    BY <1>2, <2>5, <2>7, FirstFinds
  <2> QED BY <2>1, <2>3, <2>6, <2>8
<1>10. Root # None
  BY RootAssumption, DistinctAssumption DEF Ino
<1>11. ASSUME c.fn \in {"mkdir", "mkreg"}, IsAlive(t.dentries[c.name])
       PROVE  FALSE
  <2>1. c.name \in Name /\ NameCall(c) /\ Finds(c) = None
    BY <1>7, <1>11 DEF NameCall, Finds, Makes
  <2>2. t.dentries[c.name] # None /\ t.dentries[c.name].alive
    BY <1>11 DEF IsAlive
  <2>3. t.dentries[c.name].ino \in Ino
    BY <2>1, <2>2 DEF TxType
  <2> QED BY <1>8, <2>1, <2>2, <2>3, DistinctAssumption DEF EntryIno
<1>12. ASSUME c.fn \in {"rmdir", "rmreg"}, IsDead(t.dentries[c.name])
       PROVE  FALSE
  <2>1. NameCall(c) /\ Finds(c) = c.ino
    BY <1>12 DEF NameCall, Finds, Makes
  <2>2. t.dentries[c.name] # None /\ ~t.dentries[c.name].alive
    BY <1>12 DEF IsDead
  <2> QED BY <1>3, <1>8, <2>1, <2>2 DEF EntryIno
<1>13. ASSUME c.fn = "mkreg", t.f_inodes[c.ino] \notin {None, Null}
       PROVE  FALSE
  <2>1. FileCall(c)
    BY <1>13 DEF FileCall
  <2> QED BY <1>9, <1>10, <1>13, <2>1, Word
<1>14. ASSUME c.fn = "rmreg", t.f_inodes[c.ino] = Null
       PROVE  FALSE
  <2>1. FileCall(c) /\ Null # None
    BY <1>14, NoneAssumption DEF FileCall
  <2> QED BY <1>9, <1>10, <1>14, <2>1, Word
<1> QED BY <1>4, <1>5, <1>11, <1>12, <1>13, <1>14 DEF Throws

(* At first there are no files. *)
LEMMA InitFiles == Init => FilesLogged
<1> SUFFICES ASSUME Init PROVE FilesLogged
  OBVIOUS
<1>1. /\ \A w \in Worker : todo[w] = <<>> /\ held[w] = 0
      /\ \A d \in Dir : txs[d] = <<>> /\ mem[d] = NoNames
  BY DEF Init
<1>2. None \notin File
  BY DistinctAssumption DEF Ino
<1>3. ASSUME NEW d \in Dir, NEW f \in File
      PROVE  ~Named(d, f) /\ ~Unsaved(d, f) /\ All(d) = {} /\ Listed(d, f) = None
  BY <1>1, <1>2 DEF Named, Unsaved, All, NoNames, Listed
<1>4. FileLocked /\ FileNothingNewer
  BY <1>1 DEF FileLocked, FileNothingNewer
<1>5. OneHome
  BY <1>3 DEF FileAt, Silent, OneHome
<1>6. ASSUME NEW d \in Dir, NEW f \in File
      PROVE  FileLogged(d, f)
  <2>1. Says(FileWords(d, f), All(d), None)
    BY <1>3 DEF Says, Silent
  <2>2. \A w \in Worker : Path(FileTrace(todo[w], d, f), Len(todo[w]), None, Listed(d, f))
    BY <1>1 DEF Path
  <2> QED BY <1>3, <2>1, <2>2 DEF FileLogged
<1> QED BY <1>4, <1>5, <1>6 DEF FilesLogged

(* Sealing a transaction changes no inode in it.                           *)
InodesStand ==
  \A d \in Dir : /\ Len(txs'[d]) = Len(txs[d])
                 /\ \A g \in All(d) : /\ txs'[d][g].f_inodes = txs[d][g].f_inodes
                                      /\ txs'[d][g].s_inode = txs[d][g].s_inode

LEMMA CommitStands ==
  ASSUME IInv, Order, NEW e \in Dir, Commit(e)
  PROVE  InodesStand /\ failed' = failed
<1>1. PICK b : b = batch[e]
  OBVIOUS
<1>2. ~txs[e][b].committed
  BY <1>1, CommitOrder
<1>3. PICK t : t = [txs[e][b] EXCEPT !.committed = TRUE, !.offset = Len(journalObj[e]) + 1]
  OBVIOUS
<1>4. /\ b \in 1 .. Len(txs[e]) /\ t \in TxType
      /\ txs' = [txs EXCEPT ![e] = [txs[e] EXCEPT ![b] = t]]
  BY <1>1, <1>2, <1>3, CommitChange DEF IInv
<1>5. txs[e] \in Seq(TxType) /\ txs \in [Dir -> Seq(TxType)]
  BY DEF IInv, TInv, TypeOK
<1>6. txs[e][b] \in TxType
  BY <1>4, <1>5
<1>7. t.f_inodes = txs[e][b].f_inodes /\ t.s_inode = txs[e][b].s_inode
  BY <1>3, <1>6 DEF TxType
<1>8. ASSUME NEW d \in Dir
      PROVE  /\ Len(txs'[d]) = Len(txs[d])
             /\ \A g \in All(d) : /\ txs'[d][g].f_inodes = txs[d][g].f_inodes
                                  /\ txs'[d][g].s_inode = txs[d][g].s_inode
  <2>1. CASE d # e
    BY <1>4, <1>5, <2>1
  <2>2. CASE d = e
    <3>1. txs'[e] = [txs[e] EXCEPT ![b] = t]
      BY <1>4, <1>5
    <3>2. Len(txs'[e]) = Len(txs[e]) /\ \A g \in All(e) : txs'[e][g] = IF g = b THEN t ELSE txs[e][g]
      BY <1>5, <3>1 DEF All
    <3> QED BY <1>7, <2>2, <3>2
  <2> QED BY <2>1, <2>2
<1>9. failed' = failed
  BY <1>1, <1>2 DEF Commit
<1> QED BY <1>8, <1>9 DEF InodesStand

(* A process that has not thrown has its files in the journal.             *)
Files == Running => FilesLogged

LEMMA NextFiles ==
  ASSUME IInv, Order, Names, Files, [Next]_vars
  PROVE  Files'
<1> SUFFICES ASSUME Running' PROVE FilesLogged'
  BY DEF Files
<1>1. CASE UNCHANGED vars
  <2>1. UNCHANGED <<done, todo, lock, used, mem, moved, inode, held, txs, failed>>
    BY <1>1 DEF vars, memVars
  <2>2. FilesLogged
    BY <2>1 DEF Files, Running
  <2> QED BY <2>1, <2>2, FilesKept
<1>2. ASSUME Next
      PROVE  FilesLogged /\ Logged /\ Known
  BY <1>2, StepsRun DEF Names, Files, Pooled
<1>3. ASSUME NEW w \in Worker, Operation(w)
      PROVE  FilesLogged'
  <2>1. Next
    BY <1>3 DEF Next
  <2>2. Starts(w) /\ FileStarts(w) /\ HomeStarts(w)
    BY <1>2, <1>3, <2>1, OperationStarts, OperationFiles
  <2>3. UNCHANGED <<held, txs, done>>
    BY <1>3, BeginQuiet
  <2> QED BY <1>2, <2>1, <2>2, <2>3, StartsFiles
<1>4. ASSUME NEW w \in Worker, GetEntry(w)
      PROVE  FilesLogged'
  BY <1>2, <1>4, GetEntryFiles DEF Next, JournalStep
<1>5. ASSUME NEW w \in Worker, Record(w)
      PROVE  FilesLogged'
  BY <1>2, <1>5, RecordFiles DEF Next, JournalStep
<1>6. ASSUME NEW w \in Worker, Retry(w)
      PROVE  FilesLogged'
  <2>1. UNCHANGED <<done, todo, lock, used, mem, moved, inode, txs>>
    BY <1>6 DEF Retry
  <2>2. \A i \in Worker : held'[i] \in {held[i], 0}
    BY <1>6 DEF Retry, IInv, TInv, TypeOK
  <2> QED BY <1>2, <1>6, <2>1, <2>2, FilesKept DEF Next, JournalStep
<1>7. ASSUME ReplaceMap \/ Issue \/ Leave \/ RaiseStop
      PROVE  FilesLogged'
  <2>1. UNCHANGED <<done, todo, lock, used, mem, moved, inode, txs, held>>
    BY <1>7 DEF ReplaceMap, Issue, Leave, RaiseStop, memVars
  <2> QED BY <1>2, <1>7, <2>1, FilesKept DEF Next, CommitStep
<1>8. ASSUME NEW d \in Dir, Commit(d)
      PROVE  FilesLogged'
  <2>1. UNCHANGED <<done, todo, lock, used, mem, moved, inode, held>>
    BY <1>8 DEF Commit, memVars
  <2>2. \A e \in Dir : /\ Len(txs'[e]) = Len(txs[e])
                       /\ \A g \in All(e) : txs'[e][g].f_inodes = txs[e][g].f_inodes
    BY <1>8, CommitStands DEF InodesStand
  <2> QED BY <1>2, <1>8, <2>1, <2>2, FilesKept DEF Next, CommitStep
<1>9. ASSUME NEW q \in Queue, CheckpointStep(q)
      PROVE  FilesLogged'
  <2>1. UNCHANGED <<todo, lock, used, mem, moved, inode, txs, held>>
    BY <1>9 DEF CheckpointStep, Dispatch, SyncRemoved, SyncLoad, SyncSave, Clear, memVars
  <2>2. \A d \in Dir : done[d] \subseteq done'[d]
    <3>1. CASE Clear(q)
      BY <3>1 DEF Clear, IInv, TInv, TypeOK
    <3>2. CASE ~Clear(q)
      <4>1. done' = done
        BY <1>9, <3>2 DEF CheckpointStep, Dispatch, SyncRemoved, SyncLoad, SyncSave
      <4> QED BY <4>1
    <3> QED BY <3>1, <3>2
  <2> QED BY <1>2, <1>9, <2>1, <2>2, FilesKept DEF Next
<1> QED
  BY <1>1, <1>3, <1>4, <1>5, <1>6, <1>7, <1>8, <1>9 DEF Next, JournalStep, CommitStep

(* The only steps that could throw a logic_error do not.                   *)
LEMMA NextSafe ==
  ASSUME IInv, Order, Names, Files, NoLogicError, [Next]_vars
  PROVE  NoLogicError'
<1>1. CASE UNCHANGED vars
  BY <1>1 DEF vars, NoLogicError
<1>2. ASSUME NEW w \in Worker, Operation(w)
      PROVE  failed' = failed
  BY <1>2, BeginQuiet
<1>3. ASSUME NEW w \in Worker, Record(w)
      PROVE  failed' = failed
  <2>1. FilesLogged /\ Logged /\ held[w] # 0
    BY <1>3 DEF Record, Names, Files
  <2>2. ~Throws(txs[Head(todo[w]).dir][held[w]], Head(todo[w]))
    BY <2>1, RecordSafe
  <2> QED BY <1>3, <2>2 DEF Record
<1>4. ASSUME NEW w \in Worker, GetEntry(w) \/ Retry(w)
      PROVE  failed' = failed
  BY <1>4 DEF GetEntry, Retry
<1>5. ASSUME NEW d \in Dir, Commit(d)
      PROVE  failed' = failed
  BY <1>5, CommitStands
<1>6. ASSUME ReplaceMap \/ Issue \/ Leave \/ RaiseStop
      PROVE  failed' = failed
  BY <1>6 DEF ReplaceMap, Issue, Leave, RaiseStop
<1>7. ASSUME NEW q \in Queue, CheckpointStep(q)
      PROVE  failed' = failed \/ failed' = "corrupted"
  BY <1>7 DEF CheckpointStep, Dispatch, SyncRemoved, SyncLoad, SyncSave, Clear, ReadDentry
<1> QED
  BY <1>1, <1>2, <1>3, <1>4, <1>5, <1>6, <1>7
  DEF Next, JournalStep, CommitStep, NoLogicError

LEMMA FilesInductive == Spec => [](IInv /\ Order /\ Names /\ Files /\ NoLogicError)
<1>1. Init => IInv /\ Order /\ Names /\ Files /\ NoLogicError
  BY InitInv, InitOrder, InitNames, InitFiles DEF Names, Files, NoLogicError, Init
<1>2. IInv /\ Order /\ Names /\ Files /\ NoLogicError /\ [Next]_vars
        => (IInv /\ Order /\ Names /\ Files /\ NoLogicError)'
  BY StepInv, NextOrder, NextNames, NextFiles, NextSafe
<1> QED BY <1>1, <1>2, PTL DEF Spec

(***************************************************************************)
(* None of the logic_errors of src/client/journal/transaction.cpp is ever  *)
(* thrown, whatever the operations, the commit thread and the checkpoint   *)
(* threads do: a transaction that is open never has the name or the file   *)
(* that a call makes, never has as removed what a call removes, and no     *)
(* transaction is committed twice.                                         *)
(***************************************************************************)
THEOREM ChecksNeverFire == Spec => []NoLogicError
BY FilesInductive, PTL

----------------------------------------------------------------------------
(* The inodes of directories: the copy in the newest transaction that has  *)
(* one.  The root is there from the start.                                 *)
SelfLog(d) == [g \in All(d) |-> txs[d][g].s_inode]
SelfIs(d, v) ==
  \/ Silent(SelfLog(d), All(d)) /\ d = Root /\ v = NewInode
  \/ Latest(SelfLog(d), All(d), v)
OfSelf(c, d) == SelfCall(c) /\ c.dir = d
SelfUnsaved(d) == \E w \in Worker : \E k \in 1 .. Len(todo[w]) : OfSelf(todo[w][k], d)

(* Nobody puts the directory into a newer transaction than a caller has    *)
(* got.                                                                    *)
SelfNothingNewer ==
  \A w \in Worker : held[w] # 0 /\ SelfCall(Head(todo[w])) =>
    \A h \in All(Head(todo[w]).dir) : h > held[w] =>
      txs[Head(todo[w]).dir][h].s_inode = None

(* With no call left the transactions have the directory's inode.  Where a *)
(* call will put the times into a copy, the copy has the attributes.       *)
SameAttr(d) == \E v \in InodeType : SelfIs(d, v) /\ v.attr = inode[d].attr
SelfLogged(d) ==
  /\ ~SelfUnsaved(d) => SelfIs(d, inode[d])
  /\ \A w \in Worker : \A k \in 1 .. Len(todo[w]) :
       NameCall(todo[w][k]) /\ todo[w][k].dir = d => SameAttr(d)

SelvesLogged == SelfNothingNewer /\ Root \in used /\ \A d \in alive : SelfLogged(d)

(* Transactions that say the same of a directory, and a new one.           *)
LEMMA SelfSame ==
  ASSUME NEW d \in Dir, All(d)' = All(d),
         \A g \in All(d) : txs'[d][g].s_inode = txs[d][g].s_inode,
         NEW v, SelfIs(d, v)
  PROVE  SelfIs(d, v)'
<1>1. \A g \in All(d) : SelfLog(d)'[g] = SelfLog(d)[g]
  BY DEF SelfLog
<1>2. /\ Silent(SelfLog(d), All(d)) => Silent(SelfLog(d)', All(d))
      /\ Latest(SelfLog(d), All(d), v) => Latest(SelfLog(d)', All(d), v)
  BY <1>1, LogSame
<1> QED BY <1>2 DEF SelfIs

LEMMA SelfTop ==
  ASSUME NEW d \in Dir, NEW g \in Nat, All(d)' = All(d) \cup {g}, All(d) \in SUBSET Nat,
         \A h \in All(d) : h < g /\ txs'[d][h].s_inode = txs[d][h].s_inode,
         txs'[d][g].s_inode = None, NEW v, SelfIs(d, v)
  PROVE  SelfIs(d, v)'
<1>1. /\ \A h \in All(d) : h < g /\ SelfLog(d)'[h] = SelfLog(d)[h]
      /\ SelfLog(d)'[g] = None
  BY DEF SelfLog
<1>2. /\ Silent(SelfLog(d), All(d)) => Silent(SelfLog(d)', All(d) \cup {g})
      /\ Latest(SelfLog(d), All(d), v) => Latest(SelfLog(d)', All(d) \cup {g}, v)
  BY <1>1, LogTop
<1> QED BY <1>2 DEF SelfIs

(* Every step that keeps the calls and the inodes in memory, and what the  *)
(* transactions say of directories, keeps the whole.                       *)
LEMMA SelfLoggedKept ==
  ASSUME IInv, SelvesLogged, UNCHANGED <<todo, used, inode, alive>>,
         \A d \in Dir : \A v : SelfIs(d, v) => SelfIs(d, v)'
  PROVE  Root \in used' /\ \A d \in alive' : SelfLogged(d)'
<1> SUFFICES ASSUME NEW d \in alive PROVE SelfLogged(d)'
  BY DEF SelvesLogged
<1>1. d \in Dir /\ SelfLogged(d)
  BY DEF IInv, TInv, TypeOK, SelvesLogged
<1>2. PICK v : v = inode[d]
  OBVIOUS
<1>3. SelfUnsaved(d)' <=> SelfUnsaved(d)
  BY DEF SelfUnsaved
<1>4. ~SelfUnsaved(d)' => SelfIs(d, inode[d])'
  <2> SUFFICES ASSUME ~SelfUnsaved(d) PROVE SelfIs(d, inode[d])'
    BY <1>3
  <2>1. SelfIs(d, v)
    BY <1>1, <1>2 DEF SelfLogged
  <2>2. SelfIs(d, v)'
    BY <1>1, <2>1
  <2>3. v = inode'[d]
    BY <1>2
  <2> QED BY <2>2, <2>3 DEF SelfIs
<1>5. SameAttr(d) => SameAttr(d)'
  BY <1>1 DEF SameAttr
<1> QED BY <1>1, <1>4, <1>5 DEF SelfLogged

LEMMA SelvesKept ==
  ASSUME IInv, SelvesLogged, UNCHANGED <<todo, used, inode, alive>>,
         \A w \in Worker : held'[w] \in {held[w], 0},
         \A d \in Dir : /\ Len(txs'[d]) = Len(txs[d])
                        /\ \A g \in All(d) : txs'[d][g].s_inode = txs[d][g].s_inode
  PROVE  SelvesLogged'
<1>1. \A d \in Dir : All(d)' = All(d)
  BY DEF All
<1>2. SelfNothingNewer'
  <2> SUFFICES ASSUME NEW w \in Worker, held'[w] # 0, SelfCall(Head(todo[w])),
                      NEW h \in All(Head(todo[w]).dir)', h > held'[w]
               PROVE  txs'[Head(todo[w]).dir][h].s_inode = None
    BY DEF SelfNothingNewer
  <2>1. held'[w] = held[w] /\ held[w] # 0 /\ todo[w] # <<>>
    BY DEF IInv, TInv, Pointers
  <2>2. Head(todo[w]).dir \in Dir
    BY <2>1, HeadDir DEF IInv
  <2>3. h \in All(Head(todo[w]).dir) /\ h > held[w]
    BY <1>1, <2>1, <2>2
  <2>4. txs[Head(todo[w]).dir][h].s_inode = None
    BY <2>1, <2>3 DEF SelvesLogged, SelfNothingNewer
  <2> QED BY <2>2, <2>3, <2>4
<1>3. \A d \in Dir : \A v : SelfIs(d, v) => SelfIs(d, v)'
  BY <1>1, SelfSame
<1> QED BY <1>2, <1>3, SelfLoggedKept DEF SelvesLogged

(* get_entry *)
LEMMA GetEntrySelves ==
  ASSUME IInv, Order, SelvesLogged, NEW w \in Worker, GetEntry(w)
  PROVE  SelvesLogged'
<1>0. PICK e : e = Head(todo[w]).dir
  OBVIOUS
<1>1. e \in Dir /\ todo[w] # <<>> /\ txs[e] \in Seq(TxType)
  BY <1>0, GetEntryForm
<1>2. UNCHANGED <<todo, used, inode, alive>>
  BY DEF GetEntry
<1>3. held'[w] = Len(txs'[e]) /\ \A i \in Worker : i # w => held'[i] = held[i]
  BY <1>0, GetEntryForm
<1>4. \A d \in Dir : /\ All(d) \subseteq All(d)'
                     /\ \A g \in All(d) : txs'[d][g] = txs[d][g]
                     /\ All(d)' = All(d) \/
                          /\ All(d)' = All(d) \cup {Len(txs[d]) + 1}
                          /\ txs'[d][Len(txs[d]) + 1] = NewTx
  BY <1>0, GetEntryForm
<1>5. ASSUME NEW d \in Dir
      PROVE  /\ Len(txs[d]) + 1 \in Nat /\ All(d) \in SUBSET Nat
             /\ \A h \in All(d) : h < Len(txs[d]) + 1
  <2>1. Len(txs[d]) \in Nat
    BY DEF IInv, TInv, TypeOK
  <2> QED BY <2>1 DEF All
<1>6. SelfNothingNewer'
  <2> SUFFICES ASSUME NEW i \in Worker, held'[i] # 0, SelfCall(Head(todo[i])),
                      NEW h \in All(Head(todo[i]).dir)', h > held'[i]
               PROVE  txs'[Head(todo[i]).dir][h].s_inode = None
    BY <1>2 DEF SelfNothingNewer
  <2>1. CASE i = w
    <3>1. held'[i] = Len(txs'[e]) /\ h \in 1 .. Len(txs'[e]) /\ h > held'[i]
      BY <1>0, <1>2, <1>3, <2>1 DEF All
    <3>2. txs'[e] \in Seq(TxType)
      BY <1>1, JournalStepInv DEF JournalStep, IInv, TInv, TypeOK
    <3>3. Len(txs'[e]) \in Nat
      BY <3>2
    <3> QED BY <3>1, <3>3
  <2>2. CASE i # w
    <3>1. held[i] # 0 /\ held'[i] = held[i]
      BY <1>3, <2>2
    <3>2. PICK c : c = Head(todo[i])
      OBVIOUS
    <3>3. c.dir \in Dir
      <4>1. todo[i] # <<>>
        BY <3>1 DEF IInv, TInv, Pointers
      <4> QED BY <3>2, <4>1, HeadDir DEF IInv
    <3>5. CASE h \in All(c.dir)
      <4>1. txs[c.dir][h].s_inode = None
        BY <3>1, <3>2, <3>5 DEF SelvesLogged, SelfNothingNewer
      <4> QED BY <1>4, <3>2, <3>3, <3>5, <4>1
    <3>6. CASE h \notin All(c.dir)
      <4>1. h = Len(txs[c.dir]) + 1
        BY <1>2, <1>4, <3>2, <3>3, <3>6
      <4>2. txs'[c.dir][h] = NewTx
        BY <1>2, <1>4, <3>2, <3>3, <3>6, <4>1
      <4> QED BY <3>2, <3>3, <4>2 DEF NewTx
    <3> QED BY <3>5, <3>6
  <2> QED BY <2>1, <2>2
<1>7. ASSUME NEW d \in Dir, NEW v, SelfIs(d, v)
      PROVE  SelfIs(d, v)'
  <2>1. CASE All(d)' = All(d)
    <3>1. \A g \in All(d) : txs'[d][g].s_inode = txs[d][g].s_inode
      BY <1>4
    <3> QED BY <1>7, <2>1, <3>1, SelfSame
  <2>2. CASE All(d)' # All(d)
    <3>1. PICK g \in Nat : g = Len(txs[d]) + 1
      BY <1>5
    <3>2. All(d)' = All(d) \cup {g} /\ txs'[d][g].s_inode = None
      BY <1>4, <2>2, <3>1 DEF NewTx
    <3>3. \A h \in All(d) : h < g /\ txs'[d][h].s_inode = txs[d][h].s_inode
      BY <1>4, <1>5, <3>1
    <3> QED BY <1>5, <1>7, <3>2, <3>3, SelfTop
  <2> QED BY <2>1, <2>2
<1> QED BY <1>2, <1>6, <1>7, SelfLoggedKept DEF SelvesLogged

(* A call, and what its transaction then has of the directory.             *)
LEMMA RecordSelf ==
  ASSUME IInv, FilesLogged, NEW w \in Worker, Record(w), Running', NEW c, c = Head(todo[w]),
         NEW g, g = held[w]
  PROVE  /\ \A d \in Dir : /\ Len(txs'[d]) = Len(txs[d])
                           /\ \A h \in All(d) : d # c.dir \/ h # g =>
                                txs'[d][h].s_inode = txs[d][h].s_inode
         /\ txs'[c.dir][g].s_inode =
              IF c.fn \in {"mkself", "chself"} THEN inode[c.dir]
              ELSE IF NameCall(c) THEN Stamped(txs[c.dir][g].s_inode, inode[c.dir])
              ELSE txs[c.dir][g].s_inode
         /\ txs[c.dir][g].s_inode \in InodeType \cup {None}
<1>1. /\ c \in CallType /\ todo[w] # <<>> /\ c = todo[w][1] /\ g \in All(c.dir)
      /\ \A d \in Dir : /\ Len(txs'[d]) = Len(txs[d])
                        /\ \A h \in All(d) : d # c.dir \/ h # g => txs'[d][h] = txs[d][h]
      /\ txs'[c.dir][g] = Apply(txs[c.dir][g], c, inode[c.dir], inode[c.ino])
  BY RecordForm
<1>2. c.dir \in Dir /\ c.ino \in Ino
  BY <1>1 DEF CallType
<1>3. PICK t \in TxType : t = txs[c.dir][g]
  <2>1. txs[c.dir] \in Seq(TxType)
    BY <1>2 DEF IInv, TInv, TypeOK
  <2> QED BY <1>1, <2>1 DEF All
<1>4. inode[c.dir] \in InodeType /\ inode[c.ino] \in InodeType
  BY <1>2 DEF IInv, TInv, TypeOK, Ino
<1>5. FileCall(c) => c.ino \in File
  <2>1. 1 \in 1 .. Len(todo[w])
    <3>1. todo[w] \in Seq(CallType)
      BY DEF IInv, TInv, TypeOK
    <3> QED BY <1>1, <3>1
  <2> QED BY <1>1, <2>1 DEF FilesLogged, FileLocked
<1>6. Apply(t, c, inode[c.dir], inode[c.ino]).s_inode =
        IF c.fn \in {"mkself", "chself"} THEN inode[c.dir]
        ELSE IF NameCall(c) THEN Stamped(t.s_inode, inode[c.dir])
        ELSE t.s_inode
  BY <1>1, <1>4, <1>5, ApplyInodes
<1>7. t.s_inode \in InodeType \cup {None}
  BY DEF TxType
<1> QED BY <1>1, <1>3, <1>6, <1>7

(* A copy that has the attributes and gets the times is the inode.         *)
LEMMA StampedIs ==
  ASSUME NEW v \in InodeType, NEW self \in InodeType, v.attr = self.attr
  PROVE  Stamped(v, self) = self /\ Stamped(None, self) = self
<1>1. v # None
  BY NoneAssumption
<1>2. [v EXCEPT !.time = self.time] = self
  BY DEF InodeType
<1> QED BY <1>1, <1>2 DEF Stamped

(* What a call of a directory that is there leaves is the directory's      *)
(* inode.                                                                  *)
LEMMA RecordSelfIs ==
  ASSUME IInv, Logged, Making, FilesLogged, SelvesLogged, NEW w \in Worker, Record(w), Running',
         NEW c, c = Head(todo[w]), c.dir \in alive, c.fn # "chreg",
         NEW v, v = inode[c.dir]
  PROVE  SelfIs(c.dir, v)'
<1>1. PICK g : g = held[w]
  OBVIOUS
<1>2. /\ c \in CallType /\ todo[w] # <<>> /\ c = todo[w][1] /\ g \in All(c.dir)
  BY <1>1, RecordForm
<1>3. PICK d \in Dir : d = c.dir
  BY <1>2 DEF CallType
<1>4. PICK L : L = SelfLog(d)
  OBVIOUS
<1>5. PICK s \in InodeType \cup {None} : s = txs[d][g].s_inode
  BY <1>1, <1>3, RecordSelf
<1>6. /\ Len(txs'[d]) = Len(txs[d])
      /\ \A h \in All(d) : h # g => txs'[d][h].s_inode = txs[d][h].s_inode
      /\ txs'[d][g].s_inode = IF c.fn \in {"mkself", "chself"} THEN v
                              ELSE IF NameCall(c) THEN Stamped(s, v) ELSE s
  BY <1>1, <1>3, <1>5, RecordSelf
<1>7. All(d)' = All(d) /\ All(d) \in SUBSET Nat /\ g \in All(d)
  BY <1>2, <1>3, <1>6 DEF All
<1>8. 1 \in 1 .. Len(todo[w]) /\ v \in InodeType /\ v # None /\ d \in alive
  <2>1. todo[w] \in Seq(CallType)
    BY DEF IInv, TInv, TypeOK
  <2>2. v \in InodeType
    BY <1>3 DEF IInv, TInv, TypeOK, Ino
  <2> QED BY <1>2, <1>3, <2>1, <2>2, NoneAssumption
<1>9. c.fn # "rmself"
  BY <1>2, <1>8 DEF Making
<1>10. \A h \in All(d) : h > g => txs[d][h].s_inode = None
  <2>1. held[w] # 0 /\ SelfCall(Head(todo[w]))
    BY DEF Record, SelfCall
  <2> QED BY <1>1, <1>3, <2>1 DEF SelvesLogged, SelfNothingNewer
<1>11. CASE c.fn \in {"mkself", "chself"}
  <2>1. txs'[d][g].s_inode = v
    BY <1>6, <1>11
  <2>2. /\ \A h \in All(d) : h # g => SelfLog(d)'[h] = L[h]
        /\ \A h \in All(d) : h > g => L[h] = None
        /\ SelfLog(d)'[g] = v
    BY <1>4, <1>6, <1>7, <1>10, <2>1 DEF SelfLog
  <2>3. Latest(SelfLog(d)', All(d), v)
    BY <1>7, <1>8, <2>2, LogWrite
  <2>4. SelfIs(d, v)'
    BY <1>7, <2>3 DEF SelfIs
  <2> QED BY <1>3, <2>4
<1>12. CASE NameCall(c)
  <2>1. SelfLogged(d)
    BY <1>8 DEF SelvesLogged
  <2>2. SameAttr(d)
    BY <1>2, <1>3, <1>8, <1>12, <2>1 DEF SelfLogged
  <2>3. PICK u \in InodeType : SelfIs(d, u) /\ u.attr = v.attr
    BY <1>3, <2>2 DEF SameAttr
  <2>4. s # None => s = u
    <3> SUFFICES ASSUME s # None PROVE s = u
      OBVIOUS
    <3>1. L[g] = s /\ \A h \in All(d) : h > g => L[h] = None
      BY <1>4, <1>5, <1>7, <1>10 DEF SelfLog
    <3>2. Latest(L, All(d), s)
      BY <1>7, <3>1, LogRead
    <3>3. Latest(L, All(d), u)
      BY <1>4, <2>3, <3>2, LogEither DEF SelfIs
    <3> QED BY <1>7, <3>2, <3>3, LogUnique
  <2>5. Stamped(s, v) = v
    BY <1>8, <2>3, <2>4, StampedIs
  <2>6. txs'[d][g].s_inode = v
    <3>1. c.fn \notin {"mkself", "chself"}
      BY <1>12 DEF NameCall
    <3> QED BY <1>6, <1>12, <2>5, <3>1
  <2>7. /\ \A h \in All(d) : h # g => SelfLog(d)'[h] = L[h]
        /\ \A h \in All(d) : h > g => L[h] = None
        /\ SelfLog(d)'[g] = v
    BY <1>4, <1>6, <1>7, <1>10, <2>6 DEF SelfLog
  <2>8. Latest(SelfLog(d)', All(d), v)
    BY <1>7, <1>8, <2>7, LogWrite
  <2>9. SelfIs(d, v)'
    BY <1>7, <2>8 DEF SelfIs
  <2> QED BY <1>3, <2>9
<1>13. c.fn \in {"mkself", "chself"} \/ NameCall(c)
  <2>1. c.fn \in {"mkself", "rmself", "chself", "mkdir", "rmdir", "mkreg", "rmreg", "chreg"}
    BY <1>2 DEF CallType
  <2> QED BY <1>9, <2>1 DEF NameCall
<1> QED BY <1>11, <1>12, <1>13

(* The other directories, and those about which no call is made.           *)
LEMMA RecordSelfStays ==
  ASSUME IInv, FilesLogged, NEW w \in Worker, Record(w), Running', NEW c, c = Head(todo[w]),
         NEW d \in Dir, d # c.dir \/ c.fn \in {"chreg", "rmself"}, NEW v, SelfIs(d, v)
  PROVE  SelfIs(d, v)'
<1>1. PICK g : g = held[w]
  OBVIOUS
<1>2. (c.fn \notin {"mkself", "chself"} /\ ~NameCall(c)) \/ d # c.dir
  BY DEF NameCall
<1>3. /\ Len(txs'[d]) = Len(txs[d])
      /\ \A h \in All(d) : d # c.dir \/ h # g => txs'[d][h].s_inode = txs[d][h].s_inode
      /\ d = c.dir => txs'[d][g].s_inode = txs[d][g].s_inode
  BY <1>1, <1>2, RecordSelf
<1>4. \A h \in All(d) : txs'[d][h].s_inode = txs[d][h].s_inode
  BY <1>3
<1>5. All(d)' = All(d)
  BY <1>3 DEF All
<1> QED BY <1>4, <1>5, SelfSame

LEMMA RecordSelves ==
  ASSUME IInv, Logged, Making, FilesLogged, SelvesLogged, NEW w \in Worker, Record(w), Running'
  PROVE  SelvesLogged'
<1>1. PICK c : c = Head(todo[w])
  OBVIOUS
<1>2. PICK g : g = held[w]
  OBVIOUS
<1>3. /\ c \in CallType /\ todo[w] # <<>> /\ c = todo[w][1] /\ g \in All(c.dir)
      /\ todo'[w] = Tail(todo[w]) /\ held'[w] = 0
      /\ \A i \in Worker : i # w => todo'[i] = todo[i] /\ held'[i] = held[i]
      /\ UNCHANGED <<mem, inode, used, alive>>
  BY <1>1, <1>2, RecordForm
<1>4. todo[w] \in Seq(CallType) /\ Len(todo[w]) \in Nat /\ Len(todo[w]) # 0
      /\ 1 \in 1 .. Len(todo[w]) /\ c.dir \in Dir
  <2>1. todo[w] \in Seq(CallType)
    BY DEF IInv, TInv, TypeOK
  <2> QED BY <1>3, <2>1 DEF CallType
<1>5. \A k \in 1 .. Len(todo'[w]) : k + 1 \in 1 .. Len(todo[w]) /\ todo'[w][k] = todo[w][k + 1]
  BY <1>3, <1>4
<1>6. \A k \in 1 .. Len(todo[w]) : k = 1 \/ (k - 1 \in 1 .. Len(todo'[w]) /\ todo'[w][k - 1] = todo[w][k])
  BY <1>3, <1>4
<1>7. ASSUME NEW d \in Dir
      PROVE  /\ SelfUnsaved(d)' => SelfUnsaved(d)
             /\ SelfUnsaved(d) => SelfUnsaved(d)' \/ OfSelf(c, d)
  <2>1. ASSUME SelfUnsaved(d)'
        PROVE  SelfUnsaved(d)
    <3>1. PICK i \in Worker : \E k \in 1 .. Len(todo'[i]) : OfSelf(todo'[i][k], d)
      BY <2>1 DEF SelfUnsaved
    <3>2. PICK k \in 1 .. Len(todo'[i]) : OfSelf(todo'[i][k], d)
      BY <3>1
    <3>3. CASE i # w
      BY <1>3, <3>2, <3>3 DEF SelfUnsaved
    <3>4. CASE i = w
      <4>1. k + 1 \in 1 .. Len(todo[w]) /\ OfSelf(todo[w][k + 1], d)
        BY <1>5, <3>2, <3>4
      <4> QED BY <4>1 DEF SelfUnsaved
    <3> QED BY <3>3, <3>4
  <2>2. ASSUME SelfUnsaved(d), ~OfSelf(c, d)
        PROVE  SelfUnsaved(d)'
    <3>1. PICK i \in Worker : \E k \in 1 .. Len(todo[i]) : OfSelf(todo[i][k], d)
      BY <2>2 DEF SelfUnsaved
    <3>2. PICK k \in 1 .. Len(todo[i]) : OfSelf(todo[i][k], d)
      BY <3>1
    <3>3. CASE i # w
      BY <1>3, <3>2, <3>3 DEF SelfUnsaved
    <3>4. CASE i = w
      <4>1. k # 1
        BY <1>3, <2>2, <3>2, <3>4
      <4>2. k - 1 \in 1 .. Len(todo'[w]) /\ OfSelf(todo'[w][k - 1], d)
        BY <1>6, <3>2, <3>4, <4>1
      <4> QED BY <4>2 DEF SelfUnsaved
    <3> QED BY <3>3, <3>4
  <2> QED BY <2>1, <2>2
<1>8. SelfNothingNewer'
  <2> SUFFICES ASSUME NEW i \in Worker, held'[i] # 0, SelfCall(Head(todo'[i])),
                      NEW h \in All(Head(todo[i]).dir)', h > held'[i]
               PROVE  txs'[Head(todo'[i]).dir][h].s_inode = None
    BY DEF SelfNothingNewer
  <2>1. i # w /\ todo'[i] = todo[i] /\ held'[i] = held[i] /\ held[i] # 0
    BY <1>3
  <2>2. PICK b : b = Head(todo[i])
    OBVIOUS
  <2>3. b.dir \in Dir /\ b = todo[i][1] /\ 1 \in 1 .. Len(todo[i]) /\ SelfCall(b)
    <3>1. todo[i] # <<>> /\ todo[i] \in Seq(CallType)
      BY <2>1 DEF IInv, TInv, Pointers, TypeOK
    <3> QED BY <2>1, <2>2, <3>1, HeadDir DEF IInv
  <2>4. /\ \A d \in Dir : /\ Len(txs'[d]) = Len(txs[d])
                          /\ \A k \in All(d) : d # c.dir \/ k # g =>
                               txs'[d][k].s_inode = txs[d][k].s_inode
        /\ c.fn = "chreg" => txs'[c.dir][g].s_inode = txs[c.dir][g].s_inode
    BY <1>1, <1>2, RecordSelf DEF NameCall
  <2>5. h \in All(b.dir)
    BY <2>1, <2>2, <2>3, <2>4 DEF All
  <2>6. txs[b.dir][h].s_inode = None
    BY <2>1, <2>2, <2>3, <2>5 DEF SelvesLogged, SelfNothingNewer
  <2>7. b.dir = c.dir => c.fn = "chreg"
    BY <1>3, <1>4, <2>1, <2>3 DEF Logged, Locked, SelfCall
  <2>8. txs'[b.dir][h].s_inode = txs[b.dir][h].s_inode
    BY <2>3, <2>4, <2>5, <2>7
  <2> QED BY <2>1, <2>2, <2>6, <2>8
<1>9. ASSUME NEW d \in alive
      PROVE  SelfLogged(d)'
  <2>1. d \in Dir /\ SelfLogged(d)
    BY DEF IInv, TInv, TypeOK, SelvesLogged
  <2>2. PICK v \in InodeType : v = inode[d]
    BY <2>1 DEF IInv, TInv, TypeOK, Ino
  <2>3. CASE d = c.dir /\ c.fn # "chreg"
    <3>1. SelfIs(d, v)'
      BY <1>1, <2>2, <2>3, RecordSelfIs
    <3>2. v = inode'[d] /\ v.attr = inode'[d].attr
      BY <1>3, <2>2
    <3>3. SelfIs(d, inode[d])' /\ SameAttr(d)'
      BY <3>1, <3>2 DEF SameAttr, SelfIs
    <3> QED BY <3>3 DEF SelfLogged
  <2>4. CASE ~(d = c.dir /\ c.fn # "chreg")
    <3>1. \A u : SelfIs(d, u) => SelfIs(d, u)'
      BY <1>1, <2>1, <2>4, RecordSelfStays
    <3>2. SelfUnsaved(d)' <=> SelfUnsaved(d)
      BY <1>7, <2>1, <2>4 DEF OfSelf, SelfCall
    <3>3. ~SelfUnsaved(d)' => SelfIs(d, inode[d])'
      <4> SUFFICES ASSUME ~SelfUnsaved(d) PROVE SelfIs(d, inode[d])'
        BY <3>2
      <4>1. SelfIs(d, v)
        BY <2>1, <2>2 DEF SelfLogged
      <4>2. SelfIs(d, v)' /\ v = inode'[d]
        BY <1>3, <2>2, <3>1, <4>1
      <4> QED BY <4>2 DEF SelfIs
    <3>4. SameAttr(d) => SameAttr(d)'
      BY <1>3, <3>1 DEF SameAttr
    <3>5. ASSUME NEW i \in Worker, NEW k \in 1 .. Len(todo'[i]),
                 NameCall(todo'[i][k]), todo'[i][k].dir = d
          PROVE  SameAttr(d)
      <4>1. PICK j \in 1 .. Len(todo[i]) : todo[i][j] = todo'[i][k]
        <5>1. CASE i = w
          <6>1. k + 1 \in 1 .. Len(todo[i]) /\ todo[i][k + 1] = todo'[i][k]
            BY <1>5, <5>1
          <6> QED BY <6>1
        <5>2. CASE i # w
          BY <1>3, <5>2
        <5> QED BY <5>1, <5>2
      <4> QED BY <2>1, <3>5, <4>1 DEF SelfLogged
    <3> QED BY <3>3, <3>4, <3>5 DEF SelfLogged
  <2> QED BY <2>3, <2>4
<1> QED BY <1>3, <1>8, <1>9 DEF SelvesLogged

(* What the journal sees of the directories of an operation that begins.   *)
SelfMentions(w, d) == \E k \in 1 .. Len(todo'[w]) : OfSelf(todo'[w][k], d)

SelfStarts(w) ==
  /\ \A d \in alive' : d \in alive /\ ~SelfMentions(w, d) => inode'[d] = inode[d]
  /\ \A d \in alive' : d \notin alive => d \notin used /\ SelfMentions(w, d)
  /\ \A k \in 1 .. Len(todo'[w]) : NameCall(todo'[w][k]) =>
       /\ todo'[w][k].dir \in alive
       /\ inode'[todo'[w][k].dir].attr = inode[todo'[w][k].dir].attr

(* The operations that change a directory's entries give it new times.     *)
LEMMA TouchStarts ==
  ASSUME IInv, NEW w \in Worker, NEW d \in alive, Touch(d), alive' \subseteq alive,
         \A k \in 1 .. Len(todo'[w]) : NameCall(todo'[w][k]) => todo'[w][k].dir = d,
         SelfMentions(w, d)
  PROVE  SelfStarts(w)
<1>1. d \in Ino /\ alive \subseteq Ino /\ inode \in [Ino -> InodeType]
  BY DEF IInv, TInv, TypeOK, Ino
<1>2. inode' = [inode EXCEPT ![d].time = inode[d].time + 1]
  BY DEF Touch
<1>3. \A e \in alive' : e # d => inode'[e] = inode[e]
  BY <1>1, <1>2
<1>4. inode'[d].attr = inode[d].attr
  BY <1>1, <1>2 DEF InodeType
<1>5. \A e \in alive' : e \in alive /\ ~SelfMentions(w, e) => inode'[e] = inode[e]
  BY <1>3
<1> QED BY <1>4, <1>5 DEF SelfStarts

(* A call on the directory alone. *)
LEMMA OneCall ==
  ASSUME NEW w \in Worker, NEW c, todo'[w] = <<c>>, NEW d, c.dir = d, SelfCall(c)
  PROVE  /\ SelfMentions(w, d)
         /\ \A k \in 1 .. Len(todo'[w]) : todo'[w][k] = c /\ todo'[w][k].dir = d
<1>1. Len(todo'[w]) = 1 /\ todo'[w][1] = c /\ 1 \in 1 .. Len(todo'[w])
  OBVIOUS
<1> QED BY <1>1 DEF SelfMentions, OfSelf

LEMMA EntrySelves ==
  ASSUME IInv, NEW w \in Worker,
         \/ \E d \in Dir, n \in Name, f \in File : Create(w, d, n, f)
         \/ \E d \in Dir, n \in Name : Unlink(w, d, n)
         \/ \E d \in Dir, n \in Name : Rmdir(w, d, n)
  PROVE  SelfStarts(w)
<1>1. CASE \E d \in Dir, n \in Name, f \in File : Create(w, d, n, f)
  <2>1. PICK d \in Dir, n \in Name, f \in File : Create(w, d, n, f)
    BY <1>1
  <2>2. PICK c : c = JCall("mkreg", d, n, f)
    OBVIOUS
  <2>3. d \in alive /\ Begin(w, {d}, <<c>>) /\ Touch(d) /\ alive' = alive
    BY <2>1, <2>2 DEF Create
  <2>4. todo'[w] = <<c>> /\ c.dir = d /\ SelfCall(c)
    BY <2>2, <2>3, BeginForm DEF JCall, SelfCall
  <2>5. SelfMentions(w, d) /\ \A k \in 1 .. Len(todo'[w]) : todo'[w][k].dir = d
    BY <2>4, OneCall
  <2> QED BY <2>3, <2>5, TouchStarts
<1>2. CASE \E d \in Dir, n \in Name : Unlink(w, d, n)
  <2>1. PICK d \in Dir, n \in Name : Unlink(w, d, n)
    BY <1>2
  <2>2. PICK c : c = JCall("rmreg", d, n, mem[d][n])
    OBVIOUS
  <2>3. d \in alive /\ Begin(w, {d, mem[d][n]}, <<c>>) /\ Touch(d) /\ alive' = alive
    BY <2>1, <2>2 DEF Unlink
  <2>4. todo'[w] = <<c>> /\ c.dir = d /\ SelfCall(c)
    BY <2>2, <2>3, BeginForm DEF JCall, SelfCall
  <2>5. SelfMentions(w, d) /\ \A k \in 1 .. Len(todo'[w]) : todo'[w][k].dir = d
    BY <2>4, OneCall
  <2> QED BY <2>3, <2>5, TouchStarts
<1>3. CASE \E d \in Dir, n \in Name : Rmdir(w, d, n)
  <2>1. PICK d \in Dir, n \in Name : Rmdir(w, d, n)
    BY <1>3
  <2>2. PICK x : x = mem[d][n]
    OBVIOUS
  <2>3. PICK a, b : a = JCall("rmself", x, None, x) /\ b = JCall("rmdir", d, n, x)
    OBVIOUS
  <2>4. d \in alive /\ Begin(w, {d, x}, <<a, b>>) /\ Touch(d) /\ alive' \subseteq alive
    BY <2>1, <2>2, <2>3 DEF Rmdir
  <2>5. todo'[w] = <<a, b>> /\ b.dir = d /\ SelfCall(b) /\ ~NameCall(a)
    BY <2>3, <2>4, BeginForm DEF JCall, SelfCall, NameCall
  <2>6. Len(todo'[w]) = 2 /\ todo'[w][1] = a /\ todo'[w][2] = b /\ 1 .. 2 = {1, 2}
    BY <2>5
  <2>7. SelfMentions(w, d)
    BY <2>5, <2>6 DEF SelfMentions, OfSelf
  <2>8. \A k \in 1 .. Len(todo'[w]) : NameCall(todo'[w][k]) => todo'[w][k].dir = d
    BY <2>5, <2>6
  <2> QED BY <2>4, <2>7, <2>8, TouchStarts
<1> QED BY <1>1, <1>2, <1>3

LEMMA RenameSelves ==
  ASSUME IInv, NEW w \in Worker, NEW d \in Dir, NEW n \in Name, NEW m \in Name,
         Rename(w, d, n, m)
  PROVE  SelfStarts(w)
<1>1. PICK f : f = mem[d][n]
  OBVIOUS
<1>2. PICK old : old = mem[d][m]
  OBVIOUS
<1>3. PICK r, a, b : /\ r = JCall("rmreg", d, m, old) /\ a = JCall("rmreg", d, n, f)
                     /\ b = JCall("mkreg", d, m, f)
  OBVIOUS
<1>4. PICK calls : calls = (IF old = None THEN <<>> ELSE <<r>>) \o <<a, b>>
  OBVIOUS
<1>5. /\ d \in alive /\ Begin(w, {d, f} \cup ({old} \ {None}), calls)
      /\ Touch(d) /\ alive' = alive
  BY <1>1, <1>2, <1>3, <1>4 DEF Rename
<1>6. todo'[w] = calls
  BY <1>5, BeginForm
<1>7. /\ r.dir = d /\ a.dir = d /\ b.dir = d /\ SelfCall(a)
  BY <1>3 DEF JCall, SelfCall
<1>8. CASE old = None
  <2>1. todo'[w] = <<a, b>>
    BY <1>4, <1>6, <1>8
  <2>2. Len(todo'[w]) = 2 /\ todo'[w][1] = a /\ todo'[w][2] = b /\ 1 .. 2 = {1, 2}
    BY <2>1
  <2>3. SelfMentions(w, d)
    BY <1>7, <2>2 DEF SelfMentions, OfSelf
  <2>4. \A k \in 1 .. Len(todo'[w]) : todo'[w][k].dir = d
    BY <1>7, <2>2
  <2> QED BY <1>5, <2>3, <2>4, TouchStarts
<1>9. CASE old # None
  <2>1. calls = <<r>> \o <<a, b>>
    BY <1>4, <1>9
  <2>2. /\ Len(todo'[w]) = 3 /\ todo'[w][1] = r /\ todo'[w][2] = a /\ todo'[w][3] = b
        /\ 1 .. 3 = {1, 2, 3}
    <3>1. <<r>> \in Seq({r, a, b}) /\ <<a, b>> \in Seq({r, a, b})
      OBVIOUS
    <3>2. /\ Len(<<r>> \o <<a, b>>) = Len(<<r>>) + Len(<<a, b>>)
          /\ \A i \in 1 .. Len(<<r>>) + Len(<<a, b>>) :
               (<<r>> \o <<a, b>>)[i] = IF i <= Len(<<r>>) THEN <<r>>[i]
                                       ELSE <<a, b>>[i - Len(<<r>>)]
      BY <3>1, ConcatProperties
    <3>3. Len(<<r>>) = 1 /\ Len(<<a, b>>) = 2
      OBVIOUS
    <3>4. Len(calls) = 3 /\ calls[1] = r /\ calls[2] = a /\ calls[3] = b
      BY <2>1, <3>2, <3>3
    <3> QED BY <1>6, <3>4
  <2>3. SelfMentions(w, d)
    BY <1>7, <2>2 DEF SelfMentions, OfSelf
  <2>4. \A k \in 1 .. Len(todo'[w]) : todo'[w][k].dir = d
    BY <1>7, <2>2
  <2> QED BY <1>5, <2>3, <2>4, TouchStarts
<1> QED BY <1>8, <1>9

(* A rename to another directory stamps no directory. *)
LEMMA RenameAwaySelves ==
  ASSUME IInv, NEW w \in Worker, NEW d \in Dir, NEW e \in Dir, NEW n \in Name, NEW m \in Name,
         RenameAway(w, d, n, e, m)
  PROVE  SelfStarts(w)
<1>1. PICK f : f = mem[d][n]
  OBVIOUS
<1>2. PICK old : old = mem[e][m]
  OBVIOUS
<1>3. PICK r, a, b : /\ r = JCall("rmreg", e, m, old) /\ a = JCall("rmreg", d, n, f)
                     /\ b = JCall("mkreg", e, m, f)
  OBVIOUS
<1>4. PICK calls : calls = <<a>> \o (IF old = None THEN <<>> ELSE <<r>>) \o <<b>>
  OBVIOUS
<1>5. /\ d \in alive /\ e \in alive /\ alive' = alive /\ inode' = inode
      /\ Begin(w, {d, e, f} \cup ({old} \ {None}), calls)
  BY <1>1, <1>2, <1>3, <1>4 DEF RenameAway
<1>6. todo'[w] = calls
  BY <1>5, BeginForm
<1>7. \A c \in {a, r, b} : c.dir \in alive
  BY <1>3, <1>5 DEF JCall
<1>8. \A k \in 1 .. Len(todo'[w]) : todo'[w][k] \in {a, r, b}
  <2>1. CASE old = None
    <3>1. todo'[w] = <<a>> \o <<>> \o <<b>>
      BY <1>4, <1>6, <2>1
    <3>2. todo'[w] = <<a, b>>
      BY <3>1, TwoJoined
    <3> QED BY <3>2
  <2>2. CASE old # None
    <3>1. todo'[w] = <<a>> \o <<r>> \o <<b>>
      BY <1>4, <1>6, <2>2
    <3>2. todo'[w] = <<a, r, b>>
      BY <3>1, ThreeJoined
    <3> QED BY <3>2
  <2> QED BY <2>1, <2>2
<1>9. \A k \in 1 .. Len(todo'[w]) : todo'[w][k].dir \in alive
  BY <1>7, <1>8
<1> QED BY <1>5, <1>9 DEF SelfStarts

LEMMA MkdirSelves ==
  ASSUME IInv, NEW w \in Worker, NEW d \in Dir, NEW x \in Dir, NEW n \in Name,
         Mkdir(w, d, n, x)
  PROVE  SelfStarts(w)
<1>1. PICK a, b : a = JCall("mkdir", d, n, x) /\ b = JCall("mkself", x, None, x)
  OBVIOUS
<1>2. /\ d \in alive /\ Begin(w, {d, x}, <<a, b>>) /\ Touch(d) /\ alive' = alive \cup {x}
      /\ x \notin used
  BY <1>1 DEF Mkdir
<1>3. todo'[w] = <<a, b>> /\ a.dir = d /\ b.dir = x /\ SelfCall(a) /\ SelfCall(b) /\ ~NameCall(b)
  BY <1>1, <1>2, BeginForm DEF JCall, SelfCall, NameCall
<1>4. Len(todo'[w]) = 2 /\ todo'[w][1] = a /\ todo'[w][2] = b /\ 1 .. 2 = {1, 2}
  BY <1>3
<1>5. SelfMentions(w, d) /\ SelfMentions(w, x)
  BY <1>3, <1>4 DEF SelfMentions, OfSelf
<1>6. \A k \in 1 .. Len(todo'[w]) : NameCall(todo'[w][k]) => todo'[w][k].dir = d
  BY <1>3, <1>4
<1>7. d \in Ino /\ alive \subseteq Ino /\ inode \in [Ino -> InodeType]
  BY <1>2 DEF IInv, TInv, TypeOK, Ino
<1>8. inode' = [inode EXCEPT ![d].time = inode[d].time + 1]
  BY <1>2 DEF Touch
<1>9. inode'[d].attr = inode[d].attr /\ \A e \in alive : e # d => inode'[e] = inode[e]
  BY <1>7, <1>8 DEF InodeType
<1>10. \A e \in alive' : e \in alive /\ ~SelfMentions(w, e) => inode'[e] = inode[e]
  BY <1>5, <1>9
<1>11. \A e \in alive' : e \notin alive => e \notin used /\ SelfMentions(w, e)
  BY <1>2, <1>5
<1> QED BY <1>2, <1>6, <1>9, <1>10, <1>11 DEF SelfStarts

LEMMA ChangeSelves ==
  ASSUME IInv, NEW w \in Worker,
         (\E d \in Dir : ChangeDir(w, d)) \/ (\E d \in Dir, n \in Name : ChangeFile(w, d, n))
  PROVE  SelfStarts(w)
<1>1. CASE \E d \in Dir : ChangeDir(w, d)
  <2>1. PICK d \in Dir : ChangeDir(w, d)
    BY <1>1
  <2>2. PICK c : c = JCall("chself", d, None, d)
    OBVIOUS
  <2>3. Begin(w, {d}, <<c>>) /\ alive' = alive /\ inode' = [inode EXCEPT ![d].attr = inode[d].attr + 1]
    BY <2>1, <2>2 DEF ChangeDir
  <2>4. todo'[w] = <<c>> /\ c.dir = d /\ SelfCall(c) /\ ~NameCall(c)
    BY <2>2, <2>3, BeginForm DEF JCall, SelfCall, NameCall
  <2>5. SelfMentions(w, d) /\ \A k \in 1 .. Len(todo'[w]) : todo'[w][k] = c
    BY <2>4, OneCall
  <2>6. \A e \in alive : e # d => inode'[e] = inode[e]
    BY <2>3 DEF IInv, TInv, TypeOK, Ino
  <2> QED BY <2>3, <2>4, <2>5, <2>6 DEF SelfStarts
<1>2. CASE \E d \in Dir, n \in Name : ChangeFile(w, d, n)
  <2>1. PICK d \in Dir, n \in Name : ChangeFile(w, d, n)
    BY <1>2
  <2>2. PICK f \in File : f = mem[d][n]
    BY <2>1 DEF ChangeFile
  <2>3. PICK c : c = JCall("chreg", d, None, f)
    OBVIOUS
  <2>4. Begin(w, {f}, <<c>>) /\ alive' = alive /\ inode' = [inode EXCEPT ![f].attr = inode[f].attr + 1]
    BY <2>1, <2>2, <2>3 DEF ChangeFile
  <2>5. todo'[w] = <<c>> /\ ~NameCall(c)
    BY <2>3, <2>4, BeginForm DEF JCall, NameCall
  <2>6. \A k \in 1 .. Len(todo'[w]) : todo'[w][k] = c
    <3>1. Len(todo'[w]) = 1 /\ todo'[w][1] = c
      BY <2>5
    <3> QED BY <3>1
  <2>7. \A e \in alive : e # f /\ e \in Ino
    BY DistinctAssumption DEF IInv, TInv, TypeOK, Ino
  <2>8. \A e \in alive : inode'[e] = inode[e]
    BY <2>4, <2>7 DEF IInv, TInv, TypeOK
  <2> QED BY <2>4, <2>5, <2>6, <2>8 DEF SelfStarts
<1> QED BY <1>1, <1>2

LEMMA OperationSelves ==
  ASSUME IInv, NEW w \in Worker, Operation(w)
  PROVE  SelfStarts(w)
BY EntrySelves, RenameSelves, RenameAwaySelves, MkdirSelves, ChangeSelves DEF Operation

(* An operation that begins finds nobody with a call about its             *)
(* directories.                                                            *)
LEMMA StartsSelves ==
  ASSUME IInv, IInv', Logged, SelvesLogged, NEW w \in Worker, Starts(w), SelfStarts(w),
         UNCHANGED <<held, txs>>
  PROVE  SelvesLogged'
<1>1. /\ todo[w] = <<>> /\ held[w] = 0
      /\ \A i \in Worker : i # w => todo'[i] = todo[i]
      /\ \A k \in 1 .. Len(todo'[w]) : SelfCall(todo'[w][k]) => lock[todo'[w][k].dir] = None
      /\ used \subseteq used' /\ Root \in used
  BY DEF Starts, SelvesLogged
<1>2. None \notin Worker
  BY DistinctAssumption
<1>3. ASSUME NEW d \in Dir
      PROVE  /\ SelfUnsaved(d)' <=> SelfUnsaved(d) \/ SelfMentions(w, d)
             /\ SelfMentions(w, d) => ~SelfUnsaved(d)
             /\ All(d)' = All(d) /\ \A v : SelfIs(d, v) <=> SelfIs(d, v)'
  <2>1. ASSUME SelfUnsaved(d)'
        PROVE  SelfUnsaved(d) \/ SelfMentions(w, d)
    <3>1. PICK i \in Worker : \E k \in 1 .. Len(todo'[i]) : OfSelf(todo'[i][k], d)
      BY <2>1 DEF SelfUnsaved
    <3> QED BY <1>1, <3>1 DEF SelfUnsaved, SelfMentions
  <2>2. ASSUME SelfUnsaved(d)
        PROVE  SelfUnsaved(d)' /\ lock[d] # None
    <3>1. PICK i \in Worker : \E k \in 1 .. Len(todo[i]) : OfSelf(todo[i][k], d)
      BY <2>2 DEF SelfUnsaved
    <3>2. i # w
      BY <1>1, <3>1
    <3>3. lock[d] = i
      BY <3>1 DEF Logged, Locked, OfSelf
    <3> QED BY <1>1, <1>2, <3>1, <3>2, <3>3 DEF SelfUnsaved
  <2>3. SelfMentions(w, d) => SelfUnsaved(d)' /\ lock[d] = None
    BY <1>1 DEF SelfMentions, SelfUnsaved, OfSelf
  <2>4. All(d)' = All(d) /\ SelfLog(d)' = SelfLog(d)
    BY DEF SelfLog, All
  <2>5. \A v : SelfIs(d, v) <=> SelfIs(d, v)'
    BY <2>4 DEF SelfIs
  <2> QED BY <2>1, <2>2, <2>3, <2>4, <2>5
<1>4. SelfNothingNewer'
  <2> SUFFICES ASSUME NEW i \in Worker, held'[i] # 0, SelfCall(Head(todo'[i])),
                      NEW h \in All(Head(todo[i]).dir)', h > held'[i]
               PROVE  txs'[Head(todo'[i]).dir][h].s_inode = None
    BY DEF SelfNothingNewer
  <2>1. i # w /\ todo'[i] = todo[i] /\ held[i] # 0
    BY <1>1
  <2>2. h \in All(Head(todo[i]).dir)
    BY <2>1 DEF All
  <2> QED BY <2>1, <2>2 DEF SelvesLogged, SelfNothingNewer
<1>5. ASSUME NEW d \in alive'
      PROVE  SelfLogged(d)'
  <2>1. d \in Dir
    BY DEF IInv, TInv, TypeOK
  <2>2. CASE d \notin alive
    <3>1. d \notin used /\ SelfUnsaved(d)'
      BY <1>3, <2>1, <2>2 DEF SelfStarts
    <3>2. ASSUME NEW i \in Worker, NEW k \in 1 .. Len(todo'[i]),
                 NameCall(todo'[i][k]), todo'[i][k].dir = d
          PROVE  FALSE
      <4>1. CASE i = w
        BY <2>2, <3>2, <4>1 DEF SelfStarts
      <4>2. CASE i # w
        <5>1. k \in 1 .. Len(todo[i]) /\ todo[i][k].dir = d
          BY <1>1, <3>2, <4>2
        <5> QED BY <3>1, <5>1 DEF Logged, Locked
      <4> QED BY <4>1, <4>2
    <3> QED BY <3>1, <3>2 DEF SelfLogged
  <2>3. CASE d \in alive
    <3>1. SelfLogged(d)
      BY <2>3 DEF SelvesLogged
    <3>2. PICK v \in InodeType : v = inode[d]
      BY <2>1 DEF IInv, TInv, TypeOK, Ino
    <3>3. ~SelfUnsaved(d)' => SelfIs(d, inode[d])'
      <4> SUFFICES ASSUME ~SelfUnsaved(d)' PROVE SelfIs(d, inode[d])'
        OBVIOUS
      <4>1. ~SelfUnsaved(d) /\ ~SelfMentions(w, d)
        BY <1>3, <2>1
      <4>2. SelfIs(d, v)'
        BY <1>3, <2>1, <3>1, <3>2, <4>1 DEF SelfLogged
      <4>3. v = inode'[d]
        BY <2>3, <3>2, <4>1 DEF SelfStarts
      <4> QED BY <4>2, <4>3 DEF SelfIs
    <3>4. ASSUME NEW i \in Worker, NEW k \in 1 .. Len(todo'[i]),
                 NameCall(todo'[i][k]), todo'[i][k].dir = d
          PROVE  SameAttr(d)'
      <4>1. PICK u \in InodeType : SelfIs(d, u)' /\ u.attr = inode'[d].attr
        <5>1. CASE i = w
          <6>1. SelfMentions(w, d)
            BY <3>4, <5>1 DEF SelfMentions, OfSelf, NameCall, SelfCall
          <6>2. SelfIs(d, v)'
            BY <1>3, <2>1, <3>1, <3>2, <6>1 DEF SelfLogged
          <6>3. inode'[d].attr = v.attr
            BY <3>2, <3>4, <5>1 DEF SelfStarts
          <6> QED BY <6>2, <6>3
        <5>2. CASE i # w
          <6>1. k \in 1 .. Len(todo[i]) /\ NameCall(todo[i][k]) /\ todo[i][k].dir = d
            BY <1>1, <3>4, <5>2
          <6>2. SameAttr(d)
            BY <3>1, <6>1 DEF SelfLogged
          <6>3. SelfUnsaved(d)
            BY <6>1 DEF SelfUnsaved, OfSelf, NameCall, SelfCall
          <6>4. inode'[d] = inode[d]
            BY <1>3, <2>1, <2>3, <6>3 DEF SelfStarts
          <6> QED BY <1>3, <2>1, <6>2, <6>4 DEF SameAttr
        <5> QED BY <5>1, <5>2
      <4> QED BY <4>1 DEF SameAttr
    <3> QED BY <3>3, <3>4 DEF SelfLogged
  <2> QED BY <2>2, <2>3
<1> QED BY <1>1, <1>4, <1>5 DEF SelvesLogged

----------------------------------------------------------------------------
(* The inode objects: a directory's has what the transactions say that     *)
(* have been applied to it, and a file's what is in memory, once no        *)
(* transaction is left that has it.  A directory's own inode is written    *)
(* before its entries, those of its files after them.                      *)
AppliedSelf(d) ==
  done[d] \cup {g \in All(d) : AtWork(d, g) /\ kpc[QueueOf[d]] \in {"save", "clear"}}

(* Nothing is left to write of a file that stayed in its directory.        *)
Settled(d, f) == /\ Named(d, f) /\ f \notin moved /\ ~Unsaved(d, f)
                 /\ Silent(FileLog(d, f), All(d) \ Applied(d))

FilesIn(d) == \A f \in File : Settled(d, f) => inodeObj[f] = inode[f]
SelfIn(d) ==
  /\ \A v \in InodeType : Latest(SelfLog(d), AppliedSelf(d), v) => inodeObj[d] = v
  /\ d = Root /\ Silent(SelfLog(d), AppliedSelf(d)) => inodeObj[d] = NewInode
InodesPooled == \A d \in alive : FilesIn(d) /\ SelfIn(d)

LEMMA AppliedSelfIn ==
  ASSUME IInv, Order, NEW d \in Dir
  PROVE  /\ AppliedSelf(d) \subseteq All(d) /\ AppliedSelf(d) \in SUBSET Nat
         /\ done[d] \subseteq AppliedSelf(d)
         /\ \A g \in AppliedSelf(d) : txs[d][g].committed
<1>1. done[d] \subseteq All(d) /\ All(d) \subseteq Nat
  BY DEF Order, All
<1>2. \A g \in All(d) : ~txs[d][g].committed => g \notin done[d] /\ ~AtWork(d, g)
  BY OldestFirst
<1> QED BY <1>1, <1>2 DEF AppliedSelf

(* New transactions are not applied. *)
LEMMA AppliedStays ==
  ASSUME IInv, Order, NEW d \in Dir, UNCHANGED <<done, kpc, job>>, All(d) \subseteq All(d)'
  PROVE  Applied(d)' = Applied(d) /\ AppliedSelf(d)' = AppliedSelf(d)
<1>1. \A g \in Nat : AtWork(d, g) => g \in All(d)
  BY OldestFirst
<1>2. \A g \in All(d)' : g \in Nat
  BY DEF All
<1>3. \A g : AtWork(d, g)' <=> AtWork(d, g)
  BY DEF AtWork
<1>4. \A g \in All(d)' : AtWork(d, g)' => g \in All(d) /\ AtWork(d, g)
  BY <1>1, <1>2, <1>3
<1>5. \A g \in All(d) : AtWork(d, g) => g \in All(d)' /\ AtWork(d, g)'
  BY <1>3
<1>6. Applied(d)' = Applied(d)
  BY <1>4, <1>5 DEF Applied
<1>7. AppliedSelf(d)' = AppliedSelf(d)
  BY <1>4, <1>5 DEF AppliedSelf
<1> QED BY <1>6, <1>7

(* Steps that give a file no name and apply no transaction settle nothing. *)
LEMMA SettledStays ==
  ASSUME NEW d \in Dir, NEW f \in File, Settled(d, f)',
         Named(d, f)' => Named(d, f), moved \subseteq moved', Unsaved(d, f) => Unsaved(d, f)',
         Applied(d)' = Applied(d), All(d) \subseteq All(d)',
         \A g \in All(d) \ Applied(d) :
           txs[d][g].f_inodes[f] # None => txs'[d][g].f_inodes[f] # None
  PROVE  Settled(d, f)
<1>1. ASSUME NEW g \in All(d) \ Applied(d)
      PROVE  FileLog(d, f)[g] = None
  <2>1. g \in All(d)' \ Applied(d)'
    OBVIOUS
  <2>2. FileLog(d, f)'[g] = None
    BY <2>1 DEF Settled, Silent
  <2>3. txs'[d][g].f_inodes[f] = None
    BY <2>1, <2>2 DEF FileLog
  <2>4. txs[d][g].f_inodes[f] = None
    BY <2>3
  <2> QED BY <2>4 DEF FileLog
<1>2. Silent(FileLog(d, f), All(d) \ Applied(d))
  BY <1>1 DEF Silent
<1>3. Named(d, f) /\ f \notin moved /\ ~Unsaved(d, f)
  BY DEF Settled
<1> QED BY <1>2, <1>3 DEF Settled

(* Steps after which no more files are settled, and none has changed.      *)
LEMMA FilesInKept ==
  ASSUME NEW d \in Dir, FilesIn(d), \A f \in File : inodeObj'[f] = inodeObj[f],
         \A f \in File : Settled(d, f)' => Settled(d, f) /\ inode'[f] = inode[f]
  PROVE  FilesIn(d)'
<1> SUFFICES ASSUME NEW f \in File, Settled(d, f)'
             PROVE  inodeObj'[f] = inode'[f]
  BY DEF FilesIn
<1>1. Settled(d, f) /\ inode'[f] = inode[f] /\ inodeObj'[f] = inodeObj[f]
  OBVIOUS
<1> QED BY <1>1 DEF FilesIn

LEMMA SelfInKept ==
  ASSUME IInv, Order, NEW d \in Dir, SelfIn(d), AppliedSelf(d)' = AppliedSelf(d),
         All(d) \subseteq All(d)',
         \A g \in AppliedSelf(d) : txs'[d][g].s_inode = txs[d][g].s_inode,
         inodeObj'[d] = inodeObj[d]
  PROVE  SelfIn(d)'
<1>1. \A g \in AppliedSelf(d) : g \in All(d) /\ g \in All(d)'
  BY AppliedSelfIn
<1>2. \A g \in AppliedSelf(d) : SelfLog(d)'[g] = SelfLog(d)[g]
  BY <1>1 DEF SelfLog
<1>3. /\ Silent(SelfLog(d)', AppliedSelf(d)) <=> Silent(SelfLog(d), AppliedSelf(d))
      /\ \A v : Latest(SelfLog(d)', AppliedSelf(d), v) <=> Latest(SelfLog(d), AppliedSelf(d), v)
  BY <1>2, LogSame
<1> QED BY <1>3 DEF SelfIn

(* A directory without transactions. *)
LEMMA NothingIn ==
  ASSUME IInv, Order, FilesLogged', NEW d \in Dir, d # Root, txs'[d] = <<>>, done'[d] = {}
  PROVE  FilesIn(d)' /\ SelfIn(d)'
<1>1. All(d)' = {}
  BY DEF All
<1>2. AppliedSelf(d)' = {}
  BY <1>1 DEF AppliedSelf
<1>3. \A f \in File : ~Settled(d, f)'
  <2> SUFFICES ASSUME NEW f \in File, Settled(d, f)'
               PROVE  FALSE
    OBVIOUS
  <2>1. FileLogged(d, f)'
    BY DEF FilesLogged
  <2>2. Latest(FileLog(d, f)', All(d)', inode'[f])
    BY <2>1 DEF FileLogged, Settled
  <2> QED BY <1>1, <2>2 DEF Latest
<1>4. FilesIn(d)'
  BY <1>3 DEF FilesIn
<1> QED BY <1>2, <1>4 DEF SelfIn, Latest

LEMMA InodesPooledKept ==
  ASSUME IInv, Order, FilesLogged', InodesPooled, Known, Root \in used, inodeObj' = inodeObj,
         \A d \in alive' : /\ d \in Dir
                           /\ d \in alive \/ (d \notin used /\ txs' = txs /\ done' = done),
         \A d \in Dir :
           /\ Applied(d)' = Applied(d) /\ AppliedSelf(d)' = AppliedSelf(d)
           /\ All(d) \subseteq All(d)'
           /\ \A g \in All(d) : txs[d][g].committed =>
                txs'[d][g].s_inode = txs[d][g].s_inode,
         \A d \in alive : \A f \in File :
           Settled(d, f)' => Settled(d, f) /\ inode'[f] = inode[f]
  PROVE  InodesPooled'
<1> SUFFICES ASSUME NEW d \in alive'
             PROVE  FilesIn(d)' /\ SelfIn(d)'
  BY DEF InodesPooled
<1>1. d \in Dir
  OBVIOUS
<1>2. CASE d \in alive
  <2>1. FilesIn(d) /\ SelfIn(d)
    BY <1>2 DEF InodesPooled
  <2>2. \A f \in File : Settled(d, f)' => Settled(d, f) /\ inode'[f] = inode[f]
    BY <1>2
  <2>3. \A g \in AppliedSelf(d) : txs'[d][g].s_inode = txs[d][g].s_inode
    <3>1. \A g \in AppliedSelf(d) : g \in All(d) /\ txs[d][g].committed
      BY <1>1, AppliedSelfIn
    <3> QED BY <1>1, <3>1
  <2>4. FilesIn(d)'
    BY <1>1, <2>1, <2>2, FilesInKept
  <2>5. SelfIn(d)'
    BY <1>1, <2>1, <2>3, SelfInKept
  <2> QED BY <2>4, <2>5
<1>3. CASE d \notin alive
  <2>1. d \notin used /\ d # Root /\ txs' = txs /\ done' = done
    BY <1>3
  <2>2. txs[d] = <<>> /\ txs'[d] = <<>>
    BY <1>1, <2>1 DEF Known
  <2>3. done'[d] = {}
    <3>1. All(d) = {} /\ done'[d] = done[d]
      BY <1>1, <2>1, <2>2 DEF All
    <3> QED BY <1>1, <3>1 DEF Order
  <2> QED BY <1>1, <2>1, <2>2, <2>3, NothingIn
<1> QED BY <1>2, <1>3

(* What a checkpoint thread takes from its queue is not applied yet, what  *)
(* it puts aside stays applied.                                            *)
LEMMA DispatchApplied ==
  ASSUME IInv, NEW q \in Queue, Dispatch(q), NEW d \in Dir
  PROVE  Applied(d)' = Applied(d) /\ AppliedSelf(d)' = AppliedSelf(d)
<1>1. txs' = txs /\ done' = done /\ kpc[q] = "idle"
  BY DEF Dispatch
<1>2. /\ kpc'[q] \in {"load", "exit"}
      /\ \A p \in Queue : p # q => kpc'[p] = kpc[p] /\ job'[p] = job[p]
  BY DEF Dispatch, IInv, TInv, TypeOK
<1>3. All(d)' = All(d) /\ done'[d] = done[d] /\ QueueOf[d] \in Queue
  BY <1>1, QueueAssumption DEF All
<1>4. CASE QueueOf[d] = q
  <2>1. Applied(d)' = done[d] /\ Applied(d) = done[d]
    BY <1>1, <1>2, <1>3, <1>4 DEF Applied
  <2>2. AppliedSelf(d)' = done[d] /\ AppliedSelf(d) = done[d]
    BY <1>1, <1>2, <1>3, <1>4 DEF AppliedSelf
  <2> QED BY <2>1, <2>2
<1>5. CASE QueueOf[d] # q
  <2>1. kpc'[QueueOf[d]] = kpc[QueueOf[d]] /\ \A g : AtWork(d, g)' <=> AtWork(d, g)
    BY <1>2, <1>3, <1>5 DEF AtWork
  <2> QED BY <1>3, <2>1 DEF Applied, AppliedSelf
<1> QED BY <1>4, <1>5

LEMMA ClearApplied ==
  ASSUME IInv, Order, NEW q \in Queue, Clear(q), NEW d \in Dir
  PROVE  /\ Applied(d)' = Applied(d) /\ AppliedSelf(d)' = AppliedSelf(d)
         /\ txs[d] = <<>> => done'[d] = done[d]
<1>1. /\ txs' = txs /\ kpc[q] = "clear"
      /\ kpc' = [kpc EXCEPT ![q] = "idle"] /\ job' = [job EXCEPT ![q] = <<Root, 0>>]
  BY DEF Clear
<1>2. /\ kpc'[q] = "idle"
      /\ \A p \in Queue : p # q => kpc'[p] = kpc[p] /\ job'[p] = job[p]
  BY <1>1 DEF IInv, TInv, TypeOK
<1>3. PICK e : e = job[q][1]
  OBVIOUS
<1>4. PICK g : g = job[q][2]
  OBVIOUS
<1>5. e \in Dir /\ g \in All(e) /\ QueueOf[e] = q /\ AtWork(e, g)
  BY <1>1, <1>3, <1>4, JobThere
<1>6. done'[d] = IF d = e THEN done[d] \cup {g} ELSE done[d]
  <2>1. done' = [done EXCEPT ![e] = done[e] \cup {g}]
    BY <1>3, <1>4 DEF Clear
  <2> QED BY <1>5, <2>1 DEF IInv, TInv, TypeOK
<1>7. All(d)' = All(d) /\ QueueOf[d] \in Queue
  BY <1>1, QueueAssumption DEF All
<1>8. ASSUME QueueOf[d] = q
      PROVE  Applied(d)' = Applied(d) /\ AppliedSelf(d)' = AppliedSelf(d)
  <2>1. Applied(d)' = done'[d] /\ AppliedSelf(d)' = done'[d]
    BY <1>2, <1>7, <1>8 DEF Applied, AppliedSelf
  <2>2. job[q] = <<e, g>>
    BY <1>3, <1>4 DEF IInv, TInv, TypeOK
  <2>3. \A h \in All(d) : AtWork(d, h) <=> d = e /\ h = g
    BY <1>1, <1>8, <2>2 DEF AtWork
  <2>4. Applied(d) = IF d = e THEN done[d] \cup {g} ELSE done[d]
    BY <1>1, <1>5, <1>8, <2>3 DEF Applied
  <2>5. AppliedSelf(d) = IF d = e THEN done[d] \cup {g} ELSE done[d]
    BY <1>1, <1>5, <1>8, <2>3 DEF AppliedSelf
  <2>6. Applied(d)' = Applied(d)
    BY <1>6, <2>1, <2>4
  <2>7. AppliedSelf(d)' = AppliedSelf(d)
    BY <1>6, <2>1, <2>5
  <2> QED BY <2>6, <2>7
<1>9. ASSUME QueueOf[d] # q
      PROVE  Applied(d)' = Applied(d) /\ AppliedSelf(d)' = AppliedSelf(d)
  <2>1. kpc'[QueueOf[d]] = kpc[QueueOf[d]] /\ \A h : AtWork(d, h)' <=> AtWork(d, h)
    BY <1>2, <1>7, <1>9 DEF AtWork
  <2>2. done'[d] = done[d]
    BY <1>5, <1>6, <1>9
  <2> QED BY <1>7, <2>1, <2>2 DEF Applied, AppliedSelf
<1>10. txs[d] = <<>> => done'[d] = done[d]
  <2>1. txs[d] = <<>> => d # e
    BY <1>5 DEF All
  <2> QED BY <1>6, <2>1
<1> QED BY <1>8, <1>9, <1>10

(* What the first half of a transaction::sync makes of the directories'    *)
(* own inodes.                                                             *)
AdvancedSelf(q, e, g) ==
  /\ \A d \in Dir : d # e => AppliedSelf(d)' = AppliedSelf(d)
  /\ AppliedSelf(e)' = AppliedSelf(e) \cup {g}
  /\ kpc[q] = "save" => g \in AppliedSelf(e)
  /\ kpc[q] = "load" => \A h \in AppliedSelf(e) : h < g /\ h \in Nat

LEMMA AppliedSelfBy ==
  ASSUME IInv, Order, NEW q \in Queue, kpc[q] \in {"load", "save"},
         NEW v \in {"save", "clear"}, kpc' = [kpc EXCEPT ![q] = v],
         txs' = txs, done' = done, job' = job,
         NEW e, e = job[q][1], NEW g, g = job[q][2]
  PROVE  AdvancedSelf(q, e, g)
<1>1. e \in Dir /\ g \in Nat /\ job[q] = <<e, g>>
  BY DEF IInv, TInv, TypeOK
<1>2. QueueOf[e] = q /\ AtWork(e, g) /\ g \in All(e)
  BY <1>1, JobThere
<1>3. kpc'[q] = v /\ \A p \in Queue : p # q => kpc'[p] = kpc[p]
  BY DEF IInv, TInv, TypeOK
<1>4. \A d \in Dir, h \in Nat : AtWork(d, h)' <=> AtWork(d, h)
  BY <1>3, QueueAssumption DEF AtWork
<1>5. \A d \in Dir : All(d)' = All(d) /\ All(d) \subseteq Nat
  BY DEF All
<1>6. \A h \in Nat : AtWork(e, h) <=> h = g
  BY <1>1, <1>2 DEF AtWork
<1>7. ASSUME NEW d \in Dir, d # e
      PROVE  AppliedSelf(d)' = AppliedSelf(d)
  <2>1. CASE QueueOf[d] = q
    <3>1. \A h \in Nat : ~AtWork(d, h)
      BY <1>1, <1>7, <2>1 DEF AtWork
    <3> QED BY <1>4, <1>5, <3>1 DEF AppliedSelf
  <2>2. CASE QueueOf[d] # q
    <3>1. kpc'[QueueOf[d]] = kpc[QueueOf[d]]
      BY <1>3, <2>2, QueueAssumption
    <3> QED BY <1>4, <1>5, <3>1 DEF AppliedSelf
  <2> QED BY <2>1, <2>2
<1>8. AppliedSelf(e)' = done[e] \cup {g}
  <2>1. \A h \in All(e) : AtWork(e, h)' <=> h = g
    BY <1>1, <1>4, <1>5, <1>6
  <2> QED BY <1>1, <1>2, <1>3, <1>5, <2>1 DEF AppliedSelf
<1>9. AppliedSelf(e) = IF kpc[q] = "load" THEN done[e] ELSE done[e] \cup {g}
  <2>1. \A h \in All(e) : AtWork(e, h) <=> h = g
    BY <1>1, <1>5, <1>6
  <2> QED BY <1>1, <1>2, <1>5, <2>1 DEF AppliedSelf
<1>10. \A h \in done[e] : h < g /\ h \in Nat
  <2>1. g \in All(e) \ done[e]
    BY <1>1, <1>2, OldestFirst
  <2>2. \A h \in done[e] : h < g
    BY <1>1, <2>1, OldestFirst
  <2>3. done[e] \subseteq Nat
    BY <1>1, <1>5 DEF Order
  <2> QED BY <2>2, <2>3
<1> QED BY <1>1, <1>7, <1>8, <1>9, <1>10 DEF AdvancedSelf

(* A removed directory is not one whose inode matters. *)
LEMMA RemovedInodes ==
  ASSUME IInv, Order, Pooled, InodesPooled, NEW q \in Queue, SyncRemoved(q)
  PROVE  InodesPooled'
<1>1. /\ kpc[q] \in {"load", "save"} /\ kpc' = [kpc EXCEPT ![q] = "clear"]
      /\ JobTx(q).status = "deleted"
      /\ inodeObj' = [inodeObj EXCEPT ![job[q][1]] = None]
      /\ UNCHANGED <<alive, txs, done, job>>
      /\ UNCHANGED <<mem, moved, todo, inode>>
  BY DEF SyncRemoved, memVars
<1>2. PICK e : e = job[q][1]
  OBVIOUS
<1>3. PICK g : g = job[q][2]
  OBVIOUS
<1>4. e \in Dir /\ g \in All(e) /\ JobTx(q) = txs[e][g]
  BY <1>1, <1>2, <1>3, JobThere DEF JobTx
<1>5. e \notin alive
  BY <1>1, <1>4 DEF Pooled, Births
<1>6. PICK v : v = "clear"
  OBVIOUS
<1>7. Advanced(q, v, e, g)
  BY <1>1, <1>2, <1>3, <1>6, AppliedBy
<1>8. AdvancedSelf(q, e, g)
  BY <1>1, <1>2, <1>3, <1>6, AppliedSelfBy
<1>9. \A i \in Ino : i # e => inodeObj'[i] = inodeObj[i]
  BY <1>1, <1>2 DEF IInv, TInv, TypeOK
<1>10. ASSUME NEW d \in alive
       PROVE  FilesIn(d)' /\ SelfIn(d)'
  <2>1. d \in Dir /\ d # e /\ d \in Ino
    BY <1>5 DEF IInv, TInv, TypeOK, Ino
  <2>2. /\ Applied(d)' = Applied(d) /\ AppliedSelf(d)' = AppliedSelf(d)
        /\ FilesIn(d) /\ SelfIn(d)
    BY <1>7, <1>8, <2>1 DEF Advanced, AdvancedSelf, InodesPooled
  <2>3. All(d) \subseteq All(d)' /\ txs'[d] = txs[d]
    BY <1>1 DEF All
  <2>4. inodeObj'[d] = inodeObj[d] /\ \A f \in File : inodeObj'[f] = inodeObj[f]
    <3>1. \A f \in File : f # e /\ f \in Ino
      BY <1>4, DistinctAssumption DEF Ino
    <3> QED BY <1>9, <2>1, <3>1
  <2>5. FilesIn(d)'
    <3>1. \A f \in File : (Named(d, f)' <=> Named(d, f)) /\ (Unsaved(d, f)' <=> Unsaved(d, f))
      BY <1>1 DEF Named, Unsaved
    <3>2. \A f \in File : Settled(d, f)' => Settled(d, f)
      BY <1>1, <2>1, <2>2, <2>3, <3>1, SettledStays
    <3> QED BY <1>1, <2>1, <2>2, <2>4, <3>2, FilesInKept
  <2>6. SelfIn(d)'
    BY <2>1, <2>2, <2>3, <2>4, SelfInKept
  <2> QED BY <2>5, <2>6
<1> QED BY <1>1, <1>10 DEF InodesPooled

(* The latest word is the topmost one, or the latest below.                *)
LEMMA LogBelow ==
  ASSUME NEW L, NEW S \in SUBSET Nat, NEW g \in Nat, \A h \in S : h < g,
         NEW v, Latest(L, S \cup {g}, v)
  PROVE  \/ L[g] = v /\ v # None
         \/ L[g] = None /\ Latest(L, S, v)
<1>1. PICK k \in S \cup {g} : /\ L[k] = v /\ v # None
                              /\ \A h \in S \cup {g} : h > k => L[h] = None
  BY DEF Latest
<1>2. CASE k = g
  BY <1>1, <1>2
<1>3. CASE k # g
  <2>1. k \in S /\ g > k
    BY <1>3
  <2> QED BY <1>1, <2>1 DEF Latest
<1> QED BY <1>2, <1>3

(* The directory's own inode object gets the copy of the transaction, if   *)
(* it has one.                                                             *)
LEMMA LoadInodes ==
  ASSUME IInv, Order, InodesPooled, NEW q \in Queue, SyncLoad(q)
  PROVE  InodesPooled'
<1>1. /\ kpc[q] = "load" /\ kpc' = [kpc EXCEPT ![q] = "save"]
      /\ inodeObj' = [inodeObj EXCEPT ![job[q][1]] =
                         IF JobTx(q).s_inode = None THEN inodeObj[job[q][1]] ELSE JobTx(q).s_inode]
      /\ UNCHANGED <<alive, txs, done, job>>
      /\ UNCHANGED <<mem, moved, todo, inode>>
  BY DEF SyncLoad, memVars
<1>2. PICK e : e = job[q][1]
  OBVIOUS
<1>3. PICK g : g = job[q][2]
  OBVIOUS
<1>4. e \in Dir /\ g \in All(e) /\ g \in Nat /\ JobTx(q) = txs[e][g] /\ e \in Ino
  BY <1>1, <1>2, <1>3, JobThere DEF JobTx, All, Ino
<1>6. PICK v : v = "save"
  OBVIOUS
<1>7. Advanced(q, v, e, g)
  BY <1>1, <1>2, <1>3, <1>6, AppliedBy
<1>8. AdvancedSelf(q, e, g)
  BY <1>1, <1>2, <1>3, <1>6, AppliedSelfBy
<1>9. /\ \A i \in Ino : i # e => inodeObj'[i] = inodeObj[i]
      /\ inodeObj'[e] = IF txs[e][g].s_inode = None THEN inodeObj[e] ELSE txs[e][g].s_inode
  BY <1>1, <1>2, <1>4 DEF IInv, TInv, TypeOK
<1>10. \A f \in File : inodeObj'[f] = inodeObj[f]
  <2>1. \A f \in File : f # e /\ f \in Ino
    BY <1>4, DistinctAssumption DEF Ino
  <2> QED BY <1>9, <2>1
<1>11. ASSUME NEW d \in alive
       PROVE  FilesIn(d)' /\ SelfIn(d)'
  <2>1. d \in Dir /\ d \in Ino
    BY DEF IInv, TInv, TypeOK, Ino
  <2>2. Applied(d)' = Applied(d) /\ FilesIn(d) /\ SelfIn(d)
    BY <1>6, <1>7, <2>1 DEF Advanced, InodesPooled
  <2>3. All(d) \subseteq All(d)' /\ txs'[d] = txs[d]
    BY <1>1 DEF All
  <2>4. FilesIn(d)'
    <3>1. \A f \in File : (Named(d, f)' <=> Named(d, f)) /\ (Unsaved(d, f)' <=> Unsaved(d, f))
      BY <1>1 DEF Named, Unsaved
    <3>2. \A f \in File : Settled(d, f)' => Settled(d, f)
      BY <1>1, <2>1, <2>2, <2>3, <3>1, SettledStays
    <3> QED BY <1>1, <1>10, <2>1, <2>2, <3>2, FilesInKept
  <2>5. CASE d # e
    <3>1. AppliedSelf(d)' = AppliedSelf(d) /\ inodeObj'[d] = inodeObj[d]
      BY <1>8, <1>9, <2>1, <2>5 DEF AdvancedSelf
    <3>2. SelfIn(d)'
      BY <2>1, <2>2, <2>3, <3>1, SelfInKept
    <3> QED BY <2>4, <3>2
  <2>6. CASE d = e
    <3>1. PICK L : L = SelfLog(e)
      OBVIOUS
    <3>2. SelfLog(e)' = L /\ L[g] = txs[e][g].s_inode
      BY <1>1, <1>4, <3>1 DEF SelfLog, All
    <3>3. PICK S : S = AppliedSelf(e)
      OBVIOUS
    <3>4. /\ S \in SUBSET Nat /\ AppliedSelf(e)' = S \cup {g}
          /\ \A h \in S : h < g /\ L[h] = L[h]
      BY <1>1, <1>4, <1>8, <3>3, AppliedSelfIn DEF AdvancedSelf
    <3>5. /\ L[g] # None => Latest(L, S \cup {g}, L[g])
          /\ L[g] = None => (Silent(L, S \cup {g}) <=> Silent(L, S))
      BY <1>4, <3>4, LogTop
    <3>7. /\ \A u \in InodeType : Latest(L, S, u) => inodeObj[e] = u
          /\ e = Root /\ Silent(L, S) => inodeObj[e] = NewInode
      BY <2>2, <2>6, <3>1, <3>3 DEF SelfIn
    <3>8. ASSUME NEW u \in InodeType, Latest(L, S \cup {g}, u)
          PROVE  inodeObj'[e] = u
      <4>1. \/ L[g] = u /\ u # None
            \/ L[g] = None /\ Latest(L, S, u)
        BY <1>4, <3>4, <3>8, LogBelow
      <4> QED BY <1>9, <3>2, <3>7, <4>1
    <3>9. ASSUME e = Root, Silent(L, S \cup {g})
          PROVE  inodeObj'[e] = NewInode
      <4>1. L[g] = None
        BY <3>9 DEF Silent
      <4> QED BY <1>9, <3>2, <3>5, <3>7, <3>9, <4>1
    <3>10. SelfIn(e)'
      BY <3>2, <3>4, <3>8, <3>9 DEF SelfIn
    <3> QED BY <2>4, <2>6, <3>10
  <2> QED BY <2>5, <2>6
<1> QED BY <1>1, <1>11 DEF InodesPooled

(* The inode objects of files get the copies of the transaction: the       *)
(* newest there are of its own files, and none of a file that another      *)
(* directory names, unless it moved too early.                             *)
LEMMA SaveInodes ==
  ASSUME IInv, Order, FilesLogged, InodesPooled, NEW q \in Queue, SyncSave(q)
  PROVE  InodesPooled'
<1>1. /\ kpc[q] = "save" /\ kpc' = [kpc EXCEPT ![q] = "clear"]
      /\ inodeObj' = [i \in Ino |-> IF i \in File /\ JobTx(q).f_inodes[i] \notin {None, Null}
                                    THEN JobTx(q).f_inodes[i] ELSE inodeObj[i]]
      /\ UNCHANGED <<alive, txs, done, job>>
      /\ UNCHANGED <<mem, moved, todo, inode>>
  BY DEF SyncSave, memVars
<1>2. PICK e : e = job[q][1]
  OBVIOUS
<1>3. PICK g : g = job[q][2]
  OBVIOUS
<1>4. e \in Dir /\ g \in All(e) /\ g \in Nat /\ JobTx(q) = txs[e][g]
  BY <1>1, <1>2, <1>3, JobThere DEF JobTx, All
<1>5. PICK v : v = "clear"
  OBVIOUS
<1>6. Advanced(q, v, e, g)
  BY <1>1, <1>2, <1>3, <1>5, AppliedBy
<1>7. AdvancedSelf(q, e, g)
  BY <1>1, <1>2, <1>3, <1>5, AppliedSelfBy
<1>8. /\ \A f \in File : inodeObj'[f] = IF txs[e][g].f_inodes[f] \notin {None, Null}
                                        THEN txs[e][g].f_inodes[f] ELSE inodeObj[f]
      /\ \A d \in Dir : inodeObj'[d] = inodeObj[d]
  <2>1. \A d \in Dir : d \notin File /\ d \in Ino
    BY DistinctAssumption DEF Ino
  <2>2. \A f \in File : f \in Ino
    BY DEF Ino
  <2> QED BY <1>1, <1>4, <2>1, <2>2
<1>9. \A d \in Dir : All(d) \subseteq All(d)' /\ txs'[d] = txs[d]
  BY <1>1 DEF All
<1>10. ASSUME NEW d \in alive
       PROVE  SelfIn(d)'
  <2>1. d \in Dir /\ SelfIn(d)
    BY DEF IInv, TInv, TypeOK, InodesPooled
  <2>2. AppliedSelf(d)' = AppliedSelf(d)
    <3>1. g \in AppliedSelf(e)
      BY <1>1, <1>7 DEF AdvancedSelf
    <3> QED BY <1>7, <2>1, <3>1 DEF AdvancedSelf
  <2> QED BY <1>8, <1>9, <2>1, <2>2, SelfInKept
<1>s. \A d \in Dir : \A f \in File :
        /\ Named(d, f)' <=> Named(d, f)
        /\ Unsaved(d, f)' <=> Unsaved(d, f)
        /\ FileLog(d, f)' = FileLog(d, f) /\ All(d)' = All(d)
  BY <1>1 DEF Named, Unsaved, FileLog, All
<1>p. g \in Pending(e)
  <2>1. job[q] = <<e, g>>
    BY <1>2, <1>3 DEF IInv, TInv, TypeOK
  <2>2. QueueOf[e] = q
    BY <1>1, <1>2, <1>3, JobThere
  <2>3. AtWork(e, g)
    BY <1>1, <2>1, <2>2 DEF AtWork
  <2>4. g \notin done[e]
    BY <1>4, <2>3, OldestFirst
  <2> QED BY <1>4, <2>4 DEF Pending, All
<1>11. ASSUME NEW d \in alive, d # e
       PROVE  FilesIn(d)'
  <2>1. d \in Dir /\ FilesIn(d) /\ Applied(d)' = Applied(d)
    BY <1>6, <1>11 DEF IInv, TInv, TypeOK, InodesPooled, Advanced
  <2> SUFFICES ASSUME NEW f \in File, Settled(d, f)'
               PROVE  inodeObj'[f] = inode[f]
    BY <1>1 DEF FilesIn
  <2>2. Settled(d, f)
    BY <1>1, <1>9, <1>s, <2>1, SettledStays
  <2>3. inodeObj[f] = inode[f]
    BY <2>1, <2>2 DEF FilesIn
  <2>4. ~Bound(e, f)
    BY <1>4, <1>11, <2>1, <2>2 DEF FilesLogged, OneHome, Settled
  <2>5. txs[e][g].f_inodes[f] \in {None, Null}
    BY <1>p, <2>4 DEF Bound, Carries
  <2> QED BY <1>8, <2>3, <2>5
<1>12. ASSUME e \in alive
       PROVE  FilesIn(e)'
  <2>1. PICK S : S = Applied(e)
    OBVIOUS
  <2>2. /\ FilesIn(e) /\ Applied(e)' = S \cup {g} /\ \A h \in S : h < g
        /\ S \in SUBSET Nat
    BY <1>4, <1>5, <1>6, <1>12, <2>1, AppliedIn DEF InodesPooled, Advanced
  <2> SUFFICES ASSUME NEW f \in File, Settled(e, f)'
               PROVE  inodeObj'[f] = inode[f]
    BY <1>1 DEF FilesIn
  <2>3. PICK L : L = FileLog(e, f)
    OBVIOUS
  <2>4. L[g] = txs[e][g].f_inodes[f] /\ \A h \in All(e) \ (S \cup {g}) : L[h] = None
    <3>1. L[g] = txs[e][g].f_inodes[f]
      BY <1>4, <2>3 DEF FileLog
    <3>2. Silent(FileLog(e, f)', All(e)' \ (S \cup {g}))
      BY <2>2 DEF Settled
    <3>3. Silent(L, All(e) \ (S \cup {g}))
      BY <1>4, <1>s, <2>3, <3>2
    <3> QED BY <3>1, <3>3 DEF Silent
  <2>5. Named(e, f) /\ ~Unsaved(e, f) /\ f \notin moved
    BY <1>1, <1>4, <1>s DEF Settled
  <2>6. CASE L[g] = None
    <3>1. Silent(L, All(e) \ S)
      BY <2>4, <2>6 DEF Silent
    <3>2. Settled(e, f)
      BY <2>1, <2>3, <2>5, <3>1 DEF Settled
    <3>3. inodeObj[f] = inode[f]
      BY <2>2, <3>2 DEF FilesIn
    <3> QED BY <1>8, <2>4, <2>6, <3>3
  <2>7. CASE L[g] # None
    <3>1. Latest(L, All(e), inode[f])
      BY <1>4, <2>3, <2>5 DEF FilesLogged, FileLogged
    <3>2. PICK k \in All(e) : /\ L[k] = inode[f] /\ inode[f] # None
                              /\ \A h \in All(e) : h > k => L[h] = None
      BY <3>1 DEF Latest
    <3>3. k \in S \cup {g}
      BY <2>4, <3>2
    <3>4. k = g
      <4>1. k \in S => g > k
        BY <1>4, <2>2
      <4> QED BY <1>4, <2>7, <3>2, <3>3, <4>1
    <3>5. inode[f] \notin {None, Null}
      <4>1. inode[f] \in InodeType
        BY DEF IInv, TInv, TypeOK, Ino
      <4> QED BY <4>1, NoneAssumption
    <3>6. txs[e][g].f_inodes[f] = inode[f]
      BY <2>4, <3>2, <3>4
    <3> QED BY <1>8, <3>5, <3>6
  <2> QED BY <2>6, <2>7
<1> QED BY <1>1, <1>10, <1>11, <1>12 DEF InodesPooled

(* At first the root has the inode it was made with, and nothing else is   *)
(* there.                                                                  *)
LEMMA InitInodes == Init => SelvesLogged /\ InodesPooled
<1> SUFFICES ASSUME Init PROVE SelvesLogged /\ InodesPooled
  OBVIOUS
<1>1. /\ \A w \in Worker : todo[w] = <<>> /\ held[w] = 0
      /\ \A d \in Dir : txs[d] = <<>> /\ done[d] = {}
      /\ used = {Root} /\ alive = {Root}
  BY DEF Init
<1>2. inode[Root] = NewInode /\ inodeObj[Root] = NewInode
  BY RootAssumption DEF Init, Ino
<1>3. All(Root) = {} /\ Applied(Root) = {} /\ AppliedSelf(Root) = {}
  BY <1>1, RootAssumption DEF All, Applied, AppliedSelf
<1>4. SelfLogged(Root)
  <2>1. SelfIs(Root, inode[Root])
    BY <1>2, <1>3 DEF SelfIs, Silent
  <2> QED BY <1>1, <2>1 DEF SelfLogged
<1>5. SelvesLogged
  BY <1>1, <1>4 DEF SelvesLogged, SelfNothingNewer
<1>6. FilesIn(Root) /\ SelfIn(Root)
  <2>1. \A n \in Name : mem[Root][n] = None
    BY RootAssumption DEF Init, NoNames
  <2>2. \A f \in File : ~Named(Root, f)
    BY <2>1, DistinctAssumption DEF Named, Ino
  <2>3. FilesIn(Root)
    BY <2>2 DEF FilesIn, Settled
  <2> QED BY <1>2, <1>3, <2>3 DEF SelfIn, Latest
<1>7. InodesPooled
  BY <1>1, <1>6 DEF InodesPooled
<1> QED BY <1>5, <1>7

(* A process that has not thrown has its inodes in the journal, and what   *)
(* the journal has applied in the pool.                                    *)
Inodes == Running => SelvesLogged /\ InodesPooled

(* Steps that leave memory, the transactions and the inode objects alone.  *)
LEMMA QuietInodes ==
  ASSUME IInv, Order, FilesLogged', Known, SelvesLogged, InodesPooled,
         UNCHANGED <<todo, used, mem, moved, inode, alive, done, kpc, job, inodeObj>>,
         \A w \in Worker : held'[w] \in {held[w], 0}, InodesStand
  PROVE  SelvesLogged' /\ InodesPooled'
<1>1. SelvesLogged'
  BY SelvesKept DEF InodesStand
<1>2. \A d \in Dir : All(d) \subseteq All(d)'
  BY DEF InodesStand, All
<1>3. \A d \in Dir : /\ Applied(d)' = Applied(d) /\ AppliedSelf(d)' = AppliedSelf(d)
                     /\ All(d) \subseteq All(d)'
                     /\ \A g \in All(d) : txs[d][g].committed =>
                          txs'[d][g].s_inode = txs[d][g].s_inode
  BY <1>2, AppliedStays DEF InodesStand
<1>4. \A d \in alive' : d \in Dir /\ d \in alive
  BY DEF IInv, TInv, TypeOK
<1>f. ASSUME NEW d \in alive, NEW f \in File, Settled(d, f)'
      PROVE  Settled(d, f) /\ inode'[f] = inode[f]
  <2>1. d \in Dir /\ (Named(d, f)' <=> Named(d, f)) /\ (Unsaved(d, f)' <=> Unsaved(d, f))
    BY DEF IInv, TInv, TypeOK, Named, Unsaved
  <2>2. \A g \in All(d) \ Applied(d) : txs'[d][g].f_inodes = txs[d][g].f_inodes
    BY <2>1 DEF InodesStand
  <2> QED BY <1>3, <1>f, <2>1, <2>2, SettledStays
<1>5. InodesPooled'
  BY <1>3, <1>4, <1>f, InodesPooledKept DEF SelvesLogged
<1> QED BY <1>1, <1>5

(* An operation begins, and a caller gets a transaction.                   *)
LEMMA StartsInodes ==
  ASSUME IInv, IInv', Order, Logged, FilesLogged', Known, SelvesLogged, InodesPooled,
         NEW w \in Worker, Starts(w), FileStarts(w), HomeStarts(w), SelfStarts(w),
         UNCHANGED <<held, txs, done, kpc, job, inodeObj>>
  PROVE  SelvesLogged' /\ InodesPooled'
<1>1. SelvesLogged'
  BY StartsSelves
<1>2. \A d \in Dir : All(d)' = All(d)
  BY DEF All
<1>3. \A d \in Dir : /\ Applied(d)' = Applied(d) /\ AppliedSelf(d)' = AppliedSelf(d)
                     /\ All(d) \subseteq All(d)'
                     /\ \A g \in All(d) : txs[d][g].committed =>
                          txs'[d][g].s_inode = txs[d][g].s_inode
  BY <1>2, AppliedStays
<1>4. \A d \in alive' : d \in Dir /\ (d \in alive \/ d \notin used)
  BY DEF IInv, TInv, TypeOK, Starts
<1>f. ASSUME NEW d \in alive, NEW f \in File, Settled(d, f)'
      PROVE  Settled(d, f) /\ inode'[f] = inode[f]
  <2>1. d \in Dir /\ moved \subseteq moved'
    BY DEF IInv, TInv, TypeOK, HomeStarts
  <2>2. \A k \in 1 .. Len(todo'[w]) : ~OfFile(todo'[w][k], d, f)
    BY <1>f DEF Settled, Unsaved
  <2>3. ~Mentions(w, d, f)
    BY <2>2 DEF Mentions
  <2>4. Named(d, f)' = Named(d, f) /\ (Named(d, f) => inode'[f] = inode[f])
    BY <2>1, <2>3 DEF FileStarts
  <2>5. ASSUME Unsaved(d, f)
        PROVE  Unsaved(d, f)'
    <3>1. PICK i \in Worker : \E k \in 1 .. Len(todo[i]) : OfFile(todo[i][k], d, f)
      BY <2>5 DEF Unsaved
    <3>2. i # w
      BY <3>1 DEF Starts
    <3>3. todo'[i] = todo[i]
      BY <3>2 DEF Starts
    <3> QED BY <3>1, <3>3 DEF Unsaved
  <2>6. \A g \in All(d) \ Applied(d) : txs'[d][g].f_inodes[f] = txs[d][g].f_inodes[f]
    OBVIOUS
  <2>7. Settled(d, f)
    BY <1>3, <1>f, <2>1, <2>4, <2>5, <2>6, SettledStays
  <2> QED BY <2>4, <2>7 DEF Settled
<1>5. InodesPooled'
  BY <1>3, <1>4, <1>f, InodesPooledKept DEF SelvesLogged
<1> QED BY <1>1, <1>5

LEMMA GetEntryInodes ==
  ASSUME IInv, Order, FilesLogged', Known, SelvesLogged, InodesPooled,
         NEW w \in Worker, GetEntry(w)
  PROVE  SelvesLogged' /\ InodesPooled'
<1>1. SelvesLogged'
  BY GetEntrySelves
<1>2. UNCHANGED <<mem, moved, todo, inode, used, alive, done, kpc, job, inodeObj>>
  BY DEF GetEntry, cpVars, poolVars
<1>3. \A d \in Dir : /\ All(d) \subseteq All(d)'
                     /\ \A g \in All(d) : txs'[d][g] = txs[d][g]
  BY GetEntryForm
<1>4. \A d \in Dir : /\ Applied(d)' = Applied(d) /\ AppliedSelf(d)' = AppliedSelf(d)
                     /\ All(d) \subseteq All(d)'
                     /\ \A g \in All(d) : txs[d][g].committed =>
                          txs'[d][g].s_inode = txs[d][g].s_inode
  BY <1>2, <1>3, AppliedStays
<1>5. \A d \in alive' : d \in Dir /\ d \in alive
  BY <1>2 DEF IInv, TInv, TypeOK
<1>f. ASSUME NEW d \in alive, NEW f \in File, Settled(d, f)'
      PROVE  Settled(d, f) /\ inode'[f] = inode[f]
  <2>1. d \in Dir /\ (Named(d, f)' <=> Named(d, f)) /\ (Unsaved(d, f)' <=> Unsaved(d, f))
    BY <1>2 DEF IInv, TInv, TypeOK, Named, Unsaved
  <2>2. Settled(d, f)
    BY <1>2, <1>3, <1>4, <1>f, <2>1, SettledStays
  <2> QED BY <1>2, <2>2
<1>6. InodesPooled'
  BY <1>2, <1>4, <1>5, <1>f, InodesPooledKept DEF SelvesLogged
<1> QED BY <1>1, <1>6

(* A call that is recorded takes none from the calls about other files.    *)
LEMMA UnsavedStays ==
  ASSUME IInv, NEW w \in Worker, Record(w), Running', NEW c, c = Head(todo[w]),
         NEW d \in Dir, NEW f \in File, ~OfFile(c, d, f), Unsaved(d, f)
  PROVE  Unsaved(d, f)'
<1>1. PICK g : g = held[w]
  OBVIOUS
<1>2. /\ c = todo[w][1] /\ todo'[w] = Tail(todo[w]) /\ todo[w] # <<>>
      /\ \A i \in Worker : i # w => todo'[i] = todo[i]
  BY <1>1, RecordForm
<1>3. PICK i \in Worker : \E k \in 1 .. Len(todo[i]) : OfFile(todo[i][k], d, f)
  BY DEF Unsaved
<1>4. PICK k \in 1 .. Len(todo[i]) : OfFile(todo[i][k], d, f)
  BY <1>3
<1>5. CASE i # w
  BY <1>2, <1>4, <1>5 DEF Unsaved
<1>6. CASE i = w
  <2>1. k # 1 /\ todo[w] \in Seq(CallType)
    BY <1>2, <1>4, <1>6 DEF IInv, TInv, TypeOK
  <2>2. k - 1 \in 1 .. Len(todo'[w]) /\ todo'[w][k - 1] = todo[w][k]
    BY <1>2, <1>4, <1>6, <2>1
  <2> QED BY <1>4, <1>6, <2>2 DEF Unsaved
<1> QED BY <1>5, <1>6

(* A call writes to an open transaction, which nobody has applied.         *)
LEMMA RecordInodes ==
  ASSUME IInv, Order, Logged, Pooled, FilesLogged, FilesLogged', SelvesLogged, InodesPooled,
         NEW w \in Worker, Record(w), Running'
  PROVE  SelvesLogged' /\ InodesPooled'
<1>1. SelvesLogged'
  BY RecordSelves DEF Pooled
<1>2. PICK c : c = Head(todo[w])
  OBVIOUS
<1>3. PICK g : g = held[w]
  OBVIOUS
<1>4. /\ ~txs[c.dir][g].committed
      /\ \A d \in Dir : /\ Len(txs'[d]) = Len(txs[d])
                        /\ \A h \in All(d) : d # c.dir \/ h # g => txs'[d][h] = txs[d][h]
  BY <1>2, <1>3, RecordForm
<1>5. UNCHANGED <<mem, moved, inode, used, alive, done, kpc, job, inodeObj>>
  <2>1. UNCHANGED <<mem, inode, used, alive, ops, moved, open, done, commitVars, queue, cpVars,
                    stopped, failed, poolVars>>
    BY <1>2, <1>3, RecordForm
  <2> QED BY <2>1 DEF cpVars, poolVars
<1>6. \A d \in Dir : All(d)' = All(d)
  BY <1>4 DEF All
<1>7. \A d \in Dir : \A h \in All(d) : txs[d][h].committed => txs'[d][h] = txs[d][h]
  BY <1>4
<1>8. \A d \in Dir : /\ Applied(d)' = Applied(d) /\ AppliedSelf(d)' = AppliedSelf(d)
                     /\ All(d) \subseteq All(d)'
                     /\ \A h \in All(d) : txs[d][h].committed =>
                          txs'[d][h].s_inode = txs[d][h].s_inode
  BY <1>5, <1>6, <1>7, AppliedStays
<1>9. \A d \in alive' : d \in Dir /\ d \in alive
  BY <1>5 DEF IInv, TInv, TypeOK
<1>f. ASSUME NEW d \in alive, NEW f \in File, Settled(d, f)'
      PROVE  Settled(d, f) /\ inode'[f] = inode[f]
  <2>1. d \in Dir /\ (Named(d, f)' <=> Named(d, f))
    BY <1>5 DEF IInv, TInv, TypeOK, Named
  <2>2. /\ \A h \in All(d) : d # c.dir \/ h # g \/ ~OfFile(c, d, f) =>
             txs'[d][h].f_inodes[f] = txs[d][h].f_inodes[f]
        /\ OfFile(c, d, f) => txs'[d][g].f_inodes[f] =
                                IF c.fn = "rmreg" THEN Null ELSE inode[f]
    BY <1>2, <1>3, <2>1, RecordWord
  <2>3. ~OfFile(c, d, f)
    <3> SUFFICES ASSUME OfFile(c, d, f)
                 PROVE  FALSE
      OBVIOUS
    <3>1. g \in All(d) /\ ~txs[d][g].committed
      BY <1>2, <1>3, <1>4, RecordForm DEF OfFile
    <3>2. g \in All(d)' \ Applied(d)'
      BY <1>8, <2>1, <3>1, AppliedIn
    <3>3. FileLog(d, f)'[g] = None
      BY <1>f, <3>2 DEF Settled, Silent
    <3>4. txs'[d][g].f_inodes[f] = None
      BY <3>2, <3>3 DEF FileLog
    <3>5. inode[f] \in InodeType
      BY DEF IInv, TInv, TypeOK, Ino
    <3> QED BY <2>2, <3>4, <3>5, NoneAssumption
  <2>4. Unsaved(d, f) => Unsaved(d, f)'
    BY <1>2, <2>1, <2>3, UnsavedStays
  <2>5. \A h \in All(d) \ Applied(d) : txs'[d][h].f_inodes[f] = txs[d][h].f_inodes[f]
    BY <2>2, <2>3
  <2>6. Settled(d, f)
    BY <1>5, <1>8, <1>f, <2>1, <2>4, <2>5, SettledStays
  <2> QED BY <1>5, <2>6
<1>10. InodesPooled'
  BY <1>5, <1>8, <1>9, <1>f, InodesPooledKept DEF SelvesLogged, Pooled
<1> QED BY <1>1, <1>10

(* The checkpoint threads change neither memory nor the transactions.      *)
LEMMA CheckpointInodes ==
  ASSUME IInv, Order, Pooled, FilesLogged, FilesLogged', SelvesLogged, InodesPooled,
         NEW q \in Queue, CheckpointStep(q)
  PROVE  SelvesLogged' /\ InodesPooled'
<1>1. UNCHANGED <<mem, moved, todo, used, inode, alive, txs, held>>
  BY DEF CheckpointStep, Dispatch, SyncRemoved, SyncLoad, SyncSave, Clear, memVars
<1>2. SelvesLogged'
  BY <1>1, SelvesKept
<1>3. ASSUME Dispatch(q) \/ Clear(q)
      PROVE  InodesPooled'
  <2>1. inodeObj' = inodeObj
    BY <1>3 DEF Dispatch, Clear, poolVars
  <2>2. \A d \in Dir : Applied(d)' = Applied(d) /\ AppliedSelf(d)' = AppliedSelf(d)
    BY <1>3, DispatchApplied, ClearApplied
  <2>3. \A d \in Dir : /\ Applied(d)' = Applied(d) /\ AppliedSelf(d)' = AppliedSelf(d)
                       /\ All(d) \subseteq All(d)'
                       /\ \A g \in All(d) : txs[d][g].committed =>
                            txs'[d][g].s_inode = txs[d][g].s_inode
    BY <1>1, <2>2 DEF All
  <2>4. \A d \in alive' : d \in Dir /\ d \in alive
    BY <1>1 DEF IInv, TInv, TypeOK
  <2>5. ASSUME NEW d \in alive, NEW f \in File, Settled(d, f)'
        PROVE  Settled(d, f) /\ inode'[f] = inode[f]
    <3>1. d \in Dir /\ (Named(d, f)' <=> Named(d, f)) /\ (Unsaved(d, f)' <=> Unsaved(d, f))
      BY <1>1 DEF IInv, TInv, TypeOK, Named, Unsaved
    <3>2. Settled(d, f)
      BY <1>1, <2>3, <2>5, <3>1, SettledStays
    <3> QED BY <1>1, <3>2
  <2> QED BY <2>1, <2>3, <2>4, <2>5, InodesPooledKept DEF SelvesLogged, Pooled
<1>4. InodesPooled'
  BY <1>3, RemovedInodes, LoadInodes, SaveInodes DEF CheckpointStep
<1> QED BY <1>2, <1>4

LEMMA NextInodes ==
  ASSUME IInv, IInv', Order, Names, Files, Inodes, [Next]_vars
  PROVE  Inodes'
<1> SUFFICES ASSUME Running' PROVE SelvesLogged' /\ InodesPooled'
  BY DEF Inodes
<1>1. Running
  BY StepsRun DEF vars, Running
<1>F. FilesLogged'
  BY NextFiles DEF Files
<1>2. Logged /\ Pooled /\ Known /\ FilesLogged /\ SelvesLogged /\ InodesPooled
  BY <1>1 DEF Names, Files, Inodes, Pooled
<1>3. CASE UNCHANGED vars
  <2>1. UNCHANGED <<todo, used, mem, moved, inode, alive, done, kpc, job, inodeObj, txs, held>>
    BY <1>3 DEF vars, memVars, cpVars, poolVars
  <2> QED BY <1>2, <1>F, <2>1, QuietInodes DEF InodesStand
<1>4. ASSUME NEW w \in Worker, Operation(w)
      PROVE  SelvesLogged' /\ InodesPooled'
  <2>1. Starts(w) /\ FileStarts(w) /\ HomeStarts(w) /\ SelfStarts(w)
    BY <1>2, <1>4, OperationStarts, OperationFiles, OperationSelves
  <2>2. UNCHANGED <<held, txs, done, kpc, job, inodeObj>>
    BY <1>4, BeginQuiet DEF cpVars, poolVars
  <2> QED BY <1>2, <1>F, <2>1, <2>2, StartsInodes
<1>5. ASSUME NEW w \in Worker, GetEntry(w)
      PROVE  SelvesLogged' /\ InodesPooled'
  BY <1>2, <1>F, <1>5, GetEntryInodes
<1>6. ASSUME NEW w \in Worker, Retry(w)
      PROVE  SelvesLogged' /\ InodesPooled'
  <2>1. UNCHANGED <<todo, used, mem, moved, inode, alive, done, kpc, job, inodeObj, txs>>
    BY <1>6 DEF Retry, cpVars, poolVars
  <2>2. \A i \in Worker : held'[i] \in {held[i], 0}
    BY <1>6 DEF Retry, IInv, TInv, TypeOK
  <2> QED BY <1>2, <1>F, <2>1, <2>2, QuietInodes DEF InodesStand
<1>7. ASSUME NEW w \in Worker, Record(w)
      PROVE  SelvesLogged' /\ InodesPooled'
  BY <1>2, <1>F, <1>7, RecordInodes
<1>8. ASSUME ReplaceMap \/ Issue \/ Leave \/ RaiseStop
      PROVE  SelvesLogged' /\ InodesPooled'
  <2>1. UNCHANGED <<todo, used, mem, moved, inode, alive, done, kpc, job, inodeObj, txs, held>>
    BY <1>8 DEF ReplaceMap, Issue, Leave, RaiseStop, memVars, cpVars, poolVars
  <2> QED BY <1>2, <1>F, <2>1, QuietInodes DEF InodesStand
<1>9. ASSUME NEW d \in Dir, Commit(d)
      PROVE  SelvesLogged' /\ InodesPooled'
  <2>1. UNCHANGED <<todo, used, mem, moved, inode, alive, done, kpc, job, inodeObj, held>>
    BY <1>9 DEF Commit, memVars, cpVars
  <2>2. InodesStand
    BY <1>9, CommitStands
  <2> QED BY <1>2, <1>F, <2>1, <2>2, QuietInodes
<1>10. ASSUME NEW q \in Queue, CheckpointStep(q)
       PROVE  SelvesLogged' /\ InodesPooled'
  BY <1>2, <1>F, <1>10, CheckpointInodes
<1> QED
  BY <1>3, <1>4, <1>5, <1>6, <1>7, <1>8, <1>9, <1>10 DEF Next, JournalStep, CommitStep

LEMMA InodesInductive == Spec => [](IInv /\ Order /\ Names /\ Files /\ Inodes)
<1>1. Init => IInv /\ Order /\ Names /\ Files /\ Inodes
  BY InitInv, InitOrder, InitNames, InitFiles, InitInodes DEF Names, Files, Inodes
<1>2. IInv /\ Order /\ Names /\ Files /\ Inodes /\ [Next]_vars
        => (IInv /\ Order /\ Names /\ Files /\ Inodes)'
  BY StepInv, NextOrder, NextNames, NextFiles, NextInodes
<1> QED BY <1>1, <1>2, PTL DEF Spec

(* What the pool would say once all transactions are checkpointed is the   *)
(* latest word: that of the newest one left, or of those already applied.  *)
FutureWord(L, S, A, R, v) ==
  IF R # {} THEN Newest(R) \in S /\ L[Newest(R)] = v ELSE Latest(L, A, v)

LEMMA FutureLatest ==
  ASSUME NEW L, NEW S \in SUBSET Nat, NEW A, NEW D, D \subseteq A, A \subseteq S,
         \A g \in S \ D, h \in D : h < g,
         NEW v, Latest(L, S, v), NEW R, R = {g \in S \ D : L[g] # None}
  PROVE  FutureWord(L, S, A, R, v)
<1>1. Latest(L, S \ D, v) \/ (Silent(L, S \ D) /\ Latest(L, D, v))
  BY LogSplit
<1>2. CASE Latest(L, S \ D, v)
  BY <1>2, NewestIs DEF FutureWord
<1>3. CASE Silent(L, S \ D) /\ Latest(L, D, v)
  <2>1. R = {}
    BY <1>3 DEF Silent
  <2>2. \A g \in A : g \notin D => L[g] = None
    BY <1>3 DEF Silent
  <2>3. Latest(L, A, v)
    BY <1>3, <2>2 DEF Latest
  <2> QED BY <2>1, <2>3 DEF FutureWord
<1> QED BY <1>1, <1>2, <1>3

LEMMA FutureSelf ==
  ASSUME IInv, Order, NEW d \in Dir, SelfIn(d), NEW v \in InodeType, SelfIs(d, v)
  PROVE  FutureDirInode(d) = v
<1>1. PICK L : L = SelfLog(d)
  OBVIOUS
<1>2. All(d) \in SUBSET Nat /\ \A g \in All(d) : L[g] = txs[d][g].s_inode
  BY <1>1 DEF All, SelfLog
<1>3. PICK A : A = AppliedSelf(d)
  OBVIOUS
<1>4. done[d] \subseteq A /\ A \subseteq All(d)
  BY <1>3, AppliedSelfIn
<1>5. PICK R : R = {g \in All(d) \ done[d] : L[g] # None}
  OBVIOUS
<1>6. FutureDirInode(d) = IF R # {} THEN txs[d][Newest(R)].s_inode ELSE inodeObj[d]
  <2>1. R = {g \in Pending(d) : txs[d][g].s_inode # None}
    BY <1>2, <1>5 DEF Pending, All
  <2> QED BY <2>1 DEF FutureDirInode
<1>7. CASE Silent(L, All(d)) /\ d = Root /\ v = NewInode
  <2>1. R = {} /\ Silent(L, A)
    BY <1>4, <1>5, <1>7 DEF Silent
  <2> QED BY <1>1, <1>3, <1>6, <1>7, <2>1 DEF SelfIn
<1>8. CASE Latest(L, All(d), v)
  <2>1. \A g \in All(d) \ done[d], h \in done[d] : h < g
    BY OldestFirst
  <2>2. FutureWord(L, All(d), A, R, v)
    BY <1>2, <1>4, <1>5, <1>8, <2>1, FutureLatest
  <2>3. Latest(L, A, v) => inodeObj[d] = v
    BY <1>1, <1>3 DEF SelfIn
  <2> QED BY <1>2, <1>6, <2>2, <2>3 DEF FutureWord
<1> QED BY <1>1, <1>7, <1>8 DEF SelfIs

LEMMA FutureFile ==
  ASSUME IInv, Order, NEW d \in Dir, FilesIn(d), NEW f \in File,
         Named(d, f), f \notin moved, ~Unsaved(d, f),
         NEW v \in InodeType, v = inode[f], Latest(FileLog(d, f), All(d), v)
  PROVE  FutureFileInode(d, f) = v
<1>1. PICK L : L = FileLog(d, f)
  OBVIOUS
<1>2. All(d) \in SUBSET Nat /\ \A g \in All(d) : L[g] = txs[d][g].f_inodes[f]
  BY <1>1 DEF All, FileLog
<1>3. PICK A : A = Applied(d)
  OBVIOUS
<1>4. done[d] \subseteq A /\ A \subseteq All(d)
  BY <1>3, AppliedIn DEF Applied
<1>5. PICK R : R = {g \in All(d) \ done[d] : L[g] # None}
  OBVIOUS
<1>6. FutureFileInode(d, f) = IF R # {} THEN txs[d][Newest(R)].f_inodes[f] ELSE inodeObj[f]
  <2>1. R = {g \in Pending(d) : txs[d][g].f_inodes[f] # None}
    BY <1>2, <1>5 DEF Pending, All
  <2> QED BY <2>1 DEF FutureFileInode
<1>7. \A g \in All(d) \ done[d], h \in done[d] : h < g
  BY OldestFirst
<1>8. FutureWord(L, All(d), A, R, v)
  BY <1>1, <1>2, <1>4, <1>5, <1>7, FutureLatest
<1>9. CASE R = {}
  <2>1. Silent(L, All(d) \ A)
    BY <1>4, <1>5, <1>9 DEF Silent
  <2>2. Settled(d, f)
    BY <1>1, <1>3, <2>1 DEF Settled
  <2> QED BY <1>6, <1>9, <2>2 DEF FilesIn
<1>10. CASE R # {}
  BY <1>2, <1>6, <1>8, <1>10 DEF FutureWord
<1> QED BY <1>9, <1>10

(***************************************************************************)
(* No change of an inode is lost or overtaken either: whenever no          *)
(* operation has the directory (or the file) in its hands, what tx_mkself, *)
(* tx_chself, tx_mkreg and tx_chreg have put into the transactions, with   *)
(* the times the other calls put into the copy of the directory, leads     *)
(* transaction::sync to write the inode the leader has in memory.  A file  *)
(* is left out for good once it has moved to another directory while a     *)
(* transaction of the one it left still had its inode to write.            *)
(***************************************************************************)
THEOREM InodesAreKept == Spec => []InodesKept
<1>1. IInv /\ Order /\ Names /\ Files /\ Inodes => InodesKept
  <2> SUFFICES ASSUME IInv, Order, Logged, FilesLogged, SelvesLogged, InodesPooled,
                      NEW d \in alive, lock[d] = None
               PROVE  /\ FutureDirInode(d) = inode[d]
                      /\ \A n \in Name : mem[d][n] \in File \ moved /\ lock[mem[d][n]] = None =>
                           FutureFileInode(d, mem[d][n]) = inode[mem[d][n]]
    BY DEF InodesKept, Names, Files, Inodes
  <2>1. d \in Dir /\ inode \in [Ino -> InodeType] /\ None \notin Worker
    BY DistinctAssumption DEF IInv, TInv, TypeOK
  <2>2. FilesIn(d) /\ SelfIn(d) /\ SelfLogged(d)
    BY DEF InodesPooled, SelvesLogged
  <2>3. \A w \in Worker : \A k \in 1 .. Len(todo[w]) :
          todo[w][k].dir = d => ~SelfCall(todo[w][k])
    BY <2>1 DEF Logged, Locked
  <2>4. PICK v \in InodeType : v = inode[d]
    BY <2>1 DEF Ino
  <2>5. SelfIs(d, v)
    <3>1. ~SelfUnsaved(d)
      BY <2>3 DEF SelfUnsaved, OfSelf
    <3> QED BY <2>2, <2>4, <3>1 DEF SelfLogged
  <2>6. FutureDirInode(d) = v
    BY <2>1, <2>2, <2>5, FutureSelf
  <2>7. ASSUME NEW n \in Name, mem[d][n] \in File \ moved, lock[mem[d][n]] = None
        PROVE  FutureFileInode(d, mem[d][n]) = inode[mem[d][n]]
    <3>1. PICK f \in File : f = mem[d][n]
      BY <2>7
    <3>2. Named(d, f)
      BY <3>1 DEF Named
    <3>3. ~Unsaved(d, f)
      <4> SUFFICES ASSUME NEW w \in Worker, NEW k \in 1 .. Len(todo[w]), OfFile(todo[w][k], d, f)
                   PROVE  FALSE
        BY DEF Unsaved
      <4>1. todo[w][k].fn = "chreg"
        BY <2>3 DEF OfFile, SelfCall
      <4>2. lock[f] = w
        BY <4>1 DEF FilesLogged, FileLocked, OfFile
      <4> QED BY <2>1, <2>7, <3>1, <4>2
    <3>4. PICK u \in InodeType : u = inode[f]
      BY <2>1 DEF Ino
    <3>5. Latest(FileLog(d, f), All(d), u)
      BY <2>1, <3>2, <3>3, <3>4 DEF FilesLogged, FileLogged
    <3>6. FutureFileInode(d, f) = u
      BY <2>1, <2>2, <2>7, <3>1, <3>2, <3>3, <3>4, <3>5, FutureFile
    <3> QED BY <3>1, <3>4, <3>6
  <2> QED BY <2>4, <2>6, <2>7
<1> QED BY <1>1, InodesInductive, PTL

==============================================================================
