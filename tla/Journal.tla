------------------------------- MODULE Journal -------------------------------
(***************************************************************************)
(* The metadata journal of a client (src/client/journal).                  *)
(*                                                                         *)
(* A leader changes its directories in memory and records every change in  *)
(* the open transaction of the directory.  The commit thread takes all     *)
(* open transactions at once, seals each, writes it to the directory's     *)
(* journal object and hands it to one of several checkpoint threads, which *)
(* apply it to the directory's objects in the metadata pool.               *)
(*                                                                         *)
(* The callers (src/client/fs_ops/local_ops.cpp) hold the mutex of the     *)
(* directory, or of the inode, they change until it is journaled; the      *)
(* kernel's locks keep the local operations on a directory apart, from the *)
(* lookup of a name to the end of the operation, and those on a file a     *)
(* rename moves.  `lock' stands for both.                                  *)
(***************************************************************************)
EXTENDS Integers, Sequences, FiniteSets

CONSTANTS
  Dir,         \* inode numbers of directories
  File,        \* inode numbers of regular files
  Root,        \* the root directory, the only one there is at first
  Name,        \* names of directory entries
  Worker,      \* threads that serve file system operations
  Queue,       \* NUM_CP_THREAD queues, with one checkpoint thread each
  QueueOf,     \* the queue a directory's inode number hashes to
  None,        \* no entry, no inode, no object, no worker
  Null,        \* the null pointer that marks a deleted file in f_inodes
  Stop,        \* the nullptr that ends a checkpoint thread
  MaxOps,      \* bound on the number of operations
  MaxRetries   \* bound on how often the commit thread overtakes one call

ASSUME RootAssumption == Root \in Dir
ASSUME QueueAssumption == QueueOf \in [Dir -> Queue]
ASSUME StopAssumption == Stop \notin Dir \X Nat
ASSUME BoundsAssumption == MaxOps \in Nat /\ MaxRetries \in Nat

Ino == Dir \cup File

(* An inode number is a directory's or a file's, and None is none of what  *)
(* it stands beside.                                                       *)
ASSUME DistinctAssumption ==
  Dir \cap File = {} /\ None \notin Name \cup Ino \cup Worker

VARIABLES
  (* the leader's memory *)
  mem,         \* the dentry table of each directory: name to inode number
  inode,       \* each inode: attributes and times, as counters of changes
  used,        \* inode numbers given out (they are never given out again)
  alive,       \* directories that have a dentry table
  lock,        \* who holds the mutex of each directory or file
  todo,        \* the journal calls each worker still has to make
  held,        \* the transaction get_entry returned to it, 0 for none
  tries,       \* how often it has called get_entry for this call
  ops,         \* number of operations begun
  moved,       \* files that went to another directory while a transaction
               \* of the one they left had their inode still to checkpoint
  (* the journal *)
  open,        \* journal_table::map: the open transaction, 0 for none
  txs,         \* every transaction of each directory, oldest first
  done,        \* those that are checkpointed
  cpc, batch, cdir,     \* the commit thread: where it is, what it took,
                        \* the directory it is at
  queue,       \* the queues to the checkpoint threads
  kpc, job, buf,        \* the checkpoint threads: where each is, its
                        \* transaction, the dentries it has read
  stopped,     \* journal::stopped
  failed,      \* which exception that nobody catches was thrown, if any
  (* the metadata pool *)
  inodeObj, dentryObj, journalObj

memVars == <<mem, inode, used, alive, lock, todo, held, tries, ops,
             moved>>
commitVars == <<cpc, batch, cdir>>
cpVars == <<kpc, job, buf>>
poolVars == <<inodeObj, dentryObj, journalObj>>
vars == <<memVars, open, txs, done, commitVars, queue, cpVars, stopped, failed,
          poolVars>>

----------------------------------------------------------------------------
NoNames == [n \in Name |-> None]
NewInode == [attr |-> 1, time |-> 1]

(* transaction::transaction *)
NewTx == [committed |-> FALSE, status |-> "unchanged", s_inode |-> None,
          dentries |-> NoNames, f_inodes |-> [f \in File |-> None], offset |-> 0]

InodeType == [attr : Nat, time : Nat]
TxType == [committed : BOOLEAN, status : {"unchanged", "created", "deleted"},
           s_inode : InodeType \cup {None},
           dentries : [Name -> [alive : BOOLEAN, ino : Ino] \cup {None}],
           f_inodes : [File -> InodeType \cup {None, Null}], offset : Nat]
ASSUME NoneAssumption ==
  /\ None \notin InodeType \cup [alive : BOOLEAN, ino : Ino]
  /\ None \notin [Name -> Ino \cup {None}]
  /\ Null \notin InodeType \cup {None}
CallType == [fn : {"mkself", "rmself", "chself", "mkdir", "rmdir",
                   "mkreg", "rmreg", "chreg"},
             dir : Dir, name : Name \cup {None}, ino : Ino]

(***************************************************************************)
(* The types of the memory, the journal and the metadata pool.             *)
(***************************************************************************)
TypeOK ==
  /\ mem \in [Dir -> [Name -> Ino \cup {None}]]
  /\ inode \in [Ino -> InodeType]
  /\ used \subseteq Ino /\ alive \subseteq Dir
  /\ lock \in [Ino -> Worker \cup {None}]
  /\ todo \in [Worker -> Seq(CallType)]
  /\ held \in [Worker -> Nat] /\ tries \in [Worker -> Nat]
  /\ ops \in Nat /\ moved \subseteq File
  /\ open \in [Dir -> Nat]
  /\ txs \in [Dir -> Seq(TxType)]
  /\ done \in [Dir -> SUBSET Nat]
  /\ cpc \in {"loop", "issue", "exit"}
  /\ batch \in [Dir -> Nat]
  /\ cdir \in Dir
  /\ queue \in [Queue -> Seq((Dir \X Nat) \cup {Stop})]
  /\ kpc \in [Queue -> {"idle", "load", "save", "clear", "exit"}]
  /\ job \in [Queue -> Dir \X Nat]
  /\ buf \in [Queue -> [Name -> Ino \cup {None}]]
  /\ stopped \in BOOLEAN /\ failed \in {"no", "logic_error", "corrupted"}
  /\ inodeObj \in [Ino -> InodeType \cup {None}]
  /\ dentryObj \in [Dir -> [Name -> Ino \cup {None}] \cup {None}]
  /\ journalObj \in [Dir -> Seq([tx : Nat, size : BOOLEAN, valid : BOOLEAN])]

Init ==
  /\ mem = [d \in Dir |-> NoNames]
  /\ inode = [i \in Ino |-> NewInode]
  /\ used = {Root} /\ alive = {Root}
  /\ lock = [i \in Ino |-> None]
  /\ todo = [w \in Worker |-> <<>>]
  /\ held = [w \in Worker |-> 0] /\ tries = [w \in Worker |-> 0]
  /\ ops = 0 /\ moved = {}
  /\ open = [d \in Dir |-> 0]
  /\ txs = [d \in Dir |-> <<>>]
  /\ done = [d \in Dir |-> {}]
  /\ cpc = "loop" /\ batch = [d \in Dir |-> 0] /\ cdir = Root
  /\ queue = [q \in Queue |-> <<>>]
  /\ kpc = [q \in Queue |-> "idle"]
  /\ job = [q \in Queue |-> <<Root, 0>>]
  /\ buf = [q \in Queue |-> NoNames]
  /\ stopped = FALSE /\ failed = "no"
  /\ inodeObj = [i \in Ino |-> IF i = Root THEN NewInode ELSE None]
  /\ dentryObj = [d \in Dir |-> IF d = Root THEN NoNames ELSE None]
  /\ journalObj = [d \in Dir |-> <<>>]

(* After an exception that nobody catches the process is gone.             *)
Running == failed = "no"

----------------------------------------------------------------------------
(* The operations of local_ops.cpp, each up to its first journal call: the *)
(* change in memory, made under the locks, and the calls that record it.   *)

JCall(fn, d, n, i) == [fn |-> fn, dir |-> d, name |-> n, ino |-> i]

Touch(d) == inode' = [inode EXCEPT ![d].time = @ + 1]

Begin(w, locks, calls) ==
  /\ Running /\ ~stopped
  /\ ops < MaxOps
  /\ todo[w] = <<>>
  /\ \A i \in locks : lock[i] = None
  /\ lock' = [i \in Ino |-> IF i \in locks THEN w ELSE lock[i]]
  /\ todo' = [todo EXCEPT ![w] = calls]
  /\ ops' = ops + 1
  /\ UNCHANGED <<held, tries, open, txs, done, commitVars, queue, cpVars,
                 stopped, failed, poolVars>>

(* local_create, after the kernel has looked the name up in vain. *)
Create(w, d, n, f) ==
  /\ d \in alive /\ mem[d][n] = None /\ f \in File \ used
  /\ Begin(w, {d}, <<JCall("mkreg", d, n, f)>>)
  /\ mem' = [mem EXCEPT ![d][n] = f]
  /\ used' = used \cup {f}
  /\ Touch(d)
  /\ UNCHANGED <<alive, moved>>

(* local_unlink of a file with one link (there is no operation that makes  *)
(* another).                                                               *)
Unlink(w, d, n) ==
  /\ d \in alive /\ mem[d][n] \in File
  /\ Begin(w, {d, mem[d][n]}, <<JCall("rmreg", d, n, mem[d][n])>>)
  /\ mem' = [mem EXCEPT ![d][n] = None]
  /\ Touch(d)
  /\ UNCHANGED <<used, alive, moved>>

(* local_rename_same_parent of a file onto a free name or another file.    *)
Rename(w, d, n, m) ==
  LET f == mem[d][n]
      old == mem[d][m]
      replace == IF old = None THEN <<>> ELSE <<JCall("rmreg", d, m, old)>>
  IN /\ d \in alive /\ n # m
     /\ f \in File /\ old \in File \cup {None}
     /\ Begin(w, {d, f} \cup ({old} \ {None}),
              replace \o <<JCall("rmreg", d, n, f), JCall("mkreg", d, m, f)>>)
     /\ mem' = [mem EXCEPT ![d] = [@ EXCEPT ![n] = None, ![m] = f]]
     /\ Touch(d)
     /\ UNCHANGED <<used, alive, moved>>

(* The transactions of a directory that are not yet checkpointed, and      *)
(* whether the inode of a file is in one of them.                          *)
Pending(d) == (1 .. Len(txs[d])) \ done[d]
Carries(d, f) == \E g \in Pending(d) : txs[d][g].f_inodes[f] \notin {None, Null}

(* local_rename_not_same_parent_src, then local_rename_not_same_parent_dst *)
(* of a file onto a free name or another file of another directory.  The   *)
(* times of the directories stay.                                          *)
RenameAway(w, d, n, e, m) ==
  LET f == mem[d][n]
      old == mem[e][m]
      replace == IF old = None THEN <<>> ELSE <<JCall("rmreg", e, m, old)>>
  IN /\ d \in alive /\ e \in alive \ {d}
     /\ f \in File /\ old \in File \cup {None}
     /\ Begin(w, {d, e, f} \cup ({old} \ {None}),
              <<JCall("rmreg", d, n, f)>> \o replace \o <<JCall("mkreg", e, m, f)>>)
     /\ mem' = [mem EXCEPT ![d][n] = None, ![e][m] = f]
     /\ moved' = moved \cup (IF Carries(d, f) THEN {f} ELSE {})
     /\ UNCHANGED <<inode, used, alive>>

(* local_mkdir *)
Mkdir(w, d, n, x) ==
  /\ d \in alive /\ mem[d][n] = None /\ x \in Dir \ used
  /\ Begin(w, {d, x}, <<JCall("mkdir", d, n, x), JCall("mkself", x, None, x)>>)
  /\ mem' = [mem EXCEPT ![d][n] = x]
  /\ used' = used \cup {x}
  /\ alive' = alive \cup {x}
  /\ Touch(d)
  /\ UNCHANGED moved

(* local_rmdir_top, then local_rmdir_down. *)
Rmdir(w, d, n) ==
  LET x == mem[d][n]
  IN /\ d \in alive /\ x \in alive /\ mem[x] = NoNames
     /\ Begin(w, {d, x}, <<JCall("rmself", x, None, x), JCall("rmdir", d, n, x)>>)
     /\ mem' = [mem EXCEPT ![d][n] = None]
     /\ alive' = alive \ {x}
     /\ Touch(d)
     /\ UNCHANGED <<used, moved>>

(* local_chmod, local_chown, local_utimens on a directory.                 *)
ChangeDir(w, d) ==
  /\ d \in alive
  /\ Begin(w, {d}, <<JCall("chself", d, None, d)>>)
  /\ inode' = [inode EXCEPT ![d].attr = @ + 1]
  /\ UNCHANGED <<mem, used, alive, moved>>

(* The same, and local_write and local_truncate, on a file: the change is  *)
(* journaled with the directory it is in.  path_traversal has found the    *)
(* file under the mutex of the directory.                                  *)
ChangeFile(w, d, n) ==
  /\ d \in alive /\ mem[d][n] \in File /\ lock[d] = None
  /\ Begin(w, {mem[d][n]}, <<JCall("chreg", d, None, mem[d][n])>>)
  /\ inode' = [inode EXCEPT ![mem[d][n]].attr = @ + 1]
  /\ UNCHANGED <<mem, used, alive, moved>>

----------------------------------------------------------------------------
(* The transaction: what each call does to an open transaction t of a      *)
(* directory whose inode is self, and when it throws a logic_error.        *)

StampSelf(t, self) ==
  [t EXCEPT !.s_inode = IF @ = None THEN self ELSE [@ EXCEPT !.time = self.time]]
IsAlive(e) == e # None /\ e.alive
IsDead(e) == e # None /\ ~e.alive

(* A slip of tx_chself: a copy the transaction already has only gets times. *)
tx_chselfOnce(t, self) == StampSelf(t, self)

tx_mkself(t, self) == [t EXCEPT !.s_inode = self, !.status = "created"]
tx_rmself(t) == [t EXCEPT !.status = "deleted"]
tx_chself(t, self) == [t EXCEPT !.s_inode = self]
tx_mkdir(t, self, n, i) ==
  StampSelf([t EXCEPT !.dentries[n] = [alive |-> TRUE, ino |-> i]], self)
tx_rmdir(t, self, n, i) ==
  StampSelf([t EXCEPT !.dentries[n] = [alive |-> FALSE, ino |-> i]], self)
tx_mkreg(t, self, n, f, fi) == [tx_mkdir(t, self, n, f) EXCEPT !.f_inodes[f] = fi]
tx_rmreg(t, self, n, f) == [tx_rmdir(t, self, n, f) EXCEPT !.f_inodes[f] = Null]
tx_chreg(t, f, fi) == [t EXCEPT !.f_inodes[f] = fi]

Apply(t, c, self, i) ==
  CASE c.fn = "mkself" -> tx_mkself(t, self)
    [] c.fn = "rmself" -> tx_rmself(t)
    [] c.fn = "chself" -> tx_chself(t, self)
    [] c.fn = "mkdir" -> tx_mkdir(t, self, c.name, c.ino)
    [] c.fn = "rmdir" -> tx_rmdir(t, self, c.name, c.ino)
    [] c.fn = "mkreg" -> tx_mkreg(t, self, c.name, c.ino, i)
    [] c.fn = "rmreg" -> tx_rmreg(t, self, c.name, c.ino)
    [] c.fn = "chreg" -> tx_chreg(t, c.ino, i)

Throws(t, c) ==
  \/ c.fn \in {"mkdir", "mkreg"} /\ IsAlive(t.dentries[c.name])
  \/ c.fn \in {"rmdir", "rmreg"} /\ IsDead(t.dentries[c.name])
  \/ c.fn = "mkreg" /\ t.f_inodes[c.ino] \notin {None, Null}
  \/ c.fn = "rmreg" /\ t.f_inodes[c.ino] = Null

(* journal_table::get_entry: the open transaction of the directory, or a   *)
(* new one.                                                                *)
GetEntry(w) ==
  LET d == Head(todo[w]).dir
      new == Len(txs[d]) + 1
  IN /\ Running
     /\ todo[w] # <<>> /\ held[w] = 0
     /\ tries' = [tries EXCEPT ![w] = @ + 1]
     /\ IF open[d] # 0
          THEN /\ held' = [held EXCEPT ![w] = open[d]]
               /\ UNCHANGED <<open, txs>>
          ELSE /\ held' = [held EXCEPT ![w] = new]
               /\ open' = [open EXCEPT ![d] = new]
               /\ txs' = [txs EXCEPT ![d] = Append(@, NewTx)]
     /\ UNCHANGED <<mem, inode, used, alive, lock, todo, ops, moved, done, commitVars,
                    queue, cpVars, stopped, failed, poolVars>>

(* The transaction has been sealed since: journal.cpp's loops try again.   *)
Retry(w) ==
  /\ Running /\ held[w] # 0
  /\ txs[Head(todo[w]).dir][held[w]].committed
  /\ held' = [held EXCEPT ![w] = 0]
  /\ UNCHANGED <<mem, inode, used, alive, lock, todo, tries, ops, moved, open, txs,
                 done, commitVars, queue, cpVars, stopped, failed, poolVars>>

(* The call succeeds; after its last call the worker lets its locks go.    *)
Record(w) ==
  LET c == Head(todo[w])
      t == txs[c.dir][held[w]]
  IN /\ Running /\ held[w] # 0
     /\ ~t.committed
     /\ held' = [held EXCEPT ![w] = 0] /\ tries' = [tries EXCEPT ![w] = 0]
     /\ IF Throws(t, c)
          THEN /\ failed' = "logic_error"
               /\ UNCHANGED <<txs, todo, lock>>
          ELSE /\ txs' = [txs EXCEPT ![c.dir][held[w]] =
                                       Apply(t, c, inode[c.dir], inode[c.ino])]
               /\ todo' = [todo EXCEPT ![w] = Tail(@)]
               /\ lock' = [i \in Ino |-> IF lock[i] = w /\ Len(todo[w]) = 1
                                          THEN None ELSE lock[i]]
               /\ UNCHANGED failed
     /\ UNCHANGED <<mem, inode, used, alive, ops, moved, open, done, commitVars, queue,
                    cpVars, stopped, poolVars>>

----------------------------------------------------------------------------
(* The commit thread: commit::operator().                                  *)

(* A slip of ReplaceMap: the table is copied, not replaced.                *)
CopyMap ==
  /\ Running /\ cpc = "loop"
  /\ \A d \in Dir : batch[d] = 0
  /\ ~stopped
  /\ \A w \in Worker : tries[w] <= MaxRetries
  /\ batch' = open
  /\ UNCHANGED <<memVars, open, txs, done, cpc, cdir, queue, cpVars, stopped,
                 failed, poolVars>>

(* journal_table::replace_map, at the start of a cycle.  The cycles are    *)
(* five seconds apart, so one does not overtake a call again and again.    *)
ReplaceMap ==
  /\ Running /\ cpc = "loop"
  /\ \A d \in Dir : batch[d] = 0
  /\ ~stopped
  /\ \A w \in Worker : tries[w] <= MaxRetries
  /\ batch' = open
  /\ open' = [d \in Dir |-> 0]
  /\ UNCHANGED <<memVars, txs, done, cpc, cdir, queue, cpVars, stopped, failed, poolVars>>

(* transaction::serialize: a record of the transaction, which begins with  *)
(* its size and the valid bit.  The bytes of the contents are left out.    *)
Serialized(g) == [tx |-> g, size |-> TRUE, valid |-> TRUE]

(* A slip of Commit: the transaction is sealed and not written.            *)
CommitUnwritten(d) ==
  /\ Running /\ cpc = "loop"
  /\ batch[d] # 0
  /\ txs' = [txs EXCEPT ![d][batch[d]].committed = TRUE]
  /\ cdir' = d
  /\ cpc' = "issue"
  /\ UNCHANGED <<memVars, open, done, batch, queue, cpVars, stopped, failed,
                 poolVars>>

(* transaction::commit: no call may change the transaction any more, and   *)
(* it goes to the end of the directory's journal.                          *)
Commit(d) ==
  LET g == batch[d]
      pos == Len(journalObj[d]) + 1
  IN /\ Running /\ cpc = "loop"
     /\ g # 0
     /\ IF txs[d][g].committed
          THEN failed' = "logic_error" /\ UNCHANGED <<txs, journalObj>>
          ELSE /\ txs' = [txs EXCEPT ![d][g] =
                            [@ EXCEPT !.committed = TRUE, !.offset = pos]]
               /\ journalObj' = [journalObj EXCEPT ![d] =
                            Append(@, Serialized(g))]
               /\ UNCHANGED failed
     /\ cdir' = d
     /\ cpc' = "issue"
     /\ UNCHANGED <<memVars, open, done, batch, queue, cpVars, stopped,
                    inodeObj, dentryObj>>

(* Slips of Issue: any queue will do; the transaction is not queued.       *)
IssueAnywhere ==
  /\ Running /\ cpc = "issue"
  /\ \E q \in Queue :
       queue' = [queue EXCEPT ![q] = Append(@, <<cdir, batch[cdir]>>)]
  /\ batch' = [batch EXCEPT ![cdir] = 0]
  /\ cdir' = Root
  /\ cpc' = "loop"
  /\ UNCHANGED <<memVars, open, txs, done, cpVars, stopped, failed, poolVars>>

IssueNowhere ==
  /\ Running /\ cpc = "issue"
  /\ batch' = [batch EXCEPT ![cdir] = 0]
  /\ cdir' = Root
  /\ cpc' = "loop"
  /\ UNCHANGED <<memVars, open, txs, done, queue, cpVars, stopped, failed, poolVars>>

(* mqueue::issue to the queue of the directory. *)
Issue ==
  /\ Running /\ cpc = "issue"
  /\ queue' = [queue EXCEPT ![QueueOf[cdir]] = Append(@, <<cdir, batch[cdir]>>)]
  /\ batch' = [batch EXCEPT ![cdir] = 0]
  /\ cdir' = Root
  /\ cpc' = "loop"
  /\ UNCHANGED <<memVars, open, txs, done, cpVars, stopped, failed, poolVars>>

(* journal::~journal raises the flag, when no operation is left running.   *)
RaiseStop ==
  /\ Running /\ ~stopped
  /\ \A w \in Worker : todo[w] = <<>>
  /\ stopped' = TRUE
  /\ UNCHANGED <<memVars, open, txs, done, commitVars, queue, cpVars, failed, poolVars>>

(* Slips of Leave: the end marker overtakes the transactions; it goes to   *)
(* one queue only.                                                         *)
LeaveAtOnce ==
  /\ Running /\ cpc = "loop"
  /\ \A d \in Dir : batch[d] = 0
  /\ stopped
  /\ queue' = [q \in Queue |-> <<Stop>> \o queue[q]]
  /\ cpc' = "exit"
  /\ UNCHANGED <<memVars, open, txs, done, batch, cdir, cpVars, stopped, failed, poolVars>>

LeaveOne ==
  /\ Running /\ cpc = "loop"
  /\ \A d \in Dir : batch[d] = 0
  /\ stopped
  /\ queue' = [queue EXCEPT ![QueueOf[Root]] = Append(@, Stop)]
  /\ cpc' = "exit"
  /\ UNCHANGED <<memVars, open, txs, done, batch, cdir, cpVars, stopped, failed, poolVars>>

(* The commit thread sees it at the end of a cycle, and leaves. *)
Leave ==
  /\ Running /\ cpc = "loop"
  /\ \A d \in Dir : batch[d] = 0
  /\ stopped
  /\ queue' = [q \in Queue |-> Append(queue[q], Stop)]
  /\ cpc' = "exit"
  /\ UNCHANGED <<memVars, open, txs, done, batch, cdir, cpVars, stopped, failed, poolVars>>

----------------------------------------------------------------------------
(* A checkpoint thread: checkpoint::operator(), transaction::checkpoint    *)
(* and transaction::sync.  What it does to the inode object of its         *)
(* directory is one step with the read of the dentry object, what it does  *)
(* to the inodes of files one with the write of the dentry object.  The    *)
(* objects of a directory are this thread's alone.  The inode of a file    *)
(* that went to another directory is written by that directory's thread    *)
(* too, before this step or after it: each write replaces the object.      *)

JobTx(q) == txs[job[q][1]][job[q][2]]

(* mqueue::dispatch *)
Dispatch(q) ==
  /\ Running /\ kpc[q] = "idle"
  /\ queue[q] # <<>>
  /\ queue' = [queue EXCEPT ![q] = Tail(@)]
  /\ IF Head(queue[q]) = Stop
       THEN kpc' = [kpc EXCEPT ![q] = "exit"] /\ UNCHANGED job
       ELSE /\ kpc' = [kpc EXCEPT ![q] = "load"]
            /\ job' = [job EXCEPT ![q] = Head(queue[q])]
  /\ UNCHANGED <<memVars, open, txs, done, commitVars, buf, stopped, failed, poolVars>>

(* transaction::sync of a removed directory: its inode and its dentries    *)
(* go, nothing else is done.                                               *)
SyncRemoved(q) ==
  /\ Running /\ kpc[q] = "load"
  /\ JobTx(q).status = "deleted"
  /\ inodeObj' = [inodeObj EXCEPT ![job[q][1]] = None]
  /\ dentryObj' = [dentryObj EXCEPT ![job[q][1]] = None]
  /\ kpc' = [kpc EXCEPT ![q] = "clear"]
  /\ UNCHANGED <<memVars, open, txs, done, commitVars, queue, job, buf, stopped,
                 failed, journalObj>>

(* A slip of ReadDentry: a missing object is not noticed.                  *)
ReadDentryUnchecked(q) ==
  /\ buf' = [buf EXCEPT ![q] = IF JobTx(q).status = "created" THEN NoNames
                               ELSE dentryObj[job[q][1]]]
  /\ UNCHANGED failed

(* dentry::dentry: empty for a new directory, else read from the object,   *)
(* which must be there.                                                    *)
ReadDentry(q) ==
  LET d == job[q][1]
  IN \/ /\ JobTx(q).status = "created"
        /\ buf' = [buf EXCEPT ![q] = NoNames]
        /\ UNCHANGED failed
     \/ /\ JobTx(q).status # "created" /\ dentryObj[d] # None
        /\ buf' = [buf EXCEPT ![q] = dentryObj[d]]
        /\ UNCHANGED failed
     \/ /\ JobTx(q).status # "created" /\ dentryObj[d] = None
        /\ failed' = "corrupted"
        /\ UNCHANGED buf

(* transaction::sync, first half. *)
SyncLoad(q) ==
  /\ Running /\ kpc[q] = "load"
  /\ JobTx(q).status # "deleted"
  /\ inodeObj' = [inodeObj EXCEPT ![job[q][1]] =
                     IF JobTx(q).s_inode = None THEN @ ELSE JobTx(q).s_inode]
  /\ ReadDentry(q)
  /\ kpc' = [kpc EXCEPT ![q] = "save"]
  /\ UNCHANGED <<memVars, open, txs, done, commitVars, queue, job, stopped,
                 dentryObj, journalObj>>

(* Second half: add_child or delete_child for every recorded entry,        *)
(* dentry::sync, and the inodes of files; those of deleted files are left  *)
(* where they are.                                                         *)
SyncSave(q) ==
  LET e == JobTx(q).dentries
      fi == JobTx(q).f_inodes
  IN /\ Running /\ kpc[q] = "save"
     /\ dentryObj' = [dentryObj EXCEPT ![job[q][1]] =
          [n \in Name |-> IF IsAlive(e[n]) THEN e[n].ino
                          ELSE IF IsDead(e[n]) THEN None ELSE buf[q][n]]]
     /\ inodeObj' = [i \in Ino |->
          IF i \in File /\ fi[i] \notin {None, Null} THEN fi[i] ELSE inodeObj[i]]
     /\ buf' = [buf EXCEPT ![q] = NoNames]
     /\ kpc' = [kpc EXCEPT ![q] = "clear"]
     /\ UNCHANGED <<memVars, open, txs, done, commitVars, queue, job, stopped,
                    failed, journalObj>>

(* "Clear the checkpoint bit": the zero byte goes to the start of the      *)
(* record, which is the low byte of its size.                              *)
Clear(q) ==
  LET d == job[q][1]
  IN /\ Running /\ kpc[q] = "clear"
     /\ journalObj' = [journalObj EXCEPT ![d][JobTx(q).offset].size = FALSE]
     /\ done' = [done EXCEPT ![d] = @ \cup {job[q][2]}]
     /\ kpc' = [kpc EXCEPT ![q] = "idle"]
     /\ job' = [job EXCEPT ![q] = <<Root, 0>>]
     /\ UNCHANGED <<memVars, open, txs, commitVars, queue, buf, stopped, failed,
                    inodeObj, dentryObj>>

----------------------------------------------------------------------------
Operation(w) ==
  \/ \E d \in Dir, n \in Name, f \in File : Create(w, d, n, f)
  \/ \E d \in Dir, n \in Name : Unlink(w, d, n)
  \/ \E d \in Dir, n, m \in Name : Rename(w, d, n, m)
  \/ \E d, e \in Dir, n, m \in Name : RenameAway(w, d, n, e, m)
  \/ \E d, x \in Dir, n \in Name : Mkdir(w, d, n, x)
  \/ \E d \in Dir, n \in Name : Rmdir(w, d, n)
  \/ \E d \in Dir : ChangeDir(w, d)
  \/ \E d \in Dir, n \in Name : ChangeFile(w, d, n)

JournalStep(w) == GetEntry(w) \/ Retry(w) \/ Record(w)

CommitStep ==
  ReplaceMap \/ (\E d \in Dir : Commit(d)) \/ Issue \/ Leave

CheckpointStep(q) ==
  Dispatch(q) \/ SyncRemoved(q) \/ SyncLoad(q) \/ SyncSave(q) \/ Clear(q)

Next ==
  \/ \E w \in Worker : Operation(w) \/ JournalStep(w)
  \/ CommitStep
  \/ RaiseStop
  \/ \E q \in Queue : CheckpointStep(q)

(* Threads that can run do run; nobody has to start an operation or to     *)
(* unmount.                                                                *)
Fairness ==
  /\ \A w \in Worker : WF_vars(JournalStep(w))
  /\ WF_vars(CommitStep)
  /\ \A q \in Queue : WF_vars(CheckpointStep(q))

Spec == Init /\ [][Next]_vars
FairSpec == Spec /\ Fairness

----------------------------------------------------------------------------
(* What the pool would hold once the transactions that are not yet         *)
(* checkpointed are.                                                       *)
Newest(S) == CHOOSE g \in S : \A h \in S : h <= g

FutureName(d, n) ==
  LET recorded == {g \in Pending(d) : txs[d][g].dentries[n] # None}
      entry == txs[d][Newest(recorded)].dentries[n]
  IN IF recorded # {} THEN (IF entry.alive THEN entry.ino ELSE None)
     ELSE IF dentryObj[d] = None THEN None ELSE dentryObj[d][n]

FutureDirInode(d) ==
  LET recorded == {g \in Pending(d) : txs[d][g].s_inode # None}
  IN IF recorded # {} THEN txs[d][Newest(recorded)].s_inode ELSE inodeObj[d]

FutureFileInode(d, f) ==
  LET recorded == {g \in Pending(d) : txs[d][g].f_inodes[f] # None}
  IN IF recorded # {} THEN txs[d][Newest(recorded)].f_inodes[f] ELSE inodeObj[f]

(* Some worker has still to journal a change of this entry.                *)
Unrecorded(d, n) ==
  \E w \in Worker : \E k \in 1 .. Len(todo[w]) :
    todo[w][k].dir = d /\ todo[w][k].name = n

(***************************************************************************)
(* No change of a directory entry is lost or reordered on its way through  *)
(* the journal: for every name, the newest transaction that mentions it    *)
(* and is not yet checkpointed, or else the directory's object, says what  *)
(* the leader's memory says, whatever the commit thread and the checkpoint *)
(* threads are doing.                                                      *)
(***************************************************************************)
NamesKept ==
  Running => \A d \in alive, n \in Name :
               Unrecorded(d, n) \/ FutureName(d, n) = mem[d][n]

(***************************************************************************)
(* Nor is any change of an inode: neither the time stamps that mkdir and   *)
(* its like put into the copy a transaction already has, nor the           *)
(* attributes that replace it.  The exception is a file that goes to       *)
(* another directory while a transaction of the one it leaves still has    *)
(* its inode to write: two threads write the object, and the older inode   *)
(* may come last.                                                          *)
(***************************************************************************)
InodesKept ==
  Running =>
    \A d \in alive :
      /\ lock[d] = None => FutureDirInode(d) = inode[d]
      /\ \A n \in Name :
           mem[d][n] \in File \ moved /\ lock[d] = None /\ lock[mem[d][n]] = None =>
             FutureFileInode(d, mem[d][n]) = inode[mem[d][n]]

(***************************************************************************)
(* The checks inside a transaction never fire: nobody makes a name that is *)
(* there already or removes one that is not, as far as the transaction     *)
(* can tell, and none is committed twice.  (The throw statements of        *)
(* src/client/journal/transaction.cpp.)                                    *)
(***************************************************************************)
NoLogicError == failed # "logic_error"

(***************************************************************************)
(* A checkpoint finds the dentry object of every directory that is not     *)
(* new ("Dentry Corrupted", src/client/meta/dentry.cpp).                   *)
(***************************************************************************)
DentryObjectFound == failed # "corrupted"

(***************************************************************************)
(* Write-ahead: a checkpoint thread works only on a transaction that is    *)
(* sealed and that the journal object of its directory holds.              *)
(***************************************************************************)
WriteAhead ==
  \A q \in Queue : kpc[q] \notin {"idle", "exit"} =>
    /\ JobTx(q).committed
    /\ JobTx(q).offset \in 1 .. Len(journalObj[job[q][1]])
    /\ journalObj[job[q][1]][JobTx(q).offset].tx = job[q][2]

(***************************************************************************)
(* When the checkpoint threads have ended, every transaction that was ever *)
(* committed is in the pool: the end marker comes last in every queue.     *)
(***************************************************************************)
DrainedAtExit ==
  (\A q \in Queue : kpc[q] = "exit") =>
    \A d \in Dir : \A g \in 1 .. Len(txs[d]) :
      txs[d][g].committed => g \in done[d]

(***************************************************************************)
(* As long as the file system is mounted, whatever has been journaled      *)
(* reaches the pool.                                                       *)
(***************************************************************************)
EventuallyCheckpointed ==
  \A d \in Dir, g \in 1 .. MaxOps * (MaxRetries + 1) :
    g <= Len(txs[d]) ~> g \in done[d] \/ stopped \/ ~Running

(***************************************************************************)
(* The destructor's joins return.                                          *)
(***************************************************************************)
ShutdownEnds ==
  stopped ~> \/ cpc = "exit" /\ \A q \in Queue : kpc[q] = "exit"
             \/ ~Running

==============================================================================
