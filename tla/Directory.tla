------------------------------ MODULE Directory ------------------------------
(***************************************************************************)
(* The directory tables of the clients (src/client/in_memory) and the      *)
(* operations on names that go through them (src/client/fs_ops,            *)
(* src/client/rpc): who leads which directory, what each client holds in   *)
(* memory, what it has journaled and not yet checkpointed, and how a FUSE  *)
(* operation finds the client that must do it, here or by RPC, while       *)
(* leases run out and clients die.                                         *)
(*                                                                         *)
(* A lease is taken from the manager in one step, as Leadership promises;  *)
(* Lease has the steps inside.  The journal is the sum of what a client    *)
(* has recorded for a directory; Journal has the transactions.  Looking a  *)
(* path up is one step per path; a handler, and the body of a local        *)
(* operation, is one step for each time it locks dentry_table_mutex, and   *)
(* may lock the mutex of a table that has been dropped since it fetched    *)
(* it; a client is in one FUSE operation at a time and serves others'      *)
(* requests meanwhile.                                                     *)
(***************************************************************************)
EXTENDS Naturals, FiniteSets

CONSTANTS
  Client,
  Root,          \* the root directory
  SubDir,        \* the directories below the root, made ones and to be made
  File,          \* regular files and symbolic links
  Name,
  Starts,        \* the entries each directory may have at first
  Nil,           \* no file, no leader, the empty address
  Keep,          \* no change of a name
  Here,          \* the operation is done by the client itself
  MaxWork        \* bound on the changes asked for (2 each) and on the lookups,
                 \* crashes and lost messages (1 each)

Dir == {Root} \cup SubDir
Ino == File \cup SubDir
NoKids == [n \in Name |-> Nil]

(* The directories are those of the root, and a file has one name. *)
ASSUME StartsAssumption ==
  /\ Starts \subseteq [Dir -> [Name -> Ino \cup {Nil}]]
  /\ \A t \in Starts :
       /\ \A d \in SubDir, n \in Name : t[d][n] \notin SubDir
       /\ \A d, e \in Dir, n, m \in Name :
            t[d][n] = t[e][m] /\ t[d][n] # Nil => d = e /\ n = m
ASSUME DistinctAssumption ==
  /\ Root \notin Ino /\ File \cap SubDir = {}
  /\ Nil \notin Dir \cup Ino \cup Client \cup Name
  /\ Keep \notin Ino \cup {Nil}
  /\ Here \notin Client \cup {Nil}
ASSUME BoundAssumption == MaxWork \in Nat

VARIABLES
  leader,   \* who holds the unexpired lease of each directory
  fresh,    \* the directories that had no entry at the manager before it
  table,    \* the valid dentry tables of each client
  pend,     \* what each client has journaled and not checkpointed
  pool,     \* the dentry and inode objects of each directory
  op,       \* the FUSE operation each client is in
  up,       \* the clients that run
  used,     \* the inode numbers given out
  truth,    \* history: what the changes done so far make of each directory
  spoilt,   \* history: the directories a failure or a race has hit (Settle)
  crossed,  \* history: the files a rename moved that were no longer under
            \* the name it had looked up
  work      \* what the clients have been given to do, and what has failed

vars == <<leader, fresh, table, pend, pool, op, up, used, truth, spoilt, crossed, work>>

-----------------------------------------------------------------------------
(* Tables, journals, objects and operations.                               *)

NoTable == [loc |-> "none", ip |-> Nil, kids |-> NoKids]

(* A leader's own table has no address: acquire only sets it on refusal.   *)
LocalTable(k) == [loc |-> "LOCAL", ip |-> Nil, kids |-> k]

RemoteTable(s) == [loc |-> "REMOTE", ip |-> s, kids |-> NoKids]

NoPend == [self |-> "same", kids |-> [n \in Name |-> Keep]]

Overlay(k, p) == [n \in Name |-> IF p.kids[n] = Keep THEN k[n] ELSE p.kids[n]]

(* An operation: its paths <<p, n>> and <<q, m>> (p and q name a directory *)
(* of the root, Nil the root itself), the file x it makes or moves, what   *)
(* rename found at its destination, for its one or two changes the         *)
(* directory and the address of the client to do it, and the tables that   *)
(* client has dropped since it could have fetched them for the operation.  *)
Idle == [k |-> "idle", ph |-> "idle", p |-> Nil, n |-> Nil, q |-> Nil, m |-> Nil,
         x |-> Nil, seen |-> Nil, d1 |-> Root, at1 |-> Nil, d2 |-> Root, at2 |-> Nil,
         old |-> {}]

TypeOK ==
  /\ leader \in [Dir -> Client \cup {Nil}] /\ fresh \subseteq Dir
  /\ \A c \in Client, d \in Dir :
       /\ table[c][d] = LocalTable(table[c][d].kids)
            \/ table[c][d] = RemoteTable(table[c][d].ip) \/ table[c][d] = NoTable
       /\ table[c][d].kids \in [Name -> Ino \cup {Nil}]
       /\ table[c][d].loc = "REMOTE" => table[c][d].ip \in Client
       /\ pend[c][d].self \in {"same", "made", "gone"}
       /\ pend[c][d].kids \in [Name -> Ino \cup {Nil, Keep}]
  /\ pool \in [Dir -> [made : BOOLEAN, kids : [Name -> Ino \cup {Nil}]]]
  /\ \A c \in Client :
       /\ op[c].ph \in {"idle", "path1", "path2", "one", "take", "two", "lease", "stuck"}
       /\ {op[c].d1, op[c].d2} \subseteq Dir
       /\ {op[c].at1, op[c].at2} \subseteq Client \cup {Nil, Here}
       /\ \A t \in op[c].old : t.kids \in [Name -> Ino \cup {Nil}]
  /\ up \subseteq Client /\ used \subseteq Ino /\ spoilt \subseteq Dir /\ crossed \subseteq File
  /\ truth \in [Dir -> [Name -> Ino \cup {Nil}]]
  /\ work \in 0..MaxWork

Init ==
  /\ truth \in Starts
  /\ leader = [d \in Dir |-> Nil]
  /\ fresh = Dir      \* the manager may just have been restarted
  /\ table = [c \in Client |-> [d \in Dir |-> NoTable]]
  /\ pend = [c \in Client |-> [d \in Dir |-> NoPend]]
  /\ pool = [d \in Dir |->
               [made |-> d = Root \/ \E n \in Name : truth[Root][n] = d,
                kids |-> truth[d]]]
  /\ op = [c \in Client |-> Idle]
  /\ up = Client
  /\ used = {truth[d][n] : d \in Dir, n \in Name} \ {Nil}
  /\ spoilt = {} /\ crossed = {}
  /\ work = 0

-----------------------------------------------------------------------------
(* Getting a dentry table.                                                 *)

(* pull_child_metadata reads the inode object of every child; a file's is  *)
(* written with the entry, a directory's by its own transaction.           *)
Loadable(d) ==
  pool[d].made /\ \A n \in Name : pool[d].kids[n] \in SubDir => pool[pool[d].kids[n]].made

(* A slip of lease_dentry_table: the address is not set.                   *)
LeaseNoAddress(c, d) ==
  IF leader[d] \notin {Nil, c} THEN RemoteTable(Nil)
  ELSE IF Loadable(d) THEN LocalTable(pool[d].kids) ELSE NoTable

(* lease_dentry_table: the leader loads the directory, another client      *)
(* notes the leader's address.  Without the objects inode::no_entry leaves *)
(* the client with the lease and without a table.                          *)
lease_dentry_table(c, d) ==
  IF leader[d] \notin {Nil, c} THEN RemoteTable(leader[d])
  ELSE IF Loadable(d) THEN LocalTable(pool[d].kids) ELSE NoTable

(* get_dentry_table: the table in memory, or a new one.  (An expired table *)
(* is dropped when it is next asked for; here Lapse drops it, and whoever  *)
(* has it already goes on with it.)                                        *)
get_dentry_table(c, d) ==
  IF table[c][d] # NoTable THEN table[c][d] ELSE lease_dentry_table(c, d)

(* What fetching the tables of the directories D leaves behind.            *)
Leased(c, D) ==
  [d \in Dir |-> IF d \in D /\ table[c][d] = NoTable /\ leader[d] = Nil
                   THEN c ELSE leader[d]]

Fetched(c, D) ==
  [table EXCEPT ![c] = [d \in Dir |-> IF d \in D THEN get_dentry_table(c, d) ELSE @[d]]]

(* Entries of d, or its removal, are still in somebody's journal.          *)
Journaled(d) ==
  \E i \in Client : pend[i][d].kids # NoPend.kids \/ pend[i][d].self = "gone"

(* A directory loaded while changes of it are still in somebody's journal. *)
Overtaken(c, D) ==
  {d \in D : /\ table[c][d] = NoTable
             /\ get_dentry_table(c, d).loc = "LOCAL"
             /\ Journaled(d)}

(* A table answers a lookup: by itself, or its leader does over RPC.  Any  *)
(* other answer of check_child_inode, get_mode or permission_check is a    *)
(* runtime_error in the caller.                                            *)
Answers(t, d) ==
  t.loc = "LOCAL" \/ (t.ip \in up /\ table[t.ip][d].loc = "LOCAL")

(* To ask oneself is to hang: the caller, or the handler that asks again,  *)
(* holds the mutex of the table that the handler of the request needs.     *)
Hangs(c, t) == t.ip = c

check_child_inode(t, d, n) ==
  IF t.loc = "LOCAL" THEN t.kids[n] ELSE table[t.ip][d].kids[n]

Route(t) == IF t.loc = "LOCAL" THEN Here ELSE t.ip

-----------------------------------------------------------------------------
(* How a step ends.                                                        *)

Staged(o) == o.ph \in {"one", "take", "two"}

Stage(o) == IF o.ph = "two" THEN o.d2 ELSE o.d1

Address(o) == IF o.ph = "two" THEN o.at2 ELSE o.at1

Worker(c) == IF Address(op[c]) = Here THEN c ELSE Address(op[c])

(* A rename between its two locks holds one table, dropped or not.         *)
HoldsOld(o) == o.ph = "take" /\ o.old # {}

(* The operation of c when tables and processes go: the client that is to  *)
(* do its change may have fetched the table that is dropped, and works on  *)
(* it when it gets the mutex.  A request dies with the client that has     *)
(* taken it up.                                                            *)
Onwards(c, dead, tb) ==
  LET o == op[c]
      s == Worker(c)
      d == Stage(o)
  IN  IF ~Staged(o) \/ s \notin Client THEN o
      ELSE IF s \in dead
             THEN [o EXCEPT !.old = {}, !.at1 = IF o.ph = "take" THEN Nil ELSE @]
      ELSE IF tb[s][d] = NoTable /\ table[s][d] # NoTable /\ ~HoldsOld(o)
             THEN [o EXCEPT !.old = @ \cup {table[s][d]}]
      ELSE o

(* The step of client c leaves its operation at o, kills the processes     *)
(* dead, and leaves tables tb, journals pe and the history sp of what went *)
(* wrong.  A process that dies takes its tables and its journal with it:   *)
(* transactions are not replayed.  The history counts a directory among    *)
(* the spoilt, too, when its removal ends, halfway or not.                 *)
Settle(c, o, dead, tb, pe, sp) ==
  /\ up' = up \ dead
  /\ op' = [i \in Client |-> IF i \in dead THEN Idle
                             ELSE IF i = c THEN o ELSE Onwards(i, dead, tb)]
  /\ table' = [i \in Client |-> IF i \in dead THEN [d \in Dir |-> NoTable] ELSE tb[i]]
  /\ pend' = [i \in Client |-> IF i \in dead THEN [d \in Dir |-> NoPend] ELSE pe[i]]
  /\ spoilt' = sp \cup {d \in Dir : \E i \in dead : pe[i][d] # NoPend}
                  \cup {op[i].d1 : i \in {j \in Client : /\ op[j].k = "rmdir"
                                                         /\ op[j].ph = "two"
                                                         /\ op'[j] = Idle}}

(* std::runtime_error ends the process; rename turns it into ENOSYS.       *)
Victims(c) == IF op[c].k = "rename" THEN {} ELSE {c}

(* inode::no_entry is ENOENT; readdir does not catch it.                   *)
NoEntryVictims(c) == IF op[c].k = "readdir" THEN {c} ELSE {}

-----------------------------------------------------------------------------
(* FUSE operations.  The kernel has looked the names up before it calls;   *)
(* what it saw may have changed when the operation acts.                   *)

Visible(d) ==
  IF \E c \in Client : table[c][d].loc = "LOCAL"
    THEN table[CHOOSE c \in Client : table[c][d].loc = "LOCAL"][d].kids
    ELSE pool[d].kids

DirAt(p) == IF p = Nil THEN Root ELSE Visible(Root)[p]

At(p, n) == IF DirAt(p) \in Dir THEN Visible(DirAt(p))[n] ELSE Keep

Begin(c, o) ==
  /\ work' = work + 2
  /\ op' = [op EXCEPT ![c] = o]
  /\ used' = used \cup ({o.x} \ {Nil})
  /\ UNCHANGED <<leader, fresh, table, pend, pool, up, truth, spoilt, crossed>>

create(c) == \E p \in Name \cup {Nil}, n \in Name, f \in File \ used :
  /\ At(p, n) = Nil
  /\ Begin(c, [Idle EXCEPT !.k = "create", !.ph = "path1", !.p = p, !.n = n, !.x = f])

symlink(c) == \E p \in Name \cup {Nil}, n \in Name, f \in File \ used :
  /\ At(p, n) = Nil
  /\ Begin(c, [Idle EXCEPT !.k = "symlink", !.ph = "path1", !.p = p, !.n = n, !.x = f])

unlink(c) == \E p \in Name \cup {Nil}, n \in Name :
  /\ At(p, n) \in File
  /\ Begin(c, [Idle EXCEPT !.k = "unlink", !.ph = "path1", !.p = p, !.n = n])

readdir(c) == \E p \in Name \cup {Nil} :
  /\ DirAt(p) \in Dir
  /\ Begin(c, [Idle EXCEPT !.k = "readdir", !.ph = "path1", !.p = p])

mkdir(c) == \E n \in Name, s \in SubDir \ used :
  /\ At(Nil, n) = Nil
  /\ Begin(c, [Idle EXCEPT !.k = "mkdir", !.ph = "path1", !.n = n, !.x = s])

rmdir(c) == \E n \in Name :
  /\ At(Nil, n) \in SubDir
  /\ Begin(c, [Idle EXCEPT !.k = "rmdir", !.ph = "path1", !.n = n])

(* The kernel lets a file replace a file only.  Equal paths are EEXIST.    *)
rename(c) == \E p, q \in Name \cup {Nil}, n, m \in Name :
  /\ <<p, n>> # <<q, m>>
  /\ At(p, n) \in File /\ At(q, m) \in File \cup {Nil}
  /\ Begin(c, [Idle EXCEPT !.k = "rename", !.ph = "path1", !.p = p, !.n = n,
                           !.q = q, !.m = m])

-----------------------------------------------------------------------------
(* Finding the directory and who leads it.                                 *)

(* What is wrong on the way to the directory p: the root or the directory  *)
(* cannot be loaded or is not there, a leader does not answer, or the      *)
(* client takes itself for the leader.                                     *)
PathDir(c, p) ==
  IF p = Nil THEN Root ELSE check_child_inode(get_dentry_table(c, Root), Root, p)

PathEnds(c, p) ==
  LET r == get_dentry_table(c, Root)
  IN  IF r = NoTable THEN "noent"
      ELSE IF p = Nil THEN "found"
      ELSE IF Hangs(c, r) THEN "stuck"
      ELSE IF ~Answers(r, Root) THEN "fail"
      ELSE IF PathDir(c, p) = Nil THEN "noent"
      ELSE IF PathDir(c, p) \notin Dir THEN "fail"
      ELSE IF get_dentry_table(c, PathDir(c, p)) = NoTable THEN "noent"
      ELSE IF Hangs(c, get_dentry_table(c, PathDir(c, p))) THEN "stuck"
      ELSE IF ~Answers(get_dentry_table(c, PathDir(c, p)), PathDir(c, p)) THEN "fail"
      ELSE "found"

(* The tables path_traversal has asked for when it ends.                   *)
PathDirs(c, p) ==
  LET r == get_dentry_table(c, Root)
  IN  {Root} \cup IF r # NoTable /\ p # Nil /\ Answers(r, Root)
                    THEN {PathDir(c, p)} \cap Dir ELSE {}

Traverse(c, D, o, dead) ==
  /\ leader' = Leased(c, D)
  /\ Settle(c, o, dead, Fetched(c, D), pend, spoilt \cup Overtaken(c, D))
  /\ UNCHANGED <<fresh, pool, used, truth, crossed, work>>

Stuck(o) == [o EXCEPT !.ph = "stuck"]

path_traversal(c) ==
  LET o == op[c]
      p == IF o.ph = "path1" THEN o.p ELSE o.q
      d == PathDir(c, p)
      t == get_dentry_table(c, d)
      D == PathDirs(c, p)
  IN  /\ o.ph \in {"path1", "path2"}
      /\ \/ /\ PathEnds(c, p) = "noent"
            /\ Traverse(c, D, Idle, {})
         \/ /\ PathEnds(c, p) = "fail"
            /\ Traverse(c, D, Idle, Victims(c))
         \/ /\ PathEnds(c, p) = "stuck"
            /\ Traverse(c, D, Stuck(o), {})
         \/ /\ PathEnds(c, p) = "found"
            /\ o.ph = "path1" /\ o.k # "rmdir"
            /\ Traverse(c, D,
                 [o EXCEPT !.d1 = d, !.at1 = Route(t),
                           !.ph = IF o.k = "rename" /\ o.p # o.q THEN "path2" ELSE "one"],
                 {})
         \/ /\ PathEnds(c, p) = "found"          \* rename: check_dst_ino
            /\ o.ph = "path2"
            /\ IF Answers(t, d)
                 THEN Traverse(c, D,
                        [o EXCEPT !.d2 = d, !.at2 = Route(t), !.ph = "one",
                                  !.seen = check_child_inode(t, d, o.m)], {})
                 ELSE Traverse(c, D, IF Hangs(c, t) THEN Stuck(o) ELSE Idle, {})

(* Another thread of the client looks the directory p up, for getattr:     *)
(* it leaves tables behind, or ends the process.                           *)
getattr(c) ==
  /\ c \in up
  /\ work < MaxWork /\ work' = work + 1
  /\ \E p \in Name \cup {Nil} :
       /\ leader' = Leased(c, PathDirs(c, p))
       /\ Settle(c, op[c], IF PathEnds(c, p) = "fail" THEN {c} ELSE {},
                 Fetched(c, PathDirs(c, p)), pend, spoilt \cup Overtaken(c, PathDirs(c, p)))
  /\ UNCHANGED <<fresh, pool, used, truth, crossed>>

(* Two requests for the lease of a directory without an entry meet at the  *)
(* manager, and a thread of client c, whose is the second to insert one,   *)
(* is refused with its own address.  (The answer may take as long as it    *)
(* likes; after the due time it is no lease, and no address, of anything.) *)
acquire_behind(c) ==
  /\ c \in up
  /\ work < MaxWork /\ work' = work + 1
  /\ \E d \in fresh :
       /\ leader[d] \notin {Nil, c} /\ table[c][d] = NoTable
       /\ table' = [table EXCEPT ![c][d] = RemoteTable(c)]
  /\ UNCHANGED <<leader, fresh, pend, pool, op, up, used, truth, spoilt, crossed>>

(* rmdir looks its target up in the parent and fetches the target's table. *)
rmdir_find(c) ==
  LET o == op[c]
      r == get_dentry_table(c, Root)
      x == check_child_inode(r, Root, o.n)
  IN  /\ o.ph = "path1" /\ o.k = "rmdir" /\ r # NoTable
      /\ \/ /\ Hangs(c, r)
            /\ Traverse(c, {Root}, Stuck(o), {})
         \/ /\ ~Hangs(c, r)
            /\ ~Answers(r, Root) \/ (r.loc = "REMOTE" /\ x = Nil)
            /\ Traverse(c, {Root}, Idle, {c})
         \/ /\ Answers(r, Root)
            /\ x \in File \/ (r.loc = "LOCAL" /\ x = Nil)
            /\ Traverse(c, {Root}, Idle, {})
         \/ /\ Answers(r, Root)
            /\ x \in SubDir
            /\ Traverse(c, {Root, x},
                 IF get_dentry_table(c, x) = NoTable THEN Idle
                 ELSE [o EXCEPT !.ph = "one", !.d1 = x, !.at1 = Route(get_dentry_table(c, x)),
                                !.d2 = Root, !.at2 = Route(r)], {})

-----------------------------------------------------------------------------
(* The handlers, on the entries k the table holds: what they answer, what  *)
(* is in the table afterwards, what they journal.  A local operation does  *)
(* the same as the handler.                                                *)

NoChange == NoPend.kids

Refuse(ret, k) == [ret |-> ret, kids |-> k, rec |-> NoChange]

(* create_child_inode: a name that is there stays as it is (the -1 is      *)
(* ignored), but the new entry is journaled.                               *)
Enter(k, n, x) ==
  [ret |-> "ok", kids |-> IF k[n] = Nil THEN [k EXCEPT ![n] = x] ELSE k,
   rec |-> [NoChange EXCEPT ![n] = x]]

Drop(k, n) ==
  [ret |-> "ok", kids |-> [k EXCEPT ![n] = Nil], rec |-> [NoChange EXCEPT ![n] = Nil]]

rpc_create(o, k) == Enter(k, o.n, o.x)

rpc_mkdir(o, k) == Enter(k, o.n, o.x)

rpc_symlink(o, k) == IF k[o.n] # Nil THEN Refuse("exist", k) ELSE Enter(k, o.n, o.x)

rpc_unlink(o, k) == IF k[o.n] = Nil THEN Refuse("noent", k) ELSE Drop(k, o.n)

rpc_readdir(o, k) == Refuse("listed", k)

(* The rename handlers lock dentry_table_mutex twice: they look the file   *)
(* up, and then take the old name away whatever has it by now (the -1 of   *)
(* delete_child_inode is ignored).                                         *)
rpc_rename_lookup(o, k) == Refuse(IF k[o.n] = Nil THEN "noent" ELSE "ok", k)

(* A slip of rpc_rename_same_parent: the old name stays in the journal.    *)
RenameKeepsOld(o, k) ==
  [ret |-> "ok", kids |-> [k EXCEPT ![o.n] = Nil, ![o.m] = o.x],
   rec |-> [NoChange EXCEPT ![o.m] = o.x]]

rpc_rename_same_parent(o, k) ==
  [ret |-> "ok", kids |-> [k EXCEPT ![o.n] = Nil, ![o.m] = o.x],
   rec |-> [NoChange EXCEPT ![o.n] = Nil, ![o.m] = o.x]]

(* A slip of rpc_rename_not_same_parent_src: the entry stays.              *)
SourceStays(o, k) == Refuse("ok", k)

rpc_rename_not_same_parent_src(o, k) == Drop(k, o.n)

(* A slip of rpc_rename_not_same_parent_dst: what is in the way is removed, *)
(* and nothing put in its place.                                           *)
DestinationCleared(o, k) ==
  IF o.seen = Nil THEN Enter(k, o.m, o.x)
  ELSE IF k[o.m] = Nil THEN Refuse("noent", k) ELSE Drop(k, o.m)

(* What the destination held is known from the lookup before the source's  *)
(* entry was removed.                                                      *)
rpc_rename_not_same_parent_dst(o, k) ==
  IF o.seen = Nil THEN Enter(k, o.m, o.x)
  ELSE IF k[o.m] = Nil THEN Refuse("noent", k)
  ELSE Enter([k EXCEPT ![o.m] = Nil], o.m, o.x)

rpc_rmdir_top(o, k) ==
  IF k # NoKids THEN Refuse("notempty", k) ELSE [Refuse("ok", k) EXCEPT !.kids = NoKids]

rpc_rmdir_down(o, k) == Drop(k, o.n)

Serve(o, k) ==
  CASE o.k = "create" -> rpc_create(o, k)
    [] o.k = "symlink" -> rpc_symlink(o, k)
    [] o.k = "unlink" -> rpc_unlink(o, k)
    [] o.k = "mkdir" -> rpc_mkdir(o, k)
    [] o.k = "readdir" -> rpc_readdir(o, k)
    [] o.k = "rmdir" -> IF o.ph = "one" THEN rpc_rmdir_top(o, k) ELSE rpc_rmdir_down(o, k)
    [] o.k = "rename" -> IF o.ph = "one" THEN rpc_rename_lookup(o, k)
                         ELSE IF o.ph = "two" THEN rpc_rename_not_same_parent_dst(o, k)
                         ELSE IF o.p = o.q THEN rpc_rename_same_parent(o, k)
                         ELSE rpc_rename_not_same_parent_src(o, k)

(* A slip of After: rmdir forgets the entry in the parent.                 *)
AfterTopOnly(o, k, held) ==
  IF o.k = "mkdir" THEN [o EXCEPT !.ph = "lease", !.old = {}]
  ELSE IF o.k = "rename" /\ o.ph = "one" THEN [o EXCEPT !.ph = "take", !.x = k[o.n], !.old = held]
  ELSE IF o.k = "rename" /\ o.ph = "take" /\ o.p # o.q THEN [o EXCEPT !.ph = "two", !.old = {}]
  ELSE Idle

(* Where the operation goes from a step that was done, on a table held     *)
(* since before it was dropped (none when it has not been).                *)
After(o, k, held) ==
  IF o.k = "mkdir" THEN [o EXCEPT !.ph = "lease", !.old = {}]
  ELSE IF o.k = "rmdir" /\ o.ph = "one" THEN [o EXCEPT !.ph = "two", !.old = {}]
  ELSE IF o.k = "rename" /\ o.ph = "one" THEN [o EXCEPT !.ph = "take", !.x = k[o.n], !.old = held]
  ELSE IF o.k = "rename" /\ o.ph = "take" /\ o.p # o.q THEN [o EXCEPT !.ph = "two", !.old = {}]
  ELSE Idle

(* Client s does its part of c's operation on directory d, whose entries   *)
(* it has as k, in a table that it still has, or else in the one of held,  *)
(* which nobody uses afterwards; tb and sp are the tables and the history  *)
(* before.  When the reply is lost the caller takes the request for        *)
(* failed.  The caller of a mkdir journals mkself for the new directory    *)
(* when it has the reply.                                                  *)
Change(c, s, d, k, held, tb, sp, lost) ==
  LET o   == op[c]
      r   == Serve(o, k)
      top == o.k = "rmdir" /\ o.ph = "one"
      clash == \E n \in Name : r.rec[n] \notin {Keep, r.kids[n]}
      noted == [pend EXCEPT ![s][d] =
                  [self |-> IF top THEN "gone" ELSE @.self,
                   kids |-> [n \in Name |-> IF r.rec[n] = Keep THEN @.kids[n] ELSE r.rec[n]]]]
  IN  /\ r.ret = "ok"
      /\ truth' = [truth EXCEPT ![d] = Overlay(@, [kids |-> r.rec])]
      /\ crossed' = crossed \cup IF o.ph = "take" /\ k[o.n] # o.x THEN {o.x} \cap File ELSE {}
      /\ Settle(c, IF lost THEN Idle ELSE After(o, k, held), IF lost THEN Victims(c) ELSE {},
           [i \in Client |-> [e \in Dir |->
              IF i # s THEN tb[i][e]
              ELSE IF e = d /\ top THEN NoTable
              ELSE IF e = d /\ held = {} THEN LocalTable(r.kids)
              ELSE IF o.k = "rmdir" /\ o.ph = "two" /\ e = o.d1 THEN NoTable
              ELSE tb[i][e]]],
           IF o.k = "mkdir" /\ ~lost THEN [noted EXCEPT ![c][o.x].self = "made"] ELSE noted,
           sp \cup (IF clash \/ held # {} \/ (o.k = "rename" /\ o.ph = "two" /\ o.x = Nil)
                     THEN {d} ELSE {})
              \cup (IF lost /\ o.k = "mkdir" THEN {o.x} ELSE {})
              \cup (IF lost /\ top THEN {o.d1} ELSE {}))

(* Client s works with a table t that says that another client leads d.    *)
(* It has no entries: making one, or counting them, is a null pointer.  To *)
(* remove one is only journaled (for unlink if the link count, never read, *)
(* happens to be 1), and rename gets a file without a number.  symlink and *)
(* rename first ask the leader what is under the new name.                 *)
Misuse(c, s, d, t, tb, sp) ==
  LET o == op[c]
      asks == o.k = "symlink" \/ (o.k = "rename" /\ o.p = o.q)
      exists == o.k = "symlink" /\ Answers(t, d) /\ check_child_inode(t, d, o.n) # Nil
      quiet == o.k = "unlink" \/ (o.k = "rmdir" /\ o.ph = "two")
                 \/ (o.k = "rename" /\ o.p # o.q /\ o.ph = "one")
      noted == [pend EXCEPT ![s][d].kids[o.n] = Nil]
  IN  /\ \/ /\ o.k = "readdir"
            /\ Settle(c, Idle, {c} \cap {s}, tb, pend, sp)
         \/ /\ asks /\ Hangs(s, t)
            /\ Settle(c, Stuck(o), {}, tb, pend, sp)
         \/ /\ asks /\ ~Hangs(s, t)
            /\ exists \/ ~Answers(t, d)
            /\ Settle(c, Idle, IF exists THEN {} ELSE Victims(c), tb, pend, sp)
         \/ /\ quiet
            /\ \/ Settle(c, IF o.k = "rename" THEN [o EXCEPT !.ph = "two", !.old = {}]
                            ELSE Idle,
                         {}, tb, noted, sp \cup {d})
               \/ o.k = "unlink" /\ Settle(c, Idle, {}, tb, pend, sp)
         \/ /\ o.k # "readdir" /\ ~quiet
            /\ asks => ~Hangs(s, t) /\ ~exists /\ Answers(t, d)
            /\ Settle(c, Idle, {s} \cup Victims(c), tb, pend, sp)
      /\ UNCHANGED <<truth, crossed>>

-----------------------------------------------------------------------------
(* A step of a change done by the client itself, which fetches the table   *)
(* again.                                                                  *)
local_op(c) ==
  LET o == op[c]
      d == Stage(o)
      t == get_dentry_table(c, d)
      tb == Fetched(c, {d})
      sp == spoilt \cup Overtaken(c, {d})
  IN  /\ Staged(o) /\ ~HoldsOld(o) /\ Address(o) = Here
      /\ leader' = Leased(c, {d})
      /\ \/ /\ t = NoTable
            /\ Settle(c, Idle, NoEntryVictims(c), tb, pend, sp)
            /\ UNCHANGED <<truth, crossed>>
         \/ /\ t.loc = "REMOTE"
            /\ Misuse(c, c, d, t, tb, sp)
         \/ /\ t.loc = "LOCAL"
            /\ Change(c, c, d, t.kids, {}, tb, sp, FALSE)
         \/ /\ t.loc = "LOCAL"
            /\ Serve(o, t.kids).ret # "ok"
            /\ Settle(c, Idle, {}, tb, pend, sp)
            /\ UNCHANGED <<truth, crossed>>
      /\ UNCHANGED <<fresh, pool, used, work>>

Calling(c) == Staged(op[c]) /\ Address(op[c]) # Here

(* A request to a client that runs and has a table.  An exception in the   *)
(* handler is a failed request for the caller.                             *)
remote_op(c) ==
  LET o == op[c]
      d == Stage(o)
      s == Address(o)
      t == table[s][d]
  IN  /\ Calling(c) /\ ~HoldsOld(o) /\ s \in up /\ t # NoTable
      /\ \/ /\ t.loc = "REMOTE"
            /\ Misuse(c, s, d, t, table, spoilt)
         \/ /\ t.loc = "LOCAL"
            /\ Change(c, s, d, t.kids, {}, table, spoilt, FALSE)
         \/ /\ t.loc = "LOCAL"
            /\ Serve(o, t.kids).ret # "ok"
            /\ Settle(c, Idle, IF Serve(o, t.kids).ret = "noent" THEN Victims(c) ELSE {},
                      table, pend, spoilt)
            /\ UNCHANGED <<truth, crossed>>
      /\ UNCHANGED <<leader, fresh, pool, used, work>>

(* The table was fetched, by the client itself or for a request, and       *)
(* dropped before its mutex was to be had: the lease ran out, or the       *)
(* directory was removed.  The change is made and journaled all the same.  *)
late_op(c) ==
  LET o == op[c]
      d == Stage(o)
      s == Worker(c)
  IN  /\ Staged(o) /\ s \in up
      /\ \E t \in o.old :
           \/ /\ t.loc = "REMOTE"
              /\ Misuse(c, s, d, t, table, spoilt)
           \/ /\ t.loc = "LOCAL"
              /\ Change(c, s, d, t.kids, {t}, table, spoilt, FALSE)
           \/ /\ t.loc = "LOCAL"
              /\ Serve(o, t.kids).ret # "ok"
              /\ Settle(c, Idle, IF s # c /\ Serve(o, t.kids).ret = "noent"
                                   THEN Victims(c) ELSE {},
                        table, pend, spoilt)
              /\ UNCHANGED <<truth, crossed>>
      /\ UNCHANGED <<leader, fresh, pool, used, work>>

(* ENEEDRECOV: nobody answers at the address.                              *)
need_recov(c) ==
  /\ Calling(c) /\ Address(op[c]) \notin up
  /\ Settle(c, Idle, Victims(c), table, pend, spoilt)
  /\ UNCHANGED <<leader, fresh, pool, used, truth, crossed, work>>

(* The message, or the reply, is lost.  (A handler between its two locks   *)
(* has the message.)                                                       *)
Lose(c) ==
  LET o == op[c]
      s == Address(o)
      d == Stage(o)
      t == table[s][d]
  IN  /\ Calling(c) /\ s \in up
      /\ work < MaxWork /\ work' = work + 1
      /\ \/ /\ o.ph # "take"
            /\ Settle(c, Idle, Victims(c), table, pend, spoilt)
            /\ UNCHANGED <<truth, crossed>>
         \/ /\ ~HoldsOld(o) /\ t.loc = "LOCAL"
            /\ Change(c, s, d, t.kids, {}, table, spoilt, TRUE)
         \/ \E u \in o.old :
              /\ u.loc = "LOCAL"
              /\ Change(c, s, d, u.kids, {u}, table, spoilt, TRUE)
      /\ UNCHANGED <<leader, fresh, pool, used>>

(* A slip of find_remote_dentry_table_again: the address is not renewed.   *)
SameAddress(c) ==
  LET o == op[c]
      d == Stage(o)
  IN  /\ Calling(c) /\ o.ph # "take"
      /\ Address(o) \in up /\ table[Address(o)][d] = NoTable
      /\ leader' = Leased(c, {d})
      /\ Settle(c, IF o.k = "readdir" \/ get_dentry_table(c, d) = NoTable THEN Idle ELSE o,
                {}, Fetched(c, {d}), pend, spoilt \cup Overtaken(c, {d}))
      /\ UNCHANGED <<fresh, pool, used, truth, crossed, work>>

(* ENOTLEADER: the caller looks for the leader again and takes the address *)
(* of the table it gets, which is empty when it leads the directory        *)
(* itself.  readdir never sees the error, and lists nothing.               *)
find_remote_dentry_table_again(c) ==
  LET o == op[c]
      d == Stage(o)
      t == get_dentry_table(c, d)
  IN  /\ Calling(c) /\ o.ph # "take"
      /\ Address(o) \in up /\ table[Address(o)][d] = NoTable
      /\ IF o.k = "readdir"
           THEN /\ op' = [op EXCEPT ![c] = Idle]
                /\ UNCHANGED <<leader, table, pend, up, spoilt>>
           ELSE /\ leader' = Leased(c, {d})
                /\ Settle(c, IF t = NoTable THEN Idle
                             ELSE IF o.ph = "one" THEN [o EXCEPT !.at1 = t.ip, !.old = {}]
                             ELSE [o EXCEPT !.at2 = t.ip, !.old = {}],
                          {}, Fetched(c, {d}), pend, spoilt \cup Overtaken(c, {d}))
      /\ UNCHANGED <<fresh, pool, used, truth, crossed, work>>

(* The maker of a directory takes its lease, or dies of the refusal.  It   *)
(* adds an empty table, unless a lookup of its own has added one before.   *)
lease_dentry_table_mkdir(c) ==
  LET x == op[c].x
      new == table[c][x] = NoTable
  IN  /\ op[c].ph = "lease"
      /\ IF leader[x] \in {Nil, c}
           THEN /\ leader' = [leader EXCEPT ![x] = c]
                /\ Settle(c, Idle, {},
                     IF new THEN [table EXCEPT ![c][x] = LocalTable(NoKids)] ELSE table, pend,
                     spoilt \cup IF new /\ (truth[x] # NoKids \/ Journaled(x)) THEN {x} ELSE {})
           ELSE /\ Settle(c, Idle, {c}, table, pend, spoilt)
                /\ UNCHANGED leader
      /\ UNCHANGED <<fresh, pool, used, truth, crossed, work>>

-----------------------------------------------------------------------------
(* What goes on besides.                                                   *)

(* The checkpoint of all that client c has journaled for d.  Without the   *)
(* objects it ends the process.                                            *)
Checkpoint(c, d) ==
  LET p == pend[c][d]
  IN  /\ p # NoPend
      /\ IF p.self = "same" /\ ~pool[d].made
           THEN /\ Settle(c, Idle, {c}, table, pend, spoilt)
                /\ UNCHANGED pool
           ELSE /\ pool' = [pool EXCEPT ![d] =
                              IF p.self = "gone" THEN [made |-> FALSE, kids |-> NoKids]
                              ELSE [made |-> TRUE, kids |-> Overlay(@.kids, p)]]
                /\ Settle(c, op[c], {}, table, [pend EXCEPT ![c][d] = NoPend], spoilt)
      /\ UNCHANGED <<leader, fresh, used, truth, crossed, work>>

(* The lease of d runs out, and nobody renews it.  The tables are no       *)
(* longer valid, but those who have fetched one, and wait for its mutex,   *)
(* go on with it.                                                          *)
Lapse(d) ==
  /\ leader[d] # Nil
  /\ leader' = [leader EXCEPT ![d] = Nil]
  /\ fresh' = fresh \ {d}
  /\ table' = [c \in Client |-> [table[c] EXCEPT ![d] = NoTable]]
  /\ op' = [c \in Client |-> Onwards(c, {}, table')]
  /\ UNCHANGED <<pend, pool, up, used, truth, spoilt, crossed, work>>

Crash(c) ==
  /\ c \in up
  /\ work < MaxWork /\ work' = work + 1
  /\ Settle(c, Idle, {c}, table, pend, spoilt)
  /\ UNCHANGED <<leader, fresh, pool, used, truth, crossed>>

(* A client mounts again: the constructor of directory_table gets the root *)
(* or fails.  The manager knows it by its address.                         *)
directory_table(c) ==
  /\ c \notin up
  /\ leader' = Leased(c, {Root})
  /\ table' = Fetched(c, {Root})
  /\ up' = IF get_dentry_table(c, Root) = NoTable THEN up ELSE up \cup {c}
  /\ spoilt' = spoilt \cup Overtaken(c, {Root})
  /\ UNCHANGED <<fresh, pend, pool, op, used, truth, crossed, work>>

Call(c) ==
  /\ c \in up /\ op[c] = Idle /\ work + 2 <= MaxWork
  /\ \/ create(c) \/ symlink(c) \/ unlink(c) \/ readdir(c)
     \/ mkdir(c) \/ rmdir(c) \/ rename(c)

Step(c) ==
  \/ path_traversal(c) \/ rmdir_find(c)
  \/ local_op(c) \/ remote_op(c) \/ late_op(c) \/ need_recov(c)
  \/ find_remote_dentry_table_again(c) \/ lease_dentry_table_mkdir(c)

Next ==
  \/ \E c \in Client : Call(c) \/ Step(c) \/ Lose(c) \/ Crash(c) \/ directory_table(c)
                         \/ getattr(c) \/ acquire_behind(c)
  \/ \E c \in Client, d \in Dir : Checkpoint(c, d)
  \/ \E d \in Dir : Lapse(d)

Spec == Init /\ [][Next]_vars

(* An operation goes on until it returns.  A lease has a due time and is   *)
(* never renewed before it; it lasts far longer than a request takes, so   *)
(* that not every request comes too late.                                  *)
Fairness ==
  /\ \A c \in Client : WF_vars(Step(c)) /\ SF_vars(remote_op(c))
  /\ \A d \in Dir : WF_vars(Lapse(d))

FairSpec == Spec /\ Fairness

-----------------------------------------------------------------------------
(***************************************************************************)
(* The leader's table of a directory, and the objects overlaid with what   *)
(* is journaled, are what the operations done so far have made of it,      *)
(* unless one of these happened: the directory was loaded while changes    *)
(* of it were still journaled, a process died with such changes, two       *)
(* operations made the same name, an entry was removed by a client that    *)
(* did not lead the directory, an operation worked on a table that had     *)
(* been dropped while it waited, somebody else changed or removed a new    *)
(* directory before its maker led it, or its making or removal stopped     *)
(* halfway.                                                                *)
(***************************************************************************)
Agreement ==
  \A d \in Dir \ spoilt, n \in Name :
    /\ \A c \in Client : table[c][d].loc = "LOCAL" => table[c][d].kids[n] = truth[d][n]
    /\ LET journaled == {pend[c][d].kids[n] : c \in Client} \ {Keep}
       IN  IF journaled = {} THEN pool[d].kids[n] = truth[d][n]
           ELSE journaled = {truth[d][n]}

(***************************************************************************)
(* A directory with an entry in the root, in its objects or as the         *)
(* operations made it, has its objects, or its maker is alive and will     *)
(* write them, or a live client is about to take the entry away: so the    *)
(* root can be loaded again once the journals are checkpointed.  (A root   *)
(* with an entry without objects can never be loaded.)                     *)
(***************************************************************************)
Loads ==
  \A n \in Name : \A s \in {truth[Root][n], pool[Root].kids[n]} \cap (SubDir \ spoilt) :
    \/ pool[s].made
    \/ \E c \in up : pend[c][s].self = "made"
    \/ \E c \in up : op[c].k = "rmdir" /\ op[c].ph = "two" /\ op[c].d1 = s

Moving(c, x) == op[c].k = "rename" /\ op[c].ph = "two" /\ op[c].x = x

Linked(x) == \E d \in Dir, n \in Name : truth[d][n] = x

(***************************************************************************)
(* No file is under two names, whatever renames and removals meet, for     *)
(* rename takes the old entry away before it makes the new one - except a  *)
(* file that a rename moved although it had lost the name under which the  *)
(* rename, which unlocks in between, had found it.                         *)
(***************************************************************************)
NoDoubleLink ==
  spoilt = {} =>
    \A x \in File \ crossed :
      LET at == {e \in Dir \X Name : truth[e[1]][e[2]] = x}
      IN  /\ Cardinality(at) <= 1
          /\ (\E c \in Client : Moving(c, x)) => at = {}

(* The destination of a rename is as it was when rename looked it up, and  *)
(* no table of it has been dropped since rename asked for it.              *)
Steady(c) ==
  LET o == op[c]
  IN  \E s \in Client : /\ o.old = {}
                        /\ table[s][o.d2].loc = "LOCAL"
                        /\ o.at2 = IF s = c THEN Here ELSE s
                        /\ (o.seen = Nil) = (table[s][o.d2].kids[o.m] = Nil)

(***************************************************************************)
(* A file goes only when it is unlinked, another takes its name, or the    *)
(* removal of a directory that once had its name ends (rmdir takes the     *)
(* entry away by name), it has taken the name of a file that a rename has  *)
(* found and now takes away by name, or in a rename between its two        *)
(* halves: when the client dies, a message is lost, or the destination has *)
(* meanwhile got or lost the name, or lost its leader.                     *)
(***************************************************************************)
FileKept ==
  [][\A x \in File :
       Linked(x) \/ (\E c \in Client : Moving(c, x)) =>
         \/ Linked(x)' \/ (\E c \in Client : Moving(c, x))'
         \/ \E c \in Client : /\ <<op[c].k, op[c].ph>> \in {<<"unlink", "one">>, <<"rmdir", "two">>}
                              /\ op'[c] = Idle
                              /\ truth[Stage(op[c])][op[c].n] = x
         \/ \E c \in Client : /\ op[c].k = "rename" /\ op'[c].ph # op[c].ph
                              /\ op[c].ph = "two" \/ (op[c].ph = "take" /\ op[c].p = op[c].q)
                              /\ truth[Stage(op[c])][op[c].m] = x
         \/ \E c \in Client : /\ op[c].k = "rename" /\ op'[c].ph # op[c].ph
                              /\ op[c].ph = "take" /\ op[c].x # x
                              /\ truth[op[c].d1][op[c].n] = x
         \/ \E d \in spoilt', n \in Name : truth[d][n] = x
         \/ \E c \in Client : op[c].k = "rename" /\ (c \notin up' \/ work' # work)
         \/ \E c \in Client : Moving(c, x) /\ ~Steady(c)]_vars

(***************************************************************************)
(* No operation asks for a directory's leader for ever: it ends, with an   *)
(* error, or with the process, unless it asks its own client as the leader *)
(* of a directory that the client does not lead.                           *)
(***************************************************************************)
OperationsEnd == \A c \in Client : op[c] # Idle ~> op[c].ph \in {"idle", "stuck"}
=============================================================================
