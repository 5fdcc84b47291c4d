------------------------------ MODULE OpenFiles ------------------------------
(***************************************************************************)
(* Open files and attributes: the handles of the clients                   *)
(* (src/client/meta/file_handler), the inodes the leader of a directory    *)
(* has in memory, and the operations on one file that go through a path or *)
(* a handle (getattr, access, open, write, chmod, chown, utimens,          *)
(* truncate, release).                                                     *)
(*                                                                         *)
(* A handle opened by the leader is a pointer to its inode, and stays one  *)
(* when the lease is lost; a handle opened by another client is a          *)
(* remote_inode: the directory, the file's name and the leader's address.  *)
(* One directory; its names change in one step each (Directory has the     *)
(* steps, FileData the data).  Attributes are values; a journaled inode is *)
(* written whole.                                                          *)
(***************************************************************************)
EXTENDS Naturals, FiniteSets

CONSTANTS
  Client, File, Name,
  First,         \* the entries of the directory at first
  Nil,           \* no file, no leader, the empty address
  Keep,          \* no change
  MaxValue,      \* attributes are in 0..MaxValue
  MaxWork        \* bound on changes of attributes (2 each), and on lookups,
                 \* writes, changes of names and crashes (1 each)

ASSUME FirstAssumption == First \in [Name -> File \cup {Nil}]
ASSUME NilAssumption ==
  Nil \notin File \cup Client \cup Name /\ Keep \notin File \cup {Nil}
ASSUME BoundAssumption == MaxValue \in Nat /\ MaxWork \in Nat

VARIABLES
  leader,    \* who holds the unexpired lease
  loc,       \* the table of each client: none, LOCAL or REMOTE
  mem,       \* the leader's entries and inodes, while it has a LOCAL table
  pool,      \* the objects
  pend,      \* what each client has journaled and not checkpointed
  ref,       \* the inode of each client's open file and of its current path
  op,        \* the operation each client is in
  up,        \* the clients that run
  used,      \* the inode numbers given out
  truth,     \* history: the attributes the operations that succeeded gave
  spoilt,    \* history: the files whose attributes may differ from it
  rebound,   \* history: the names that have been taken from a file
  work

vars == <<leader, loc, mem, pool, pend, ref, op, up, used, truth, spoilt, rebound, work>>

Value == 0..MaxValue
Attr == [mode : Value, owner : Value, times : Value, size : Value]
NewAttr == [mode |-> 0, owner |-> 0, times |-> 0, size |-> 0]

(* "No change" is no value an attribute can have. *)
ASSUME KeepAssumption == Keep \notin Attr

NoRef == [loc |-> "none", f |-> Nil, n |-> Nil, at |-> Nil, own |-> FALSE, attr |-> NewAttr]

(* A pointer to an inode; attr is its content once it is out of the table. *)
LocalRef(f) == [NoRef EXCEPT !.loc = "LOCAL", !.f = f, !.own = TRUE]

RemoteRef(f, n, s) == [NoRef EXCEPT !.loc = "REMOTE", !.f = f, !.n = n, !.at = s]

Idle == [k |-> "idle", v |-> 0, w |-> "fh"]

(* stray: something is journaled for a directory nobody has named.         *)
NoPend == [kids |-> [n \in Name |-> Keep], attr |-> [f \in File |-> Keep], stray |-> FALSE]

NoMem == [kids |-> [n \in Name |-> Nil], attr |-> [f \in File |-> NewAttr]]

Changing == {"chmod", "chown", "utimens", "truncate", "write", "opentrunc"}

TypeOK ==
  /\ leader \in Client \cup {Nil}
  /\ loc \in [Client -> {"none", "LOCAL", "REMOTE"}]
  /\ \A o \in {mem, pool} : o.kids \in [Name -> File \cup {Nil}] /\ o.attr \in [File -> Attr]
  /\ \A c \in Client :
       /\ pend[c].kids \in [Name -> File \cup {Nil, Keep}]
       /\ \A f \in File : pend[c].attr[f] = Keep \/ pend[c].attr[f] \in Attr
       /\ pend[c].stray \in BOOLEAN
       /\ \A w \in {"fh", "path"} :
            /\ ref[c][w].loc = "LOCAL" => ref[c][w].f \in File
            /\ ref[c][w].loc = "REMOTE" =>
                 ref[c][w].f \in File /\ ref[c][w].n \in Name /\ ref[c][w].at \in Client \cup {Nil}
       /\ op[c].v \in Value
       /\ op[c] # Idle => ref[c][op[c].w] # NoRef
  /\ up \subseteq Client /\ used \subseteq File
  /\ truth \in [File -> Attr]
  /\ spoilt \subseteq File /\ rebound \subseteq Name
  /\ work \in 0..MaxWork

Init ==
  /\ leader = Nil
  /\ loc = [c \in Client |-> "none"]
  /\ pool = [kids |-> First, attr |-> [f \in File |-> NewAttr]]
  /\ mem = NoMem
  /\ pend = [c \in Client |-> NoPend]
  /\ ref = [c \in Client |-> [w \in {"fh", "path"} |-> NoRef]]
  /\ op = [c \in Client |-> Idle]
  /\ up = Client
  /\ used = {First[n] : n \in Name} \ {Nil}
  /\ truth = pool.attr
  /\ spoilt = {} /\ rebound = {} /\ work = 0

-----------------------------------------------------------------------------
(* Tables, as in Directory.                                                *)

Loads(c) == loc[c] = "none" /\ leader \in {Nil, c}

get_dentry_table(c) ==
  IF loc[c] # "none" THEN loc[c] ELSE IF Loads(c) THEN "LOCAL" ELSE "REMOTE"

(* A load misses what is still in a journal.                               *)
Missed(c) ==
  IF Loads(c) THEN {f \in File : \E i \in Client : pend[i].attr[f] # Keep} ELSE {}

MissedNames(c) ==
  IF Loads(c) THEN {n \in Name : \E i \in Client : pend[i].kids[n] # Keep} ELSE {}

(* A process dies with its tables, handles and journal.                    *)
Kill(c) ==
  /\ up' = up \ {c}
  /\ loc' = [loc EXCEPT ![c] = "none"]
  /\ pend' = [pend EXCEPT ![c] = NoPend]
  /\ ref' = [ref EXCEPT ![c] = [w \in {"fh", "path"} |-> NoRef]]
  /\ op' = [op EXCEPT ![c] = Idle]
  /\ spoilt' = spoilt \cup {f \in File : pend[c].attr[f] # Keep}
  /\ rebound' = rebound \cup {n \in Name : pend[c].kids[n] # Keep}

-----------------------------------------------------------------------------
(* The handlers, on the attributes of the inode.                           *)

rpc_getattr(a) == a

rpc_access(a) == a

rpc_chmod(a, v) == [a EXCEPT !.mode = v]

rpc_chown(a, v) == [a EXCEPT !.owner = v]

rpc_utimens(a, v) == [a EXCEPT !.times = v]

rpc_truncate(a, v) == [a EXCEPT !.size = v]

rpc_open(a) == [a EXCEPT !.size = 0]       \* with O_TRUNC

(* v is the end of what is written.                                        *)
rpc_write(a, v) == IF a.size < v THEN [a EXCEPT !.size = v] ELSE a

Serve(k, a, v) ==
  CASE k = "chmod" -> rpc_chmod(a, v)
    [] k = "chown" -> rpc_chown(a, v)
    [] k = "utimens" -> rpc_utimens(a, v)
    [] k = "truncate" -> rpc_truncate(a, v)
    [] k = "write" -> rpc_write(a, v)
    [] k = "opentrunc" -> rpc_open(a)
    [] k = "getattr" -> rpc_getattr(a)
    [] k = "access" -> rpc_access(a)
    [] OTHER -> a

(* A slip of Journals: a change of the owner is not journaled.             *)
JournalsNoOwner(k, a, b) == k \in Changing \ {"chown"} /\ (k = "write" => a # b)

Journals(k, a, b) == k \in Changing /\ (k = "write" => a # b)

Opens(k) == k \in {"open", "opentrunc"}

(* Client s changes, as operation k with value v says, the inode of file g *)
(* in the leader's table m, for somebody who means file f.                 *)
Apply(s, m, g, f, k, v) ==
  LET a == Serve(k, m.attr[g], v)
  IN  /\ mem' = [m EXCEPT !.attr[g] = a]
      /\ pend' = IF Journals(k, a, m.attr[g]) THEN [pend EXCEPT ![s].attr[g] = a] ELSE pend
      /\ truth' = [truth EXCEPT ![f] = Serve(k, @, v)]

-----------------------------------------------------------------------------
(* Operations that name a path.  The leader does them at once; another     *)
(* client gets a remote inode, if the leader answers its lookup.           *)

Able(c, k) ==
  /\ c \in up /\ op[c] = Idle
  /\ work' = work + (IF k \in Changing \ {"write"} THEN 2 ELSE 1)
  /\ work' <= MaxWork

ByPath(c, k, v) ==
  LET m == IF Loads(c) THEN pool ELSE mem
  IN  \E n \in Name :
        /\ Able(c, k)
        /\ Opens(k) => ref[c]["fh"] = NoRef
        /\ m.kids[n] # Nil
        /\ \/ /\ get_dentry_table(c) = "LOCAL"
              /\ leader' = c
              /\ loc' = [loc EXCEPT ![c] = "LOCAL"]
              /\ Apply(c, m, m.kids[n], m.kids[n], k, v)
              /\ ref' = IF Opens(k) THEN [ref EXCEPT ![c]["fh"] = LocalRef(m.kids[n])] ELSE ref
              /\ spoilt' = spoilt \cup Missed(c)
              /\ rebound' = rebound \cup MissedNames(c)
              /\ UNCHANGED <<op, up>>
           \/ /\ get_dentry_table(c) = "REMOTE" /\ leader \in up /\ loc[leader] = "LOCAL"
              /\ loc' = [loc EXCEPT ![c] = "REMOTE"]
              /\ op' = [op EXCEPT ![c] = [k |-> k, v |-> v, w |-> "path"]]
              /\ ref' = [ref EXCEPT ![c]["path"] = RemoteRef(m.kids[n], n, leader)]
              /\ UNCHANGED <<leader, mem, pend, truth, spoilt, rebound, up>>
           \/ /\ get_dentry_table(c) = "REMOTE" /\ ~(leader \in up /\ loc[leader] = "LOCAL")
              /\ Kill(c)
              /\ UNCHANGED <<leader, mem, truth>>
        /\ UNCHANGED <<pool, used>>

(* Operations on an open file go on with the handle's inode.               *)
ByHandle(c, k, v) ==
  /\ Able(c, k)
  /\ ref[c]["fh"] # NoRef
  /\ op' = [op EXCEPT ![c] = [k |-> k, v |-> v, w |-> "fh"]]
  /\ UNCHANGED <<leader, loc, mem, pool, pend, ref, up, used, truth, spoilt, rebound>>

getattr(c) == ByPath(c, "getattr", 0) \/ ByHandle(c, "getattr", 0)

access(c) == ByPath(c, "access", 0)

open(c) == ByPath(c, "open", 0) \/ ByPath(c, "opentrunc", 0)

chmod(c) == \E v \in Value : ByPath(c, "chmod", v) \/ ByHandle(c, "chmod", v)

chown(c) == \E v \in Value : ByPath(c, "chown", v) \/ ByHandle(c, "chown", v)

utimens(c) == \E v \in Value : ByPath(c, "utimens", v) \/ ByHandle(c, "utimens", v)

truncate(c) == \E v \in Value : ByPath(c, "truncate", v) \/ ByHandle(c, "truncate", v)

write(c) == \E v \in Value : ByHandle(c, "write", v)

(* The handle leaves the list. *)
release(c) ==
  /\ c \in up /\ op[c] = Idle /\ ref[c]["fh"] # NoRef
  /\ ref' = [ref EXCEPT ![c]["fh"] = NoRef]
  /\ UNCHANGED <<leader, loc, mem, pool, pend, op, up, used, truth, spoilt, rebound, work>>

-----------------------------------------------------------------------------
(* The operation on the inode.                                             *)

(* On a pointer: to an inode of the table, or to one that has been out of  *)
(* it since the lease was lost.                                            *)
local_op(c) ==
  LET r == ref[c][op[c].w]
      a == Serve(op[c].k, r.attr, op[c].v)
  IN  /\ op[c] # Idle /\ r.loc = "LOCAL"
      /\ op' = [op EXCEPT ![c] = Idle]
      /\ IF r.own
           THEN /\ Apply(c, mem, r.f, r.f, op[c].k, op[c].v)
                /\ UNCHANGED <<ref, spoilt>>
           ELSE /\ ref' = [ref EXCEPT ![c][op[c].w].attr = a]
                /\ pend' = IF Journals(op[c].k, a, r.attr)
                             THEN [pend EXCEPT ![c].attr[r.f] = a] ELSE pend
                /\ truth' = [truth EXCEPT ![r.f] = Serve(op[c].k, @, op[c].v)]
                /\ spoilt' = spoilt \cup IF op[c].k \in Changing THEN {r.f} ELSE {}
                /\ UNCHANGED mem
      /\ UNCHANGED <<leader, loc, pool, up, used, rebound, work>>

(* A slip of Done: the handle is made before there is an inode for it.     *)
DoneEarly(c) ==
  /\ op' = [op EXCEPT ![c] = Idle]
  /\ ref' = [ref EXCEPT ![c] =
               [fh |-> IF Opens(op[c].k) THEN [NoRef EXCEPT !.loc = "REMOTE"] ELSE ref[c]["fh"],
                path |-> NoRef]]

(* What the client has at the end: open makes a handle of the path's inode. *)
Done(c) ==
  /\ op' = [op EXCEPT ![c] = Idle]
  /\ ref' = [ref EXCEPT ![c] =
               [fh |-> IF Opens(op[c].k) THEN ref[c]["path"] ELSE ref[c]["fh"],
                path |-> NoRef]]

Calling(c) == op[c] # Idle /\ ref[c][op[c].w].loc = "REMOTE"

(* The leader answers get_mode for the name. *)
KnowsMode(n) == leader \in up /\ loc[leader] = "LOCAL" /\ mem.kids[n] # Nil

(* A request, by the name of the file.  The leader changes whatever is     *)
(* under the name; a name that is gone is EACCES for getattr and the end   *)
(* of the caller otherwise.  A client that has found another leader makes  *)
(* an empty remote inode, asks that leader for the mode (not for a write,  *)
(* and for open only by its flags), changes the empty inode and journals   *)
(* it for the directory that happens to be in its p_ino.                   *)
remote_op(c) ==
  LET o == op[c]
      r == ref[c][o.w]
      g == mem.kids[r.n]
  IN  /\ Calling(c) /\ r.at \in up
      /\ \/ /\ loc[r.at] = "LOCAL" /\ g # Nil
            /\ Apply(r.at, mem, g, r.f, o.k, o.v)
            /\ Done(c)
            /\ spoilt' = spoilt \cup IF g # r.f /\ o.k \in Changing THEN {g, r.f} ELSE {}
            /\ UNCHANGED <<loc, up, rebound>>
         \/ /\ loc[r.at] = "LOCAL" /\ g = Nil /\ o.k = "getattr"
            /\ Done(c)
            /\ UNCHANGED <<loc, mem, pend, up, truth, spoilt, rebound>>
         \/ /\ loc[r.at] = "LOCAL" /\ g = Nil /\ o.k # "getattr"
            /\ Kill(c)
            /\ UNCHANGED <<mem, truth>>
         \/ /\ loc[r.at] = "REMOTE"
            /\ Opens(o.k) \/ o.k = "write" \/ KnowsMode(r.n)
            /\ Done(c)
            /\ truth' = [truth EXCEPT ![r.f] = Serve(o.k, @, o.v)]
            /\ spoilt' = spoilt \cup IF o.k \in Changing THEN {r.f} ELSE {}
            /\ \E size \in Value :                  \* whatever the empty inode has
                 pend' = [pend EXCEPT ![r.at].stray =
                            @ \/ (o.k \in Changing /\ (o.k = "write" => size < o.v))]
            /\ UNCHANGED <<loc, mem, up, rebound>>
         \/ /\ loc[r.at] = "REMOTE"
            /\ o.k # "write" /\ ~KnowsMode(r.n)
            /\ Kill(c)
            /\ UNCHANGED <<mem, truth>>
      /\ UNCHANGED <<leader, pool, used, work>>

(* ENEEDRECOV. *)
need_recov(c) ==
  /\ Calling(c) /\ ref[c][op[c].w].at \notin up
  /\ Kill(c)
  /\ UNCHANGED <<leader, mem, pool, used, truth, work>>

(* ENOTLEADER: the remote inode, which the handle shares, gets the address *)
(* of the leader, or the empty one if that is the client itself.           *)
find_remote_dentry_table_again(c) ==
  LET r == ref[c][op[c].w]
  IN  /\ Calling(c) /\ r.at \in up /\ loc[r.at] = "none"
      /\ loc' = [loc EXCEPT ![c] = get_dentry_table(c)]
      /\ leader' = IF Loads(c) THEN c ELSE leader
      /\ mem' = IF Loads(c) THEN pool ELSE mem
      /\ ref' = [ref EXCEPT ![c][op[c].w].at =
                   IF get_dentry_table(c) = "LOCAL" THEN Nil ELSE leader]
      /\ spoilt' = spoilt \cup Missed(c)
      /\ rebound' = rebound \cup MissedNames(c)
      /\ UNCHANGED <<pool, pend, op, up, used, truth, work>>

-----------------------------------------------------------------------------
(* What goes on besides.                                                   *)

(* A name changes at the leader, which journals it. *)
Rebind(kids, taken) ==
  /\ leader \in up /\ loc[leader] = "LOCAL"
  /\ work < MaxWork /\ work' = work + 1
  /\ mem' = [mem EXCEPT !.kids = kids]
  /\ rebound' = rebound \cup taken

Noted(kids) ==
  [n \in Name |-> IF kids[n] # mem.kids[n] THEN kids[n] ELSE pend[leader].kids[n]]

unlink == \E n \in Name : LET kids == [mem.kids EXCEPT ![n] = Nil] IN
  /\ mem.kids[n] # Nil
  /\ Rebind(kids, {n})
  /\ pend' = [pend EXCEPT ![leader].kids = Noted(kids)]
  /\ UNCHANGED <<leader, loc, pool, ref, op, up, used, truth, spoilt>>

rename == \E n, m \in Name :
  LET kids == [mem.kids EXCEPT ![n] = Nil, ![m] = mem.kids[n]] IN
  /\ n # m /\ mem.kids[n] # Nil
  /\ Rebind(kids, {n, m})
  /\ pend' = [pend EXCEPT ![leader].kids = Noted(kids),
                          ![leader].attr[mem.kids[n]] = mem.attr[mem.kids[n]]]
  /\ UNCHANGED <<leader, loc, pool, ref, op, up, used, truth, spoilt>>

(* A slip of create: the name may be taken.                                *)
CreateOver(c) == \E n \in Name, f \in File \ used :
  LET kids == [mem.kids EXCEPT ![n] = f] IN
  /\ c \in up /\ op[c] = Idle /\ ref[c]["fh"] = NoRef
  /\ Rebind(kids, {})
  /\ pend' = [pend EXCEPT ![leader].kids = Noted(kids), ![leader].attr[f] = NewAttr]
  /\ ref' = [ref EXCEPT ![c]["fh"] = IF c = leader THEN LocalRef(f) ELSE RemoteRef(f, n, leader)]
  /\ loc' = [loc EXCEPT ![c] = get_dentry_table(c)]
  /\ used' = used \cup {f}
  /\ UNCHANGED <<leader, pool, op, up, truth, spoilt>>

(* create also opens the file, at the leader or by its name. *)
create(c) == \E n \in Name, f \in File \ used :
  LET kids == [mem.kids EXCEPT ![n] = f] IN
  /\ c \in up /\ op[c] = Idle /\ ref[c]["fh"] = NoRef
  /\ mem.kids[n] = Nil
  /\ Rebind(kids, {})
  /\ pend' = [pend EXCEPT ![leader].kids = Noted(kids), ![leader].attr[f] = NewAttr]
  /\ ref' = [ref EXCEPT ![c]["fh"] = IF c = leader THEN LocalRef(f) ELSE RemoteRef(f, n, leader)]
  /\ loc' = [loc EXCEPT ![c] = get_dentry_table(c)]
  /\ used' = used \cup {f}
  /\ UNCHANGED <<leader, pool, op, up, truth, spoilt>>

(* The lease runs out: the table goes, pointers into it outlive it.        *)
Lapse ==
  /\ leader # Nil
  /\ leader' = Nil
  /\ loc' = [c \in Client |-> "none"]
  /\ ref' = [c \in Client |-> [w \in {"fh", "path"} |->
               IF ref[c][w].own
                 THEN [ref[c][w] EXCEPT !.own = FALSE, !.attr = mem.attr[ref[c][w].f]]
                 ELSE ref[c][w]]]
  /\ mem' = NoMem
  /\ UNCHANGED <<pool, pend, op, up, used, truth, spoilt, rebound, work>>

(* What a client has journaled for the directory is checkpointed.          *)
Checkpoint(c) ==
  /\ [pend[c] EXCEPT !.stray = FALSE] # NoPend
  /\ pool' = [kids |-> [n \in Name |-> IF pend[c].kids[n] = Keep THEN pool.kids[n]
                                       ELSE pend[c].kids[n]],
              attr |-> [f \in File |-> IF pend[c].attr[f] = Keep THEN pool.attr[f]
                                       ELSE pend[c].attr[f]]]
  /\ pend' = [pend EXCEPT ![c] = [NoPend EXCEPT !.stray = pend[c].stray]]
  /\ UNCHANGED <<leader, loc, mem, ref, op, up, used, truth, spoilt, rebound, work>>

(* The checkpoint of a directory that has no objects ends the process; if  *)
(* it has some, the inode without a number is written.                     *)
CheckpointStray(c) ==
  /\ pend[c].stray
  /\ \/ Kill(c)
     \/ /\ pend' = [pend EXCEPT ![c].stray = FALSE]
        /\ UNCHANGED <<loc, ref, op, up, spoilt, rebound>>
  /\ UNCHANGED <<leader, mem, pool, used, truth, work>>

Crash(c) ==
  /\ c \in up /\ work < MaxWork /\ work' = work + 1
  /\ Kill(c)
  /\ UNCHANGED <<leader, mem, pool, used, truth>>

Mount(c) ==
  /\ c \notin up
  /\ up' = up \cup {c}
  /\ UNCHANGED <<leader, loc, mem, pool, pend, ref, op, used, truth, spoilt, rebound, work>>

Call(c) ==
  \/ getattr(c) \/ access(c) \/ open(c) \/ chmod(c) \/ chown(c) \/ utimens(c)
  \/ truncate(c) \/ write(c) \/ release(c) \/ create(c)

Step(c) ==
  local_op(c) \/ remote_op(c) \/ need_recov(c) \/ find_remote_dentry_table_again(c)

Next ==
  \/ \E c \in Client : Call(c) \/ Step(c) \/ Checkpoint(c) \/ CheckpointStray(c)
                         \/ Crash(c) \/ Mount(c)
  \/ unlink \/ rename \/ Lapse

Spec == Init /\ [][Next]_vars

-----------------------------------------------------------------------------
(***************************************************************************)
(* Every change that was acknowledged is in the leader's inode and in the  *)
(* journals or the pool, for a file that none of these happened to: it was *)
(* changed through a handle older than the lease, through a name that had  *)
(* gone to another file, or at a client that did not lead; or it was       *)
(* loaded, or a process died, with changes of it not checkpointed.         *)
(***************************************************************************)
AttributesKept ==
  \A f \in File \ spoilt :
    /\ (\E c \in Client : loc[c] = "LOCAL") => mem.attr[f] = truth[f]
    /\ LET journaled == {pend[c].attr[f] : c \in Client} \ {Keep}
       IN  IF journaled = {} THEN pool.attr[f] = truth[f] ELSE journaled = {truth[f]}

(***************************************************************************)
(* A remote inode names a file by its name: as long as nobody unlinks or   *)
(* renames at that name, and no such change or creation is lost, the name  *)
(* is that file's, whoever leads the directory.                            *)
(***************************************************************************)
NameHolds ==
  \A c \in Client, w \in {"fh", "path"} :
    LET r == ref[c][w]
    IN  r.loc = "REMOTE" /\ r.n \notin rebound /\ (\E i \in Client : loc[i] = "LOCAL")
          => mem.kids[r.n] = r.f
=============================================================================
