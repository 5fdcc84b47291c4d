------------------------------ MODULE FileData ------------------------------
(***************************************************************************)
(* The contents of one regular file: src/lib/rados_io cuts it into objects *)
(* of a fixed size, and every call to RADOS is a step of its own.          *)
(*                                                                         *)
(* The leader of the directory keeps the size of the file in the inode.    *)
(* Its own operations (local_ops.cpp) hold the mutex of the inode while    *)
(* they work on the objects; another client asks the leader by RPC, which  *)
(* sets the size, and then works on the objects itself (rpc_client.cpp).   *)
(* `mutex' also stands for the lock the kernel holds on a file while it is *)
(* written, truncated or unlinked, of the client it runs on.               *)
(***************************************************************************)
EXTENDS Integers, Sequences, FiniteSets

CONSTANTS
  Proc,        \* who works on the file
  Local,       \* the threads of the leader among them; the others are
               \* clients of their own
  Kinds,       \* the operations that are looked at
  ObjSize,     \* OBJ_SIZE
  Zero,        \* the byte zero
  None,        \* no object, no holder, no byte
  MaxSize,     \* bound on the size of the file
  MaxLen,      \* bound on the length of a buffer
  MaxOps,      \* bound on the number of operations
  MaxCrashes   \* bound on the number of clients that die

ASSUME LocalAssumption == Local \subseteq Proc
ASSUME NoneAssumption == None \notin Proc
ASSUME KindsAssumption ==
  Kinds \subseteq {"write", "append", "truncate", "unlink", "read", "open"}
ASSUME SizeAssumption ==
  /\ ObjSize \in Nat \ {0} /\ MaxSize \in Nat /\ MaxLen \in Nat
  /\ MaxOps \in Nat /\ MaxCrashes \in Nat

VARIABLES
  obj,         \* the objects, by number
  size,        \* the size in the leader's inode
  linked,      \* the file has its name
  mutex,       \* who holds the mutex of the inode
  op,          \* the operation each process is in
  job,         \* how far it is
  got,         \* the bytes it has read
  file,        \* history: what the finished operations make of a plain file
  ops, crashes,
  reborn,      \* how many of the crashes were the leader's
  torn,        \* history: a truncation or a removal has met another change of
               \* the file, or a crash
  uncut,       \* history: an open has set the size to 0, and the data was left
  retaken      \* history: it has done so while the file was being changed

fileVars == <<size, linked, mutex, op, file>>
vars == <<obj, fileVars, job, got, ops, crashes, reborn, torn, uncut, retaken>>

----------------------------------------------------------------------------
Objects == 0 .. (MaxSize \div ObjSize) + 1
Smaller(a, b) == IF a < b THEN a ELSE b
Larger(a, b) == IF a < b THEN b ELSE a

(* cursor >> OBJ_BITS, cursor & ~OBJ_MASK, next_bound and sub_len.         *)
ObjNum(x) == x \div ObjSize
Within(x) == x % ObjSize
NextBound(x) == (ObjNum(x) + 1) * ObjSize
SubLen(cursor, stop) == Smaller(NextBound(cursor), stop) - cursor

(* RADOS: bytes written into an object, which grows with zeros; bytes read *)
(* from it, as many as there are; the object cut, and nothing done if      *)
(* there is none.                                                          *)
Overlay(s, at, bytes) ==
  [i \in 1 .. Larger(Len(s), at + Len(bytes)) |->
     IF at < i /\ i <= at + Len(bytes) THEN bytes[i - at]
     ELSE IF i <= Len(s) THEN s[i] ELSE Zero]
RadosWrite(o, at, bytes) == Overlay(IF o = None THEN <<>> ELSE o, at, bytes)
RadosRead(o, at, len) == SubSeq(o, at + 1, Smaller(at + len, Len(o)))
RadosTrunc(o, n) ==
  IF o = None THEN None ELSE [i \in 1 .. n |-> IF i <= Len(o) THEN o[i] ELSE Zero]

Zeros(n) == [i \in 1 .. n |-> Zero]
Buffer(p, len) == [i \in 1 .. len |-> <<p, i>>]

NoOp == [kind |-> "none", off |-> 0, len |-> 0]
NoJob == [loc |-> "idle", num |-> 0, cur |-> 0, calm |-> FALSE]

OpType == [kind : {"none", "write", "append", "truncate", "unlink", "read"},
           off : Nat, len : Nat]
JobType ==
  [loc : {"idle", "stat", "zero", "put", "cut", "reap", "drop", "wipe", "read", "return"},
   num : Nat, cur : Nat, calm : BOOLEAN]
Byte == (Proc \X Nat) \cup {Zero}

(* A missing object is not an empty one. *)
ASSUME ObjectAssumption == None \notin Seq(Byte)

Writers == {p \in Proc : op[p].kind \notin {"none", "read"}}
Cutters == {p \in Proc : op[p].kind \in {"truncate", "unlink"}}
Unlinking == \E p \in Proc : op[p].kind = "unlink"

(***************************************************************************)
(* The types of the objects, the inode and the operations.                 *)
(***************************************************************************)
TypeOK ==
  /\ obj \in [Objects -> Seq(Byte) \cup {None}]
  /\ size \in Nat /\ linked \in BOOLEAN
  /\ mutex \in Proc \cup {None}
  /\ op \in [Proc -> OpType]
  /\ job \in [Proc -> JobType]
  /\ got \in [Proc -> Seq(Byte)]
  /\ file \in Seq(Byte \cup {None})
  /\ ops \in Nat /\ crashes \in Nat /\ reborn \in Nat
  /\ torn \in BOOLEAN /\ uncut \in BOOLEAN /\ retaken \in BOOLEAN

Init ==
  /\ obj = [n \in Objects |-> None]
  /\ size = 0 /\ linked = TRUE
  /\ mutex = None
  /\ op = [p \in Proc |-> NoOp]
  /\ job = [p \in Proc |-> NoJob]
  /\ got = [p \in Proc |-> <<>>]
  /\ file = <<>>
  /\ ops = 0 /\ crashes = 0 /\ reborn = 0
  /\ torn = FALSE /\ uncut = FALSE /\ retaken = FALSE

----------------------------------------------------------------------------
(* An operation begins.  On the leader it takes the mutex and keeps it; a  *)
(* remote one is an RPC to the leader, whose handler takes the mutex, sets *)
(* the size and lets it go.  A truncation puts right what an open has left.*)

Begin(p, o, loc) ==
  /\ linked /\ op[p] = NoOp
  /\ o.kind \in Kinds
  /\ ops < MaxOps
  /\ ops' = ops + 1
  /\ op' = [op EXCEPT ![p] = o]
  /\ job' = [q \in Proc |->
               IF q = p THEN [NoJob EXCEPT !.loc = loc, !.num = ObjNum(o.off),
                                           !.cur = o.off,
                                           !.calm = o.kind = "read" /\ Writers = {}]
               ELSE [job[q] EXCEPT !.calm = @ /\ o.kind = "read"]]
  /\ torn' = (torn \/ (o.kind # "read" /\ Cutters # {})
                   \/ (o.kind \in {"truncate", "unlink"} /\ Writers # {}))
  /\ uncut' = (uncut /\ o.kind # "truncate")
  /\ UNCHANGED <<obj, linked, got, file, crashes, reborn, retaken>>

(* scoped_lock{inode_mutex}, kept to the end of a local operation; and     *)
(* taken by a handler, which sets the size and lets it go.  A removal on   *)
(* the leader does not hold it.                                            *)
Unlocked == \A p \in Proc : mutex = p => op[p].kind = "unlink"
Lock(p) == p \in Local /\ mutex = None /\ mutex' = p /\ UNCHANGED size
SetSize(p, n) == p \notin Local /\ Unlocked /\ size' = n /\ UNCHANGED mutex

WriteOp(kind, off, len) ==
  [kind |-> kind, off |-> IF kind = "append" THEN size ELSE off, len |-> len]

local_write(p, kind, off, len) ==
  LET o == WriteOp(kind, off, len)
  IN o.off + len <= MaxSize /\ Begin(p, o, "stat") /\ Lock(p)

(* A slip of rpc_write: it does not set the size. *)
rpc_writeUnsized(p, kind, off, len) ==
  LET o == WriteOp(kind, off, len)
  IN o.off + len <= MaxSize /\ Begin(p, o, "stat") /\ SetSize(p, size)

rpc_write(p, kind, off, len) ==
  LET o == WriteOp(kind, off, len)
  IN o.off + len <= MaxSize /\ Begin(p, o, "stat") /\ SetSize(p, Larger(size, o.off + len))

TruncateOp(off) == [kind |-> "truncate", off |-> off, len |-> 0]
local_truncate(p, off) == Begin(p, TruncateOp(off), "stat") /\ Lock(p)

(* The handler takes the mutex of the directory first. *)
rpc_truncate(p, off) ==
  ~Unlinking /\ Begin(p, TruncateOp(off), "stat") /\ SetSize(p, off)

(* An unlink holds the mutex of the directory and none of the inode's; on  *)
(* the leader itself it is kept from the writers by the kernel.            *)
UnlinkOp == [kind |-> "unlink", off |-> 0, len |-> 0]
local_unlink(p) == ~Unlinking /\ Begin(p, UnlinkOp, "wipe") /\ Lock(p)
rpc_unlink(p) ==
  /\ p \notin Local /\ ~Unlinking
  /\ Begin(p, UnlinkOp, "wipe")
  /\ UNCHANGED <<size, mutex>>

(* An open with O_TRUNC sets the size and leaves the objects as they are,  *)
(* on the leader and in the handler of another client's open, which has    *)
(* taken the mutex of the directory before.                                *)
SetSizeZero(p) ==
  /\ linked /\ op[p] = NoOp
  /\ "open" \in Kinds
  /\ ops < MaxOps
  /\ ops' = ops + 1
  /\ Unlocked
  /\ size' = 0
  /\ uncut' = (uncut \/ size # 0 \/ Writers # {})
  /\ retaken' = (retaken \/ Writers # {})
  /\ UNCHANGED <<obj, linked, mutex, op, file, job, got, crashes, reborn, torn>>

local_open(p) == p \in Local /\ SetSizeZero(p)
rpc_open(p) == p \notin Local /\ ~Unlinking /\ SetSizeZero(p)

(* A read has no lock, here or on another client. *)
local_read(p, off, len) ==
  /\ Begin(p, [kind |-> "read", off |-> off, len |-> len], "read")
  /\ UNCHANGED <<size, mutex>>

Goto(p, loc, cur) == job' = [job EXCEPT ![p].loc = loc, ![p].cur = cur]

(* The operation of p ends: the leader's sets the size and unlocks.        *)
Finish(p) ==
  LET o == op[p]
  IN /\ op' = [op EXCEPT ![p] = NoOp]
     /\ job' = [job EXCEPT ![p] = NoJob]
     /\ mutex' = IF mutex = p THEN None ELSE mutex
     /\ size' = IF p \notin Local THEN size
                ELSE IF o.kind = "truncate" THEN o.off
                ELSE IF o.kind = "unlink" THEN size ELSE Larger(size, o.off + o.len)
     /\ linked' = (linked /\ o.kind # "unlink")
     /\ file' = CASE o.kind = "truncate" ->
                       [i \in 1 .. o.off |-> IF i <= Len(file) THEN file[i] ELSE Zero]
                  [] o.kind = "unlink" -> <<>>
                  [] OTHER -> Overlay(file, o.off, Buffer(p, o.len))

----------------------------------------------------------------------------
(* rados_io::write and rados_io::truncate. *)

(* A slip of SizeKnown: the hole is not filled. *)
SizeKnownUnfilled(p, lb, exists) ==
  LET to(loc, cur) == Goto(p, loc, cur) /\ UNCHANGED fileVars
  IN \/ op[p].kind # "truncate" /\ to("put", op[p].off)
     \/ op[p].kind = "truncate" /\ exists /\ to("cut", 0)
     \/ op[p].kind = "truncate" /\ ~exists /\ Finish(p)

(* lb_file_size is known, or there is no object at all. *)
SizeKnown(p, lb, exists) ==
  LET o == op[p]
      to(loc, cur) == Goto(p, loc, cur) /\ UNCHANGED fileVars
  IN \/ lb < o.off /\ to("zero", lb)
     \/ lb >= o.off /\ o.kind # "truncate" /\ to("put", o.off)
     \/ lb >= o.off /\ o.kind = "truncate" /\ exists /\ to("cut", 0)
     \/ lb >= o.off /\ o.kind = "truncate" /\ ~exists /\ Finish(p)

(* Slips of Stat: it looks at the object of the offset only; it goes on    *)
(* below the first object; it stays at the first.                          *)
StatOne(p) ==
  LET n == job[p].num
  IN /\ job[p].loc = "stat"
     /\ SizeKnown(p, IF obj[n] # None THEN n * ObjSize + Len(obj[n]) ELSE 0, obj[n] # None)
     /\ UNCHANGED <<obj, got, ops, crashes, reborn, torn, uncut, retaken>>

StatBelow(p) ==
  LET n == job[p].num
  IN /\ job[p].loc = "stat"
     /\ \/ obj[n] # None /\ SizeKnown(p, n * ObjSize + Len(obj[n]), TRUE)
        \/ /\ obj[n] = None
           /\ job' = [job EXCEPT ![p].num = n - 1]
           /\ UNCHANGED fileVars
     /\ UNCHANGED <<obj, got, ops, crashes, reborn, torn, uncut, retaken>>

StatForever(p) ==
  LET n == job[p].num
  IN /\ job[p].loc = "stat"
     /\ \/ obj[n] # None /\ SizeKnown(p, n * ObjSize + Len(obj[n]), TRUE)
        \/ /\ obj[n] = None
           /\ job' = [job EXCEPT ![p].num = IF n = 0 THEN 0 ELSE n - 1]
           /\ UNCHANGED fileVars
     /\ UNCHANGED <<obj, got, ops, crashes, reborn, torn, uncut, retaken>>

(* The loop that looks for the last object up to the offset. *)
Stat(p) ==
  LET n == job[p].num
  IN /\ job[p].loc = "stat"
     /\ \/ obj[n] # None /\ SizeKnown(p, n * ObjSize + Len(obj[n]), TRUE)
        \/ obj[n] = None /\ n = 0 /\ SizeKnown(p, 0, FALSE)
        \/ /\ obj[n] = None /\ n > 0
           /\ job' = [job EXCEPT ![p].num = n - 1]
           /\ UNCHANGED fileVars
     /\ UNCHANGED <<obj, got, ops, crashes, reborn, torn, uncut, retaken>>

(* rados_io::zerofill, one object. *)
ZeroFill(p) ==
  LET j == job[p]
      o == op[p]
      next == NextBound(j.cur)
  IN /\ j.loc = "zero"
     /\ obj' = [obj EXCEPT ![ObjNum(j.cur)] =
                  RadosWrite(@, Within(j.cur), Zeros(SubLen(j.cur, o.off)))]
     /\ \/ next < o.off /\ Goto(p, "zero", next) /\ UNCHANGED fileVars
        \/ /\ next >= o.off /\ o.kind # "truncate"
           /\ Goto(p, "put", o.off)
           /\ UNCHANGED fileVars
        \/ next >= o.off /\ o.kind = "truncate" /\ Finish(p)
     /\ UNCHANGED <<got, ops, crashes, reborn, torn, uncut, retaken>>

(* The loop that writes the buffer, one object. *)
Put(p) ==
  LET j == job[p]
      o == op[p]
      stop == o.off + o.len
      next == NextBound(j.cur)
      sum == j.cur - o.off
  IN /\ j.loc = "put"
     /\ obj' = [obj EXCEPT ![ObjNum(j.cur)] =
                  RadosWrite(@, Within(j.cur),
                             SubSeq(Buffer(p, o.len), sum + 1, sum + SubLen(j.cur, stop)))]
     /\ \/ next < stop /\ Goto(p, "put", next) /\ UNCHANGED fileVars
        \/ next >= stop /\ Finish(p)
     /\ UNCHANGED <<got, ops, crashes, reborn, torn, uncut, retaken>>

(* truncate_obj *)
Cut(p) ==
  LET n == ObjNum(op[p].off)
  IN /\ job[p].loc = "cut"
     /\ obj' = [obj EXCEPT ![n] = RadosTrunc(@, Within(op[p].off))]
     /\ job' = [job EXCEPT ![p].loc = "reap", ![p].num = n + 1]
     /\ UNCHANGED <<fileVars, got, ops, crashes, reborn, torn, uncut, retaken>>

(* The loop that removes the objects behind it: stat, *)
ReapStat(p) ==
  LET n == job[p].num
  IN /\ job[p].loc = "reap"
     /\ \/ /\ n \in Objects /\ obj[n] # None
           /\ Goto(p, "drop", 0)
           /\ UNCHANGED fileVars
        \/ (n \in Objects => obj[n] = None) /\ Finish(p)
     /\ UNCHANGED <<obj, got, ops, crashes, reborn, torn, uncut, retaken>>

(* A slip of ReapDrop: every other object is left. *)
ReapDropSkips(p) ==
  /\ job[p].loc = "drop"
  /\ obj' = [obj EXCEPT ![job[p].num] = None]
  /\ job' = [job EXCEPT ![p].loc = "reap", ![p].num = @ + 2]
  /\ UNCHANGED <<fileVars, got, ops, crashes, reborn, torn, uncut, retaken>>

(* and remove. *)
ReapDrop(p) ==
  /\ job[p].loc = "drop"
  /\ obj' = [obj EXCEPT ![job[p].num] = None]
  /\ job' = [job EXCEPT ![p].loc = "reap", ![p].num = @ + 1]
  /\ UNCHANGED <<fileVars, got, ops, crashes, reborn, torn, uncut, retaken>>

----------------------------------------------------------------------------
(* rados_io::remove, one object. *)
Wipe(p) ==
  LET n == job[p].num
  IN /\ job[p].loc = "wipe"
     /\ \/ /\ n \in Objects /\ obj[n] # None
           /\ obj' = [obj EXCEPT ![n] = None]
           /\ job' = [job EXCEPT ![p].num = n + 1]
           /\ UNCHANGED fileVars
        \/ (n \in Objects => obj[n] = None) /\ Finish(p) /\ UNCHANGED obj
     /\ UNCHANGED <<got, ops, crashes, reborn, torn, uncut, retaken>>

(* A slip of ReadObj: the next object begins where the last read ended.    *)
ReadObjAdvance(p) ==
  LET j == job[p]
      o == op[p]
      stop == o.off + o.len
      bytes == RadosRead(obj[ObjNum(j.cur)], Within(j.cur), SubLen(j.cur, stop))
      next == j.cur + ObjSize
  IN /\ j.loc = "read"
     /\ \/ obj[ObjNum(j.cur)] = None /\ Goto(p, "return", 0) /\ UNCHANGED got
        \/ /\ obj[ObjNum(j.cur)] # None
           /\ got' = [got EXCEPT ![p] = @ \o bytes]
           /\ Goto(p, IF next < stop THEN "read" ELSE "return", next)
     /\ UNCHANGED <<obj, fileVars, ops, crashes, reborn, torn, uncut, retaken>>

(* rados_io::read, one object: what it has so far is the result when there *)
(* is no object (no_such_object::num_bytes, which fuse_ops::read returns). *)
ReadObj(p) ==
  LET j == job[p]
      o == op[p]
      stop == o.off + o.len
      bytes == RadosRead(obj[ObjNum(j.cur)], Within(j.cur), SubLen(j.cur, stop))
      next == NextBound(j.cur)
  IN /\ j.loc = "read"
     /\ \/ obj[ObjNum(j.cur)] = None /\ Goto(p, "return", 0) /\ UNCHANGED got
        \/ /\ obj[ObjNum(j.cur)] # None
           /\ got' = [got EXCEPT ![p] = @ \o bytes]
           /\ Goto(p, IF next < stop THEN "read" ELSE "return", next)
     /\ UNCHANGED <<obj, fileVars, ops, crashes, reborn, torn, uncut, retaken>>

Return(p) ==
  /\ job[p].loc = "return"
  /\ op' = [op EXCEPT ![p] = NoOp]
  /\ job' = [job EXCEPT ![p] = NoJob]
  /\ got' = [got EXCEPT ![p] = <<>>]
  /\ UNCHANGED <<obj, size, linked, mutex, file, ops, crashes, reborn, torn, uncut, retaken>>

----------------------------------------------------------------------------
(* A client dies in the middle of an operation; a failed RPC ends it in    *)
(* the same way.  An unlink it has asked for goes on at the leader.        *)
Crash(p) ==
  /\ p \notin Local
  /\ op[p].kind \notin {"none", "unlink"}
  /\ crashes < MaxCrashes
  /\ crashes' = crashes + 1
  /\ op' = [op EXCEPT ![p] = NoOp]
  /\ job' = [q \in Proc |-> IF q = p THEN NoJob ELSE [job[q] EXCEPT !.calm = FALSE]]
  /\ got' = [got EXCEPT ![p] = <<>>]
  /\ torn' = (torn \/ p \in Cutters)
  /\ UNCHANGED <<obj, size, linked, mutex, file, ops, reborn, uncut, retaken>>

(* The leader dies, with its threads and the handlers of its RPCs.  The    *)
(* next one, whose threads Local stands for from now on, has the size and  *)
(* the name that were checkpointed last, whatever they were.               *)
LeaderCrash ==
  LET gone == Local \cup {q \in Proc : op[q].kind = "unlink"}
  IN /\ crashes < MaxCrashes
     /\ \E q \in Proc : op[q] # NoOp
     /\ crashes' = crashes + 1 /\ reborn' = reborn + 1
     /\ torn' = (torn \/ gone \cap Cutters # {})
     /\ size' \in 0 .. MaxSize /\ linked' \in {linked, TRUE}
     /\ mutex' = None
     /\ op' = [q \in Proc |-> IF q \in gone THEN NoOp ELSE op[q]]
     /\ job' = [q \in Proc |-> IF q \in gone THEN NoJob ELSE [job[q] EXCEPT !.calm = FALSE]]
     /\ got' = [q \in Proc |-> IF q \in gone THEN <<>> ELSE got[q]]
     /\ UNCHANGED <<obj, file, ops, uncut, retaken>>

Start(p) ==
  \/ \E kind \in {"write", "append"}, off \in 0 .. MaxSize, len \in 1 .. MaxLen :
       /\ kind = "append" => off = 0
       /\ local_write(p, kind, off, len) \/ rpc_write(p, kind, off, len)
  \/ \E off \in 0 .. MaxSize : local_truncate(p, off) \/ rpc_truncate(p, off)
  \/ local_unlink(p) \/ rpc_unlink(p)
  \/ \E off \in 0 .. MaxSize, len \in 1 .. MaxLen : local_read(p, off, len)

Step(p) ==
  \/ Stat(p) \/ ZeroFill(p) \/ Put(p)
  \/ Cut(p) \/ ReapStat(p) \/ ReapDrop(p)
  \/ Wipe(p) \/ ReadObj(p) \/ Return(p)

Open(p) == local_open(p) \/ rpc_open(p)

Next == LeaderCrash \/ \E p \in Proc : Start(p) \/ Open(p) \/ Step(p) \/ Crash(p)

Spec == Init /\ [][Next]_vars
(* A thread in the middle of an operation goes on.                         *)
FairSpec == Spec /\ \A p \in Proc : WF_vars(Step(p))

----------------------------------------------------------------------------
(* What the objects hold, None where a byte is missing. *)
Contents ==
  LET ends == {n * ObjSize + Len(obj[n]) : n \in {m \in Objects : obj[m] # None}}
      last == CHOOSE e \in ends \cup {0} : \A f \in ends : f <= e
      byte(x) == IF obj[ObjNum(x)] # None /\ Within(x) < Len(obj[ObjNum(x)])
                   THEN obj[ObjNum(x)][Within(x) + 1] ELSE None
  IN [i \in 1 .. last |-> byte(i - 1)]

(***************************************************************************)
(* When nobody is writing, the objects hold what the finished operations   *)
(* make of a plain file, byte for byte: zeros between the old end and a    *)
(* write beyond it, nothing left behind a truncation.                      *)
(***************************************************************************)
StripedIsFlat == Writers = {} /\ crashes = 0 => Contents = file

(***************************************************************************)
(* When nobody is writing and nobody has died, the size in the inode is    *)
(* the length of the data, although remote writers set the one before the  *)
(* other and overtake each other.  Two things take them apart: a           *)
(* truncation or a removal that was not alone (the leader serves it at     *)
(* once, but the data is cut in any order with the writers'), and an open  *)
(* with O_TRUNC, which cuts no data; a truncation heals the latter.        *)
(***************************************************************************)
SizeIsLength ==
  Writers = {} /\ linked /\ crashes = 0 /\ ~torn /\ ~uncut => size = Len(Contents)

(***************************************************************************)
(* A read no writer has disturbed returns the bytes of the plain file,     *)
(* over the boundaries of objects and short at its end.                    *)
(***************************************************************************)
ReadsFile ==
  \A p \in Proc : job[p].loc = "return" /\ job[p].calm /\ crashes = 0 =>
    got[p] = SubSeq(file, op[p].off + 1,
                    Smaller(op[p].off + op[p].len, Len(file)))

(***************************************************************************)
(* "Fill the hole with zeros" (src/lib/rados_io/rados_io.cpp): zerofill    *)
(* writes where the file has no bytes yet.                                 *)
(***************************************************************************)
FillsHolesOnly ==
  [][\A p \in Proc : job[p].loc = "zero" /\ obj' # obj /\ job'[p] # job[p] =>
       job[p].cur >= Len(Contents)]_vars

(***************************************************************************)
(* Writers that overtake each other, and clients that die halfway, leave   *)
(* no hole: an object before the last one is full.  Without that, the      *)
(* search for the size in write and truncate finds another one, and a read *)
(* puts bytes in the wrong place.  A truncation or a removal leaves one    *)
(* only when it dies or is not alone.                                      *)
(***************************************************************************)
NoHoles ==
  ~torn /\ Cutters = {} =>
    \A m, n \in Objects :
      m < n /\ obj[n] # None => obj[m] # None /\ Len(obj[m]) = ObjSize

(***************************************************************************)
(* As long as the leader lives, two appends that are under way, on         *)
(* whatever clients, have been given different places: it hands them out   *)
(* one at a time.  (Unless a truncation or an open with O_TRUNC has taken  *)
(* the size back while they were.)                                         *)
(***************************************************************************)
AppendsDisjoint ==
  \A p, q \in Proc :
    /\ p # q /\ op[p].kind = "append" /\ op[q].kind = "append"
    /\ reborn = 0 /\ ~torn /\ ~retaken
    =>
      \/ op[p].off + op[p].len <= op[q].off
      \/ op[q].off + op[q].len <= op[p].off

(***************************************************************************)
(* The loops over the objects end. *)
(***************************************************************************)
OperationsEnd == \A p \in Proc : op[p] # NoOp ~> op[p] = NoOp

=============================================================================
