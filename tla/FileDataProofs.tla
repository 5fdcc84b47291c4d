--------------------------- MODULE FileDataProofs ---------------------------
(***************************************************************************)
(* Proofs about FileData, for any clients, any object size and any bounds. *)
(***************************************************************************)
EXTENDS FileData, TLAPS

OpsTyped ==
  /\ op \in [Proc -> OpType] /\ size \in Nat /\ mutex \in Proc \cup {None}
  /\ reborn \in Nat /\ torn \in BOOLEAN /\ retaken \in BOOLEAN

(* The leader's own operations hold the mutex from beginning to end.       *)
LocalHolds == \A p \in Local : op[p].kind \notin {"none", "read"} => mutex = p

(* As long as the leader lives, a remote append has been given bytes below *)
(* the size; one of the leader's, which sets the size at its end, the      *)
(* bytes that begin there.                                                 *)
Placed ==
  \A p \in Proc : op[p].kind = "append" /\ reborn = 0 /\ ~torn /\ ~retaken =>
    IF p \in Local THEN op[p].off = size ELSE op[p].off + op[p].len <= size

(* A process at one of these places is in an operation that changes the    *)
(* file.                                                                   *)
AtWork == {"stat", "zero", "put", "cut", "reap", "drop", "wipe"}
PlaceKnown ==
  /\ DOMAIN job = Proc
  /\ \A p \in Proc : /\ {"loc", "num", "cur", "calm"} \subseteq DOMAIN job[p]
                     /\ job[p].loc \in AtWork => op[p].kind \notin {"none", "read"}

(* A truncation or a removal that has met nobody is the only change under  *)
(* way: it may take the size back, and the objects away.                   *)
CutsAlone ==
  ~torn => \A p, q \in Proc :
             p # q /\ op[p].kind \in {"truncate", "unlink"} => op[q].kind \in {"none", "read"}

IInv == OpsTyped /\ LocalHolds /\ Placed /\ CutsAlone /\ AppendsDisjoint

LEMMA InitInv == Init => IInv /\ PlaceKnown
<1> SUFFICES ASSUME Init PROVE IInv /\ PlaceKnown
  OBVIOUS
<1>1. \A p \in Proc : op[p].kind = "none" /\ job[p] = NoJob
  BY DEF Init, NoOp
<1>2. OpsTyped
  BY DEF Init, OpsTyped, OpType, NoOp
<1>3. LocalHolds /\ Placed /\ CutsAlone /\ AppendsDisjoint
  BY <1>1, LocalAssumption DEF LocalHolds, Placed, CutsAlone, AppendsDisjoint
<1>4. PlaceKnown
  BY <1>1 DEF Init, PlaceKnown, NoJob, AtWork
<1> QED
  BY <1>2, <1>3, <1>4 DEF IInv

(* Steps that leave the operations, the size and the mutex alone. *)
LEMMA QuietInv ==
  ASSUME IInv, UNCHANGED <<op, size, mutex, reborn, torn, uncut, retaken>>
  PROVE  IInv'
BY DEF IInv, OpsTyped, LocalHolds, Placed, CutsAlone, AppendsDisjoint

(* What torn records when operation o begins. *)
Meets(o) == \/ o.kind # "read" /\ Cutters # {}
            \/ o.kind \in {"truncate", "unlink"} /\ Writers # {}

(* An operation of p begins: an append is given its place. *)
LEMMA BeginInv ==
  ASSUME IInv, NEW p \in Proc, NEW o \in OpType,
         op[p] = NoOp, op' = [op EXCEPT ![p] = o], UNCHANGED <<reborn, retaken>>,
         torn' = (torn \/ Meets(o)), o.kind # "none",
         \/ o.kind = "read" /\ UNCHANGED <<size, mutex>>
         \/ o.kind = "unlink" /\ p \notin Local /\ UNCHANGED <<size, mutex>>
         \/ o.kind = "unlink" /\ Lock(p)
         \/ o.kind = "truncate" /\ (Lock(p) \/ SetSize(p, o.off))
         \/ /\ o.kind \in {"write", "append"}
            /\ o.kind = "append" => o.off = size
            /\ Lock(p) \/ SetSize(p, Larger(size, o.off + o.len))
  PROVE  IInv'
<1> USE LocalAssumption, NoneAssumption
<1>1. /\ op'[p] = o /\ \A q \in Proc : q # p => op'[q] = op[q]
      /\ o.off \in Nat /\ o.len \in Nat
      /\ \A q \in Proc : op[q].off \in Nat /\ op[q].len \in Nat
  BY DEF IInv, OpsTyped, OpType
<1>2. OpsTyped'
  <2>1. size' \in Nat /\ mutex' \in Proc \cup {None}
    BY <1>1 DEF IInv, OpsTyped, Lock, SetSize, Larger
  <2>2. op' \in [Proc -> OpType] /\ reborn' \in Nat
    BY DEF IInv, OpsTyped
  <2>3. torn' \in BOOLEAN /\ retaken' \in BOOLEAN
    BY Zenon DEF IInv, OpsTyped
  <2> QED
    BY <2>1, <2>2, <2>3 DEF OpsTyped
<1>3. LocalHolds'
  BY <1>1 DEF IInv, LocalHolds, Lock, SetSize, Unlocked
<1>4. size \in Nat /\ size' \in Nat /\ (o.kind # "truncate" => size <= size')
  BY <1>1, <1>2 DEF IInv, OpsTyped, Lock, SetSize, Larger
<1>5. ~torn' => ~torn /\ ~Meets(o)
  BY Zenon DEF IInv, OpsTyped
<1>6. \A q \in Local : q # p /\ op[q].kind = "append" => size' = size
  BY DEF IInv, LocalHolds, Lock, SetSize, Unlocked
<1>7. ASSUME ~torn', NEW q \in Proc, q # p, op[q].kind \notin {"none", "read"}
      PROVE  /\ o.kind \notin {"truncate", "unlink"}
             /\ op[q].kind \in {"truncate", "unlink"} => o.kind = "read"
  BY <1>5, <1>7 DEF Meets, Writers, Cutters
<1>8. CutsAlone'
  <2> SUFFICES ASSUME ~torn', NEW q \in Proc, NEW r \in Proc, q # r,
                      op'[q].kind \in {"truncate", "unlink"}, op'[r].kind \notin {"none", "read"}
               PROVE  FALSE
    BY DEF CutsAlone
  <2>1. CASE q = p
    BY <1>1, <1>7, <2>1
  <2>2. CASE r = p
    BY <1>1, <1>7, <2>2
  <2>3. CASE q # p /\ r # p
    BY <1>1, <1>5, <2>3 DEF IInv, CutsAlone
  <2> QED
    BY <2>1, <2>2, <2>3
<1>9. Placed'
  <2> SUFFICES ASSUME NEW q \in Proc, op'[q].kind = "append", reborn = 0, ~torn', ~retaken
               PROVE  IF q \in Local THEN op'[q].off = size'
                      ELSE op'[q].off + op'[q].len <= size'
    BY DEF Placed
  <2>1. CASE q = p
    BY <1>1, <1>4, <2>1 DEF Lock, SetSize, Larger
  <2>2. CASE q # p
    <3>1. size <= size' /\ op[q].kind = "append" /\ ~torn
      BY <1>1, <1>4, <1>5, <1>7, <2>2
    <3> QED
      BY <1>1, <1>4, <1>6, <2>2, <3>1 DEF IInv, Placed
  <2> QED
    BY <2>1, <2>2
<1>10. AppendsDisjoint'
  <2>1. ASSUME NEW q \in Proc, q # p, op[q].kind = "append", o.kind = "append", reborn = 0,
               ~torn, ~retaken
        PROVE  op[q].off + op[q].len <= o.off
    <3>1. q \notin Local
      BY <2>1 DEF IInv, LocalHolds, Lock, SetSize, Unlocked
    <3> QED
      BY <2>1, <3>1 DEF IInv, Placed
  <2> QED
    BY <1>1, <1>5, <2>1 DEF IInv, AppendsDisjoint
<1> QED
  BY <1>2, <1>3, <1>8, <1>9, <1>10 DEF IInv

(* Operations end, and the size does not shrink unless nobody appends. *)
LEMMA EndInv ==
  ASSUME IInv, NEW G \in SUBSET Proc,
         op' = [q \in Proc |-> IF q \in G THEN NoOp ELSE op[q]],
         mutex' \in {mutex, None}, mutex' # mutex => mutex \in G,
         size' \in Nat, UNCHANGED <<reborn, retaken>>, torn' \in BOOLEAN, torn => torn',
         ~torn /\ ~(size <= size') => \A q \in Proc \ G : op[q].kind # "append",
         size' # size => \E p \in G \cap Local : op[p].kind \notin {"none", "read"}
  PROVE  IInv'
<1> USE LocalAssumption, NoneAssumption
<1>1. \A q \in Proc : op'[q].kind # "none" => q \notin G /\ op'[q] = op[q]
  BY DEF NoOp
<1>2. OpsTyped'
  BY DEF IInv, OpsTyped, OpType, NoOp
<1>3. LocalHolds'
  BY <1>1 DEF IInv, LocalHolds
<1>4. CutsAlone'
  <2>1. \A q \in Proc : op'[q].kind \in {"none", op[q].kind}
    BY DEF NoOp
  <2> QED
    BY <2>1 DEF IInv, CutsAlone
<1>5. \A q \in Local : q \notin G /\ op[q].kind = "append" => size' = size
  BY DEF IInv, LocalHolds
<1>6. Placed'
  <2> SUFFICES ASSUME NEW q \in Proc, op'[q].kind = "append", reborn = 0, ~torn', ~retaken
               PROVE  IF q \in Local THEN op'[q].off = size'
                      ELSE op'[q].off + op'[q].len <= size'
    BY DEF Placed
  <2>1. q \notin G /\ op'[q] = op[q] /\ op[q].off \in Nat /\ op[q].len \in Nat
    BY <1>1 DEF IInv, OpsTyped, OpType
  <2> QED
    BY <1>5, <2>1 DEF IInv, OpsTyped, Placed
<1>7. AppendsDisjoint'
  BY <1>1 DEF IInv, AppendsDisjoint
<1> QED
  BY <1>2, <1>3, <1>4, <1>6, <1>7 DEF IInv

LEMMA FinishInv ==
  ASSUME IInv, NEW p \in Proc, op[p].kind \notin {"none", "read"}, Finish(p),
         UNCHANGED <<reborn, torn, uncut, retaken>>
  PROVE  IInv'
<1>1. op' = [q \in Proc |-> IF q \in {p} THEN NoOp ELSE op[q]]
  BY DEF Finish, IInv, OpsTyped
<1>2. op[p].off \in Nat /\ op[p].len \in Nat /\ size \in Nat /\ torn \in BOOLEAN
  BY DEF IInv, OpsTyped, OpType
<1>3. /\ size' \in Nat
      /\ op[p].kind # "truncate" => size <= size'
      /\ size' # size => p \in Local
  BY <1>2 DEF Finish, Larger
<1>5. ~torn /\ ~(size <= size') => \A q \in Proc \ {p} : op[q].kind # "append"
  BY <1>3 DEF IInv, CutsAlone
<1>4. mutex' \in {mutex, None} /\ (mutex' # mutex => mutex = p)
  BY DEF Finish
<1> QED
  BY <1>1, <1>2, <1>3, <1>4, <1>5, EndInv

----------------------------------------------------------------------------
(* Where a process goes. *)
LEMMA GotoPlace ==
  ASSUME PlaceKnown, NEW p \in Proc, job[p].loc \in AtWork,
         NEW x, NEW y,
         \/ job' = [job EXCEPT ![p].loc = x, ![p].cur = y]
         \/ job' = [job EXCEPT ![p].loc = x, ![p].num = y]
         \/ job' = [job EXCEPT ![p].num = y],
         op' = op
  PROVE  PlaceKnown'
<1>1. op[p].kind \notin {"none", "read"}
  BY DEF PlaceKnown
<1>2. DOMAIN job' = Proc
  BY DEF PlaceKnown
<1>3. \A q \in Proc : q # p => job'[q] = job[q]
  BY DEF PlaceKnown
<1>4. {"loc", "num", "cur", "calm"} \subseteq DOMAIN job'[p]
  BY DEF PlaceKnown
<1> QED
  BY <1>1, <1>2, <1>3, <1>4 DEF PlaceKnown

LEMMA EndPlace ==
  ASSUME PlaceKnown, NEW p \in Proc, op' = [op EXCEPT ![p] = NoOp],
         job' = [job EXCEPT ![p] = NoJob], op \in [Proc -> OpType]
  PROVE  PlaceKnown'
BY DEF PlaceKnown, NoJob, AtWork

LEMMA BeginPlace ==
  ASSUME PlaceKnown, op \in [Proc -> OpType], NEW p \in Proc, NEW o \in OpType, NEW loc,
         Begin(p, o, loc), o.kind # "none", loc \in AtWork => o.kind # "read"
  PROVE  PlaceKnown'
<1>1. DOMAIN job' = Proc
  BY DEF Begin
<1>2. job'[p] = [NoJob EXCEPT !.loc = loc, !.num = ObjNum(o.off), !.cur = o.off,
                              !.calm = o.kind = "read" /\ Writers = {}]
  BY DEF Begin
<1>3. job'[p].loc = loc /\ {"loc", "num", "cur", "calm"} \subseteq DOMAIN job'[p]
  BY <1>2 DEF NoJob
<1>4. op'[p] = o /\ \A q \in Proc : q # p => op'[q] = op[q]
  BY DEF Begin
<1>5. ASSUME NEW q \in Proc, q # p
      PROVE  /\ job'[q].loc = job[q].loc
             /\ {"loc", "num", "cur", "calm"} \subseteq DOMAIN job'[q]
  <2>1. job'[q] = [job[q] EXCEPT !.calm = @ /\ o.kind = "read"]
    BY <1>5 DEF Begin
  <2> QED
    BY <2>1 DEF PlaceKnown
<1> QED
  BY <1>1, <1>3, <1>4, <1>5 DEF PlaceKnown

(* Processes end, the others lose their calm. *)
LEMMA CrashPlace ==
  ASSUME PlaceKnown, NEW G \in SUBSET Proc,
         op' = [q \in Proc |-> IF q \in G THEN NoOp ELSE op[q]],
         job' = [q \in Proc |-> IF q \in G THEN NoJob ELSE [job[q] EXCEPT !.calm = FALSE]]
  PROVE  PlaceKnown'
<1>1. ASSUME NEW q \in Proc, q \notin G
      PROVE  /\ job'[q].loc = job[q].loc /\ op'[q] = op[q]
             /\ {"loc", "num", "cur", "calm"} \subseteq DOMAIN job'[q]
  <2>1. job'[q] = [job[q] EXCEPT !.calm = FALSE] /\ op'[q] = op[q]
    BY <1>1
  <2> QED
    BY <2>1 DEF PlaceKnown
<1>2. NoJob.loc \notin AtWork /\ {"loc", "num", "cur", "calm"} \subseteq DOMAIN NoJob
  BY DEF NoJob, AtWork
<1>3. \A q \in G : job'[q] = NoJob
  OBVIOUS
<1> QED
  BY <1>1, <1>2, <1>3 DEF PlaceKnown

----------------------------------------------------------------------------
LEMMA StartInv ==
  ASSUME IInv, PlaceKnown, NEW p \in Proc, Start(p)
  PROVE  IInv' /\ PlaceKnown'
<1> USE SizeAssumption
<1>1. size \in Nat /\ op \in [Proc -> OpType]
  BY DEF IInv, OpsTyped
<1>2. ASSUME NEW kind \in {"write", "append"}, NEW off \in Nat, NEW len \in Nat,
             local_write(p, kind, off, len) \/ rpc_write(p, kind, off, len)
      PROVE  IInv' /\ PlaceKnown'
  <2> DEFINE o == WriteOp(kind, off, len)
  <2>1. /\ o \in OpType /\ o.kind = kind /\ o.len = len
        /\ kind = "append" => o.off = size
    BY <1>1 DEF OpType, WriteOp
  <2> HIDE DEF o
  <2>2. Begin(p, o, "stat") /\ (Lock(p) \/ SetSize(p, Larger(size, o.off + o.len)))
    BY <1>2, <2>1 DEF local_write, rpc_write, o
  <2>3. op[p] = NoOp /\ op' = [op EXCEPT ![p] = o] /\ UNCHANGED <<reborn, retaken>>
        /\ torn' = (torn \/ Meets(o))
    BY <2>2, Zenon DEF Begin, Meets
  <2>4. IInv'
    BY <2>1, <2>2, <2>3, BeginInv
  <2>5. PlaceKnown'
    BY <1>1, <2>1, <2>2, BeginPlace
  <2> QED
    BY <2>4, <2>5
<1>3. ASSUME NEW off \in Nat, local_truncate(p, off) \/ rpc_truncate(p, off)
      PROVE  IInv' /\ PlaceKnown'
  <2> DEFINE o == TruncateOp(off)
  <2>1. o \in OpType /\ o.kind = "truncate" /\ o.off = off
    BY DEF OpType, TruncateOp
  <2> HIDE DEF o
  <2>2. Begin(p, o, "stat") /\ (Lock(p) \/ SetSize(p, o.off))
    BY <1>3, <2>1 DEF local_truncate, rpc_truncate, o
  <2>3. op[p] = NoOp /\ op' = [op EXCEPT ![p] = o] /\ UNCHANGED <<reborn, retaken>>
        /\ torn' = (torn \/ Meets(o))
    BY <2>2, Zenon DEF Begin, Meets
  <2>4. IInv'
    BY <2>1, <2>2, <2>3, BeginInv
  <2>5. PlaceKnown'
    BY <1>1, <2>1, <2>2, BeginPlace
  <2> QED
    BY <2>4, <2>5
<1>4. ASSUME local_unlink(p) \/ rpc_unlink(p)
      PROVE  IInv' /\ PlaceKnown'
  <2>1. UnlinkOp \in OpType /\ UnlinkOp.kind = "unlink"
    BY DEF OpType, UnlinkOp
  <2>2. Begin(p, UnlinkOp, "wipe")
    BY <1>4 DEF local_unlink, rpc_unlink
  <2>3. op[p] = NoOp /\ op' = [op EXCEPT ![p] = UnlinkOp] /\ UNCHANGED <<reborn, retaken>>
        /\ torn' = (torn \/ Meets(UnlinkOp))
    BY <2>2, Zenon DEF Begin, Meets
  <2>4. CASE local_unlink(p)
    <3>1. Lock(p)
      BY <2>4 DEF local_unlink
    <3> QED
      BY <1>1, <2>1, <2>2, <2>3, <3>1, BeginInv, BeginPlace
  <2>5. CASE rpc_unlink(p)
    <3>1. p \notin Local /\ UNCHANGED <<size, mutex>>
      BY <2>5 DEF rpc_unlink
    <3> QED
      BY <1>1, <2>1, <2>2, <2>3, <3>1, BeginInv, BeginPlace
  <2> QED
    BY <1>4, <2>4, <2>5
<1>5. ASSUME NEW off \in Nat, NEW len \in Nat, local_read(p, off, len)
      PROVE  IInv' /\ PlaceKnown'
  <2> DEFINE o == [kind |-> "read", off |-> off, len |-> len]
  <2>1. o \in OpType /\ o.kind = "read" /\ "read" \notin AtWork
    BY DEF OpType, AtWork
  <2>2. Begin(p, o, "read") /\ UNCHANGED <<size, mutex>>
    BY <1>5 DEF local_read
  <2> HIDE DEF o
  <2>3. op[p] = NoOp /\ op' = [op EXCEPT ![p] = o] /\ UNCHANGED <<reborn, retaken>>
        /\ torn' = (torn \/ Meets(o))
    BY <2>2, Zenon DEF Begin, Meets
  <2>4. IInv'
    BY <2>1, <2>2, <2>3, BeginInv
  <2>5. PlaceKnown'
    BY <1>1, <2>1, <2>2, BeginPlace
  <2> QED
    BY <2>4, <2>5
<1>6. \A n \in 0 .. MaxSize : n \in Nat
  OBVIOUS
<1>7. \A n \in 1 .. MaxLen : n \in Nat
  OBVIOUS
<1> QED
  BY <1>2, <1>3, <1>4, <1>5, <1>6, <1>7 DEF Start

(* An operation that changes the file goes on, or ends. *)
LEMMA WorkInv ==
  ASSUME IInv, PlaceKnown, NEW p \in Proc, job[p].loc \in AtWork,
         NEW x, NEW y, UNCHANGED <<reborn, torn, uncut, retaken>>,
         \/ Finish(p)
         \/ /\ UNCHANGED fileVars
            /\ \/ job' = [job EXCEPT ![p].loc = x, ![p].cur = y]
               \/ job' = [job EXCEPT ![p].loc = x, ![p].num = y]
               \/ job' = [job EXCEPT ![p].num = y]
  PROVE  IInv' /\ PlaceKnown'
<1>1. op \in [Proc -> OpType] /\ op[p].kind \notin {"none", "read"}
  BY DEF IInv, OpsTyped, PlaceKnown
<1>2. CASE Finish(p)
  <2>1. IInv'
    BY <1>1, <1>2, FinishInv
  <2>2. op' = [op EXCEPT ![p] = NoOp] /\ job' = [job EXCEPT ![p] = NoJob]
    BY <1>2 DEF Finish
  <2> QED
    BY <1>1, <2>1, <2>2, EndPlace
<1>3. CASE UNCHANGED fileVars /\ ~Finish(p)
  <2>1. UNCHANGED <<op, size, mutex, reborn, torn, uncut, retaken>>
    BY <1>3 DEF fileVars
  <2>2. IInv'
    BY <2>1, QuietInv
  <2>3. PlaceKnown'
    <3>2. CASE job' = [job EXCEPT ![p].loc = x, ![p].cur = y]
      BY <1>1, <2>1, <3>2, GotoPlace
    <3>3. CASE job' = [job EXCEPT ![p].loc = x, ![p].num = y]
      BY <1>1, <2>1, <3>3, GotoPlace
    <3>4. CASE job' = [job EXCEPT ![p].num = y]
      BY <1>1, <2>1, <3>4, GotoPlace
    <3> QED
      BY <1>3, <3>2, <3>3, <3>4
  <2> QED
    BY <2>2, <2>3
<1> QED
  BY <1>2, <1>3

LEMMA StepInv ==
  ASSUME IInv, PlaceKnown, NEW p \in Proc, Step(p)
  PROVE  IInv' /\ PlaceKnown'
<1> USE DEF AtWork
<1>1. CASE Stat(p)
  <2> UNCHANGED <<reborn, torn, uncut, retaken>>
    BY <1>1 DEF Stat
  <2>1. ASSUME NEW lb, NEW exists, SizeKnown(p, lb, exists), job[p].loc = "stat"
        PROVE  IInv' /\ PlaceKnown'
    <3>1. CASE Finish(p)
      BY <2>1, <3>1, WorkInv
    <3>2. CASE ~Finish(p)
      <4>1. UNCHANGED fileVars
        BY <2>1, <3>2 DEF SizeKnown, Goto
      <4>2. PICK x, y : job' = [job EXCEPT ![p].loc = x, ![p].cur = y]
        BY <2>1, <3>2 DEF SizeKnown, Goto
      <4>3. job[p].loc \in AtWork
        BY <2>1
      <4> QED
        BY <4>1, <4>2, <4>3, WorkInv
    <3> QED
      BY <3>1, <3>2
  <2>2. CASE \E y : job' = [job EXCEPT ![p].num = y] /\ UNCHANGED fileVars
    BY <1>1, <2>2, WorkInv DEF Stat
  <2> QED
    BY <1>1, <2>1, <2>2 DEF Stat
<1>2. CASE ZeroFill(p)
  BY <1>2, WorkInv DEF ZeroFill, Goto
<1>3. CASE Put(p)
  BY <1>3, WorkInv DEF Put, Goto
<1>4. CASE Cut(p)
  BY <1>4, WorkInv DEF Cut, fileVars
<1>5. CASE ReapStat(p)
  BY <1>5, WorkInv DEF ReapStat, Goto
<1>6. CASE ReapDrop(p)
  BY <1>6, WorkInv DEF ReapDrop, fileVars
<1>7. CASE Wipe(p)
  BY <1>7, WorkInv DEF Wipe
<1>8. CASE ReadObj(p)
  <2>1. UNCHANGED <<op, size, mutex, reborn, torn, uncut, retaken>>
    BY <1>8 DEF ReadObj, fileVars
  <2>2. PICK x, y : job' = [job EXCEPT ![p].loc = x, ![p].cur = y] /\ x \notin AtWork
    <3>1. PICK y : Goto(p, "read", y) \/ Goto(p, "return", y)
      BY <1>8 DEF ReadObj
    <3>2. PICK x \in {"read", "return"} : job' = [job EXCEPT ![p].loc = x, ![p].cur = y]
      BY <3>1 DEF Goto
    <3>3. x \notin AtWork
      BY <3>2
    <3> QED
      BY <3>2, <3>3
  <2>3. PlaceKnown'
    BY <2>1, <2>2 DEF PlaceKnown
  <2> QED
    BY <2>1, <2>3, QuietInv
<1>9. CASE Return(p)
  <2>1. /\ op' = [q \in Proc |-> IF q \in {p} THEN NoOp ELSE op[q]]
        /\ op' = [op EXCEPT ![p] = NoOp] /\ job' = [job EXCEPT ![p] = NoJob]
        /\ UNCHANGED <<size, mutex, reborn, torn, uncut, retaken>> /\ op \in [Proc -> OpType] /\ size \in Nat
        /\ torn \in BOOLEAN
    BY <1>9 DEF Return, IInv, OpsTyped
  <2>2. {p} \in SUBSET Proc /\ mutex' \in {mutex, None} /\ size' \in Nat /\ size <= size'
    BY <2>1
  <2>3. IInv'
    BY <2>1, <2>2, EndInv
  <2> QED
    BY <2>1, <2>3, EndPlace
<1> QED
  BY <1>1, <1>2, <1>3, <1>4, <1>5, <1>6, <1>7, <1>8, <1>9 DEF Step

LEMMA CrashInv ==
  ASSUME IInv, PlaceKnown, NEW p \in Proc, Crash(p)
  PROVE  IInv' /\ PlaceKnown'
<1>1. op \in [Proc -> OpType] /\ size \in Nat
  BY DEF IInv, OpsTyped
<1>2. op' = [q \in Proc |-> IF q \in {p} THEN NoOp ELSE op[q]]
  BY <1>1 DEF Crash
<1>3. job' = [q \in Proc |-> IF q \in {p} THEN NoJob ELSE [job[q] EXCEPT !.calm = FALSE]]
  BY DEF Crash
<1>4. UNCHANGED <<size, mutex, reborn, retaken>> /\ {p} \in SUBSET Proc
  BY DEF Crash
<1>7. torn' \in BOOLEAN /\ (torn => torn')
  BY Zenon DEF Crash
<1>5. mutex' \in {mutex, None} /\ size' \in Nat /\ size <= size'
  BY <1>1, <1>4
<1>6. IInv'
  BY <1>2, <1>4, <1>5, <1>7, EndInv
<1> QED
  BY <1>2, <1>3, <1>4, <1>6, CrashPlace

(* The leader dies: what is left of the invariant asks nothing of the size. *)
LEMMA LeaderCrashInv ==
  ASSUME IInv, PlaceKnown, LeaderCrash
  PROVE  IInv' /\ PlaceKnown'
<1> DEFINE G == Local \cup {q \in Proc : op[q].kind = "unlink"}
<1>1. /\ op' = [q \in Proc |-> IF q \in G THEN NoOp ELSE op[q]] /\ G \in SUBSET Proc
      /\ job' = [q \in Proc |-> IF q \in G THEN NoJob ELSE [job[q] EXCEPT !.calm = FALSE]]
      /\ Local \subseteq G
  BY LocalAssumption DEF LeaderCrash
<1>8. torn' \in BOOLEAN /\ (torn => torn') /\ retaken' = retaken
  BY Zenon DEF LeaderCrash
<1>2. reborn' \in Nat /\ reborn' # 0 /\ size' \in Nat /\ mutex' = None
  BY SizeAssumption DEF LeaderCrash, IInv, OpsTyped
<1> HIDE DEF G
<1>3. PlaceKnown'
  BY <1>1, CrashPlace
<1>4. OpsTyped'
  BY <1>1, <1>2, <1>8 DEF IInv, OpsTyped, OpType, NoOp
<1>5. LocalHolds'
  BY <1>1, LocalAssumption DEF LocalHolds, NoOp
<1>6. CutsAlone'
  BY <1>1, <1>8 DEF IInv, CutsAlone, NoOp
<1>7. Placed' /\ AppendsDisjoint'
  BY <1>2 DEF Placed, AppendsDisjoint
<1> QED
  BY <1>3, <1>4, <1>5, <1>6, <1>7 DEF IInv

(* What an open with O_TRUNC leaves as it is.                              *)
Opens ==
  /\ size' = 0 /\ (~retaken' => ~retaken /\ Writers = {}) /\ (retaken => retaken')
  /\ UNCHANGED <<obj, linked, mutex, op, file, job, got, crashes, reborn, torn>>

LEMMA OpenForm ==
  ASSUME NEW p \in Proc, Open(p)
  PROVE  /\ Opens /\ Unlocked /\ ops' = ops + 1
         /\ uncut' \in BOOLEAN /\ retaken' \in BOOLEAN
         /\ ~uncut' => ~uncut /\ size = 0 /\ Writers = {}
BY Zenon DEF Open, local_open, rpc_open, SetSizeZero, Opens

(* It takes the size back: whoever appends has lost its place.             *)
LEMMA OpenInv ==
  ASSUME IInv, PlaceKnown, NEW p \in Proc, Open(p)
  PROVE  IInv' /\ PlaceKnown'
<1>1. Opens /\ retaken' \in BOOLEAN
  BY OpenForm
<1>2. PlaceKnown'
  BY <1>1 DEF Opens, PlaceKnown
<1>3. OpsTyped'
  BY <1>1 DEF IInv, OpsTyped, Opens
<1>4. LocalHolds' /\ CutsAlone'
  BY <1>1 DEF IInv, LocalHolds, CutsAlone, Opens
<1>5. retaken' \/ \A q \in Proc : op[q].kind # "append"
  BY <1>1 DEF Opens, Writers
<1>6. Placed'
  BY <1>1, <1>5 DEF Placed, Opens
<1>7. AppendsDisjoint'
  BY <1>1, <1>5 DEF AppendsDisjoint, Opens
<1> QED BY <1>2, <1>3, <1>4, <1>6, <1>7 DEF IInv

(* Every step keeps the invariant. *)
LEMMA NextInv ==
  ASSUME IInv, PlaceKnown, [Next]_vars
  PROVE  IInv' /\ PlaceKnown'
<1>1. CASE Next
  BY <1>1, StartInv, OpenInv, StepInv, CrashInv, LeaderCrashInv DEF Next
<1>2. CASE UNCHANGED vars
  BY <1>2, QuietInv DEF vars, fileVars, PlaceKnown
<1> QED
  BY <1>1, <1>2

(***************************************************************************)
(* Appends are never given the same bytes while the leader lives, however  *)
(* its local_write and the clients' rpc_write interleave, whichever of the *)
(* clients die, and whatever is truncated when nothing else is under way.  *)
(***************************************************************************)
THEOREM AppendsApart == Spec => []AppendsDisjoint
<1>1. Init => IInv /\ PlaceKnown
  BY InitInv
<1>2. IInv /\ PlaceKnown /\ [Next]_vars => (IInv /\ PlaceKnown)'
  BY NextInv
<1>3. IInv => AppendsDisjoint
  BY DEF IInv
<1> QED
  BY <1>1, <1>2, <1>3, PTL DEF Spec

----------------------------------------------------------------------------
(* What the objects look like while they are written and cut.              *)

(* The last object that a byte below MaxSize can be in. *)
Top == MaxSize \div ObjSize

(* Every object fits its size, and the last of Objects is never made.      *)
Fits == \A n \in Objects : obj[n] # None => Len(obj[n]) <= ObjSize /\ n <= Top

(* Where a process can be in its operation, and between which bounds.      *)
Placing(o, j) ==
  \/ o.kind = "none" /\ j.loc = "idle"
  \/ /\ o.kind \in {"write", "append"}
     /\ o.len > 0 /\ o.off + o.len <= MaxSize
     /\ \/ j.loc = "stat" /\ j.num <= ObjNum(o.off)
        \/ j.loc = "zero" /\ j.cur < o.off
        \/ j.loc = "put" /\ o.off <= j.cur /\ j.cur < o.off + o.len
  \/ /\ o.kind = "truncate" /\ o.off <= MaxSize
     /\ \/ j.loc = "stat" /\ j.num <= ObjNum(o.off)
        \/ j.loc = "zero" /\ j.cur < o.off
        \/ j.loc = "cut"
        \/ j.loc = "reap" /\ j.num > ObjNum(o.off)
        \/ j.loc = "drop" /\ j.num > ObjNum(o.off) /\ j.num \in Objects
  \/ o.kind = "unlink" /\ j.loc = "wipe"
  \/ /\ o.kind = "read" /\ j.loc = "read"
     /\ j.cur < o.off + o.len /\ ObjNum(j.cur) \in Objects
  \/ o.kind = "read" /\ j.loc = "return"

PlacesInv == Fits /\ \A p \in Proc : Placing(op[p], job[p])

Full(n) == obj[n] # None /\ Len(obj[n]) = ObjSize

(* There is no byte missing below x.                                       *)
Reached(x) ==
  /\ \A n \in Objects : n < ObjNum(x) => Full(n)
  /\ Within(x) > 0 => obj[ObjNum(x)] # None /\ Within(x) <= Len(obj[ObjNum(x)])

(* Among the objects up to a, and among those from b on, one with another  *)
(* behind it is full; there are none between.                              *)
Packed(a, b) ==
  /\ \A m, n \in Objects : m < n /\ (n <= a \/ b <= m) /\ obj[n] # None => Full(m)
  /\ \A n \in Objects : a < n /\ n < b => obj[n] = None

(* Where a truncation or a removal takes objects away.                     *)
Cutting == {"reap", "drop", "wipe"}

(* Writers have no hole behind them, and a truncation or a removal leaves  *)
(* only the one it is making.                                              *)
Wholly(o, j) ==
  /\ j.loc \in {"zero", "put"} => Reached(j.cur)
  /\ j.loc = "cut" => Reached(o.off)
  /\ j.loc \in {"reap", "drop"} => Packed(ObjNum(o.off), j.num)
  /\ j.loc = "wipe" => Packed(-1, j.num)

HoleInv ==
  ~torn => /\ \A p \in Proc : Wholly(op[p], job[p])
           /\ (\A p \in Proc : job[p].loc \notin Cutting) => Packed(-1, 0)

(* An offset is in one object at one place.                                *)
LEMMA Division ==
  ASSUME NEW x \in Nat
  PROVE  /\ ObjNum(x) \in Nat /\ Within(x) \in Nat /\ Within(x) < ObjSize
         /\ x = ObjNum(x) * ObjSize + Within(x)
BY SizeAssumption DEF ObjNum, Within

(* Two offsets that begin in different objects are that far apart.         *)
LEMMA Apart ==
  ASSUME NEW a \in Nat, NEW b \in Nat, a < b
  PROVE  a * ObjSize + ObjSize <= b * ObjSize
<1>1. PICK c \in Nat : b = a + 1 + c
  <2>1. b - a - 1 \in Nat /\ b = a + 1 + (b - a - 1)
    OBVIOUS
  <2> QED BY <2>1
<1>2. b * ObjSize = a * ObjSize + ObjSize + c * ObjSize
  BY <1>1, SizeAssumption
<1>3. c * ObjSize >= 0
  BY SizeAssumption
<1> QED BY <1>2, <1>3, SizeAssumption

(* The object and the place of an offset are determined by it.             *)
LEMMA Unique ==
  ASSUME NEW x \in Nat, NEW n \in Nat, NEW r \in Nat, r < ObjSize, x = n * ObjSize + r
  PROVE  ObjNum(x) = n /\ Within(x) = r
<1>1. /\ ObjNum(x) \in Nat /\ Within(x) \in Nat /\ Within(x) < ObjSize
      /\ x = ObjNum(x) * ObjSize + Within(x)
  BY Division
<1>2. ~(ObjNum(x) < n)
  <2> SUFFICES ASSUME ObjNum(x) < n PROVE FALSE
    OBVIOUS
  <2>1. ObjNum(x) * ObjSize + ObjSize <= n * ObjSize
    BY <1>1, Apart
  <2> QED BY <1>1, <2>1, SizeAssumption
<1>3. ~(n < ObjNum(x))
  <2> SUFFICES ASSUME n < ObjNum(x) PROVE FALSE
    OBVIOUS
  <2>1. n * ObjSize + ObjSize <= ObjNum(x) * ObjSize
    BY <1>1, Apart
  <2> QED BY <1>1, <2>1, SizeAssumption
<1>4. ObjNum(x) = n
  BY <1>1, <1>2, <1>3
<1>5. x = n * ObjSize + Within(x) /\ n * ObjSize \in Nat
  BY <1>1, <1>4, SizeAssumption
<1>6. \A a, b, c, d \in Nat : a = d + b /\ a = d + c => b = c
  OBVIOUS
<1> QED BY <1>1, <1>4, <1>5, <1>6

(* The offset at which the next object begins.                             *)
LEMMA NextObject ==
  ASSUME NEW x \in Nat
  PROVE  /\ NextBound(x) \in Nat /\ x < NextBound(x)
         /\ NextBound(x) = x - Within(x) + ObjSize
         /\ ObjNum(NextBound(x)) = ObjNum(x) + 1 /\ Within(NextBound(x)) = 0
<1>1. /\ ObjNum(x) \in Nat /\ Within(x) \in Nat /\ Within(x) < ObjSize
      /\ x = ObjNum(x) * ObjSize + Within(x)
  BY Division
<1>2. NextBound(x) = (ObjNum(x) + 1) * ObjSize + 0
      /\ (ObjNum(x) + 1) * ObjSize = ObjNum(x) * ObjSize + ObjSize
  BY <1>1, SizeAssumption DEF NextBound
<1>3. NextBound(x) \in Nat /\ x < NextBound(x) /\ NextBound(x) = x - Within(x) + ObjSize
  BY <1>1, <1>2, SizeAssumption
<1>4. ObjNum(NextBound(x)) = ObjNum(x) + 1 /\ Within(NextBound(x)) = 0
  BY <1>1, <1>2, <1>3, Unique, SizeAssumption
<1> QED BY <1>3, <1>4

(* A later offset is in a later object, or in the same one at a later      *)
(* place.                                                                  *)
LEMMA Later ==
  ASSUME NEW x \in Nat, NEW y \in Nat, x <= y
  PROVE  \/ ObjNum(x) < ObjNum(y)
         \/ ObjNum(x) = ObjNum(y) /\ Within(y) = Within(x) + (y - x)
<1>1. /\ ObjNum(x) \in Nat /\ Within(x) \in Nat /\ Within(x) < ObjSize
      /\ x = ObjNum(x) * ObjSize + Within(x)
  BY Division
<1>2. /\ ObjNum(y) \in Nat /\ Within(y) \in Nat /\ Within(y) < ObjSize
      /\ y = ObjNum(y) * ObjSize + Within(y)
  BY Division
<1>3. ~(ObjNum(y) < ObjNum(x))
  <2> SUFFICES ASSUME ObjNum(y) < ObjNum(x) PROVE FALSE
    OBVIOUS
  <2>1. ObjNum(y) * ObjSize + ObjSize <= ObjNum(x) * ObjSize
    BY <1>1, <1>2, Apart
  <2> QED BY <1>1, <1>2, <2>1, SizeAssumption
<1>4. ObjNum(x) = ObjNum(y) => Within(y) = Within(x) + (y - x)
  BY <1>1, <1>2, SizeAssumption
<1> QED BY <1>1, <1>2, <1>3, <1>4

(* An offset before the next object is in this one.                        *)
LEMMA SameObject ==
  ASSUME NEW x \in Nat, NEW y \in Nat, x <= y, y < NextBound(x)
  PROVE  ObjNum(y) = ObjNum(x) /\ Within(y) = Within(x) + (y - x)
<1>1. /\ ObjNum(x) \in Nat /\ Within(x) \in Nat /\ Within(x) < ObjSize
      /\ x = ObjNum(x) * ObjSize + Within(x)
  BY Division
<1>2. NextBound(x) = x - Within(x) + ObjSize
  BY NextObject
<1>3. Within(x) + (y - x) \in Nat /\ Within(x) + (y - x) < ObjSize
      /\ y = ObjNum(x) * ObjSize + (Within(x) + (y - x))
  BY <1>1, <1>2, SizeAssumption
<1> QED BY <1>1, <1>3, Unique

(* The objects of the file's bytes are among Objects.                      *)
LEMMA TopParts ==
  /\ Top \in Nat /\ Objects = 0 .. Top + 1
  /\ \A x \in Nat : x <= MaxSize => ObjNum(x) <= Top /\ ObjNum(x) \in Objects
<1>1. Top = ObjNum(MaxSize) /\ Top \in Nat /\ Objects = 0 .. Top + 1
  BY Division, SizeAssumption DEF Top, ObjNum, Objects
<1>2. ASSUME NEW x \in Nat, x <= MaxSize PROVE ObjNum(x) <= Top /\ ObjNum(x) \in Objects
  <2>1. ObjNum(x) \in Nat
    BY Division
  <2>2. ObjNum(x) <= ObjNum(MaxSize)
    BY <1>1, <1>2, <2>1, Later, SizeAssumption
  <2> QED BY <1>1, <2>1, <2>2
<1> QED BY <1>1, <1>2

----------------------------------------------------------------------------
(* Bytes written over others.                                              *)
LEMMA OverlayType ==
  ASSUME NEW S, Zero \in S, NEW s \in Seq(S), NEW at \in Nat, NEW bytes \in Seq(S)
  PROVE  Overlay(s, at, bytes) \in Seq(S)
         /\ Len(Overlay(s, at, bytes)) = Larger(Len(s), at + Len(bytes))
<1> DEFINE n == Larger(Len(s), at + Len(bytes))
           e(i) == IF at < i /\ i <= at + Len(bytes) THEN bytes[i - at]
                   ELSE IF i <= Len(s) THEN s[i] ELSE Zero
<1>1. n \in Nat
  BY DEF Larger
<1>2. \A i \in 1 .. n : e(i) \in S
  OBVIOUS
<1>3. Overlay(s, at, bytes) = [i \in 1 .. n |-> e(i)]
  BY DEF Overlay
<1> HIDE DEF n, e
<1>4. [i \in 1 .. n |-> e(i)] \in Seq(S) /\ Len([i \in 1 .. n |-> e(i)]) = n
  BY <1>1, <1>2
<1> QED BY <1>3, <1>4 DEF n

(* What a write makes of an object.                                        *)
LEMMA WriteType ==
  ASSUME NEW o \in Seq(Byte) \cup {None}, NEW at \in Nat, NEW bytes \in Seq(Byte)
  PROVE  /\ RadosWrite(o, at, bytes) \in Seq(Byte) /\ RadosWrite(o, at, bytes) # None
         /\ Len(RadosWrite(o, at, bytes)) =
              Larger(IF o = None THEN 0 ELSE Len(o), at + Len(bytes))
<1> DEFINE s == IF o = None THEN <<>> ELSE o
<1>1. s \in Seq(Byte) /\ Len(s) = IF o = None THEN 0 ELSE Len(o)
  OBVIOUS
<1>2. Zero \in Byte /\ RadosWrite(o, at, bytes) = Overlay(s, at, bytes)
  BY DEF Byte, RadosWrite
<1> HIDE DEF s
<1>3. Overlay(s, at, bytes) \in Seq(Byte)
      /\ Len(Overlay(s, at, bytes)) = Larger(Len(s), at + Len(bytes))
  BY <1>1, <1>2, OverlayType
<1>4. RadosWrite(o, at, bytes) # None
  BY <1>2, <1>3, ObjectAssumption
<1> QED BY <1>1, <1>2, <1>3, <1>4

(* What a cut makes of it.                                                 *)
LEMMA TruncType ==
  ASSUME NEW o \in Seq(Byte) \cup {None}, NEW n \in Nat
  PROVE  /\ RadosTrunc(o, n) \in Seq(Byte) \cup {None}
         /\ RadosTrunc(o, n) = None <=> o = None
         /\ o # None => Len(RadosTrunc(o, n)) = n
<1> SUFFICES ASSUME o # None PROVE RadosTrunc(o, n) \in Seq(Byte) /\ Len(RadosTrunc(o, n)) = n
  BY ObjectAssumption DEF RadosTrunc
<1> DEFINE e(i) == IF i <= Len(o) THEN o[i] ELSE Zero
<1>1. \A i \in 1 .. n : e(i) \in Byte
  BY DEF Byte
<1>2. RadosTrunc(o, n) = [i \in 1 .. n |-> e(i)]
  BY DEF RadosTrunc
<1> HIDE DEF e
<1> QED BY <1>1, <1>2

(* The zeros and the buffer that are written.                              *)
LEMMA BytesType ==
  ASSUME NEW n \in Nat
  PROVE  /\ Zeros(n) \in Seq(Byte) /\ Len(Zeros(n)) = n
         /\ \A p \in Proc : Buffer(p, n) \in Seq(Byte) /\ Len(Buffer(p, n)) = n
<1>1. Zeros(n) \in Seq(Byte) /\ Len(Zeros(n)) = n
  BY DEF Zeros, Byte
<1>2. ASSUME NEW p \in Proc PROVE Buffer(p, n) \in Seq(Byte) /\ Len(Buffer(p, n)) = n
  <2> DEFINE e(i) == <<p, i>>
  <2>1. \A i \in 1 .. n : e(i) \in Byte
    BY DEF Byte
  <2>2. Buffer(p, n) = [i \in 1 .. n |-> e(i)]
    BY DEF Buffer
  <2> HIDE DEF e
  <2> QED BY <2>1, <2>2
<1> QED BY <1>1, <1>2

(* A part of a string of bytes.                                            *)
LEMMA PartType ==
  ASSUME NEW s \in Seq(Byte), NEW a \in Nat, NEW b \in Nat, b <= Len(s)
  PROVE  SubSeq(s, a + 1, b) \in Seq(Byte)
         /\ (a <= b => Len(SubSeq(s, a + 1, b)) = b - a)
OBVIOUS

----------------------------------------------------------------------------
(* What a step does to the processes.                                      *)

Locs == {"idle", "stat", "zero", "put", "cut", "reap", "drop", "wipe", "read", "return"}

(* The operation of q is where it was.                                     *)
Same(q) ==
  /\ op'[q] = op[q]
  /\ job'[q].loc = job[q].loc /\ job'[q].num = job[q].num /\ job'[q].cur = job[q].cur

(* The process p goes to a place in its operation.                         *)
Moves(p, loc, num, cur) ==
  /\ op'[p] = op[p]
  /\ job'[p].loc = loc /\ job'[p].num = num /\ job'[p].cur = cur
  /\ \A q \in Proc : q # p => Same(q)
  /\ torn' = torn

(* The processes G are through with theirs, or dead.                       *)
Ends(G) ==
  /\ \A q \in G : op'[q] = NoOp /\ job'[q] = NoJob
  /\ \A q \in Proc \ G : Same(q)

(* The process p begins the operation o.                                   *)
Begins(p, o, loc) ==
  /\ op[p] = NoOp /\ op'[p] = o
  /\ job'[p].loc = loc /\ job'[p].num = ObjNum(o.off) /\ job'[p].cur = o.off
  /\ \A q \in Proc : q # p => Same(q)
  /\ ~torn' => ~torn /\ ~Meets(o)
  /\ obj' = obj

(* The parts of a typed operation and of a place in it.                    *)
LEMMA JobParts ==
  ASSUME TypeOK, NEW p \in Proc
  PROVE  /\ op[p] \in OpType /\ op[p].off \in Nat /\ op[p].len \in Nat
         /\ job[p] \in JobType /\ job[p].loc \in Locs /\ job[p].num \in Nat /\ job[p].cur \in Nat
BY DEF TypeOK, OpType, JobType, Locs

(* The three ways in which the place changes.                              *)
LEMMA MoveForms ==
  ASSUME TypeOK, NEW p \in Proc, NEW x \in Locs, NEW y \in Nat, op' = op, torn' = torn
  PROVE  /\ Goto(p, x, y) => job' \in [Proc -> JobType] /\ Moves(p, x, job[p].num, y)
         /\ job' = [job EXCEPT ![p].loc = x, ![p].num = y] =>
              job' \in [Proc -> JobType] /\ Moves(p, x, y, job[p].cur)
         /\ job' = [job EXCEPT ![p].num = y] =>
              job' \in [Proc -> JobType] /\ Moves(p, job[p].loc, y, job[p].cur)
<1> DEFINE j == job[p]
<1>0. job \in [Proc -> JobType] /\ j \in JobType
  BY DEF TypeOK
<1>1. /\ [j EXCEPT !.loc = x, !.cur = y] \in JobType
      /\ [j EXCEPT !.loc = x, !.num = y] \in JobType /\ [j EXCEPT !.num = y] \in JobType
  BY <1>0 DEF JobType, Locs
<1>2. ASSUME Goto(p, x, y)
      PROVE job' \in [Proc -> JobType] /\ Moves(p, x, job[p].num, y)
  <2>1. job' = [job EXCEPT ![p] = [j EXCEPT !.loc = x, !.cur = y]]
    BY <1>0, <1>2 DEF Goto
  <2>2. job' \in [Proc -> JobType] /\ job'[p] = [j EXCEPT !.loc = x, !.cur = y]
        /\ \A q \in Proc : q # p => job'[q] = job[q]
    BY <1>0, <1>1, <2>1
  <2> QED BY <1>0, <2>2 DEF Moves, Same, JobType
<1>3. ASSUME job' = [job EXCEPT ![p].loc = x, ![p].num = y]
      PROVE job' \in [Proc -> JobType] /\ Moves(p, x, y, job[p].cur)
  <2>1. job' = [job EXCEPT ![p] = [j EXCEPT !.loc = x, !.num = y]]
    BY <1>0, <1>3
  <2>2. job' \in [Proc -> JobType] /\ job'[p] = [j EXCEPT !.loc = x, !.num = y]
        /\ \A q \in Proc : q # p => job'[q] = job[q]
    BY <1>0, <1>1, <2>1
  <2> QED BY <1>0, <2>2 DEF Moves, Same, JobType
<1>4. ASSUME job' = [job EXCEPT ![p].num = y]
      PROVE job' \in [Proc -> JobType] /\ Moves(p, job[p].loc, y, job[p].cur)
  <2>1. job' = [job EXCEPT ![p] = [j EXCEPT !.num = y]]
    BY <1>0, <1>4
  <2>2. job' \in [Proc -> JobType] /\ job'[p] = [j EXCEPT !.num = y]
        /\ \A q \in Proc : q # p => job'[q] = job[q]
    BY <1>0, <1>1, <2>1
  <2> QED BY <1>0, <2>2 DEF Moves, Same, JobType
<1> QED BY <1>2, <1>3, <1>4

(* The bytes of a plain file after an operation.                           *)
LEMMA FileType ==
  ASSUME TypeOK, NEW p \in Proc, Finish(p)
  PROVE  file' \in Seq(Byte \cup {None})
<1> DEFINE S == Byte \cup {None}
           o == op[p]
<1>0. file \in Seq(S) /\ o.off \in Nat /\ o.len \in Nat /\ Zero \in S
  BY JobParts DEF TypeOK, Byte
<1>1. CASE o.kind = "truncate"
  <2> DEFINE e(i) == IF i <= Len(file) THEN file[i] ELSE Zero
  <2>1. \A i \in 1 .. o.off : e(i) \in S
    BY <1>0
  <2>2. file' = [i \in 1 .. o.off |-> e(i)]
    BY <1>1 DEF Finish
  <2> HIDE DEF e
  <2> QED BY <1>0, <2>1, <2>2
<1>2. CASE o.kind = "unlink"
  <2>1. file' = <<>>
    BY <1>2 DEF Finish
  <2> QED BY <2>1
<1>3. CASE o.kind \notin {"truncate", "unlink"}
  <2>1. file' = Overlay(file, o.off, Buffer(p, o.len))
    BY <1>3 DEF Finish
  <2>2. Buffer(p, o.len) \in Seq(S)
    <3>1. Buffer(p, o.len) \in Seq(Byte)
      BY <1>0, BytesType
    <3> QED BY <3>1
  <2> HIDE DEF S
  <2> QED BY <1>0, <2>1, <2>2, OverlayType DEF S
<1> QED BY <1>1, <1>2, <1>3

(* The end of an operation.                                                *)
LEMMA FinishForm ==
  ASSUME TypeOK, NEW p \in Proc, Finish(p), UNCHANGED <<got, ops, crashes, reborn, torn, uncut, retaken>>,
         obj' \in [Objects -> Seq(Byte) \cup {None}]
  PROVE  TypeOK' /\ Ends({p})
<1>0. op[p].off \in Nat /\ op[p].len \in Nat
  BY JobParts
<1>1. NoOp \in OpType /\ NoJob \in JobType
  BY DEF NoOp, NoJob, OpType, JobType
<1>2. /\ op' \in [Proc -> OpType] /\ job' \in [Proc -> JobType]
      /\ op'[p] = NoOp /\ job'[p] = NoJob
      /\ \A q \in Proc : q # p => op'[q] = op[q] /\ job'[q] = job[q]
  BY <1>1 DEF Finish, TypeOK
<1>3. Ends({p})
  BY <1>2 DEF Ends, Same
<1>4. size' \in Nat /\ mutex' \in Proc \cup {None}
  BY <1>0 DEF Finish, TypeOK, Larger
<1>5. linked' \in BOOLEAN
  BY Zenon DEF Finish, TypeOK
<1>6. file' \in Seq(Byte \cup {None})
  BY FileType
<1> QED BY <1>2, <1>3, <1>4, <1>5, <1>6 DEF TypeOK

(* A step in the middle of an operation.                                   *)
LEMMA MovesTyped ==
  ASSUME TypeOK, UNCHANGED fileVars, UNCHANGED <<ops, crashes, reborn, torn, uncut, retaken>>,
         job' \in [Proc -> JobType], got' \in [Proc -> Seq(Byte)],
         obj' \in [Objects -> Seq(Byte) \cup {None}]
  PROVE  TypeOK'
BY DEF TypeOK, fileVars

(* Processes that die.                                                     *)
LEMMA DieForm ==
  ASSUME TypeOK, NEW G \in SUBSET Proc,
         op' = [q \in Proc |-> IF q \in G THEN NoOp ELSE op[q]],
         job' = [q \in Proc |-> IF q \in G THEN NoJob ELSE [job[q] EXCEPT !.calm = FALSE]]
  PROVE  op' \in [Proc -> OpType] /\ job' \in [Proc -> JobType] /\ Ends(G)
<1>1. NoOp \in OpType /\ NoJob \in JobType
  BY DEF NoOp, NoJob, OpType, JobType
<1>2. op' \in [Proc -> OpType]
  BY <1>1 DEF TypeOK
<1>3. ASSUME NEW q \in Proc
      PROVE  /\ [job[q] EXCEPT !.calm = FALSE] \in JobType
             /\ [job[q] EXCEPT !.calm = FALSE].loc = job[q].loc
             /\ [job[q] EXCEPT !.calm = FALSE].num = job[q].num
             /\ [job[q] EXCEPT !.calm = FALSE].cur = job[q].cur
  BY JobParts DEF JobType
<1>4. job' \in [Proc -> JobType]
  BY <1>1, <1>3
<1>5. Ends(G)
  BY <1>3 DEF Ends, Same
<1> QED BY <1>2, <1>4, <1>5

(* The beginning of an operation.                                          *)
LEMMA BeginForm ==
  ASSUME TypeOK, NEW p \in Proc, NEW o \in OpType, NEW loc \in Locs, Begin(p, o, loc),
         size' \in Nat, mutex' \in Proc \cup {None}
  PROVE  TypeOK' /\ Begins(p, o, loc)
<1> DEFINE calm == o.kind = "read" /\ Writers = {}
           j == [NoJob EXCEPT !.loc = loc, !.num = ObjNum(o.off), !.cur = o.off, !.calm = calm]
<1>0. o.off \in Nat /\ ObjNum(o.off) \in Nat
  BY Division DEF OpType
<1>1. calm \in BOOLEAN
  BY Zenon
<1>2. job' = [q \in Proc |-> IF q = p THEN j ELSE [job[q] EXCEPT !.calm = @ /\ o.kind = "read"]]
  BY DEF Begin
<1> HIDE DEF calm
<1>3. j \in JobType /\ j.loc = loc /\ j.num = ObjNum(o.off) /\ j.cur = o.off
  BY <1>0, <1>1 DEF NoJob, JobType, Locs
<1>4. ASSUME NEW q \in Proc, q # p
      PROVE  job'[q] \in JobType /\ Same(q)
  <2> DEFINE b == job[q].calm /\ o.kind = "read"
  <2>1. b \in BOOLEAN
    BY Zenon
  <2>2. job'[q] = [job[q] EXCEPT !.calm = b]
    BY <1>2, <1>4
  <2> HIDE DEF b
  <2>3. job[q] \in JobType /\ op'[q] = op[q]
    BY <1>4 DEF TypeOK, Begin
  <2> QED BY <2>1, <2>2, <2>3 DEF Same, JobType
<1>5. job'[p] = j
  BY <1>2
<1> HIDE DEF j
<1>6. job' \in [Proc -> JobType]
  <2>1. DOMAIN job' = Proc /\ job' = [q \in Proc |-> job'[q]]
    BY <1>2
  <2>2. \A q \in Proc : job'[q] \in JobType
    BY <1>3, <1>4, <1>5
  <2> QED BY <2>1, <2>2
<1>7. /\ op' \in [Proc -> OpType] /\ ops' \in Nat /\ op'[p] = o /\ op[p] = NoOp
      /\ UNCHANGED <<obj, linked, got, file, crashes, reborn, retaken>>
  <2>1. /\ op[p] = NoOp /\ ops' = ops + 1 /\ op' = [op EXCEPT ![p] = o]
        /\ UNCHANGED <<obj, linked, got, file, crashes, reborn, retaken>>
    BY Zenon DEF Begin
  <2>2. op \in [Proc -> OpType] /\ ops \in Nat
    BY DEF TypeOK
  <2> QED BY <2>1, <2>2
<1>8. torn' \in BOOLEAN /\ (~torn' => ~torn /\ ~Meets(o)) /\ uncut' \in BOOLEAN
  BY Zenon DEF Begin, Meets
<1>9. TypeOK'
  BY <1>6, <1>7, <1>8 DEF TypeOK
<1> QED BY <1>3, <1>4, <1>5, <1>7, <1>8, <1>9 DEF Begins

----------------------------------------------------------------------------
(* What a call to RADOS does to the holes.                                 *)

(* The object n is written, up to byte l at least.                         *)
Grows(n, l) ==
  /\ obj' \in [Objects -> Seq(Byte) \cup {None}]
  /\ \A m \in Objects : m # n => obj'[m] = obj[m]
  /\ obj'[n] # None
  /\ Len(obj'[n]) = Larger(IF obj[n] = None THEN 0 ELSE Len(obj[n]), l)

(* Objects that exist have a length.                                       *)
LEMMA ObjParts ==
  ASSUME TypeOK, NEW n \in Objects
  PROVE  /\ obj[n] \in Seq(Byte) \cup {None}
         /\ obj[n] # None => Len(obj[n]) \in Nat
         /\ n \in Nat /\ n <= Top + 1
BY TopParts DEF TypeOK

(* A write that begins where no byte is missing leaves no hole, and takes  *)
(* nothing that others have reached.                                       *)
LEMMA GrowHoles ==
  ASSUME TypeOK, Fits, Packed(-1, 0), NEW x \in Nat, Reached(x),
         ObjNum(x) \in Objects, ObjNum(x) <= Top,
         NEW sub \in Nat, Within(x) + sub <= ObjSize,
         Grows(ObjNum(x), Within(x) + sub)
  PROVE  /\ Fits' /\ Packed(-1, 0)' /\ Reached(x + sub)'
         /\ \A y \in Nat : ObjNum(y) \in Objects /\ Reached(y) => Reached(y)'
<1> DEFINE n == ObjNum(x)
           w == Within(x)
           l == IF obj[n] = None THEN 0 ELSE Len(obj[n])
<1>0. /\ n \in Nat /\ w \in Nat /\ w < ObjSize /\ ObjSize \in Nat /\ w + sub <= ObjSize
      /\ Objects = 0 .. Top + 1 /\ Top \in Nat
  BY Division, TopParts, SizeAssumption
<1>1. /\ l \in Nat /\ l <= ObjSize /\ w <= l
      /\ obj[n] # None => l = Len(obj[n])
  <2>1. obj[n] # None => Len(obj[n]) \in Nat /\ Len(obj[n]) <= ObjSize
    BY ObjParts DEF Fits
  <2>2. w > 0 => obj[n] # None /\ w <= Len(obj[n])
    BY DEF Reached
  <2> QED BY <1>0, <2>1, <2>2
<1>2. /\ obj'[n] # None /\ Len(obj'[n]) \in Nat /\ Len(obj'[n]) <= ObjSize
      /\ l <= Len(obj'[n]) /\ w + sub <= Len(obj'[n])
      /\ \A m \in Objects : m # n => obj'[m] = obj[m]
  <2>1. Len(obj'[n]) = Larger(l, w + sub) /\ obj'[n] # None
    BY DEF Grows
  <2> HIDE DEF l, w, n
  <2>2. \A m \in Objects : m # n => obj'[m] = obj[m]
    BY DEF Grows, n
  <2>4. w + sub \in Nat
    BY <1>0
  <2>5. /\ Larger(l, w + sub) \in Nat /\ l <= Larger(l, w + sub) /\ w + sub <= Larger(l, w + sub)
        /\ Larger(l, w + sub) <= ObjSize
    <3>1. l \in Nat /\ w + sub \in Nat /\ ObjSize \in Nat /\ l <= ObjSize /\ w + sub <= ObjSize
      BY <1>0, <1>1, <2>4
    <3> QED BY <3>1 DEF Larger
  <2> QED BY <2>1, <2>2, <2>5
<1>3. Fits'
  BY <1>2 DEF Fits
<1>4. \A m \in Objects : Full(m) => Full(m)'
  BY <1>0, <1>1, <1>2 DEF Full
<1>5. \A m \in Objects : m < n => Full(m)
  BY DEF Reached
<1>6. Packed(-1, 0)'
  <2> SUFFICES ASSUME NEW a \in Objects, NEW b \in Objects, a < b, obj'[b] # None
               PROVE  Full(a)'
    BY <1>0 DEF Packed
  <2>1. CASE b = n
    BY <1>4, <1>5, <2>1
  <2>2. CASE b # n
    <3>1. obj[b] # None
      BY <1>2, <2>2
    <3>2. Full(a)
      BY <1>0, <3>1 DEF Packed
    <3> QED BY <1>4, <3>2
  <2> QED BY <2>1, <2>2
<1>7. Reached(x + sub)'
  <2>1. CASE w + sub = ObjSize
    <3>1. x + sub = NextBound(x) /\ ObjNum(x + sub) = n + 1 /\ Within(x + sub) = 0
      <4>1. /\ NextBound(x) = x - Within(x) + ObjSize
            /\ ObjNum(NextBound(x)) = ObjNum(x) + 1 /\ Within(NextBound(x)) = 0
        BY NextObject
      <4>2. x + sub = NextBound(x)
        BY <1>0, <2>1, <4>1
      <4> QED BY <4>1, <4>2
    <3>2. Full(n)'
      BY <1>0, <1>2, <2>1 DEF Full
    <3>3. \A m \in Objects : m < n + 1 => Full(m)'
      BY <1>0, <1>4, <1>5, <3>2
    <3> QED BY <3>1, <3>3 DEF Reached
  <2>2. CASE w + sub # ObjSize
    <3>1. x <= x + sub /\ x + sub < NextBound(x) /\ x + sub \in Nat /\ (x + sub) - x = sub
      <4>1. NextBound(x) = x - Within(x) + ObjSize
        BY NextObject
      <4> QED BY <1>0, <2>2, <4>1
    <3>2. ObjNum(x + sub) = n /\ Within(x + sub) = w + sub
      BY <3>1, SameObject
    <3>3. \A m \in Objects : m < n => Full(m)'
      BY <1>4, <1>5
    <3> HIDE DEF n, w
    <3> QED BY <1>2, <3>2, <3>3 DEF Reached
  <2> QED BY <2>1, <2>2
<1>8. ASSUME NEW y \in Nat, ObjNum(y) \in Objects, Reached(y) PROVE Reached(y)'
  <2>1. \A m \in Objects : m < ObjNum(y) => Full(m)'
    BY <1>4, <1>8 DEF Reached
  <2>2. Within(y) > 0 => obj'[ObjNum(y)] # None /\ Within(y) <= Len(obj'[ObjNum(y)])
    <3>1. CASE ObjNum(y) = n
      <4>1. Within(y) \in Nat
        BY Division
      <4>2. Within(y) > 0 => Within(y) <= l
        BY <1>1, <1>8, <3>1 DEF Reached
      <4> HIDE DEF l, n
      <4> QED BY <1>1, <1>2, <3>1, <4>1, <4>2
    <3>2. CASE ObjNum(y) # n
      BY <1>2, <1>8, <3>2 DEF Reached
    <3> QED BY <3>1, <3>2
  <2> QED BY <2>1, <2>2 DEF Reached
<1> QED BY <1>3, <1>6, <1>7, <1>8

(* What a search for the end has found: no byte is missing before it.      *)
LEMMA EndReached ==
  ASSUME TypeOK, Fits, Packed(-1, 0), NEW n \in Objects, obj[n] # None
  PROVE  /\ n * ObjSize + Len(obj[n]) \in Nat
         /\ Reached(n * ObjSize + Len(obj[n]))
<1> DEFINE l == Len(obj[n])
           x == n * ObjSize + l
<1>0. n \in Nat /\ l \in Nat /\ l <= ObjSize /\ ObjSize \in Nat \ {0} /\ Objects = 0 .. Top + 1
  BY ObjParts, TopParts, SizeAssumption DEF Fits
<1>1. x \in Nat
  <2>1. \A a, b, c \in Nat : a * b + c \in Nat
    OBVIOUS
  <2> HIDE DEF l
  <2> QED BY <1>0, <2>1
<1>2. \A m \in Objects : m < n => Full(m)
  BY <1>0, TopParts DEF Packed
<1>3. CASE l < ObjSize
  <2>1. ObjNum(x) = n /\ Within(x) = l
    BY <1>0, <1>1, <1>3, Unique
  <2>2. Reached(x)
    <3> HIDE DEF x
    <3> QED BY <1>0, <1>2, <2>1 DEF Reached
  <2> QED BY <1>1, <2>2
<1>4. CASE l = ObjSize
  <2>1. x = (n + 1) * ObjSize + 0
    <3>1. \A a, b \in Nat : a * b + b = (a + 1) * b + 0
      OBVIOUS
    <3> HIDE DEF l
    <3> QED BY <1>0, <1>4, <3>1
  <2>2. ObjNum(x) = n + 1 /\ Within(x) = 0
    <3>1. n + 1 \in Nat /\ 0 \in Nat /\ 0 < ObjSize
      BY <1>0
    <3> HIDE DEF x
    <3> QED BY <1>1, <2>1, <3>1, Unique
  <2>3. \A m \in Objects : m < n + 1 => Full(m)
    BY <1>0, <1>2, <1>4, TopParts DEF Full
  <2> HIDE DEF x
  <2>4. Reached(x)
    BY <2>2, <2>3 DEF Reached
  <2> QED BY <1>1, <2>4 DEF x
<1>5. l < ObjSize \/ l = ObjSize
  BY <1>0
<1> QED BY <1>3, <1>4, <1>5

(* No byte is missing before an earlier one.                               *)
LEMMA ReachedBefore ==
  ASSUME TypeOK, Fits, NEW x \in Nat, NEW y \in Nat, x <= y, Reached(y), ObjNum(x) \in Objects
  PROVE  Reached(x)
<1>0. /\ ObjNum(x) \in Nat /\ Within(x) \in Nat /\ Within(x) < ObjSize
      /\ ObjNum(y) \in Nat /\ Within(y) \in Nat /\ Within(y) < ObjSize
      /\ ObjSize \in Nat /\ Objects = 0 .. Top + 1 /\ Top \in Nat
  BY Division, TopParts, SizeAssumption
<1>1. CASE ObjNum(x) < ObjNum(y)
  <2>1. Full(ObjNum(x))
    BY <1>1 DEF Reached
  <2>2. \A m \in Objects : m < ObjNum(x) => Full(m)
    BY <1>0, <1>1 DEF Reached
  <2> QED BY <1>0, <2>1, <2>2 DEF Reached, Full
<1>2. CASE ObjNum(x) = ObjNum(y) /\ Within(y) = Within(x) + (y - x)
  <2>1. obj[ObjNum(x)] # None => Len(obj[ObjNum(x)]) \in Nat
    BY ObjParts
  <2> QED BY <1>0, <1>2, <2>1 DEF Reached
<1> QED BY <1>1, <1>2, Later

(* Nothing is missing before the first byte.                               *)
LEMMA ReachedZero == Reached(0) /\ ObjNum(0) = 0 /\ ObjNum(0) \in Objects
<1>1. 0 = 0 * ObjSize + 0
  BY SizeAssumption
<1>2. ObjNum(0) = 0 /\ Within(0) = 0
  BY <1>1, Unique, SizeAssumption
<1> QED BY <1>2, TopParts DEF Reached

----------------------------------------------------------------------------
(* The invariants, for a step that moves the processes G.                  *)

LEMMA PlacesKept ==
  ASSUME PlacesInv, Fits', NEW G \in SUBSET Proc, \A q \in Proc \ G : Same(q),
         \A q \in G : Placing(op'[q], job'[q])
  PROVE  PlacesInv'
<1>1. ASSUME NEW q \in Proc, Same(q) PROVE Placing(op'[q], job'[q])
  BY <1>1 DEF PlacesInv, Placing, Same
<1> QED BY <1>1 DEF PlacesInv

(* A step that leaves the objects as they are.                             *)
LEMMA HolesKept ==
  ASSUME HoleInv, obj' = obj, ~torn' => ~torn,
         NEW G \in SUBSET Proc, \A q \in Proc \ G : Same(q),
         ~torn' => \A q \in G : Wholly(op'[q], job'[q]),
         ~torn' /\ (\A q \in Proc : job'[q].loc \notin Cutting) =>
           (\A q \in G : job[q].loc \notin Cutting) \/ Packed(-1, 0)
  PROVE  HoleInv'
<1> SUFFICES ASSUME ~torn'
             PROVE  /\ \A p \in Proc : Wholly(op[p], job[p])'
                    /\ (\A p \in Proc : job'[p].loc \notin Cutting) => Packed(-1, 0)'
  BY DEF HoleInv
<1>0. \A x : (Reached(x)' <=> Reached(x)) /\ \A y : (Packed(x, y)' <=> Packed(x, y))
  BY DEF Reached, Packed, Full
<1>1. ASSUME NEW q \in Proc PROVE Wholly(op'[q], job'[q])
  <2>1. CASE q \in G
    BY <2>1
  <2>2. CASE Same(q)
    BY <2>2 DEF HoleInv, Wholly, Same
  <2> QED BY <2>1, <2>2
<1>2. ASSUME NEW q \in Proc PROVE Wholly(op[q], job[q])'
  BY <1>0, <1>1 DEF Wholly
<1>3. (\A p \in Proc : job'[p].loc \notin Cutting) => Packed(-1, 0)
  <2> SUFFICES ASSUME \A p \in Proc : job'[p].loc \notin Cutting, ~Packed(-1, 0) PROVE FALSE
    OBVIOUS
  <2>1. \A q \in G : job[q].loc \notin Cutting
    OBVIOUS
  <2>2. \A q \in Proc \ G : job[q].loc \notin Cutting
    BY DEF Same
  <2> QED BY <2>1, <2>2 DEF HoleInv
<1> QED BY <1>0, <1>2, <1>3

(* While somebody looks for the end of the file or writes, or begins to    *)
(* cut, nobody takes objects away.                                         *)
LEMMA NobodyCuts ==
  ASSUME PlacesInv, CutsAlone, HoleInv, ~torn, NEW p \in Proc,
         job[p].loc \in {"stat", "zero", "put", "cut"}
  PROVE  /\ \A q \in Proc : job[q].loc \notin Cutting
         /\ \A q \in Proc : q # p => job[q].loc # "cut"
         /\ Packed(-1, 0)
<1>1. op[p].kind \notin {"none", "read"}
  BY DEF PlacesInv, Placing
<1>2. ASSUME NEW q \in Proc, q # p PROVE op[q].kind \notin {"truncate", "unlink"}
  BY <1>1, <1>2 DEF CutsAlone
<1>3. \A q \in Proc : q # p => job[q].loc \notin Cutting /\ job[q].loc # "cut"
  BY <1>2 DEF PlacesInv, Placing, Cutting
<1>4. job[p].loc \notin Cutting
  BY DEF Cutting
<1> QED BY <1>3, <1>4 DEF HoleInv

(* The step of one process that takes objects away leaves none of its own  *)
(* holes: nothing is left behind the first object that is not there.       *)
LEMMA PackedEnd ==
  ASSUME TypeOK, NEW a \in Int, NEW n \in Nat, a < n, Packed(a, n),
         n \in Objects => obj[n] = None
  PROVE  Packed(-1, 0)
<1>0. Objects = 0 .. Top + 1 /\ Top \in Nat
  BY TopParts
<1>1. ASSUME NEW i \in Objects, NEW j \in Objects, i < j, obj[j] # None PROVE Full(i)
  <2>1. j <= a
    <3> SUFFICES ASSUME a < j PROVE FALSE
      BY <1>0
    <3>1. ~(j < n) /\ j # n
      BY <1>0, <1>1 DEF Packed
    <3>2. n \in Objects /\ n < j
      BY <1>0, <3>1
    <3>3. Full(n)
      BY <1>1, <3>2 DEF Packed
    <3> QED BY <3>2, <3>3 DEF Full
  <2> QED BY <1>1, <2>1 DEF Packed
<1> QED BY <1>0, <1>1 DEF Packed

(* The removal of the next object.                                         *)
LEMMA PackedDrop ==
  ASSUME TypeOK, NEW a \in Int, NEW n \in Objects, a < n, Packed(a, n),
         obj' = [obj EXCEPT ![n] = None]
  PROVE  Packed(a, n + 1)'
<1>0. Objects = 0 .. Top + 1 /\ Top \in Nat
  BY TopParts
<1>1. obj'[n] = None /\ \A m \in Objects : m # n => obj'[m] = obj[m]
  BY DEF TypeOK
<1>2. ASSUME NEW i \in Objects, NEW j \in Objects, i < j, j <= a \/ n + 1 <= i, obj'[j] # None
      PROVE  Full(i)'
  <2>1. i # n /\ j # n /\ (j <= a \/ n <= i)
    BY <1>0, <1>2
  <2>2. Full(i)
    BY <1>1, <1>2, <2>1 DEF Packed
  <2> QED BY <1>1, <2>1, <2>2 DEF Full
<1>3. ASSUME NEW j \in Objects, a < j, j < n + 1 PROVE obj'[j] = None
  BY <1>0, <1>1, <1>3 DEF Packed
<1> QED BY <1>2, <1>3 DEF Packed

(* The cut of the object that the new end is in.                           *)
LEMMA PackedCut ==
  ASSUME TypeOK, Packed(-1, 0), NEW x \in Nat, ObjNum(x) \in Objects, Reached(x),
         NEW o \in Seq(Byte) \cup {None}, obj' = [obj EXCEPT ![ObjNum(x)] = o]
  PROVE  Packed(ObjNum(x), ObjNum(x) + 1)'
<1> DEFINE n == ObjNum(x)
<1>0. Objects = 0 .. Top + 1 /\ Top \in Nat /\ n \in Objects
  BY TopParts
<1>1. \A m \in Objects : m # n => obj'[m] = obj[m]
  BY DEF TypeOK
<1>4. \A m \in Objects : m < n => Full(m)
  BY DEF Reached
<1> HIDE DEF n
<1>2. ASSUME NEW i \in Objects, NEW j \in Objects, i < j, j <= n \/ n + 1 <= i, obj'[j] # None
      PROVE  Full(i)'
  <2>1. i # n /\ (j <= n => i < n)
    BY <1>0, <1>2
  <2>2. Full(i)
    <3>1. CASE j <= n
      BY <1>4, <2>1, <3>1
    <3>2. CASE n + 1 <= i
      <4>1. j # n /\ 0 <= i
        BY <1>0, <1>2, <3>2
      <4>2. obj[j] # None
        BY <1>1, <1>2, <4>1
      <4> QED BY <1>2, <4>1, <4>2 DEF Packed
    <3> QED BY <1>2, <3>1, <3>2
  <2> QED BY <1>1, <2>1, <2>2 DEF Full
<1>3. ASSUME NEW j \in Objects PROVE ~(n < j /\ j < n + 1)
  BY <1>0
<1>5. Packed(n, n + 1)'
  BY <1>2, <1>3 DEF Packed
<1> QED BY <1>5 DEF n

----------------------------------------------------------------------------
(* Every step keeps them.                                                  *)

Whole == TypeOK /\ PlacesInv /\ HoleInv

(* An operation begins.                                                    *)
LEMMA BeginWhole ==
  ASSUME Whole, NEW p \in Proc, NEW o \in OpType, NEW loc \in {"stat", "wipe", "read"},
         Begin(p, o, loc), size' \in Nat, mutex' \in Proc \cup {None},
         \/ loc = "stat" /\ o.kind \in {"write", "append"} /\ o.len > 0 /\ o.off + o.len <= MaxSize
         \/ loc = "stat" /\ o.kind = "truncate" /\ o.off <= MaxSize
         \/ loc = "wipe" /\ o.kind = "unlink" /\ o.off = 0
         \/ loc = "read" /\ o.kind = "read" /\ o.len > 0 /\ o.off <= MaxSize
  PROVE  Whole'
<1>0. o.off \in Nat /\ o.len \in Nat /\ ObjNum(o.off) \in Nat /\ loc \in Locs
  BY Division DEF OpType, Locs
<1>1. TypeOK' /\ Begins(p, o, loc)
  BY <1>0, BeginForm DEF Whole
<1>2. /\ op'[p] = o /\ job'[p].loc = loc /\ job'[p].num = ObjNum(o.off) /\ job'[p].cur = o.off
      /\ \A q \in Proc : q # p => Same(q)
      /\ ~torn' => ~torn /\ ~Meets(o)
      /\ obj' = obj /\ op[p] = NoOp
  BY <1>1 DEF Begins
<1>3. Placing(op'[p], job'[p])
  <2>1. loc = "read" => ObjNum(o.off) \in Objects
    BY <1>0, TopParts
  <2> QED BY <1>0, <1>2, <2>1 DEF Placing
<1>4. PlacesInv'
  <2>1. Fits'
    BY <1>2 DEF Whole, PlacesInv, Fits
  <2>2. {p} \in SUBSET Proc /\ \A q \in Proc \ {p} : Same(q)
    BY <1>2
  <2> QED BY <1>3, <2>1, <2>2, PlacesKept DEF Whole
<1>5. job[p].loc \notin Cutting
  BY <1>2 DEF Whole, PlacesInv, Placing, NoOp, Cutting
<1>6. ASSUME ~torn', loc = "wipe" PROVE Packed(-1, ObjNum(o.off))
  <2>1. \A q \in Proc : op[q].kind \in {"none", "read"}
    BY <1>2, <1>6 DEF Meets, Writers
  <2>2. \A q \in Proc : job[q].loc \notin Cutting
    BY <2>1 DEF Whole, PlacesInv, Placing, Cutting
  <2>3. Packed(-1, 0) /\ o.off = 0
    BY <1>2, <1>6, <2>2 DEF Whole, HoleInv
  <2> QED BY <2>3, ReachedZero
<1>7. ~torn' => Wholly(op'[p], job'[p])
  BY <1>2, <1>6 DEF Wholly
<1>8. HoleInv'
  <2>1. {p} \in SUBSET Proc /\ \A q \in Proc \ {p} : Same(q)
    BY <1>2
  <2> QED BY <1>2, <1>5, <1>7, <2>1, HolesKept DEF Whole
<1> QED BY <1>1, <1>4, <1>8 DEF Whole

(* Every operation.                                                        *)
LEMMA StartWhole ==
  ASSUME Whole, NEW p \in Proc, Start(p)
  PROVE  Whole'
<1> USE SizeAssumption
<1>0. size \in Nat /\ mutex \in Proc \cup {None}
  BY DEF Whole, TypeOK
<1>1. ASSUME NEW kind \in {"write", "append"}, NEW off \in 0 .. MaxSize, NEW len \in 1 .. MaxLen,
             local_write(p, kind, off, len) \/ rpc_write(p, kind, off, len)
      PROVE  Whole'
  <2> DEFINE o == WriteOp(kind, off, len)
  <2>1. o \in OpType /\ o.kind = kind /\ o.len = len /\ o.off \in Nat
    BY <1>0 DEF OpType, WriteOp
  <2> HIDE DEF o
  <2>2. /\ o.off + o.len <= MaxSize /\ Begin(p, o, "stat")
        /\ Lock(p) \/ SetSize(p, Larger(size, o.off + o.len))
    BY <1>1, <2>1 DEF local_write, rpc_write, o
  <2>3. size' \in Nat /\ mutex' \in Proc \cup {None}
    BY <1>0, <2>1, <2>2 DEF Lock, SetSize, Larger
  <2> QED BY <2>1, <2>2, <2>3, BeginWhole
<1>2. ASSUME NEW off \in 0 .. MaxSize, local_truncate(p, off) \/ rpc_truncate(p, off)
      PROVE  Whole'
  <2> DEFINE o == TruncateOp(off)
  <2>1. o \in OpType /\ o.kind = "truncate" /\ o.off = off
    BY DEF OpType, TruncateOp
  <2> HIDE DEF o
  <2>2. Begin(p, o, "stat") /\ (Lock(p) \/ SetSize(p, off))
    BY <1>2 DEF local_truncate, rpc_truncate, o
  <2>3. size' \in Nat /\ mutex' \in Proc \cup {None}
    BY <1>0, <2>2 DEF Lock, SetSize
  <2> QED BY <2>1, <2>2, <2>3, BeginWhole
<1>3. ASSUME local_unlink(p) \/ rpc_unlink(p) PROVE Whole'
  <2>1. UnlinkOp \in OpType /\ UnlinkOp.kind = "unlink" /\ UnlinkOp.off = 0
    BY DEF OpType, UnlinkOp
  <2>2. Begin(p, UnlinkOp, "wipe") /\ (Lock(p) \/ UNCHANGED <<size, mutex>>)
    BY <1>3 DEF local_unlink, rpc_unlink
  <2>3. size' \in Nat /\ mutex' \in Proc \cup {None}
    BY <1>0, <2>2 DEF Lock
  <2> QED BY <2>1, <2>2, <2>3, BeginWhole
<1>4. ASSUME NEW off \in 0 .. MaxSize, NEW len \in 1 .. MaxLen, local_read(p, off, len)
      PROVE  Whole'
  <2> DEFINE o == [kind |-> "read", off |-> off, len |-> len]
  <2>1. o \in OpType /\ o.kind = "read" /\ o.off = off /\ o.len = len
    BY DEF OpType
  <2>2. Begin(p, o, "read") /\ UNCHANGED <<size, mutex>>
    BY <1>4 DEF local_read
  <2> HIDE DEF o
  <2>3. size' \in Nat /\ mutex' \in Proc \cup {None}
    BY <1>0, <2>2
  <2> QED BY <2>1, <2>2, <2>3, BeginWhole
<1> QED BY <1>1, <1>2, <1>3, <1>4 DEF Start

(* An operation ends, or its process dies, and the objects are as they     *)
(* were.                                                                   *)
LEMMA EndWhole ==
  ASSUME Whole, TypeOK', NEW G \in SUBSET Proc, Ends(G), obj' = obj, ~torn' => ~torn,
         ~torn' => (\A q \in G : job[q].loc \notin Cutting) \/ Packed(-1, 0)
  PROVE  Whole'
<1>1. \A q \in G : Placing(op'[q], job'[q]) /\ Wholly(op'[q], job'[q])
  BY DEF Ends, Placing, Wholly, NoOp, NoJob
<1>2. Fits'
  BY DEF Whole, PlacesInv, Fits
<1>3. \A q \in Proc \ G : Same(q)
  BY DEF Ends
<1>4. PlacesInv'
  BY <1>1, <1>2, <1>3, PlacesKept DEF Whole
<1>5. HoleInv'
  BY <1>1, <1>3, HolesKept DEF Whole
<1> QED BY <1>4, <1>5 DEF Whole

(* A process goes on, and the objects are as they were.                    *)
LEMMA MoveWhole ==
  ASSUME Whole, TypeOK', NEW p \in Proc, NEW loc, NEW num, NEW cur, Moves(p, loc, num, cur),
         obj' = obj, Placing(op'[p], job'[p]), ~torn => Wholly(op'[p], job'[p]),
         job[p].loc \in Cutting => loc \in Cutting
  PROVE  Whole'
<1>1. Fits'
  BY DEF Whole, PlacesInv, Fits
<1>2. {p} \in SUBSET Proc /\ (\A q \in Proc \ {p} : Same(q)) /\ torn' = torn /\ job'[p].loc = loc
  BY DEF Moves
<1>3. PlacesInv'
  BY <1>1, <1>2, PlacesKept DEF Whole
<1>4. (\A q \in Proc : job'[q].loc \notin Cutting) => \A q \in {p} : job[q].loc \notin Cutting
  BY <1>2
<1>5. HoleInv'
  BY <1>2, <1>4, HolesKept DEF Whole
<1> QED BY <1>3, <1>5 DEF Whole

(* A client dies, or the leader.                                           *)
LEMMA CrashWhole ==
  ASSUME Whole, (\E p \in Proc : Crash(p)) \/ LeaderCrash
  PROVE  Whole'
<1>1. ASSUME NEW G \in SUBSET Proc, TypeOK', Ends(G), obj' = obj, torn' = (torn \/ G \cap Cutters # {})
      PROVE  Whole'
  <2>1. ~torn' => ~torn /\ G \cap Cutters = {}
    BY <1>1, Zenon
  <2>2. G \cap Cutters = {} => \A q \in G : job[q].loc \notin Cutting
    <3> SUFFICES ASSUME G \cap Cutters = {}, NEW q \in G PROVE job[q].loc \notin Cutting
      OBVIOUS
    <3>1. op[q].kind \notin {"truncate", "unlink"}
      BY DEF Cutters
    <3> QED BY <3>1 DEF Whole, PlacesInv, Placing, Cutting
  <2> QED BY <1>1, <2>1, <2>2, EndWhole
<1>2. ASSUME NEW p \in Proc, Crash(p) PROVE Whole'
  <2>1. /\ op' = [q \in Proc |-> IF q \in {p} THEN NoOp ELSE op[q]]
        /\ job' = [q \in Proc |-> IF q \in {p} THEN NoJob ELSE [job[q] EXCEPT !.calm = FALSE]]
    BY <1>2 DEF Crash, Whole, TypeOK
  <2>2. op' \in [Proc -> OpType] /\ job' \in [Proc -> JobType] /\ Ends({p})
    BY <2>1, DieForm DEF Whole
  <2>3. /\ got' = [got EXCEPT ![p] = <<>>] /\ crashes' = crashes + 1
        /\ UNCHANGED <<obj, size, linked, mutex, file, ops, reborn, uncut, retaken>>
    BY <1>2, Zenon DEF Crash
  <2>4. torn' \in BOOLEAN /\ torn' = (torn \/ p \in Cutters)
    BY <1>2, Zenon DEF Crash
  <2>5. TypeOK'
    BY <2>2, <2>3, <2>4 DEF Whole, TypeOK
  <2>6. torn' = (torn \/ {p} \cap Cutters # {})
    <3>1. p \in Cutters <=> {p} \cap Cutters # {}
      OBVIOUS
    <3> QED BY <2>4, <3>1, Zenon
  <2> QED BY <1>1, <2>2, <2>3, <2>5, <2>6
<1>3. CASE LeaderCrash
  <2> DEFINE G == Local \cup {q \in Proc : op[q].kind = "unlink"}
  <2>1. /\ op' = [q \in Proc |-> IF q \in G THEN NoOp ELSE op[q]]
        /\ job' = [q \in Proc |-> IF q \in G THEN NoJob ELSE [job[q] EXCEPT !.calm = FALSE]]
        /\ got' = [q \in Proc |-> IF q \in G THEN <<>> ELSE got[q]]
        /\ crashes' = crashes + 1 /\ reborn' = reborn + 1 /\ mutex' = None
        /\ size' \in 0 .. MaxSize /\ linked' \in {linked, TRUE}
        /\ UNCHANGED <<obj, file, ops, uncut, retaken>>
    BY <1>3, Zenon DEF LeaderCrash
  <2>2. torn' \in BOOLEAN /\ torn' = (torn \/ G \cap Cutters # {})
    BY <1>3, Zenon DEF LeaderCrash
  <2>3. G \in SUBSET Proc
    BY LocalAssumption
  <2> HIDE DEF G
  <2>4. op' \in [Proc -> OpType] /\ job' \in [Proc -> JobType] /\ Ends(G)
    BY <2>1, <2>3, DieForm DEF Whole
  <2>5. linked' \in BOOLEAN
    <3>1. linked \in BOOLEAN
      BY DEF Whole, TypeOK
    <3> QED BY <2>1, <3>1, Zenon
  <2>6. got' \in [Proc -> Seq(Byte)] /\ size' \in Nat
    BY <2>1, SizeAssumption DEF Whole, TypeOK
  <2>7. TypeOK'
    BY <2>1, <2>2, <2>4, <2>5, <2>6 DEF Whole, TypeOK
  <2> QED BY <1>1, <2>1, <2>2, <2>3, <2>4, <2>7
<1> QED BY <1>2, <1>3

(* What is known of a process that works on the objects.                   *)
LEMMA AtPlace ==
  ASSUME Whole, NEW p \in Proc
  PROVE  /\ TypeOK /\ PlacesInv /\ Fits /\ Placing(op[p], job[p])
         /\ op[p].off \in Nat /\ op[p].len \in Nat /\ job[p].num \in Nat /\ job[p].cur \in Nat
         /\ ~torn => HoleInv /\ Wholly(op[p], job[p])
BY JobParts DEF Whole, PlacesInv, HoleInv

(* The size has been found.                                                *)
LEMMA KnownWhole ==
  ASSUME Whole, CutsAlone, NEW p \in Proc, job[p].loc = "stat", NEW lb \in Nat, NEW exists,
         ~torn => Reached(lb), SizeKnown(p, lb, exists),
         UNCHANGED <<obj, got, ops, crashes, reborn, torn, uncut, retaken>>
  PROVE  Whole'
<1> DEFINE o == op[p]
<1>0. /\ TypeOK /\ Fits /\ o.off \in Nat /\ o.len \in Nat
      /\ o.kind \in {"write", "append", "truncate"} /\ o.off <= MaxSize
      /\ o.kind # "truncate" => o.len > 0 /\ o.off + o.len <= MaxSize
      /\ obj \in [Objects -> Seq(Byte) \cup {None}] /\ got \in [Proc -> Seq(Byte)]
      /\ job[p].loc \notin Cutting
  <2>1. TypeOK /\ Fits /\ Placing(o, job[p]) /\ o.off \in Nat /\ o.len \in Nat
    BY AtPlace
  <2>2. /\ o.kind \in {"write", "append", "truncate"}
        /\ o.kind = "truncate" => o.off <= MaxSize
        /\ o.kind # "truncate" => o.len > 0 /\ o.off + o.len <= MaxSize
    BY <2>1 DEF Placing
  <2> HIDE DEF o
  <2> QED BY <2>1, <2>2, SizeAssumption DEF TypeOK, Cutting
<1>1. lb >= o.off /\ ~torn => Reached(o.off)
  <2>1. ObjNum(o.off) \in Objects
    BY <1>0, TopParts
  <2> QED BY <1>0, <2>1, ReachedBefore
<1>2. ASSUME NEW loc \in {"zero", "put", "cut"}, NEW cur \in Nat, Goto(p, loc, cur), UNCHANGED fileVars,
             \/ loc = "zero" /\ cur = lb /\ lb < o.off
             \/ loc = "put" /\ cur = o.off /\ lb >= o.off /\ o.kind # "truncate"
             \/ loc = "cut" /\ lb >= o.off /\ o.kind = "truncate"
      PROVE  Whole'
  <2>0. op' = op /\ loc \in Locs
    BY <1>2 DEF fileVars, Locs
  <2>1. job' \in [Proc -> JobType] /\ Moves(p, loc, job[p].num, cur)
    BY <1>0, <1>2, <2>0, MoveForms
  <2>2. TypeOK'
    BY <1>0, <1>2, <2>1, MovesTyped
  <2>3. op'[p] = o /\ job'[p].loc = loc /\ job'[p].cur = cur
    BY <2>1 DEF Moves
  <2>4. Placing(op'[p], job'[p])
    <3>1. PICK u, j : u = o /\ j = job'[p]
      OBVIOUS
    <3>2. /\ u.kind \in {"write", "append", "truncate"} /\ u.off <= MaxSize /\ u.off \in Nat
          /\ u.kind # "truncate" => u.len > 0 /\ u.off + u.len <= MaxSize
          /\ u.len \in Nat /\ j.loc = loc /\ j.cur = cur
      BY <1>0, <2>3, <3>1
    <3>3. CASE loc = "zero"
      <4>1. cur < u.off
        BY <1>2, <3>1, <3>3
      <4> QED BY <2>3, <3>1, <3>2, <3>3, <4>1 DEF Placing
    <3>4. CASE loc = "put"
      <4>1. cur = u.off /\ u.kind # "truncate"
        BY <1>2, <3>1, <3>4
      <4>2. u.off <= cur /\ cur < u.off + u.len
        BY <3>2, <4>1
      <4> QED BY <2>3, <3>1, <3>2, <3>4, <4>1, <4>2 DEF Placing
    <3>5. CASE loc = "cut"
      <4>1. u.kind = "truncate"
        BY <1>2, <3>1, <3>5
      <4> QED BY <2>3, <3>1, <3>2, <3>5, <4>1 DEF Placing
    <3> QED BY <3>3, <3>4, <3>5
  <2>5. ~torn => Wholly(op'[p], job'[p])
    BY <1>1, <1>2, <2>3 DEF Wholly
  <2> QED BY <1>0, <2>1, <2>2, <2>4, <2>5, MoveWhole
<1>3. CASE Finish(p)
  <2>1. TypeOK' /\ Ends({p})
    BY <1>0, <1>3, FinishForm
  <2> QED BY <1>0, <2>1, EndWhole
<1> QED BY <1>0, <1>2, <1>3 DEF SizeKnown

(* The search for it.                                                      *)
LEMMA StatWhole ==
  ASSUME Whole, CutsAlone, NEW p \in Proc, Stat(p)
  PROVE  Whole'
<1> DEFINE n == job[p].num
<1>0. /\ TypeOK /\ Fits /\ Placing(op[p], job[p]) /\ op[p].off \in Nat /\ n \in Nat
      /\ job[p].loc = "stat" /\ n <= ObjNum(op[p].off) /\ job[p].cur \in Nat
      /\ op[p].off <= MaxSize /\ op[p].kind \in {"write", "append", "truncate"}
      /\ ObjNum(op[p].off) \in Nat /\ op[p].len \in Nat
  <2>1. /\ TypeOK /\ Fits /\ Placing(op[p], job[p]) /\ op[p].off \in Nat /\ op[p].len \in Nat
        /\ n \in Nat /\ job[p].cur \in Nat
    BY AtPlace
  <2>2. job[p].loc = "stat"
    BY DEF Stat
  <2>3. /\ n <= ObjNum(op[p].off) /\ op[p].kind \in {"write", "append", "truncate"}
        /\ op[p].off <= MaxSize \/ op[p].off + op[p].len <= MaxSize
    BY <2>1, <2>2 DEF Placing
  <2>4. op[p].off <= MaxSize
    BY <2>1, <2>3, SizeAssumption
  <2>5. ObjNum(op[p].off) \in Nat
    BY <2>1, Division
  <2> QED BY <2>1, <2>2, <2>3, <2>4, <2>5
<1>1. UNCHANGED <<obj, got, ops, crashes, reborn, torn, uncut, retaken>>
  BY DEF Stat
<1>2. n \in Objects
  BY <1>0, TopParts
<1>3. ~torn => Packed(-1, 0)
  BY <1>0, AtPlace, NobodyCuts DEF Whole
<1>4. CASE obj[n] # None /\ SizeKnown(p, n * ObjSize + Len(obj[n]), TRUE)
  <2>1. n * ObjSize + Len(obj[n]) \in Nat
    <3>1. Len(obj[n]) \in Nat /\ ObjSize \in Nat
      BY <1>0, <1>2, <1>4, ObjParts, SizeAssumption
    <3>2. \A a, b, c \in Nat : a * b + c \in Nat
      OBVIOUS
    <3> HIDE DEF n
    <3> QED BY <1>0, <3>1, <3>2
  <2>2. ~torn => Reached(n * ObjSize + Len(obj[n]))
    BY <1>0, <1>2, <1>3, <1>4, EndReached
  <2> HIDE DEF n
  <2> QED BY <1>0, <1>1, <1>4, <2>1, <2>2, KnownWhole
<1>5. CASE SizeKnown(p, 0, FALSE)
  BY <1>0, <1>1, <1>5, ReachedZero, KnownWhole
<1>6. CASE n > 0 /\ job' = [job EXCEPT ![p].num = n - 1] /\ UNCHANGED fileVars
  <2>0. op' = op /\ n - 1 \in Nat /\ "stat" \in Locs
    BY <1>0, <1>6 DEF fileVars, Locs
  <2>1. job' \in [Proc -> JobType] /\ Moves(p, job[p].loc, n - 1, job[p].cur)
    BY <1>0, <1>1, <1>6, <2>0, MoveForms
  <2>2. TypeOK'
    <3>1. obj' \in [Objects -> Seq(Byte) \cup {None}] /\ got' \in [Proc -> Seq(Byte)]
      BY <1>0, <1>1 DEF TypeOK
    <3> QED BY <1>0, <1>1, <1>6, <2>1, <3>1, MovesTyped
  <2>3. op'[p] = op[p] /\ job'[p].loc = "stat" /\ job'[p].num = n - 1
    BY <1>0, <2>1 DEF Moves
  <2>4. Placing(op'[p], job'[p]) /\ Wholly(op'[p], job'[p])
    BY <1>0, <2>3 DEF Placing, Wholly
  <2>5. job[p].loc \notin Cutting
    BY <1>0 DEF Cutting
  <2> QED BY <1>0, <1>1, <2>1, <2>2, <2>4, <2>5, MoveWhole
<1> QED BY <1>4, <1>5, <1>6 DEF Stat

(* What a write by p to the object at its cursor leaves.                   *)
Wrote(p, to) ==
  /\ obj' \in [Objects -> Seq(Byte) \cup {None}] /\ Fits'
  /\ ~torn => /\ Packed(-1, 0)' /\ Reached(to)'
              /\ \A q \in Proc : q # p /\ Same(q) => Wholly(op[q], job[q])'

(* A write to an object.                                                   *)
LEMMA WriteWhole ==
  ASSUME Whole, CutsAlone, NEW p \in Proc, job[p].loc \in {"zero", "put"},
         NEW x \in Nat, job[p].cur = x, NEW stop \in Nat, x < stop, stop <= MaxSize,
         NEW bytes \in Seq(Byte), Len(bytes) = SubLen(x, stop),
         obj' = [obj EXCEPT ![ObjNum(x)] = RadosWrite(@, Within(x), bytes)]
  PROVE  Wrote(p, Smaller(NextBound(x), stop))
<1> DEFINE n == ObjNum(x)
           w == Within(x)
           sub == SubLen(x, stop)
<1>0. /\ TypeOK /\ Fits /\ x \in Nat /\ x <= MaxSize /\ n \in Objects /\ n <= Top
      /\ w \in Nat /\ w < ObjSize /\ ObjSize \in Nat
      /\ NextBound(x) \in Nat /\ x < NextBound(x) /\ NextBound(x) = x - w + ObjSize
  <2>1. TypeOK /\ Fits /\ x <= MaxSize
    BY AtPlace, SizeAssumption
  <2> QED BY <2>1, Division, TopParts, NextObject, SizeAssumption
<1>1. sub \in Nat /\ w + sub <= ObjSize /\ x + sub = Smaller(NextBound(x), stop)
  BY <1>0 DEF SubLen, Smaller
<1>2. Grows(n, w + sub)
  <2>1. obj[n] \in Seq(Byte) \cup {None}
    BY <1>0, ObjParts
  <2> DEFINE r == RadosWrite(obj[n], w, bytes)
  <2>2. /\ r \in Seq(Byte) /\ r # None
        /\ Len(r) = Larger(IF obj[n] = None THEN 0 ELSE Len(obj[n]), w + Len(bytes))
    BY <1>0, <2>1, WriteType
  <2>3. obj' = [obj EXCEPT ![n] = r] /\ obj \in [Objects -> Seq(Byte) \cup {None}]
    BY <1>0 DEF TypeOK
  <2>4. Len(bytes) = sub
    OBVIOUS
  <2> HIDE DEF r, n, w, sub
  <2>5. obj'[n] = r /\ obj' \in [Objects -> Seq(Byte) \cup {None}]
        /\ \A m \in Objects : m # n => obj'[m] = obj[m]
    BY <1>0, <2>2, <2>3
  <2> QED BY <2>2, <2>4, <2>5 DEF Grows
<1>3. Fits'
  <2>1. obj[n] # None => Len(obj[n]) \in Nat /\ Len(obj[n]) <= ObjSize
    BY <1>0, ObjParts DEF Fits
  <2>2. Len(obj'[n]) <= ObjSize
    <3> DEFINE l == IF obj[n] = None THEN 0 ELSE Len(obj[n])
    <3>1. l \in Nat /\ l <= ObjSize
      BY <1>0, <2>1
    <3>2. Len(obj'[n]) = Larger(l, w + sub)
      BY <1>2 DEF Grows
    <3> HIDE DEF l, w, sub, n
    <3> QED BY <1>0, <1>1, <3>1, <3>2 DEF Larger
  <2> HIDE DEF n
  <2> QED BY <1>0, <1>2, <2>2 DEF Fits, Grows
<1>4. ASSUME ~torn
      PROVE  /\ Packed(-1, 0)' /\ Reached(x + sub)'
             /\ \A q \in Proc : q # p /\ Same(q) => Wholly(op[q], job[q])'
  <2>1. /\ Packed(-1, 0) /\ \A q \in Proc : job[q].loc \notin Cutting
        /\ \A q \in Proc : q # p => job[q].loc # "cut"
    BY <1>4, NobodyCuts, AtPlace DEF Whole
  <2>2. Reached(x)
    BY <1>4, AtPlace DEF Wholly
  <2> HIDE DEF sub
  <2>3. /\ Packed(-1, 0)' /\ Reached(x + sub)'
        /\ \A y \in Nat : ObjNum(y) \in Objects /\ Reached(y) => Reached(y)'
    BY <1>0, <1>1, <1>2, <2>1, <2>2, GrowHoles
  <2>4. ASSUME NEW q \in Proc, q # p, Same(q) PROVE Wholly(op[q], job[q])'
    <3>1. /\ job'[q].loc = job[q].loc /\ job'[q].cur = job[q].cur
          /\ job'[q].loc \notin Cutting /\ job'[q].loc # "cut"
      BY <2>1, <2>4 DEF Same
    <3>2. CASE job[q].loc \in {"zero", "put"}
      <4>1. job[q].cur \in Nat /\ job[q].cur <= MaxSize /\ Reached(job[q].cur)
        BY <1>4, <3>2, AtPlace, SizeAssumption DEF Placing, Wholly
      <4>2. PICK y \in Nat : y = job[q].cur
        BY <4>1
      <4>3. Reached(y)'
        BY <2>3, <4>1, <4>2, TopParts
      <4>4. Reached(job[q].cur)'
        BY <3>1, <4>2, <4>3 DEF Reached
      <4> QED BY <3>1, <3>2, <4>4 DEF Wholly, Cutting
    <3>3. CASE job[q].loc \notin {"zero", "put"}
      BY <3>1, <3>3 DEF Wholly, Cutting
    <3> QED BY <3>2, <3>3
  <2> QED BY <2>3, <2>4
<1>5. obj' \in [Objects -> Seq(Byte) \cup {None}]
  BY <1>2 DEF Grows
<1> HIDE DEF sub
<1> QED BY <1>1, <1>3, <1>4, <1>5 DEF Wrote

(* The step goes on or ends after a write.                                 *)
LEMMA WroteWhole ==
  ASSUME Whole, CutsAlone, NEW p \in Proc, job[p].loc \in {"zero", "put"}, NEW to, Wrote(p, to),
         TypeOK', torn' = torn,
         \/ Ends({p})
         \/ /\ \A q \in Proc : q # p => Same(q)
            /\ Placing(op'[p], job'[p])
            /\ job'[p].loc \in {"zero", "put"} /\ job'[p].cur = to
  PROVE  Whole'
<1>1. /\ Fits'
      /\ ~torn => /\ Packed(-1, 0)' /\ Reached(to)'
                  /\ \A q \in Proc : q # p /\ Same(q) => Wholly(op[q], job[q])'
  BY DEF Wrote
<1>2. (\A q \in Proc \ {p} : Same(q)) /\ Placing(op'[p], job'[p])
  BY DEF Ends, Placing, NoOp, NoJob
<1>3. PlacesInv'
  <2>1. {p} \in SUBSET Proc /\ \A q \in {p} : Placing(op'[q], job'[q])
    BY <1>2
  <2> QED BY <1>1, <1>2, <2>1, PlacesKept DEF Whole
<1>4. ~torn => Wholly(op[p], job[p])'
  <2>1. CASE Ends({p})
    BY <2>1 DEF Ends, Wholly, NoJob
  <2>2. CASE job'[p].loc \in {"zero", "put"} /\ job'[p].cur = to
    <3>1. ~torn => Reached(job[p].cur)'
      BY <1>1, <2>2 DEF Reached
    <3> QED BY <2>2, <3>1 DEF Wholly
  <2> QED BY <2>1, <2>2
<1>5. HoleInv'
  BY <1>1, <1>2, <1>4 DEF HoleInv
<1> QED BY <1>3, <1>5 DEF Whole

(* Filling a hole with zeros.                                              *)
LEMMA ZeroFillWhole ==
  ASSUME Whole, CutsAlone, NEW p \in Proc, ZeroFill(p)
  PROVE  Whole'
<1>0. /\ TypeOK /\ job[p].loc = "zero" /\ job[p].cur \in Nat /\ op[p].off \in Nat /\ op[p].len \in Nat
      /\ job[p].cur < op[p].off /\ op[p].kind \in {"write", "append", "truncate"}
      /\ op[p].kind = "truncate" => op[p].off <= MaxSize
      /\ op[p].kind # "truncate" => op[p].len > 0 /\ op[p].off + op[p].len <= MaxSize
  <2>1. /\ TypeOK /\ Placing(op[p], job[p]) /\ op[p].off \in Nat /\ op[p].len \in Nat
        /\ job[p].cur \in Nat
    BY AtPlace
  <2>2. job[p].loc = "zero"
    BY DEF ZeroFill
  <2> QED BY <2>1, <2>2 DEF Placing
<1>1. PICK x \in Nat, stop \in Nat : x = job[p].cur /\ stop = op[p].off
  BY <1>0
<1>2. /\ x < stop /\ stop <= MaxSize /\ NextBound(x) \in Nat /\ x < NextBound(x)
      /\ SubLen(x, stop) \in Nat
  <2>1. x < stop /\ stop <= MaxSize
    BY <1>0, <1>1, SizeAssumption
  <2>2. NextBound(x) \in Nat /\ x < NextBound(x)
    BY NextObject
  <2> QED BY <2>1, <2>2 DEF SubLen, Smaller
<1>3. obj' = [obj EXCEPT ![ObjNum(x)] = RadosWrite(@, Within(x), Zeros(SubLen(x, stop)))]
      /\ UNCHANGED <<got, ops, crashes, reborn, torn, uncut, retaken>>
  BY <1>1 DEF ZeroFill
<1>4. Wrote(p, Smaller(NextBound(x), stop))
  <2>1. Zeros(SubLen(x, stop)) \in Seq(Byte) /\ Len(Zeros(SubLen(x, stop))) = SubLen(x, stop)
    BY <1>2, BytesType
  <2> QED BY <1>0, <1>1, <1>2, <1>3, <2>1, WriteWhole
<1>5. obj' \in [Objects -> Seq(Byte) \cup {None}] /\ got' \in [Proc -> Seq(Byte)]
  BY <1>0, <1>3, <1>4 DEF Wrote, TypeOK
<1>6. CASE Finish(p)
  <2>1. TypeOK' /\ Ends({p})
    BY <1>0, <1>3, <1>5, <1>6, FinishForm
  <2> QED BY <1>0, <1>3, <1>4, <2>1, WroteWhole
<1>7. ASSUME NEW loc \in {"zero", "put"}, Goto(p, loc, Smaller(NextBound(x), stop)), UNCHANGED fileVars,
             loc = "zero" => NextBound(x) < stop,
             loc = "put" => NextBound(x) >= stop /\ op[p].kind # "truncate"
      PROVE  Whole'
  <2>0. op' = op /\ loc \in Locs /\ Smaller(NextBound(x), stop) \in Nat
    BY <1>2, <1>7 DEF fileVars, Locs, Smaller
  <2>1. job' \in [Proc -> JobType] /\ Moves(p, loc, job[p].num, Smaller(NextBound(x), stop))
    BY <1>0, <1>3, <1>7, <2>0, MoveForms
  <2>2. TypeOK'
    BY <1>0, <1>3, <1>5, <1>7, <2>1, MovesTyped
  <2>3. /\ op'[p] = op[p] /\ job'[p].loc = loc /\ job'[p].cur = Smaller(NextBound(x), stop)
        /\ \A q \in Proc : q # p => Same(q)
    BY <2>1 DEF Moves
  <2>4. Placing(op'[p], job'[p])
    <3>1. CASE loc = "zero"
      <4>1. job'[p].cur < op[p].off
        BY <1>1, <1>2, <1>7, <2>3, <3>1 DEF Smaller
      <4>2. op[p].kind = "truncate" \/ (op[p].len > 0 /\ op[p].off + op[p].len <= MaxSize)
        BY <1>0
      <4> QED BY <1>0, <2>3, <3>1, <4>1, <4>2 DEF Placing
    <3>2. CASE loc = "put"
      <4>1. job'[p].cur = op[p].off
        BY <1>1, <1>2, <1>7, <2>3, <3>2 DEF Smaller
      <4>2. job'[p].cur < op[p].off + op[p].len /\ op[p].off <= job'[p].cur
        BY <1>0, <1>7, <3>2, <4>1
      <4> QED BY <1>0, <1>7, <2>3, <3>2, <4>2 DEF Placing
    <3> QED BY <3>1, <3>2
  <2> QED BY <1>0, <1>3, <1>4, <2>2, <2>3, <2>4, WroteWhole
<1>8. CASE NextBound(x) < stop /\ Goto(p, "zero", NextBound(x)) /\ UNCHANGED fileVars
  <2>1. Smaller(NextBound(x), stop) = NextBound(x)
    BY <1>8 DEF Smaller
  <2> QED BY <1>7, <1>8, <2>1
<1>9. CASE NextBound(x) >= stop /\ op[p].kind # "truncate" /\ Goto(p, "put", stop) /\ UNCHANGED fileVars
  <2>1. Smaller(NextBound(x), stop) = stop
    BY <1>2, <1>9 DEF Smaller
  <2> QED BY <1>2, <1>7, <1>9, <2>1
<1> QED BY <1>1, <1>6, <1>8, <1>9 DEF ZeroFill

(* Writing the buffer.                                                     *)
LEMMA PutWhole ==
  ASSUME Whole, CutsAlone, NEW p \in Proc, Put(p)
  PROVE  Whole'
<1>0. /\ TypeOK /\ job[p].loc = "put" /\ job[p].cur \in Nat /\ op[p].off \in Nat /\ op[p].len \in Nat
      /\ op[p].kind \in {"write", "append"}
      /\ op[p].off <= job[p].cur /\ job[p].cur < op[p].off + op[p].len
      /\ op[p].len > 0 /\ op[p].off + op[p].len <= MaxSize
  <2>1. /\ TypeOK /\ Placing(op[p], job[p]) /\ op[p].off \in Nat /\ op[p].len \in Nat
        /\ job[p].cur \in Nat
    BY AtPlace
  <2>2. job[p].loc = "put"
    BY DEF Put
  <2> QED BY <2>1, <2>2 DEF Placing
<1>1. PICK x \in Nat, off \in Nat, len \in Nat : x = job[p].cur /\ off = op[p].off /\ len = op[p].len
  BY <1>0
<1> DEFINE stop == off + len
           sub == SubLen(x, stop)
           sum == x - off
           bytes == SubSeq(Buffer(p, len), sum + 1, sum + sub)
<1>2. /\ x < stop /\ stop <= MaxSize /\ NextBound(x) \in Nat /\ x < NextBound(x) /\ stop \in Nat
      /\ sub \in Nat /\ sum \in Nat /\ sum + sub <= len
  <2>1. x < stop /\ stop <= MaxSize /\ stop \in Nat /\ sum \in Nat
    BY <1>0, <1>1, SizeAssumption
  <2>2. NextBound(x) \in Nat /\ x < NextBound(x)
    BY NextObject
  <2> QED BY <2>1, <2>2 DEF SubLen, Smaller
<1>3. obj' = [obj EXCEPT ![ObjNum(x)] = RadosWrite(@, Within(x), bytes)]
      /\ UNCHANGED <<got, ops, crashes, reborn, torn, uncut, retaken>>
  BY <1>1 DEF Put
<1>4. Wrote(p, Smaller(NextBound(x), stop))
  <2>1. bytes \in Seq(Byte) /\ Len(bytes) = sub
    <3>1. Buffer(p, len) \in Seq(Byte) /\ Len(Buffer(p, len)) = len
      BY BytesType
    <3>2. sum + sub \in Nat /\ sum + sub <= Len(Buffer(p, len)) /\ sum <= sum + sub
          /\ (sum + sub) - sum = sub
      BY <1>2, <3>1
    <3> HIDE DEF sum, sub
    <3>3. SubSeq(Buffer(p, len), sum + 1, sum + sub) \in Seq(Byte)
          /\ Len(SubSeq(Buffer(p, len), sum + 1, sum + sub)) = (sum + sub) - sum
      BY <1>2, <3>1, <3>2, PartType
    <3> QED BY <3>2, <3>3
  <2> HIDE DEF bytes, stop
  <2> QED BY <1>0, <1>1, <1>2, <1>3, <2>1, WriteWhole
<1> HIDE DEF bytes
<1>5. obj' \in [Objects -> Seq(Byte) \cup {None}] /\ got' \in [Proc -> Seq(Byte)]
  BY <1>0, <1>3, <1>4 DEF Wrote, TypeOK
<1>6. CASE Finish(p)
  <2>1. TypeOK' /\ Ends({p})
    BY <1>0, <1>3, <1>5, <1>6, FinishForm
  <2> QED BY <1>0, <1>3, <1>4, <2>1, WroteWhole
<1>7. CASE NextBound(x) < stop /\ Goto(p, "put", NextBound(x)) /\ UNCHANGED fileVars
  <2>0. op' = op /\ "put" \in Locs
    BY <1>7 DEF fileVars, Locs
  <2>1. job' \in [Proc -> JobType] /\ Moves(p, "put", job[p].num, NextBound(x))
    BY <1>0, <1>2, <1>3, <1>7, <2>0, MoveForms
  <2>2. TypeOK'
    BY <1>0, <1>3, <1>5, <1>7, <2>1, MovesTyped
  <2>3. /\ op'[p] = op[p] /\ job'[p].loc = "put" /\ job'[p].cur = NextBound(x)
        /\ \A q \in Proc : q # p => Same(q)
    BY <2>1 DEF Moves
  <2>4. op[p].off <= NextBound(x) /\ NextBound(x) < op[p].off + op[p].len
    BY <1>0, <1>1, <1>2, <1>7
  <2>5. Placing(op'[p], job'[p])
    BY <1>0, <2>3, <2>4 DEF Placing
  <2>6. Smaller(NextBound(x), stop) = NextBound(x)
    BY <1>7 DEF Smaller
  <2> QED BY <1>0, <1>3, <1>4, <2>2, <2>3, <2>5, <2>6, WroteWhole
<1> QED BY <1>1, <1>6, <1>7 DEF Put


(* A truncation or a removal goes on, and takes an object away or cuts it: *)
(* nobody else is at work, or torn is set.                                 *)
LEMMA LoneWhole ==
  ASSUME Whole, CutsAlone, TypeOK', NEW p \in Proc, op[p].kind \in {"truncate", "unlink"},
         NEW loc \in Cutting, NEW num, NEW cur, Moves(p, loc, num, cur),
         Fits', Placing(op'[p], job'[p]), ~torn => Wholly(op[p], job[p])'
  PROVE  Whole'
<1>1. /\ {p} \in SUBSET Proc /\ (\A q \in Proc \ {p} : Same(q)) /\ torn' = torn
      /\ job'[p].loc \in Cutting
  BY DEF Moves
<1>2. PlacesInv'
  BY <1>1, PlacesKept DEF Whole
<1>3. ASSUME ~torn, NEW q \in Proc, q # p PROVE Wholly(op[q], job[q])'
  <2>1. op[q].kind \in {"none", "read"}
    BY <1>3 DEF CutsAlone
  <2>2. job[q].loc \in {"idle", "read", "return"}
    BY <2>1, AtPlace DEF Placing
  <2>3. job'[q].loc = job[q].loc
    BY <1>1, <1>3 DEF Same
  <2> QED BY <2>2, <2>3 DEF Wholly
<1>4. HoleInv'
  BY <1>1, <1>3 DEF HoleInv
<1> QED BY <1>2, <1>4 DEF Whole

(* An object is cut or removed.                                            *)
LEMMA ShrinkFits ==
  ASSUME TypeOK, Fits, NEW n \in Objects, NEW o \in Seq(Byte) \cup {None},
         obj' = [obj EXCEPT ![n] = o],
         o # None => obj[n] # None /\ Len(o) <= ObjSize
  PROVE  Fits' /\ obj' \in [Objects -> Seq(Byte) \cup {None}]
<1>1. /\ obj' \in [Objects -> Seq(Byte) \cup {None}] /\ obj'[n] = o
      /\ \A m \in Objects : m # n => obj'[m] = obj[m]
  BY DEF TypeOK
<1>2. ASSUME NEW m \in Objects, obj'[m] # None PROVE Len(obj'[m]) <= ObjSize /\ m <= Top
  <2>1. CASE m = n
    BY <1>1, <1>2, <2>1 DEF Fits
  <2>2. CASE m # n
    BY <1>1, <1>2, <2>2 DEF Fits
  <2> QED BY <2>1, <2>2
<1> QED BY <1>1, <1>2 DEF Fits

(* The object that the new end is in.                                      *)
LEMMA CutWhole ==
  ASSUME Whole, CutsAlone, NEW p \in Proc, Cut(p)
  PROVE  Whole'
<1>0. /\ TypeOK /\ PlacesInv /\ Fits /\ job[p].loc = "cut" /\ op[p].kind = "truncate"
      /\ op[p].off \in Nat /\ op[p].off <= MaxSize
      /\ ~torn => HoleInv /\ Reached(op[p].off)
  <2>1. /\ TypeOK /\ PlacesInv /\ Fits /\ Placing(op[p], job[p]) /\ op[p].off \in Nat
        /\ ~torn => HoleInv /\ Wholly(op[p], job[p])
    BY AtPlace
  <2>2. job[p].loc = "cut"
    BY DEF Cut
  <2>3. op[p].kind = "truncate" /\ op[p].off <= MaxSize
    BY <2>1, <2>2 DEF Placing
  <2>4. ~torn => Reached(op[p].off)
    BY <2>1, <2>2 DEF Wholly
  <2> QED BY <2>1, <2>2, <2>3, <2>4
<1>1. PICK x \in Nat : x = op[p].off
  BY <1>0
<1>2. PICK n \in Nat : n = ObjNum(x)
  BY Division
<1>3. n \in Objects /\ Within(x) \in Nat /\ Within(x) < ObjSize /\ n <= Top
  BY <1>0, <1>1, <1>2, TopParts, Division
<1>4. PICK o : o = RadosTrunc(obj[n], Within(x))
  OBVIOUS
<1>5. /\ o \in Seq(Byte) \cup {None} /\ (o # None => obj[n] # None /\ Len(o) <= ObjSize)
  <2>1. obj[n] \in Seq(Byte) \cup {None}
    BY <1>0, <1>3, ObjParts
  <2>2. /\ o \in Seq(Byte) \cup {None} /\ (o = None <=> obj[n] = None)
        /\ obj[n] # None => Len(o) = Within(x)
    BY <1>3, <1>4, <2>1, TruncType
  <2> QED BY <1>3, <2>2, SizeAssumption
<1>6. /\ obj' = [obj EXCEPT ![n] = o]
      /\ job' = [job EXCEPT ![p].loc = "reap", ![p].num = n + 1]
      /\ UNCHANGED fileVars /\ UNCHANGED <<got, ops, crashes, reborn, torn, uncut, retaken>>
  BY <1>1, <1>2, <1>4 DEF Cut
<1>7. Fits' /\ obj' \in [Objects -> Seq(Byte) \cup {None}]
  BY <1>0, <1>3, <1>5, <1>6, ShrinkFits
<1>8. job' \in [Proc -> JobType] /\ Moves(p, "reap", n + 1, job[p].cur)
  <2>1. op' = op /\ "reap" \in Locs /\ n + 1 \in Nat
    BY <1>6 DEF fileVars, Locs
  <2> QED BY <1>0, <1>6, <2>1, MoveForms
<1>9. TypeOK'
  <2>1. got' \in [Proc -> Seq(Byte)]
    BY <1>0, <1>6 DEF TypeOK
  <2> QED BY <1>0, <1>6, <1>7, <1>8, <2>1, MovesTyped
<1>10. op'[p] = op[p] /\ job'[p].loc = "reap" /\ job'[p].num = n + 1
  BY <1>8 DEF Moves
<1>11. Placing(op'[p], job'[p])
  BY <1>0, <1>1, <1>2, <1>10 DEF Placing
<1>12. ~torn => Wholly(op[p], job[p])'
  <2> SUFFICES ASSUME ~torn PROVE Wholly(op[p], job[p])'
    OBVIOUS
  <2>1. Packed(-1, 0)
    BY <1>0, NobodyCuts
  <2>2. Packed(ObjNum(x), ObjNum(x) + 1)'
    BY <1>0, <1>1, <1>2, <1>3, <1>5, <1>6, <2>1, PackedCut
  <2>3. op'[p].off = x
    BY <1>1, <1>10
  <2>4. Packed(ObjNum(op[p].off), job[p].num)'
    BY <1>2, <1>10, <2>2, <2>3 DEF Packed, Full
  <2> QED BY <1>10, <2>4 DEF Wholly
<1> QED BY <1>0, <1>8, <1>9, <1>7, <1>11, <1>12, LoneWhole DEF Cutting

(* The object whose turn it is, of a truncation or a removal.              *)
LEMMA DropWhole ==
  ASSUME Whole, CutsAlone, NEW p \in Proc, NEW n \in Objects, job[p].num = n,
         \/ job[p].loc = "drop" /\ job' = [job EXCEPT ![p].loc = "reap", ![p].num = n + 1]
         \/ job[p].loc = "wipe" /\ job' = [job EXCEPT ![p].num = n + 1],
         obj' = [obj EXCEPT ![n] = None], UNCHANGED fileVars,
         UNCHANGED <<got, ops, crashes, reborn, torn, uncut, retaken>>
  PROVE  Whole'
<1> DEFINE loc == IF job[p].loc = "drop" THEN "reap" ELSE "wipe"
<1>0. /\ TypeOK /\ Fits /\ Placing(op[p], job[p]) /\ op[p].off \in Nat
      /\ ~torn => Wholly(op[p], job[p])
  BY AtPlace
<1>1. /\ op[p].kind \in {"truncate", "unlink"}
      /\ job[p].loc = "drop" => op[p].kind = "truncate" /\ op[p].off <= MaxSize /\ n > ObjNum(op[p].off)
      /\ job[p].loc = "wipe" => op[p].kind = "unlink"
  BY <1>0 DEF Placing
<1>2. Fits' /\ obj' \in [Objects -> Seq(Byte) \cup {None}]
  BY <1>0, ShrinkFits
<1>3. n \in Nat /\ ObjNum(op[p].off) \in Nat
  BY <1>0, TopParts, Division
<1>4. job' \in [Proc -> JobType] /\ Moves(p, loc, n + 1, job[p].cur)
  <2>1. op' = op /\ n + 1 \in Nat /\ "reap" \in Locs
    BY <1>3 DEF fileVars, Locs
  <2> QED BY <1>0, <2>1, MoveForms
<1>5. TypeOK'
  <2>1. got' \in [Proc -> Seq(Byte)]
    BY <1>0 DEF TypeOK
  <2> QED BY <1>0, <1>2, <1>4, <2>1, MovesTyped
<1>6. op'[p] = op[p] /\ job'[p].loc = loc /\ job'[p].num = n + 1
  BY <1>4 DEF Moves
<1>7. Placing(op'[p], job'[p])
  BY <1>1, <1>3, <1>6 DEF Placing
<1>8. PICK a \in Int : a = IF job[p].loc = "drop" THEN ObjNum(op[p].off) ELSE -1
  BY <1>3
<1>9. ~torn => Packed(a, n + 1)'
  <2> SUFFICES ASSUME ~torn PROVE Packed(a, n + 1)'
    OBVIOUS
  <2>1. Packed(a, n)
    BY <1>0, <1>8 DEF Wholly
  <2>2. a < n
    BY <1>1, <1>3, <1>8
  <2> QED BY <1>0, <2>1, <2>2, PackedDrop
<1>10. ~torn => Wholly(op[p], job[p])'
  <2>1. job[p].loc = "drop" => ObjNum(op[p].off)' = a
    BY <1>6, <1>8
  <2>2. job[p].loc = "drop" /\ ~torn => Packed(ObjNum(op[p].off), job[p].num)'
    BY <1>6, <1>9, <2>1 DEF Packed, Full
  <2>3. job[p].loc = "wipe" /\ ~torn => Packed(-1, job[p].num)'
    BY <1>6, <1>8, <1>9 DEF Packed, Full
  <2> QED BY <1>6, <2>2, <2>3 DEF Wholly
<1>11. loc \in Cutting
  BY DEF Cutting
<1> QED BY <1>1, <1>2, <1>4, <1>5, <1>7, <1>10, <1>11, LoneWhole

(* There is no object any more: the truncation or the removal is through.  *)
LEMMA LastWhole ==
  ASSUME Whole, NEW p \in Proc, job[p].loc \in {"reap", "wipe"},
         job[p].num \in Objects => obj[job[p].num] = None,
         Finish(p), UNCHANGED <<obj, got, ops, crashes, reborn, torn, uncut, retaken>>
  PROVE  Whole'
<1>0. /\ TypeOK /\ Placing(op[p], job[p]) /\ op[p].off \in Nat /\ job[p].num \in Nat
      /\ ~torn => Wholly(op[p], job[p])
  BY AtPlace
<1>1. TypeOK' /\ Ends({p})
  <2>1. obj' \in [Objects -> Seq(Byte) \cup {None}]
    BY <1>0 DEF TypeOK
  <2> QED BY <1>0, <2>1, FinishForm
<1>2. ObjNum(op[p].off) \in Nat
  BY <1>0, Division
<1>3. PICK a \in Int : a = IF job[p].loc = "reap" THEN ObjNum(op[p].off) ELSE -1
  BY <1>2
<1>4. a < job[p].num
  BY <1>0, <1>2, <1>3 DEF Placing
<1>5. ~torn => Packed(-1, 0)
  <2>1. ~torn => Packed(a, job[p].num)
    BY <1>0, <1>3 DEF Wholly
  <2> QED BY <1>0, <1>4, <2>1, PackedEnd
<1> QED BY <1>1, <1>5, EndWhole

(* The two loops.                                                          *)
LEMMA ReapWhole ==
  ASSUME Whole, CutsAlone, NEW p \in Proc, ReapStat(p) \/ ReapDrop(p) \/ Wipe(p)
  PROVE  Whole'
<1>0. /\ TypeOK /\ Fits /\ Placing(op[p], job[p]) /\ job[p].num \in Nat
      /\ ~torn => Wholly(op[p], job[p])
  BY AtPlace
<1>1. CASE ReapStat(p)
  <2>1. job[p].loc = "reap" /\ UNCHANGED <<obj, got, ops, crashes, reborn, torn, uncut, retaken>>
    BY <1>1 DEF ReapStat
  <2>2. CASE Finish(p) /\ (job[p].num \in Objects => obj[job[p].num] = None)
    BY <2>1, <2>2, LastWhole
  <2>3. CASE job[p].num \in Objects /\ Goto(p, "drop", 0) /\ UNCHANGED fileVars
    <3>1. op' = op /\ "drop" \in Locs
      BY <2>3 DEF fileVars, Locs
    <3>2. job' \in [Proc -> JobType] /\ Moves(p, "drop", job[p].num, 0)
      BY <1>0, <2>1, <2>3, <3>1, MoveForms
    <3>3. TypeOK'
      <4>1. obj' \in [Objects -> Seq(Byte) \cup {None}] /\ got' \in [Proc -> Seq(Byte)]
        BY <1>0, <2>1 DEF TypeOK
      <4> QED BY <1>0, <2>1, <2>3, <3>2, <4>1, MovesTyped
    <3>4. op'[p] = op[p] /\ job'[p].loc = "drop" /\ job'[p].num = job[p].num
      BY <3>2 DEF Moves
    <3>5. Placing(op'[p], job'[p])
      BY <1>0, <2>1, <2>3, <3>4 DEF Placing
    <3>6. ~torn => Wholly(op'[p], job'[p])
      BY <1>0, <2>1, <3>4 DEF Wholly
    <3>7. job[p].loc \in Cutting => "drop" \in Cutting
      BY DEF Cutting
    <3> QED BY <2>1, <3>2, <3>3, <3>5, <3>6, <3>7, MoveWhole
  <2> QED BY <1>1, <2>2, <2>3 DEF ReapStat
<1>2. CASE ReapDrop(p)
  <2>1. PICK n \in Nat : n = job[p].num
    BY <1>0
  <2>2. job[p].loc = "drop"
    BY <1>2 DEF ReapDrop
  <2>3. n \in Objects
    BY <1>0, <2>1, <2>2 DEF Placing
  <2>4. job \in [Proc -> JobType]
    BY <1>0 DEF TypeOK
  <2>5. job' = [job EXCEPT ![p].loc = "reap", ![p].num = n + 1]
    BY <1>2, <2>1, <2>4 DEF ReapDrop, JobType
  <2>6. /\ obj' = [obj EXCEPT ![n] = None] /\ UNCHANGED fileVars
        /\ UNCHANGED <<got, ops, crashes, reborn, torn, uncut, retaken>>
    BY <1>2, <2>1 DEF ReapDrop
  <2> QED BY <2>1, <2>2, <2>3, <2>5, <2>6, DropWhole
<1>3. CASE Wipe(p)
  <2>1. job[p].loc = "wipe" /\ UNCHANGED <<got, ops, crashes, reborn, torn, uncut, retaken>>
    BY <1>3 DEF Wipe
  <2>2. CASE Finish(p) /\ UNCHANGED obj /\ (job[p].num \in Objects => obj[job[p].num] = None)
    BY <2>1, <2>2, LastWhole
  <2>3. CASE /\ job[p].num \in Objects /\ obj' = [obj EXCEPT ![job[p].num] = None]
             /\ job' = [job EXCEPT ![p].num = job[p].num + 1] /\ UNCHANGED fileVars
    BY <2>1, <2>3, DropWhole
  <2> QED BY <1>3, <2>2, <2>3 DEF Wipe
<1> QED BY <1>1, <1>2, <1>3

(* One object is read.                                                     *)
LEMMA ReadWhole ==
  ASSUME Whole, NEW p \in Proc, ReadObj(p) \/ Return(p)
  PROVE  Whole'
<1>0. /\ TypeOK /\ Fits /\ Placing(op[p], job[p]) /\ job[p].num \in Nat /\ job[p].cur \in Nat
      /\ op[p].off \in Nat /\ op[p].len \in Nat
      /\ obj \in [Objects -> Seq(Byte) \cup {None}] /\ got \in [Proc -> Seq(Byte)]
  BY AtPlace DEF TypeOK
<1>1. CASE Return(p)
  <2>1. /\ job[p].loc = "return" /\ op' = [op EXCEPT ![p] = NoOp] /\ job' = [job EXCEPT ![p] = NoJob]
        /\ got' = [got EXCEPT ![p] = <<>>]
        /\ UNCHANGED <<obj, size, linked, mutex, file, ops, crashes, reborn, torn, uncut, retaken>>
    BY <1>1 DEF Return
  <2>2. NoOp \in OpType /\ NoJob \in JobType
    BY DEF NoOp, NoJob, OpType, JobType
  <2>3. op \in [Proc -> OpType] /\ job \in [Proc -> JobType]
    BY <1>0 DEF TypeOK
  <2>4. Ends({p}) /\ op' \in [Proc -> OpType] /\ job' \in [Proc -> JobType] /\ got' \in [Proc -> Seq(Byte)]
    BY <1>0, <2>1, <2>2, <2>3 DEF Ends, Same
  <2>5. TypeOK'
    BY <1>0, <2>1, <2>4 DEF TypeOK
  <2>6. job[p].loc \notin Cutting
    BY <2>1 DEF Cutting
  <2> QED BY <2>1, <2>4, <2>5, <2>6, EndWhole
<1>2. CASE ReadObj(p)
  <2>1. /\ job[p].loc = "read" /\ UNCHANGED fileVars
        /\ UNCHANGED <<obj, ops, crashes, reborn, torn, uncut, retaken>>
    BY <1>2 DEF ReadObj
  <2>2. op[p].kind = "read" /\ job[p].cur < op[p].off + op[p].len /\ ObjNum(job[p].cur) \in Objects
    BY <1>0, <2>1 DEF Placing
  <2>3. ASSUME NEW loc \in {"read", "return"}, NEW y \in Nat, Goto(p, loc, y),
               loc = "read" => y < op[p].off + op[p].len /\ ObjNum(y) \in Objects,
               got' \in [Proc -> Seq(Byte)]
        PROVE  Whole'
    <3>1. op' = op /\ loc \in Locs
      BY <2>1, <2>3 DEF fileVars, Locs
    <3>2. job' \in [Proc -> JobType] /\ Moves(p, loc, job[p].num, y)
      BY <1>0, <2>1, <2>3, <3>1, MoveForms
    <3>3. TypeOK'
      BY <1>0, <2>1, <2>3, <3>2, MovesTyped
    <3>4. op'[p] = op[p] /\ job'[p].loc = loc /\ job'[p].cur = y
      BY <3>2 DEF Moves
    <3>5. Placing(op'[p], job'[p]) /\ Wholly(op'[p], job'[p]) /\ job[p].loc \notin Cutting
      BY <2>1, <2>2, <2>3, <3>4 DEF Placing, Wholly, Cutting
    <3> QED BY <2>1, <3>2, <3>3, <3>5, MoveWhole
  <2>4. CASE Goto(p, "return", 0) /\ UNCHANGED got
    BY <1>0, <2>3, <2>4
  <2>5. CASE obj[ObjNum(job[p].cur)] # None
    <3>1. PICK x \in Nat, stop \in Nat : x = job[p].cur /\ stop = op[p].off + op[p].len
      BY <1>0
    <3> DEFINE o == obj[ObjNum(x)]
               at == Within(x)
               sub == SubLen(x, stop)
               bytes == RadosRead(o, at, sub)
               next == NextBound(x)
    <3>2. /\ x < stop /\ next \in Nat /\ x < next /\ at \in Nat /\ ObjNum(x) \in Nat
          /\ ObjNum(next) = ObjNum(x) + 1
      BY <2>2, <3>1, NextObject, Division
    <3>3. sub \in Nat
      BY <3>2 DEF SubLen, Smaller
    <3>4. o \in Seq(Byte) /\ ObjNum(x) <= Top
      BY <1>0, <2>2, <2>5, <3>1 DEF Fits
    <3>5. bytes \in Seq(Byte)
      <4> HIDE DEF sub, at, o
      <4>1. Smaller(at + sub, Len(o)) \in Nat /\ Smaller(at + sub, Len(o)) <= Len(o)
        BY <3>2, <3>3, <3>4 DEF Smaller
      <4> QED BY <3>2, <3>4, <4>1, PartType DEF RadosRead
    <3>6. /\ got' = [got EXCEPT ![p] = @ \o bytes]
          /\ Goto(p, IF next < stop THEN "read" ELSE "return", next)
      BY <1>2, <2>5, <3>1 DEF ReadObj
    <3> HIDE DEF bytes, next
    <3>7. got' \in [Proc -> Seq(Byte)]
      BY <1>0, <3>5, <3>6
    <3>8. ObjNum(next) \in Objects
      BY <3>2, <3>4, TopParts
    <3> QED BY <2>3, <3>1, <3>2, <3>6, <3>7, <3>8
  <2> QED BY <1>2, <2>4, <2>5 DEF ReadObj
<1> QED BY <1>1, <1>2

(* An empty file, and nobody at work.                                      *)
LEMMA InitWhole == Init => Whole
<1> SUFFICES ASSUME Init PROVE Whole
  OBVIOUS
<1>1. NoOp \in OpType /\ NoJob \in JobType
  BY DEF NoOp, NoJob, OpType, JobType
<1>2. TypeOK
  <2>1. <<>> \in Seq(Byte) /\ <<>> \in Seq(Byte \cup {None})
    OBVIOUS
  <2>2. /\ obj \in [Objects -> Seq(Byte) \cup {None}] /\ got \in [Proc -> Seq(Byte)]
        /\ file \in Seq(Byte \cup {None})
    BY <2>1 DEF Init
  <2>3. op \in [Proc -> OpType] /\ job \in [Proc -> JobType]
    BY <1>1 DEF Init
  <2>4. linked \in BOOLEAN /\ torn \in BOOLEAN /\ uncut \in BOOLEAN /\ retaken \in BOOLEAN
    BY DEF Init
  <2>5. size \in Nat /\ ops \in Nat /\ crashes \in Nat /\ reborn \in Nat /\ mutex \in Proc \cup {None}
    BY DEF Init
  <2> QED BY <2>2, <2>3, <2>4, <2>5 DEF TypeOK
<1>3. \A p \in Proc : op[p].kind = "none" /\ job[p].loc = "idle"
  BY DEF Init, NoOp, NoJob
<1>4. \A n \in Objects : obj[n] = None
  BY DEF Init
<1>5. PlacesInv
  BY <1>3, <1>4 DEF PlacesInv, Placing, Fits
<1>6. HoleInv
  BY <1>3, <1>4 DEF HoleInv, Wholly, Packed
<1> QED BY <1>2, <1>5, <1>6 DEF Whole

(* An open with O_TRUNC, which touches no object.                          *)
LEMMA OpenWhole ==
  ASSUME Whole, NEW p \in Proc, Open(p)
  PROVE  Whole'
<1>1. Opens /\ ops' = ops + 1 /\ uncut' \in BOOLEAN /\ retaken' \in BOOLEAN
  BY OpenForm
<1>2. TypeOK'
  <2>1. /\ UNCHANGED <<obj, mutex, op, file, job, got, crashes, reborn>> /\ size' \in Nat /\ ops' \in Nat
        /\ linked' = linked /\ torn' = torn
    BY <1>1 DEF Opens, Whole, TypeOK
  <2>2. linked' \in BOOLEAN /\ torn' \in BOOLEAN
    BY <2>1 DEF Whole, TypeOK
  <2> QED BY <1>1, <2>1, <2>2 DEF Whole, TypeOK
<1>3. {} \in SUBSET Proc /\ Ends({}) /\ obj' = obj /\ torn' = torn
  BY <1>1 DEF Opens, Ends, Same
<1> QED BY <1>2, <1>3, EndWhole

(* Every step.                                                             *)
LEMMA NextWhole ==
  ASSUME Whole, CutsAlone, [Next]_vars
  PROVE  Whole'
<1>1. ASSUME NEW p \in Proc, Step(p) PROVE Whole'
  BY <1>1, StatWhole, ZeroFillWhole, PutWhole, CutWhole, ReapWhole, ReadWhole DEF Step
<1>2. CASE Next
  BY <1>1, <1>2, StartWhole, OpenWhole, CrashWhole DEF Next
<1>3. CASE UNCHANGED vars
  <2>1. TypeOK'
    BY <1>3 DEF Whole, TypeOK, vars, fileVars
  <2>2. {} \in SUBSET Proc /\ Ends({}) /\ obj' = obj /\ torn' = torn
    BY <1>3 DEF vars, fileVars, Ends, Same
  <2> QED BY <2>1, <2>2, EndWhole
<1> QED BY <1>2, <1>3

(***************************************************************************)
(* The objects, the inode and the operations keep their types: no call     *)
(* works on an object beyond the last one that the bounds allow, and no    *)
(* position goes below zero.                                               *)
(***************************************************************************)
THEOREM TypeCorrect == Spec => []TypeOK
<1> DEFINE Inv == IInv /\ PlaceKnown /\ Whole
<1>1. Init => Inv
  BY InitInv, InitWhole
<1>2. Inv /\ [Next]_vars => Inv'
  BY NextInv, NextWhole DEF IInv
<1>3. Inv => TypeOK
  BY DEF Whole
<1> QED
  BY <1>1, <1>2, <1>3, PTL DEF Spec

(***************************************************************************)
(* Whatever writes overtake each other and whichever clients die, the      *)
(* objects before the last one are full, so that the search of write and   *)
(* truncate for the size (rados_io.cpp) finds the end of the file.         *)
(***************************************************************************)
THEOREM NoHoleIsLeft == Spec => []NoHoles
<1> DEFINE Inv == IInv /\ PlaceKnown /\ Whole
<1>1. Init => Inv
  BY InitInv, InitWhole
<1>2. Inv /\ [Next]_vars => Inv'
  BY NextInv, NextWhole DEF IInv
<1>3. Inv => NoHoles
  <2> SUFFICES ASSUME Whole, ~torn, Cutters = {} PROVE Packed(-1, 0)
    BY TopParts DEF NoHoles, Packed, Full
  <2>1. \A p \in Proc : op[p].kind \notin {"truncate", "unlink"}
    BY DEF Cutters
  <2>2. \A p \in Proc : job[p].loc \notin Cutting
    BY <2>1 DEF Whole, PlacesInv, Placing, Cutting
  <2> QED BY <2>2 DEF Whole, HoleInv
<1> QED
  BY <1>1, <1>2, <1>3, PTL DEF Spec

----------------------------------------------------------------------------
(* What the objects hold.                                                  *)

(* The offset at which an object ends; no object ends behind x.            *)
EndOf(n) == n * ObjSize + Len(obj[n])
Under(x) == \A n \in Objects : obj[n] # None => EndOf(n) <= x

(* The object n holds its part of s; the objects hold s and no more.       *)
Agrees(n, s) == \A i \in 1 .. Len(obj[n]) : obj[n][i] = s[n * ObjSize + i]
Shows(s) ==
  /\ Reached(Len(s)) /\ Under(Len(s))
  /\ \A n \in Objects : obj[n] # None => Agrees(n, s)

(* An object and its end are numbers.                                      *)
LEMMA EndNat ==
  ASSUME TypeOK, NEW n \in Objects, obj[n] # None
  PROVE  EndOf(n) \in Nat /\ n * ObjSize \in Nat /\ Len(obj[n]) \in Nat /\ n \in Nat
<1>1. n \in Nat /\ Len(obj[n]) \in Nat /\ ObjSize \in Nat
  BY ObjParts, SizeAssumption
<1>2. \A a, b \in Nat : a * b \in Nat
  OBVIOUS
<1>3. n * ObjSize \in Nat
  BY <1>1, <1>2
<1>4. EndOf(n) \in Nat
  <2>1. PICK a \in Nat, b \in Nat : a = n * ObjSize /\ b = Len(obj[n])
    BY <1>1, <1>3
  <2>2. EndOf(n) = a + b
    BY <2>1 DEF EndOf
  <2> QED BY <2>2
<1> QED BY <1>1, <1>3, <1>4

(* Every byte that no byte is missing before is in an object.              *)
LEMMA ReachedByte ==
  ASSUME TypeOK, NEW x \in Nat, Reached(x), NEW y \in Nat, y < x, ObjNum(y) \in Objects
  PROVE  obj[ObjNum(y)] # None /\ Within(y) < Len(obj[ObjNum(y)])
<1>0. /\ ObjNum(x) \in Nat /\ Within(x) \in Nat /\ ObjNum(y) \in Nat
      /\ Within(y) \in Nat /\ Within(y) < ObjSize /\ ObjSize \in Nat
  BY Division, SizeAssumption
<1>1. CASE ObjNum(y) < ObjNum(x)
  <2>1. Full(ObjNum(y))
    BY <1>1 DEF Reached
  <2> QED BY <1>0, <2>1 DEF Full
<1>2. CASE ObjNum(y) = ObjNum(x) /\ Within(x) = Within(y) + (x - y)
  <2>1. Within(x) > 0 /\ Within(y) < Within(x)
    BY <1>0, <1>2
  <2>2. obj[ObjNum(y)] # None /\ Within(x) <= Len(obj[ObjNum(y)])
    BY <1>2, <2>1 DEF Reached
  <2>3. Len(obj[ObjNum(y)]) \in Nat
    BY <2>2, ObjParts
  <2> QED BY <1>0, <2>1, <2>2, <2>3
<1>3. y <= x
  OBVIOUS
<1> QED BY <1>1, <1>2, <1>3, Later

(* The objects reach no further than Objects.                              *)
LEMMA ReachedInside ==
  ASSUME TypeOK, Fits, NEW x \in Nat, Reached(x)
  PROVE  ObjNum(x) \in Objects /\ \A y \in Nat : y < x => ObjNum(y) \in Objects
<1>0. ObjNum(x) \in Nat /\ Objects = 0 .. Top + 1 /\ Top \in Nat
  BY Division, TopParts
<1>1. ~(Top + 1 < ObjNum(x))
  <2> SUFFICES ASSUME Top + 1 < ObjNum(x) PROVE FALSE
    OBVIOUS
  <2>1. Top + 1 \in Objects
    BY <1>0
  <2>2. Full(Top + 1)
    BY <2>1 DEF Reached
  <2>3. Top + 1 <= Top
    BY <2>1, <2>2 DEF Fits, Full
  <2> QED BY <1>0, <2>3
<1>2. ASSUME NEW y \in Nat, y < x PROVE ObjNum(y) \in Objects
  <2>1. ObjNum(y) \in Nat
    BY Division
  <2>2. ObjNum(y) <= ObjNum(x)
    BY <1>0, <1>2, <2>1, Later
  <2> QED BY <1>0, <1>1, <2>1, <2>2
<1> QED BY <1>0, <1>1, <1>2

(* No byte is missing before x, and none is behind it: x is the length.    *)
LEMMA LastIs ==
  ASSUME TypeOK, Fits, NEW x \in Nat, Reached(x), Under(x)
  PROVE  LET ends == {n * ObjSize + Len(obj[n]) : n \in {m \in Objects : obj[m] # None}}
         IN (CHOOSE e \in ends \cup {0} : \A f \in ends : f <= e) = x
<1> DEFINE ends == {n * ObjSize + Len(obj[n]) : n \in {m \in Objects : obj[m] # None}}
<1>1. \A f \in ends : f <= x /\ f \in Nat
  BY EndNat DEF Under, EndOf
<1>2. x \in ends \cup {0}
  <2> SUFFICES ASSUME x # 0 PROVE x \in ends
    OBVIOUS
  <2>0. /\ ObjNum(x) \in Nat /\ Within(x) \in Nat /\ Within(x) < ObjSize
        /\ x = ObjNum(x) * ObjSize + Within(x) /\ ObjSize \in Nat
    BY Division, SizeAssumption
  <2>00. ObjNum(x) \in Objects /\ Objects = 0 .. Top + 1 /\ Top \in Nat
    BY ReachedInside, TopParts
  <2>1. CASE Within(x) > 0
    <3>1. obj[ObjNum(x)] # None /\ Within(x) <= Len(obj[ObjNum(x)])
      BY <2>1 DEF Reached
    <3>2. ObjNum(x) * ObjSize \in Nat /\ Len(obj[ObjNum(x)]) \in Nat
          /\ EndOf(ObjNum(x)) <= x
      BY <2>00, <3>1, EndNat DEF Under
    <3>3. x = EndOf(ObjNum(x))
      <4> PICK a \in Nat, b \in Nat, c \in Nat :
            a = ObjNum(x) * ObjSize /\ b = Len(obj[ObjNum(x)]) /\ c = Within(x)
        BY <2>0, <3>2
      <4>1. x = a + c /\ c <= b /\ EndOf(ObjNum(x)) = a + b
        BY <2>0, <3>1 DEF EndOf
      <4> QED BY <3>2, <4>1
    <3> QED BY <2>00, <3>1, <3>3 DEF EndOf
  <2>2. CASE Within(x) = 0
    <3>1. PICK k \in Nat : ObjNum(x) = k + 1
      <4>1. ObjNum(x) # 0
        BY <2>0, <2>2
      <4>2. ObjNum(x) - 1 \in Nat /\ ObjNum(x) = (ObjNum(x) - 1) + 1
        BY <2>0, <4>1
      <4> QED BY <4>2
    <3>2. k \in Objects /\ k < ObjNum(x)
      BY <2>00, <3>1
    <3>3. Full(k)
      BY <3>2 DEF Reached
    <3>4. x = k * ObjSize + ObjSize
      <4>1. \A a, b \in Nat : (a + 1) * b + 0 = a * b + b
        OBVIOUS
      <4> QED BY <2>0, <2>2, <3>1, <4>1
    <3> QED BY <3>2, <3>3, <3>4 DEF Full
  <2> QED BY <2>0, <2>1, <2>2
<1>3. \A e \in ends \cup {0} : (\A f \in ends : f <= e) => e = x
  <2> SUFFICES ASSUME NEW e \in ends \cup {0}, \A f \in ends : f <= e PROVE e = x
    OBVIOUS
  <2> HIDE DEF ends
  <2>1. e \in Nat /\ e <= x
    BY <1>1
  <2>2. x <= e
    BY <1>2, <2>1
  <2> QED BY <2>1, <2>2
<1> HIDE DEF ends
<1>4. (CHOOSE e \in ends \cup {0} : \A f \in ends : f <= e) = x
  BY <1>1, <1>2, <1>3
<1> QED BY <1>4 DEF ends

(* The bytes themselves.                                                   *)
LEMMA ContentsAre ==
  ASSUME TypeOK, Fits, NEW x \in Nat, Reached(x), Under(x)
  PROVE  Contents = [i \in 1 .. x |-> obj[ObjNum(i - 1)][Within(i - 1) + 1]]
<1> DEFINE ends == {n * ObjSize + Len(obj[n]) : n \in {m \in Objects : obj[m] # None}}
           last == CHOOSE e \in ends \cup {0} : \A f \in ends : f <= e
           byte(y) == IF obj[ObjNum(y)] # None /\ Within(y) < Len(obj[ObjNum(y)])
                        THEN obj[ObjNum(y)][Within(y) + 1] ELSE None
<1>1. last = x
  BY LastIs
<1>2. Contents = [i \in 1 .. last |-> byte(i - 1)]
  BY DEF Contents
<1> HIDE DEF last, byte
<1>3. ASSUME NEW i \in 1 .. x PROVE byte(i - 1) = obj[ObjNum(i - 1)][Within(i - 1) + 1]
  <2>1. PICK y \in Nat : y = i - 1 /\ y < x
    OBVIOUS
  <2>2. obj[ObjNum(y)] # None /\ Within(y) < Len(obj[ObjNum(y)])
    BY <2>1, ReachedByte, ReachedInside
  <2> QED BY <2>1, <2>2 DEF byte
<1> QED BY <1>1, <1>2, <1>3

(* The bytes of an object are bytes.                                       *)
LEMMA ByteTyped ==
  ASSUME TypeOK, Fits, NEW x \in Nat, Reached(x), NEW y \in Nat, y < x
  PROVE  obj[ObjNum(y)][Within(y) + 1] \in Byte
<1>1. obj[ObjNum(y)] # None /\ Within(y) < Len(obj[ObjNum(y)]) /\ ObjNum(y) \in Objects
  BY ReachedByte, ReachedInside
<1>2. obj[ObjNum(y)] \in Seq(Byte)
  BY <1>1, ObjParts
<1>5. Within(y) \in Nat
  BY Division
<1>3. Within(y) \in Nat /\ Len(obj[ObjNum(y)]) \in Nat
  BY <1>2, <1>5
<1>4. Within(y) + 1 \in 1 .. Len(obj[ObjNum(y)])
  BY <1>1, <1>3
<1> QED BY <1>2, <1>4

(* What has no hole up to x and nothing behind it is x long.               *)
LEMMA LengthIs ==
  ASSUME TypeOK, Fits, NEW x \in Nat, Reached(x), Under(x)
  PROVE  Len(Contents) = x
<1> DEFINE e(i) == obj[ObjNum(i - 1)][Within(i - 1) + 1]
<1>1. Contents = [i \in 1 .. x |-> e(i)]
  BY ContentsAre
<1>2. ASSUME NEW i \in 1 .. x PROVE e(i) \in Byte
  <2>1. PICK y \in Nat : y = i - 1 /\ y < x
    OBVIOUS
  <2> QED BY <2>1, ByteTyped
<1> HIDE DEF e
<1> QED BY <1>1, <1>2

(* The objects show s only if s is what they hold together.                *)
LEMMA ShowsContents ==
  ASSUME TypeOK, Fits, NEW s \in Seq(Byte \cup {None}), Shows(s)
  PROVE  Contents = s
<1> DEFINE e(i) == obj[ObjNum(i - 1)][Within(i - 1) + 1]
<1>0. Len(s) \in Nat /\ Reached(Len(s)) /\ Under(Len(s))
  BY DEF Shows
<1>1. Contents = [i \in 1 .. Len(s) |-> e(i)]
  BY <1>0, ContentsAre
<1>2. ASSUME NEW i \in 1 .. Len(s) PROVE e(i) = s[i]
  <2>1. PICK y \in Nat : y = i - 1 /\ y < Len(s) /\ i = y + 1
    BY <1>0
  <2>2. obj[ObjNum(y)] # None /\ Within(y) < Len(obj[ObjNum(y)]) /\ ObjNum(y) \in Objects
    BY <1>0, <2>1, ReachedByte, ReachedInside
  <2>3. Within(y) \in Nat /\ Len(obj[ObjNum(y)]) \in Nat
        /\ y = ObjNum(y) * ObjSize + Within(y) /\ ObjNum(y) * ObjSize \in Nat
    BY <2>2, Division, EndNat
  <2>4. Within(y) + 1 \in 1 .. Len(obj[ObjNum(y)])
    BY <2>2, <2>3
  <2>5. obj[ObjNum(y)][Within(y) + 1] = s[ObjNum(y) * ObjSize + (Within(y) + 1)]
    BY <2>2, <2>4 DEF Shows, Agrees
  <2>6. ObjNum(y) * ObjSize + (Within(y) + 1) = i
    BY <2>1, <2>3
  <2> QED BY <2>1, <2>5, <2>6
<1> HIDE DEF e
<1>3. s = [i \in 1 .. Len(s) |-> s[i]]
  OBVIOUS
<1> QED BY <1>1, <1>2, <1>3

(* A write to the objects is a write to what they show.                    *)
Bytes == Byte \cup {None}

(* Objects that reach to x and no further have no hole.                    *)
LEMMA ShownPacked ==
  ASSUME TypeOK, Fits, NEW x \in Nat, Reached(x), Under(x)
  PROVE  Packed(-1, 0)
<1>0. /\ Objects = 0 .. Top + 1 /\ Top \in Nat /\ ObjNum(x) \in Nat /\ Within(x) \in Nat
      /\ Within(x) < ObjSize /\ x = ObjNum(x) * ObjSize + Within(x) /\ ObjSize \in Nat
  BY TopParts, Division, SizeAssumption
<1>1. ASSUME NEW m \in Objects, NEW n \in Objects, m < n, obj[n] # None PROVE Full(m)
  <2>1. n \in Nat /\ m \in Nat /\ n * ObjSize \in Nat /\ Len(obj[n]) \in Nat
    BY <1>0, <1>1, EndNat
  <2>2. n * ObjSize <= x
    <3>1. EndOf(n) <= x
      BY <1>1 DEF Under
    <3>2. PICK a \in Nat, b \in Nat : a = n * ObjSize /\ b = Len(obj[n])
      BY <2>1
    <3>3. EndOf(n) = a + b
      BY <3>2 DEF EndOf
    <3> QED BY <3>1, <3>2, <3>3
  <2>3. m < ObjNum(x)
    <3> SUFFICES ASSUME ObjNum(x) <= m PROVE FALSE
      BY <1>0, <2>1
    <3>1. ObjNum(x) < n
      BY <1>0, <1>1, <2>1
    <3>2. ObjNum(x) * ObjSize + ObjSize <= n * ObjSize
      BY <1>0, <2>1, <3>1, Apart
    <3>3. PICK a \in Nat, b \in Nat : a = n * ObjSize /\ b = ObjNum(x) * ObjSize
      <4>1. \A c, d \in Nat : c * d \in Nat
        OBVIOUS
      <4>2. ObjNum(x) * ObjSize \in Nat
        BY <1>0, <4>1
      <4> QED BY <2>1, <4>2
    <3>4. x = b + Within(x) /\ a <= x /\ b + ObjSize <= a
      BY <1>0, <2>2, <3>2, <3>3
    <3> QED BY <1>0, <3>4
  <2> QED BY <2>3 DEF Reached
<1> QED BY <1>0, <1>1 DEF Packed

(* What an overlay makes of a string of bytes.                             *)
Overlaid(t, s, at, bytes) ==
  /\ t \in Seq(Bytes) /\ Len(t) = Larger(Len(s), at + Len(bytes))
  /\ \A i \in 1 .. Larger(Len(s), at + Len(bytes)) :
       t[i] = IF at < i /\ i <= at + Len(bytes) THEN bytes[i - at]
              ELSE IF i <= Len(s) THEN s[i] ELSE Zero

(* Overlay is that string.                                                 *)
LEMMA OverlayAt ==
  ASSUME NEW s \in Seq(Bytes), NEW at \in Nat, NEW bytes \in Seq(Byte)
  PROVE  Overlaid(Overlay(s, at, bytes), s, at, bytes)
<1>1. Zero \in Bytes /\ bytes \in Seq(Bytes)
  BY DEF Byte, Bytes
<1>2. Overlay(s, at, bytes) \in Seq(Bytes)
      /\ Len(Overlay(s, at, bytes)) = Larger(Len(s), at + Len(bytes))
  BY <1>1, OverlayType
<1> QED BY <1>2 DEF Overlay, Overlaid

(* What it makes of one object, of length l.                               *)
Written(r, o, l, at, bytes) ==
  /\ r \in Seq(Byte) /\ r # None /\ Len(r) = Larger(l, at + Len(bytes))
  /\ \A i \in 1 .. Larger(l, at + Len(bytes)) :
       r[i] = IF at < i /\ i <= at + Len(bytes) THEN bytes[i - at]
              ELSE IF i <= l THEN o[i] ELSE Zero

(* RadosWrite makes that object.                                           *)
LEMMA WriteAt ==
  ASSUME NEW o \in Seq(Byte) \cup {None}, NEW at \in Nat, NEW bytes \in Seq(Byte), NEW l \in Nat,
         l = IF o = None THEN 0 ELSE Len(o)
  PROVE  Written(RadosWrite(o, at, bytes), o, l, at, bytes)
<1>1. PICK s \in Seq(Byte) : s = (IF o = None THEN <<>> ELSE o) /\ Len(s) = l
  <2> DEFINE s == IF o = None THEN <<>> ELSE o
  <2>1. s \in Seq(Byte) /\ Len(s) = l
    OBVIOUS
  <2> QED BY <2>1
<1>2. RadosWrite(o, at, bytes) = Overlay(s, at, bytes) /\ s \in Seq(Bytes)
  BY <1>1 DEF RadosWrite, Bytes
<1>3. \A i \in 1 .. Larger(l, at + Len(bytes)) :
        Overlay(s, at, bytes)[i] =
          IF at < i /\ i <= at + Len(bytes) THEN bytes[i - at]
          ELSE IF i <= l THEN s[i] ELSE Zero
  <2>1. \A i \in 1 .. Larger(Len(s), at + Len(bytes)) :
          Overlay(s, at, bytes)[i] =
            IF at < i /\ i <= at + Len(bytes) THEN bytes[i - at]
            ELSE IF i <= Len(s) THEN s[i] ELSE Zero
    BY <1>2, OverlayAt DEF Overlaid
  <2> QED BY <1>1, <2>1
<1>4. \A i \in 1 .. Larger(l, at + Len(bytes)) : i <= l => s[i] = o[i]
  BY <1>1
<1>5. /\ RadosWrite(o, at, bytes) \in Seq(Byte) /\ RadosWrite(o, at, bytes) # None
      /\ Len(RadosWrite(o, at, bytes)) = Larger(IF o = None THEN 0 ELSE Len(o), at + Len(bytes))
  BY WriteType
<1>6. Len(RadosWrite(o, at, bytes)) = Larger(l, at + Len(bytes))
  BY <1>5
<1> QED BY <1>2, <1>3, <1>4, <1>5, <1>6 DEF Written

(* A part of a string, byte by byte.                                       *)
LEMMA PartIs ==
  ASSUME NEW S, NEW s \in Seq(S), NEW a \in Nat, NEW b \in Nat, a <= b, b <= Len(s)
  PROVE  SubSeq(s, a + 1, b) = [i \in 1 .. b - a |-> s[a + i]]
<1>1. SubSeq(s, a + 1, b) \in Seq(S) /\ Len(SubSeq(s, a + 1, b)) = b - a
  OBVIOUS
<1>2. \A i \in 1 .. b - a : SubSeq(s, a + 1, b)[i] = s[a + i]
  OBVIOUS
<1> QED BY <1>1, <1>2
(* A part that ends before it begins is empty.                             *)
LEMMA PartNone ==
  ASSUME NEW S, NEW s \in Seq(S), NEW a \in Nat, NEW b \in Nat, b <= a
  PROVE  SubSeq(s, a + 1, b) = <<>>
OBVIOUS

(* A step that writes the bytes at x into the object there.                *)
Writes(x, bytes) ==
  obj' = [obj EXCEPT ![ObjNum(x)] = RadosWrite(@, Within(x), bytes)]

(* A place in an object is an offset of its own.                           *)
LEMMA PlaceIs ==
  ASSUME NEW n \in Nat, NEW i \in Nat, 0 < i, i <= ObjSize
  PROVE  /\ n * ObjSize + i \in Nat /\ n * ObjSize + i > 0
         /\ ObjNum(n * ObjSize + i - 1) = n /\ Within(n * ObjSize + i - 1) = i - 1
<1>1. PICK a \in Nat : a = n * ObjSize
  <2>1. \A c, d \in Nat : c * d \in Nat
    OBVIOUS
  <2> QED BY <2>1, SizeAssumption
<1>2. PICK r \in Nat : r = i - 1
  <2>1. i - 1 \in Nat
    OBVIOUS
  <2> QED BY <2>1
<1>3. PICK y \in Nat : y = n * ObjSize + i - 1
  <2>1. a + i - 1 \in Nat
    OBVIOUS
  <2> QED BY <1>1, <2>1
<1>4. y = n * ObjSize + r /\ r < ObjSize /\ ObjSize \in Nat
  <2>1. y = a + i - 1
    BY <1>1, <1>3
  <2>2. y = a + r /\ r < ObjSize
    BY <1>2, <2>1, SizeAssumption
  <2> QED BY <1>1, <2>2, SizeAssumption
<1>5. ObjNum(y) = n /\ Within(y) = r
  BY <1>4, Unique
<1>6. n * ObjSize + i = a + i
  BY <1>1
<1>7. a + i \in Nat /\ a + i > 0
  OBVIOUS
<1> QED BY <1>2, <1>3, <1>5, <1>6, <1>7

(* What the object at x is, and what it becomes.                           *)
ObjWritten(n, w, l, k, bytes) ==
  /\ l = IF obj[n] = None THEN 0 ELSE Len(obj[n])
  /\ w <= l /\ l <= ObjSize
  /\ obj'[n] \in Seq(Byte) /\ obj'[n] # None /\ Len(obj'[n]) = Larger(l, w + k)
  /\ \A i \in 1 .. Larger(l, w + k) :
       obj'[n][i] = IF w < i /\ i <= w + k THEN bytes[i - w] ELSE obj[n][i]
  /\ \A m \in Objects : m # n => obj'[m] = obj[m]
  /\ obj' \in [Objects -> Seq(Byte) \cup {None}]

(* A step that writes makes that object and leaves the others.             *)
LEMMA WriteParts ==
  ASSUME TypeOK, Fits, NEW x \in Nat, Reached(x), ObjNum(x) \in Objects,
         NEW bytes \in Seq(Byte), Within(x) + Len(bytes) <= ObjSize, Writes(x, bytes),
         NEW n, n = ObjNum(x), NEW w, w = Within(x), NEW k, k = Len(bytes)
  PROVE  \E l \in Nat : ObjWritten(n, w, l, k, bytes)
<1>0. n \in Objects /\ obj[n] \in Seq(Byte) \cup {None} /\ w \in Nat /\ k \in Nat /\ ObjSize \in Nat
  <2>1. n \in Objects
    OBVIOUS
  <2>2. obj[n] \in Seq(Byte) \cup {None}
    BY <2>1, ObjParts
  <2>3. w \in Nat
    BY Division
  <2>4. k \in Nat
    OBVIOUS
  <2> QED BY <2>1, <2>2, <2>3, <2>4, SizeAssumption
<1>1. PICK l \in Nat : l = IF obj[n] = None THEN 0 ELSE Len(obj[n])
  <2>1. obj[n] # None => Len(obj[n]) \in Nat
    BY <1>0, ObjParts
  <2> QED BY <2>1
<1>2. l <= ObjSize
  BY <1>0, <1>1 DEF Fits
<1>3. w <= l
  <2>1. w > 0 => obj[n] # None /\ w <= Len(obj[n])
    BY DEF Reached
  <2> QED BY <1>0, <1>1, <2>1
<1>4. PICK r : r = RadosWrite(obj[n], w, bytes)
  OBVIOUS
<1>5. /\ r \in Seq(Byte) /\ r # None /\ Len(r) = Larger(l, w + k)
      /\ \A i \in 1 .. Larger(l, w + k) :
           r[i] = IF w < i /\ i <= w + k THEN bytes[i - w]
                  ELSE IF i <= l THEN obj[n][i] ELSE Zero
  <2>1. Written(r, obj[n], l, w, bytes)
    BY <1>0, <1>1, <1>4, WriteAt
  <2>2. k = Len(bytes)
    OBVIOUS
  <2> QED BY <2>1, <2>2 DEF Written
<1>6. obj' = [obj EXCEPT ![n] = r] /\ obj \in [Objects -> Seq(Byte) \cup {None}]
  BY <1>4 DEF Writes, TypeOK
<1>7. obj'[n] = r /\ (\A m \in Objects : m # n => obj'[m] = obj[m])
      /\ obj' \in [Objects -> Seq(Byte) \cup {None}]
  BY <1>0, <1>5, <1>6
<1>8. ASSUME NEW i \in 1 .. Larger(l, w + k)
      PROVE  r[i] = IF w < i /\ i <= w + k THEN bytes[i - w] ELSE obj[n][i]
  <2>1. i <= l \/ (w < i /\ i <= w + k)
    <3>1. Larger(l, w + k) = l \/ Larger(l, w + k) = w + k
      BY DEF Larger
    <3> QED BY <1>0, <1>3, <3>1
  <2> QED BY <1>5, <2>1
<1> QED BY <1>1, <1>2, <1>3, <1>5, <1>7, <1>8 DEF ObjWritten

(* It writes no further than the end of its bytes.                         *)
LEMMA WriteUnder ==
  ASSUME TypeOK, Fits, NEW x \in Nat, Reached(x), ObjNum(x) \in Objects,
         NEW bytes \in Seq(Byte), Within(x) + Len(bytes) <= ObjSize, Writes(x, bytes)
  PROVE  /\ \A m \in Objects : m # ObjNum(x) /\ obj'[m] # None => obj[m] # None /\ EndOf(m)' = EndOf(m)
         /\ \/ obj[ObjNum(x)] # None /\ EndOf(ObjNum(x))' = EndOf(ObjNum(x))
            \/ EndOf(ObjNum(x))' = x + Len(bytes)
<1>1. PICK n, w, k : n = ObjNum(x) /\ w = Within(x) /\ k = Len(bytes)
  OBVIOUS
<1>2. PICK l \in Nat :
           /\ l = IF obj[n] = None THEN 0 ELSE Len(obj[n])
           /\ w <= l /\ l <= ObjSize
           /\ obj'[n] \in Seq(Byte) /\ obj'[n] # None /\ Len(obj'[n]) = Larger(l, w + k)
           /\ \A m \in Objects : m # n => obj'[m] = obj[m]
  <2>1. PICK l \in Nat : ObjWritten(n, w, l, k, bytes)
    BY <1>1, WriteParts
  <2> QED BY <2>1 DEF ObjWritten
<1>3. \A m \in Objects : m # n /\ obj'[m] # None => obj[m] # None /\ EndOf(m)' = EndOf(m)
  BY <1>2 DEF EndOf
<1>4. n \in Nat /\ w \in Nat /\ k \in Nat /\ x = n * ObjSize + w /\ ObjSize \in Nat
  BY <1>1, Division, SizeAssumption
<1>5. CASE l >= w + k /\ obj[n] # None
  <2>1. Larger(l, w + k) = l
    BY <1>4, <1>5 DEF Larger
  <2> QED BY <1>1, <1>2, <1>3, <1>5, <2>1 DEF EndOf
<1>6. CASE l < w + k \/ obj[n] = None
  <2>1. Larger(l, w + k) = w + k
    BY <1>2, <1>4, <1>6 DEF Larger
  <2>2. EndOf(n)' = n * ObjSize + (w + k)
    BY <1>2, <2>1 DEF EndOf
  <2>3. PICK a \in Nat : a = n * ObjSize
    <3>1. \A c, d \in Nat : c * d \in Nat
      OBVIOUS
    <3> QED BY <1>4, <3>1
  <2>4. EndOf(n)' = x + k
    BY <1>4, <2>2, <2>3
  <2> QED BY <1>1, <1>3, <2>4
<1> QED BY <1>2, <1>4, <1>5, <1>6

(* Objects without a hole up to the place have none after the write.       *)
LEMMA WriteGrows ==
  ASSUME TypeOK, Fits, NEW x \in Nat, Reached(x), Packed(-1, 0), ObjNum(x) \in Objects,
         ObjNum(x) <= Top,
         NEW bytes \in Seq(Byte), Within(x) + Len(bytes) <= ObjSize, Writes(x, bytes)
  PROVE  /\ Fits' /\ Reached(x + Len(bytes))'
         /\ \A y \in Nat : ObjNum(y) \in Objects /\ Reached(y) => Reached(y)'
<1>1. PICK k \in Nat : k = Len(bytes)
  OBVIOUS
<1>2. PICK n, w : n = ObjNum(x) /\ w = Within(x)
  OBVIOUS
<1>4. PICK l \in Nat :
           /\ l = IF obj[n] = None THEN 0 ELSE Len(obj[n])
           /\ obj'[n] # None /\ Len(obj'[n]) = Larger(l, w + k)
           /\ \A m \in Objects : m # n => obj'[m] = obj[m]
           /\ obj' \in [Objects -> Seq(Byte) \cup {None}]
  <2>1. PICK l \in Nat : ObjWritten(n, w, l, k, bytes)
    BY <1>1, <1>2, WriteParts
  <2> QED BY <2>1 DEF ObjWritten
<1>5. Grows(n, w + k)
  BY <1>4 DEF Grows
<1>6. Grows(ObjNum(x), Within(x) + k)
  BY <1>2, <1>5
<1>7. /\ Fits' /\ Reached(x + k)'
      /\ \A y \in Nat : ObjNum(y) \in Objects /\ Reached(y) => Reached(y)'
  BY <1>1, <1>6, GrowHoles
<1>8. Reached(x + Len(bytes))'
  BY <1>1, <1>7
<1> QED BY <1>7, <1>8

(* Objects that show s show s overlaid after the write.                    *)
LEMMA WriteShows ==
  ASSUME TypeOK, Fits, NEW s \in Seq(Bytes), Shows(s), NEW x \in Nat, x <= Len(s),
         ObjNum(x) <= Top, NEW bytes \in Seq(Byte), Within(x) + Len(bytes) <= ObjSize, Writes(x, bytes)
  PROVE  Shows(Overlay(s, x, bytes))'
<1>0. PICK L \in Nat, k \in Nat, n \in Nat, w \in Nat :
        L = Len(s) /\ k = Len(bytes) /\ n = ObjNum(x) /\ w = Within(x)
  BY Division
<1>00. PICK t : t = Overlay(s, x, bytes)
  OBVIOUS
<1>1. /\ t \in Seq(Bytes) /\ Len(t) = Larger(L, x + k)
      /\ \A i \in 1 .. Larger(L, x + k) :
           t[i] = IF x < i /\ i <= x + k THEN bytes[i - x] ELSE IF i <= L THEN s[i] ELSE Zero
  <2>1. Overlaid(t, s, x, bytes)
    BY <1>00, OverlayAt
  <2> QED BY <1>0, <2>1 DEF Overlaid
<1>2. Reached(L) /\ Under(L) /\ \A m \in Objects : obj[m] # None => Agrees(m, s)
  BY <1>0 DEF Shows
<1>3. ObjNum(x) \in Objects /\ ObjNum(L) \in Objects
  BY <1>0, <1>2, ReachedInside, TopParts
<1>4. Reached(x) /\ Packed(-1, 0)
  BY <1>0, <1>2, <1>3, ReachedBefore, ShownPacked
<1>5. Fits' /\ Reached(x + k)' /\ Reached(L)'
  <2>1. /\ Fits' /\ Reached(x + Len(bytes))'
        /\ \A y \in Nat : ObjNum(y) \in Objects /\ Reached(y) => Reached(y)'
    BY <1>3, <1>4, WriteGrows
  <2> QED BY <1>0, <1>2, <1>3, <2>1
<1>6. x + k \in Nat /\ Larger(L, x + k) \in Nat /\ L <= Larger(L, x + k) /\ x + k <= Larger(L, x + k)
      /\ (Larger(L, x + k) = L \/ Larger(L, x + k) = x + k)
  BY DEF Larger
<1>7. Reached(Len(t))'
  BY <1>1, <1>5, <1>6
<1>8. PICK l \in Nat :
           /\ l = IF obj[n] = None THEN 0 ELSE Len(obj[n])
           /\ w <= l /\ l <= ObjSize
           /\ obj'[n] \in Seq(Byte) /\ obj'[n] # None /\ Len(obj'[n]) = Larger(l, w + k)
           /\ \A i \in 1 .. Larger(l, w + k) :
                obj'[n][i] = IF w < i /\ i <= w + k THEN bytes[i - w] ELSE obj[n][i]
           /\ \A m \in Objects : m # n => obj'[m] = obj[m]
           /\ obj' \in [Objects -> Seq(Byte) \cup {None}]
  <2>1. PICK l \in Nat : ObjWritten(n, w, l, k, bytes)
    BY <1>0, <1>3, <1>4, WriteParts
  <2> QED BY <2>1 DEF ObjWritten
<1>9. ObjSize \in Nat /\ w < ObjSize /\ w + k <= ObjSize /\ x = n * ObjSize + w
      /\ NextBound(x) = x - w + ObjSize /\ n \in Objects
  BY <1>0, <1>3, Division, NextObject, SizeAssumption
<1>10. Under(Len(t))'
  <2>1. /\ \A m \in Objects : m # ObjNum(x) /\ obj'[m] # None => obj[m] # None /\ EndOf(m)' = EndOf(m)
        /\ \/ obj[ObjNum(x)] # None /\ EndOf(ObjNum(x))' = EndOf(ObjNum(x))
           \/ EndOf(ObjNum(x))' = x + Len(bytes)
    BY <1>3, <1>4, WriteUnder
  <2>2. ASSUME NEW m \in Objects, obj'[m] # None PROVE EndOf(m)' <= Larger(L, x + k)
    <3>1. CASE obj[m] # None /\ EndOf(m)' = EndOf(m)
      <4>1. EndOf(m) <= L /\ EndOf(m) \in Nat
        BY <1>2, <3>1, EndNat DEF Under
      <4> QED BY <1>6, <3>1, <4>1
    <3>2. CASE EndOf(m)' = x + k
      BY <1>6, <3>2
    <3>3. CASE m = n
      <4>1. (EndOf(m)' = EndOf(m) /\ obj[m] # None) \/ EndOf(m)' = x + k
        BY <1>0, <2>1, <3>3
      <4> QED BY <3>1, <3>2, <4>1
    <3>4. CASE m # n
      BY <1>0, <2>1, <2>2, <3>1, <3>4
    <3> QED BY <3>3, <3>4
  <2> QED BY <1>1, <2>2 DEF Under
<1>11. ASSUME NEW m \in Objects, obj'[m] # None, NEW i \in 1 .. Len(obj'[m])
       PROVE  obj'[m][i] = t[m * ObjSize + i]
  <2>1. CASE m # n
    <3>1. obj'[m] = obj[m] /\ obj[m] # None
      BY <1>8, <1>11, <2>1
    <3>2. /\ m \in Nat /\ m * ObjSize \in Nat /\ EndOf(m) <= L /\ Len(obj[m]) \in Nat
          /\ Len(obj[m]) <= ObjSize /\ i \in Nat
      BY <1>2, <1>11, <3>1, EndNat DEF Under, Fits
    <3>3. PICK a \in Nat : a = m * ObjSize
      BY <3>2
    <3>4. a + i <= L /\ a + i \in Nat /\ 0 < a + i /\ 0 < i /\ i <= ObjSize
      <4>1. EndOf(m) = a + Len(obj[m])
        BY <3>3 DEF EndOf
      <4>2. i <= Len(obj[m]) /\ 0 < i
        BY <1>11, <3>1
      <4> QED BY <1>9, <3>2, <4>1, <4>2
    <3>5. obj[m][i] = s[a + i]
      <4>1. Agrees(m, s) /\ i \in 1 .. Len(obj[m])
        BY <1>2, <1>11, <3>1
      <4> QED BY <3>3, <4>1 DEF Agrees
    <3>6. ~(x < a + i /\ a + i <= x + k)
      <4> SUFFICES ASSUME x < a + i, a + i <= x + k PROVE FALSE
        OBVIOUS
      <4>1. PICK y \in Nat : y = a + i - 1
        BY <3>4
      <4>2. x <= y /\ y < NextBound(x)
        BY <1>9, <3>4, <4>1
      <4>3. ObjNum(y) = n
        BY <1>0, <4>2, SameObject
      <4>4. ObjNum(m * ObjSize + i - 1) = m
        BY <3>2, <3>4, PlaceIs
      <4>5. m * ObjSize + i - 1 = y
        BY <3>3, <4>1
      <4> QED BY <2>1, <4>3, <4>4, <4>5
    <3>7. a + i \in 1 .. Larger(L, x + k)
      BY <1>6, <3>4
    <3>8. t[a + i] = s[a + i]
      BY <1>1, <3>4, <3>6, <3>7
    <3> QED BY <3>1, <3>3, <3>5, <3>8
  <2>2. CASE m = n
    <3>1. i \in Nat /\ 0 < i /\ i <= Larger(l, w + k) /\ i \in 1 .. Larger(l, w + k)
      BY <1>8, <1>11, <2>2
    <3>2. obj'[n][i] = IF w < i /\ i <= w + k THEN bytes[i - w] ELSE obj[n][i]
      BY <1>8, <3>1
    <3>3. PICK a \in Nat : a = n * ObjSize
      <4>1. \A c, d \in Nat : c * d \in Nat
        OBVIOUS
      <4> QED BY <1>9, <4>1
    <3>4. x = a + w
      BY <1>9, <3>3
    <3>5. CASE w < i /\ i <= w + k
      <4>1. x < a + i /\ a + i <= x + k /\ (a + i) - x = i - w
        BY <3>1, <3>4, <3>5
      <4>2. a + i \in 1 .. Larger(L, x + k)
        BY <1>6, <3>1, <4>1
      <4>3. t[a + i] = bytes[i - w]
        BY <1>1, <4>1, <4>2
      <4> QED BY <2>2, <3>2, <3>3, <3>5, <4>3
    <3>6. CASE ~(w < i /\ i <= w + k)
      <4>1. i <= l
        <5>1. Larger(l, w + k) = l \/ Larger(l, w + k) = w + k
          BY DEF Larger
        <5> QED BY <1>8, <3>1, <3>6, <5>1
      <4>2. obj[n] # None /\ l = Len(obj[n])
        BY <1>8, <3>1, <4>1
      <4>3. a + i <= L
        <5>1. EndOf(n) <= L /\ EndOf(n) = a + l
          BY <1>2, <1>9, <3>3, <4>2 DEF Under, EndOf
        <5> QED BY <3>1, <4>1, <5>1
      <4>4. obj[n][i] = s[a + i]
        <5>1. Agrees(n, s) /\ i \in 1 .. Len(obj[n])
          BY <1>2, <1>9, <3>1, <4>1, <4>2
        <5> QED BY <3>3, <5>1 DEF Agrees
      <4>5. ~(x < a + i /\ a + i <= x + k) /\ a + i \in 1 .. Larger(L, x + k)
        BY <1>6, <3>1, <3>4, <3>6, <4>3
      <4>6. t[a + i] = s[a + i]
        BY <1>1, <4>3, <4>5
      <4> QED BY <2>2, <3>2, <3>3, <3>6, <4>4, <4>6
    <3> QED BY <3>5, <3>6
  <2> QED BY <2>1, <2>2
<1>12. \A m \in Objects : obj'[m] # None => Agrees(m, t)'
  BY <1>11 DEF Agrees
<1>13. Shows(t)'
  BY <1>7, <1>10, <1>12 DEF Shows
<1> QED BY <1>00, <1>13

----------------------------------------------------------------------------
(* On the leader alone: what the objects show during an operation.         *)

(* The search has found no object above the one it looks at.               *)
NoneAbove(p) == \A m \in Objects : job[p].num < m /\ m <= ObjNum(op[p].off) => obj[m] = None

(* The object that x is in, and those before it, end there.                *)
CutAt(x) ==
  /\ Reached(x)
  /\ \A n \in Objects : n <= ObjNum(x) /\ obj[n] # None => EndOf(n) <= x

(* At each place of an operation the objects show the file with the part   *)
(* of the operation that is done.                                          *)
FlatAt(p) ==
  /\ job[p].loc = "stat" => Shows(file) /\ NoneAbove(p)
  /\ job[p].loc = "zero" => Len(file) <= job[p].cur /\ Shows(Overlay(file, job[p].cur, <<>>))
  /\ job[p].loc = "put" =>
       Shows(Overlay(file, op[p].off, SubSeq(Buffer(p, op[p].len), 1, job[p].cur - op[p].off)))
  /\ job[p].loc = "cut" => Shows(file) /\ op[p].off <= Len(file)
  /\ job[p].loc \in {"reap", "drop"} =>
       /\ CutAt(op[p].off) /\ op[p].off <= Len(file)
       /\ \A n \in Objects : n <= ObjNum(op[p].off) /\ obj[n] # None => Agrees(n, file)

(* As long as nobody has died, the objects show the file whenever nobody   *)
(* changes it, and the one that does has left them as FlatAt says.         *)
Flat ==
  crashes = 0 =>
    /\ ~torn
    /\ Writers = {} => Shows(file)
    /\ \A p \in Proc : FlatAt(p)

(* The history of the file stays.                                          *)
LEMMA ShowsNext ==
  ASSUME NEW f, Shows(f)', file' = f
  PROVE  Shows(file)'
BY DEF Shows, Reached, Under, Agrees

(* The objects stay.                                                       *)
LEMMA ShowsSame ==
  ASSUME NEW f, obj' = obj, Shows(f)
  PROVE  Shows(f)'
BY DEF Shows, Reached, Under, Agrees, Full, EndOf

(* At the search.                                                          *)
LEMMA FlatStat ==
  ASSUME NEW p, NEW f, Shows(f)', file' = f, job'[p].loc = "stat", NoneAbove(p)'
  PROVE  FlatAt(p)'
<1>1. Shows(file)'
  BY ShowsNext
<1> QED BY <1>1 DEF FlatAt

(* Before the gap is filled.                                               *)
LEMMA FlatZero ==
  ASSUME NEW p, NEW f, NEW x, Shows(Overlay(f, x, <<>>))', file' = f, Len(f) <= x,
         job'[p].loc = "zero", job'[p].cur = x
  PROVE  FlatAt(p)'
<1>1. PICK t : t = Overlay(f, x, <<>>)
  OBVIOUS
<1>2. t = Overlay(file', job'[p].cur, <<>>) /\ Shows(t)'
  BY <1>1
<1>3. Shows(Overlay(file, job[p].cur, <<>>))'
  BY <1>2 DEF Shows, Reached, Under, Agrees
<1> QED BY <1>3 DEF FlatAt

(* Before the bytes are written.                                           *)
LEMMA FlatPut ==
  ASSUME NEW p, NEW f, NEW x, NEW o, Shows(Overlay(f, o.off, SubSeq(Buffer(p, o.len), 1, x - o.off)))',
         file' = f, op'[p] = o, job'[p].loc = "put", job'[p].cur = x
  PROVE  FlatAt(p)'
<1>1. PICK t : t = Overlay(f, o.off, SubSeq(Buffer(p, o.len), 1, x - o.off))
  OBVIOUS
<1>2. t = Overlay(file', op'[p].off, SubSeq(Buffer(p, op'[p].len), 1, job'[p].cur - op'[p].off))
      /\ Shows(t)'
  BY <1>1
<1>3. Shows(Overlay(file, op[p].off, SubSeq(Buffer(p, op[p].len), 1, job[p].cur - op[p].off)))'
  BY <1>2 DEF Shows, Reached, Under, Agrees
<1> QED BY <1>3 DEF FlatAt

(* Before the object is cut.                                               *)
LEMMA FlatCut ==
  ASSUME NEW p, NEW f, Shows(f)', file' = f, op'[p].off <= Len(f), job'[p].loc = "cut"
  PROVE  FlatAt(p)'
<1>1. Shows(file)'
  BY ShowsNext
<1> QED BY <1>1 DEF FlatAt

(* Nothing is said of the other places.                                    *)
LEMMA FlatIdle ==
  ASSUME NEW p, job'[p].loc \in {"idle", "wipe", "read", "return"}
  PROVE  FlatAt(p)'
BY DEF FlatAt

(* The mutex lets only one change the file.                                *)
LEMMA Sole ==
  ASSUME Proc = Local, LocalHolds, NEW p \in Proc, op[p].kind \notin {"none", "read"},
         NEW q \in Proc, q # p
  PROVE  op[q].kind \in {"none", "read"}
BY DEF LocalHolds

(* A process that changes nothing is at none of these places.              *)
LEMMA Resting ==
  ASSUME PlacesInv, NEW q \in Proc, op[q].kind \in {"none", "read"}
  PROVE  job[q].loc \in {"idle", "read", "return"}
BY DEF PlacesInv, Placing

(* While p works alone, it is enough to look at p.                         *)
LEMMA FlatKept ==
  ASSUME Proc = Local, LocalHolds, PlacesInv, NEW p \in Proc, op[p].kind \notin {"none", "read"},
         \A q \in Proc : q # p => Same(q), ~torn', FlatAt(p)',
         op'[p].kind \in {"none", "read"} => Shows(file)'
  PROVE  Flat'
<1>1. ASSUME NEW q \in Proc, q # p PROVE FlatAt(q)'
  <2>1. job'[q].loc \in {"idle", "read", "return"}
    BY <1>1, Sole, Resting DEF Same
  <2> QED BY <2>1, FlatIdle
<1>2. Writers' = {} => Shows(file)'
  <2>1. Writers' = {} => op'[p].kind \in {"none", "read"}
    BY DEF Writers
  <2> QED BY <2>1
<1> QED BY <1>1, <1>2 DEF Flat

(* Overlays of overlays.                                                   *)

(* The bytes of an overlay, with its length.                               *)
LEMMA OverlayIs ==
  ASSUME NEW s \in Seq(Bytes), NEW at \in Nat, NEW bytes \in Seq(Byte), NEW t \in Seq(Bytes),
         Len(t) = Larger(Len(s), at + Len(bytes)),
         \A i \in 1 .. Len(t) :
           t[i] = IF at < i /\ i <= at + Len(bytes) THEN bytes[i - at]
                  ELSE IF i <= Len(s) THEN s[i] ELSE Zero
  PROVE  Overlay(s, at, bytes) = t
<1>1. PICK u : u = Overlay(s, at, bytes)
  OBVIOUS
<1>2. Overlaid(u, s, at, bytes)
  BY <1>1, OverlayAt
<1>3. u \in Seq(Bytes) /\ Len(u) = Len(t) /\ \A i \in 1 .. Len(t) : u[i] = t[i]
  BY <1>2 DEF Overlaid
<1>4. u = t
  BY <1>3
<1> QED BY <1>1, <1>4

(* An overlay of no bytes.                                                 *)
LEMMA OverlayEmpty ==
  ASSUME NEW s \in Seq(Bytes), NEW x \in Nat, NEW t \in Seq(Bytes), Len(t) = Larger(Len(s), x),
         \A i \in 1 .. Len(t) : t[i] = IF i <= Len(s) THEN s[i] ELSE Zero
  PROVE  Overlay(s, x, <<>>) = t
<1>1. PICK b : b = <<>>
  OBVIOUS
<1>2. b \in Seq(Byte) /\ Len(b) = 0 /\ x + 0 = x
  BY <1>1
<1>3. \A i \in 1 .. Len(t) : ~(x < i /\ i <= x + Len(b))
  BY <1>2
<1>4. Len(t) = Larger(Len(s), x + Len(b))
  BY <1>2
<1>5. \A i \in 1 .. Len(t) :
        t[i] = IF x < i /\ i <= x + Len(b) THEN b[i - x] ELSE IF i <= Len(s) THEN s[i] ELSE Zero
  BY <1>3
<1>6. Overlay(s, x, b) = t
  BY <1>2, <1>4, <1>5, OverlayIs
<1> QED BY <1>1, <1>6

(* No bytes.                                                               *)
LEMMA EmptyBytes == <<>> \in Seq(Byte) /\ Len(<<>>) = 0
OBVIOUS

(* Nothing written at the end or before it changes nothing.                *)
LEMMA OverlayNothing ==
  ASSUME NEW s \in Seq(Bytes), NEW x \in Nat, x <= Len(s)
  PROVE  Overlay(s, x, <<>>) = s
<1>1. Len(s) = Larger(Len(s), x)
  BY DEF Larger
<1> QED BY <1>1, OverlayEmpty

(* Zeros written into the gap are the zeros an overlay fills it with.      *)
LEMMA OverlayZeros ==
  ASSUME NEW s \in Seq(Bytes), NEW x \in Nat, NEW k \in Nat, Len(s) <= x
  PROVE  Overlay(Overlay(s, x, <<>>), x, Zeros(k)) = Overlay(s, x + k, <<>>)
<1>1. PICK t, u, z : t = Overlay(s, x, <<>>) /\ u = Overlay(s, x + k, <<>>) /\ z = Zeros(k)
  OBVIOUS
<1>2. x + k \in Nat /\ Larger(Len(s), x + 0) = x /\ Larger(Len(s), x + k + 0) = x + k
      /\ Larger(x, x + k) = x + k
  BY DEF Larger
<1>3. t \in Seq(Bytes) /\ Len(t) = x
      /\ \A i \in 1 .. x : t[i] = IF i <= Len(s) THEN s[i] ELSE Zero
  <2>1. Overlaid(t, s, x, <<>>)
    BY <1>1, EmptyBytes, OverlayAt
  <2> QED BY <1>2, <2>1, EmptyBytes DEF Overlaid
<1>4. u \in Seq(Bytes) /\ Len(u) = x + k
      /\ \A i \in 1 .. x + k : u[i] = IF i <= Len(s) THEN s[i] ELSE Zero
  <2>1. Overlaid(u, s, x + k, <<>>)
    BY <1>1, <1>2, EmptyBytes, OverlayAt
  <2> QED BY <1>2, <2>1, EmptyBytes DEF Overlaid
<1>5. z \in Seq(Byte) /\ Len(z) = k /\ \A i \in 1 .. k : z[i] = Zero
  BY <1>1, BytesType DEF Zeros
<1>6. ASSUME NEW i \in 1 .. Len(u)
      PROVE  u[i] = IF x < i /\ i <= x + Len(z) THEN z[i - x] ELSE IF i <= Len(t) THEN t[i] ELSE Zero
  <2>1. CASE x < i
    <3>1. i - x \in 1 .. k /\ i \in 1 .. x + k /\ i <= x + Len(z) /\ ~(i <= Len(s))
      BY <1>4, <1>5, <2>1
    <3> QED BY <1>4, <1>5, <2>1, <3>1
  <2>2. CASE ~(x < i)
    <3>1. i \in 1 .. x /\ i \in 1 .. x + k /\ i <= Len(t)
      BY <1>3, <1>4, <2>2
    <3> QED BY <1>3, <1>4, <2>2, <3>1
  <2> QED BY <2>1, <2>2
<1>7. Len(u) = Larger(Len(t), x + Len(z))
  BY <1>2, <1>3, <1>4, <1>5
<1>8. Overlay(t, x, z) = u
  BY <1>3, <1>4, <1>5, <1>6, <1>7, OverlayIs
<1> QED BY <1>1, <1>8

(* Two strings of bytes, one behind the other.                             *)
LEMMA Joined ==
  ASSUME NEW S, NEW c \in Seq(S), NEW d \in Seq(S)
  PROVE  /\ c \o d \in Seq(S) /\ Len(c \o d) = Len(c) + Len(d)
         /\ \A h \in 1 .. Len(c) + Len(d) :
              (c \o d)[h] = IF h <= Len(c) THEN c[h] ELSE d[h - Len(c)]
OBVIOUS

(* Two pieces of a string of bytes, one behind the other.                  *)
LEMMA Pieces ==
  ASSUME NEW S, NEW b \in Seq(S), NEW i \in Nat, NEW j \in Nat, NEW n \in Nat,
         i <= j, j <= n, n <= Len(b)
  PROVE  SubSeq(b, i + 1, j) \o SubSeq(b, j + 1, n) = SubSeq(b, i + 1, n)
<1>1. PICK c, d, e : c = SubSeq(b, i + 1, j) /\ d = SubSeq(b, j + 1, n) /\ e = SubSeq(b, i + 1, n)
  OBVIOUS
<1>2. c \in Seq(S) /\ Len(c) = j - i /\ \A h \in 1 .. j - i : c[h] = b[i + h]
  <2>1. c = [h \in 1 .. j - i |-> b[i + h]]
    BY <1>1, PartIs
  <2> QED BY <1>1, <2>1
<1>3. d \in Seq(S) /\ Len(d) = n - j /\ \A h \in 1 .. n - j : d[h] = b[j + h]
  <2>1. d = [h \in 1 .. n - j |-> b[j + h]]
    BY <1>1, PartIs
  <2> QED BY <1>1, <2>1
<1>4. e \in Seq(S) /\ Len(e) = n - i /\ \A h \in 1 .. n - i : e[h] = b[i + h]
  <2>1. e = [h \in 1 .. n - i |-> b[i + h]]
    BY <1>1, PartIs
  <2> QED BY <1>1, <2>1
<1>5. PICK t : t = c \o d
  OBVIOUS
<1>6. t \in Seq(S) /\ Len(t) = (j - i) + (n - j)
      /\ \A h \in 1 .. Len(t) : t[h] = IF h <= j - i THEN c[h] ELSE d[h - (j - i)]
  <2>1. t \in Seq(S) /\ Len(t) = Len(c) + Len(d)
    BY <1>2, <1>3, <1>5, Joined
  <2>2. \A h \in 1 .. Len(t) : t[h] = IF h <= Len(c) THEN c[h] ELSE d[h - Len(c)]
    BY <1>2, <1>3, <1>5, <2>1, Joined
  <2> QED BY <1>2, <1>3, <2>1, <2>2
<1>7. ASSUME NEW h \in 1 .. n - i PROVE t[h] = e[h]
  <2>1. CASE h <= j - i
    <3>1. h \in 1 .. Len(t) /\ h \in 1 .. j - i
      BY <1>6, <2>1
    <3> QED BY <1>2, <1>4, <1>6, <2>1, <3>1
  <2>2. CASE ~(h <= j - i)
    <3>1. h \in 1 .. Len(t) /\ h - (j - i) \in 1 .. n - j /\ j + (h - (j - i)) = i + h
      BY <1>6, <2>2
    <3>2. t[h] = d[h - (j - i)]
      BY <1>6, <2>2, <3>1
    <3>3. d[h - (j - i)] = b[i + h]
      BY <1>3, <3>1
    <3> QED BY <1>4, <3>2, <3>3
  <2> QED BY <2>1, <2>2
<1>8. Len(t) = n - i /\ Len(e) = Len(t)
  BY <1>4, <1>6
<1>10. \A h \in 1 .. Len(t) : t[h] = e[h]
  BY <1>7, <1>8
<1>9. t = e
  BY <1>4, <1>6, <1>8, <1>10
<1> QED BY <1>1, <1>5, <1>9

(* Two strings of bytes as one.                                            *)
Join(c, d) == c \o d

(* A buffer written in two parts is the buffer written at once.            *)
LEMMA OverlayParts ==
  ASSUME NEW s \in Seq(Bytes), NEW x \in Nat, NEW c \in Seq(Byte), NEW d \in Seq(Byte),
         NEW y \in Nat, y = x + Len(c), NEW e \in Seq(Byte), e = Join(c, d)
  PROVE  Overlay(Overlay(s, x, c), y, d) = Overlay(s, x, e)
<1>0. PICK k \in Nat, j \in Nat : k = Len(d) /\ j = Len(c) /\ y = x + j
  OBVIOUS
<1>2. Len(c) = j /\ Len(e) = j + k /\ x + j \in Nat
      /\ \A i \in 1 .. Len(e) : e[i] = IF i <= j THEN c[i] ELSE d[i - j]
  BY <1>0, Joined DEF Join
<1>3. \A i \in 1 .. j : i \in 1 .. Len(e) /\ c[i] = e[i]
  BY <1>2
<1>4. ASSUME NEW i \in 1 .. k PROVE j + i \in 1 .. Len(e) /\ d[i] = e[j + i]
  <2>1. j + i \in 1 .. Len(e) /\ ~(j + i <= j) /\ (j + i) - j = i
    BY <1>2
  <2> QED BY <1>2, <2>1
<1>5. PICK t, u : t = Overlay(s, x, c) /\ u = Overlay(s, x, e)
  OBVIOUS
<1>6. t \in Seq(Bytes) /\ Len(t) = Larger(Len(s), x + j)
      /\ \A i \in 1 .. Larger(Len(s), x + j) :
           t[i] = IF x < i /\ i <= x + j THEN c[i - x] ELSE IF i <= Len(s) THEN s[i] ELSE Zero
  <2>1. Overlaid(t, s, x, c)
    BY <1>2, <1>5, OverlayAt
  <2> QED BY <1>2, <2>1 DEF Overlaid
<1>7. u \in Seq(Bytes) /\ Len(u) = Larger(Len(s), x + (j + k))
      /\ \A i \in 1 .. Larger(Len(s), x + (j + k)) :
           u[i] = IF x < i /\ i <= x + (j + k) THEN e[i - x] ELSE IF i <= Len(s) THEN s[i] ELSE Zero
  <2>1. Overlaid(u, s, x, e)
    BY <1>5, OverlayAt
  <2> QED BY <1>2, <2>1 DEF Overlaid
<1>8. Larger(Larger(Len(s), x + j), (x + j) + k) = Larger(Len(s), x + (j + k))
  <2>1. \A a, g, h \in Nat : Larger(Larger(a, g), g + h) = Larger(a, g + h)
    BY DEF Larger
  <2>2. Len(s) \in Nat /\ (x + j) + k = x + (j + k)
    OBVIOUS
  <2>3. Larger(Larger(Len(s), x + j), (x + j) + k) = Larger(Len(s), (x + j) + k)
    BY <1>2, <2>1, <2>2
  <2> QED BY <2>2, <2>3
<1>9. ASSUME NEW i \in 1 .. Len(u)
      PROVE  u[i] = IF x + j < i /\ i <= (x + j) + Len(d) THEN d[i - (x + j)]
                    ELSE IF i <= Len(t) THEN t[i] ELSE Zero
  <2>0. i \in Nat /\ 0 < i /\ i \in 1 .. Larger(Len(s), x + (j + k)) /\ Len(s) \in Nat
        /\ (Larger(Len(s), x + j) = Len(s) \/ Larger(Len(s), x + j) = x + j)
        /\ x + j <= Larger(Len(s), x + j) /\ Len(s) <= Larger(Len(s), x + j)
    BY <1>7 DEF Larger
  <2>1. CASE x + j < i /\ i <= (x + j) + k
    <3>1. i - (x + j) \in 1 .. k /\ j + (i - (x + j)) = i - x /\ x < i /\ i <= x + (j + k)
      BY <2>0, <2>1
    <3>2. u[i] = e[i - x]
      BY <1>7, <2>0, <3>1
    <3>3. d[i - (x + j)] = e[i - x]
      BY <1>4, <3>1
    <3> QED BY <1>0, <2>1, <3>2, <3>3
  <2>2. CASE x < i /\ i <= x + j
    <3>1. i - x \in 1 .. j /\ i <= x + (j + k) /\ i \in 1 .. Larger(Len(s), x + j)
          /\ ~(x + j < i)
      BY <2>0, <2>2
    <3>2. u[i] = e[i - x] /\ c[i - x] = e[i - x] /\ t[i] = c[i - x]
      BY <1>3, <1>6, <1>7, <2>0, <2>2, <3>1
    <3>3. i <= Len(t)
      BY <1>6, <3>1
    <3> QED BY <3>1, <3>2, <3>3
  <2>3. CASE ~(x < i) \/ x + (j + k) < i
    <3>1. ~(x < i /\ i <= x + j) /\ ~(x < i /\ i <= x + (j + k))
          /\ ~(x + j < i /\ i <= (x + j) + k)
      BY <2>0, <2>3
    <3>2. u[i] = IF i <= Len(s) THEN s[i] ELSE Zero
      BY <1>7, <2>0, <3>1
    <3>3. i <= Larger(Len(s), x + j) => i \in 1 .. Larger(Len(s), x + j)
      BY <2>0
    <3>4. i <= Len(t) => t[i] = IF i <= Len(s) THEN s[i] ELSE Zero
      BY <1>6, <3>1, <3>3
    <3>5. i <= Len(s) => i <= Len(t)
      BY <1>6, <2>0
    <3> QED BY <1>0, <3>1, <3>2, <3>4, <3>5
  <2> QED BY <1>0, <2>0, <2>1, <2>2, <2>3
<1>10. Len(u) = Larger(Len(t), (x + j) + Len(d))
  BY <1>0, <1>6, <1>7, <1>8
<1>11. Overlay(t, x + j, d) = u
  BY <1>2, <1>6, <1>7, <1>9, <1>10, OverlayIs
<1> QED BY <1>0, <1>5, <1>11

(* What a truncation makes of a plain file.                                *)
Cutoff(s, x) == [i \in 1 .. x |-> IF i <= Len(s) THEN s[i] ELSE Zero]

(* Its bytes, and where it only makes the file longer.                     *)
LEMMA CutoffIs ==
  ASSUME NEW s \in Seq(Bytes), NEW x \in Nat
  PROVE  /\ Cutoff(s, x) \in Seq(Bytes) /\ Len(Cutoff(s, x)) = x
         /\ \A i \in 1 .. x : i <= Len(s) => Cutoff(s, x)[i] = s[i]
         /\ Len(s) <= x => Overlay(s, x, <<>>) = Cutoff(s, x)
<1> DEFINE e(i) == IF i <= Len(s) THEN s[i] ELSE Zero
<1>1. \A i \in 1 .. x : e(i) \in Bytes
  BY DEF Bytes, Byte
<1>2. Cutoff(s, x) = [i \in 1 .. x |-> e(i)]
  BY DEF Cutoff
<1> HIDE DEF e
<1>3. Cutoff(s, x) \in Seq(Bytes) /\ Len(Cutoff(s, x)) = x
      /\ \A i \in 1 .. x : Cutoff(s, x)[i] = e(i)
  BY <1>1, <1>2
<1>4. PICK t : t = Cutoff(s, x)
  OBVIOUS
<1>5. ASSUME Len(s) <= x PROVE Overlay(s, x, <<>>) = t
  <2>1. Larger(Len(s), x) = x
    BY <1>5 DEF Larger
  <2>2. \A i \in 1 .. Len(t) : t[i] = IF i <= Len(s) THEN s[i] ELSE Zero
    BY <1>3, <1>4 DEF e
  <2> QED BY <1>3, <1>4, <2>1, <2>2, OverlayEmpty
<1>6. \A i \in 1 .. x : i <= Len(s) => Cutoff(s, x)[i] = s[i]
  BY <1>3 DEF e
<1> QED BY <1>3, <1>4, <1>5, <1>6

(* The search for the end finds it, or goes past the offset.               *)
LEMMA StatEnd ==
  ASSUME TypeOK, Fits, NEW L \in Nat, Reached(L), Under(L), NEW off \in Nat,
         NEW n \in Objects, obj[n] # None, n <= ObjNum(off),
         \A m \in Objects : n < m /\ m <= ObjNum(off) => obj[m] = None
  PROVE  /\ EndOf(n) \in Nat /\ EndOf(n) <= L
         /\ EndOf(n) < off => EndOf(n) = L
<1>0. /\ n \in Nat /\ Len(obj[n]) \in Nat /\ Len(obj[n]) <= ObjSize /\ EndOf(n) \in Nat
      /\ EndOf(n) <= L /\ Packed(-1, 0) /\ ObjSize \in Nat /\ Objects = 0 .. Top + 1 /\ Top \in Nat
      /\ n * ObjSize \in Nat
  BY EndNat, ShownPacked, TopParts, SizeAssumption DEF Under, Fits
<1>1. ASSUME EndOf(n) < off PROVE EndOf(n) = L
  <2>0. /\ ObjNum(off) \in Nat /\ Within(off) \in Nat /\ Within(off) < ObjSize
        /\ off = ObjNum(off) * ObjSize + Within(off)
    BY Division
  <2>1. ASSUME NEW m \in Objects, obj[m] # None, n < m PROVE FALSE
    <3>1. Full(n) /\ m \in Nat
      BY <1>0, <2>1 DEF Packed
    <3>2. ObjNum(off) < m
      BY <1>0, <2>0, <2>1
    <3>3. CASE n < ObjNum(off)
      <4>1. n + 1 \in Objects /\ n < n + 1 /\ n + 1 <= ObjNum(off) /\ n + 1 < m
        BY <1>0, <2>0, <2>1, <3>2, <3>3
      <4>2. Full(n + 1)
        BY <1>0, <2>1, <4>1 DEF Packed
      <4> QED BY <4>1, <4>2 DEF Full
    <3>4. CASE n = ObjNum(off)
      <4>1. PICK a \in Nat : a = n * ObjSize
        BY <1>0
      <4>2. EndOf(n) = a + ObjSize /\ off = a + Within(off)
        BY <2>0, <3>1, <3>4, <4>1 DEF EndOf, Full
      <4> QED BY <1>0, <1>1, <2>0, <4>2
    <3> QED BY <1>0, <2>0, <3>3, <3>4
  <2>2. ASSUME NEW m \in Objects, obj[m] # None, m < n PROVE EndOf(m) <= EndOf(n)
    <3>1. m \in Nat /\ Len(obj[m]) \in Nat /\ Len(obj[m]) <= ObjSize /\ m * ObjSize \in Nat
      BY <2>2, EndNat DEF Fits
    <3>2. m * ObjSize + ObjSize <= n * ObjSize
      BY <1>0, <2>2, <3>1, Apart
    <3>3. PICK a \in Nat, b \in Nat : a = n * ObjSize /\ b = m * ObjSize
      BY <1>0, <3>1
    <3>4. EndOf(m) = b + Len(obj[m]) /\ EndOf(n) = a + Len(obj[n]) /\ b + ObjSize <= a
      BY <3>2, <3>3 DEF EndOf
    <3> QED BY <1>0, <3>1, <3>4
  <2>3. Under(EndOf(n))
    <3> SUFFICES ASSUME NEW m \in Objects, obj[m] # None PROVE EndOf(m) <= EndOf(n)
      BY DEF Under
    <3>1. CASE m = n
      BY <1>0, <3>1
    <3>2. m < n \/ m = n \/ n < m
      BY <1>0
    <3> QED BY <2>1, <2>2, <3>1, <3>2
  <2>4. PICK e \in Nat : e = EndOf(n)
    BY <1>0
  <2>5. Reached(e) /\ Under(e)
    <3>1. Reached(n * ObjSize + Len(obj[n]))
      BY <1>0, EndReached
    <3> QED BY <2>3, <2>4, <3>1 DEF EndOf
  <2>6. Len(Contents) = e /\ Len(Contents) = L
    BY <2>5, LengthIs
  <2> QED BY <2>4, <2>6
<1> QED BY <1>0, <1>1

(* An empty file has no objects.                                           *)
LEMMA NothingThere ==
  ASSUME TypeOK, Fits, Packed(-1, 0), 0 \in Objects, obj[0] = None
  PROVE  /\ \A m \in Objects : obj[m] = None
         /\ \A L \in Nat : Reached(L) /\ Under(L) => L = 0
<1>0. Objects = 0 .. Top + 1 /\ Top \in Nat
  BY TopParts
<1>1. ASSUME NEW m \in Objects PROVE obj[m] = None
  <2>1. CASE m = 0
    BY <2>1
  <2>2. CASE 0 < m
    <3> SUFFICES ASSUME obj[m] # None PROVE FALSE
      OBVIOUS
    <3>1. Full(0)
      BY <1>0, <2>2 DEF Packed
    <3> QED BY <3>1 DEF Full
  <2> QED BY <1>0, <2>1, <2>2
<1>2. ASSUME NEW L \in Nat, Reached(L), Under(L) PROVE L = 0
  <2>1. PICK z \in Nat : z = 0
    OBVIOUS
  <2>2. Reached(z) /\ Under(z)
    BY <1>1, <2>1, ReachedZero DEF Under
  <2>3. Len(Contents) = z /\ Len(Contents) = L
    BY <1>2, <2>2, LengthIs
  <2> QED BY <2>1, <2>3
<1> QED BY <1>1, <1>2

----------------------------------------------------------------------------
(* The steps of one operation.                                             *)

Solo == Proc = Local /\ Whole /\ LocalHolds /\ Flat /\ crashes = 0

(* What is known of one process.                                           *)
LEMMA SoloParts ==
  ASSUME Solo, NEW p \in Proc
  PROVE  /\ TypeOK /\ PlacesInv /\ Fits /\ Placing(op[p], job[p]) /\ ~torn /\ FlatAt(p)
         /\ op[p].off \in Nat /\ op[p].len \in Nat /\ job[p].num \in Nat /\ job[p].cur \in Nat
         /\ file \in Seq(Bytes) /\ Proc = Local /\ LocalHolds /\ HoleInv
BY AtPlace DEF Solo, Flat, TypeOK, Bytes

(* An operation that goes on must only be right at its next place.         *)
LEMMA GoesOn ==
  ASSUME Solo, NEW p \in Proc, op[p].kind \notin {"none", "read"},
         \A q \in Proc : q # p => Same(q), op'[p] = op[p], torn' = torn, FlatAt(p)'
  PROVE  Flat'
<1>1. PlacesInv /\ LocalHolds /\ Proc = Local /\ ~torn'
  BY SoloParts
<1> QED BY <1>1, FlatKept

(* One that ends must leave what it makes of the file.                     *)
LEMMA GoesAway ==
  ASSUME Solo, NEW p \in Proc, op[p].kind \notin {"none", "read"}, Ends({p}), torn' = torn,
         NEW t, file' = t, Shows(t)'
  PROVE  Flat'
<1>1. PlacesInv /\ LocalHolds /\ Proc = Local /\ ~torn'
  BY SoloParts
<1>2. job'[p].loc = "idle" /\ \A q \in Proc : q # p => Same(q)
  BY DEF Ends, NoJob
<1>3. FlatAt(p)' /\ Shows(file)'
  BY <1>2, FlatIdle, ShowsNext
<1> QED BY <1>1, <1>2, <1>3, FlatKept

(* The size is known: from the search to what comes next.                  *)
LEMMA KnownFlat ==
  ASSUME Solo, NEW p \in Proc, job[p].loc = "stat", NEW f \in Seq(Bytes), f = file, Shows(f),
         NEW lb \in Nat, lb <= Len(f), lb < op[p].off => lb = Len(f),
         NEW exists, ~exists => Len(f) = 0, SizeKnown(p, lb, exists),
         UNCHANGED <<obj, got, ops, crashes, reborn, torn, uncut, retaken>>
  PROVE  Flat'
<1>0. /\ TypeOK /\ Placing(op[p], job[p]) /\ op[p].off \in Nat /\ op[p].len \in Nat
      /\ job[p].num \in Nat /\ job \in [Proc -> JobType]
      /\ op[p].kind \in {"write", "append", "truncate"}
      /\ obj' \in [Objects -> Seq(Byte) \cup {None}]
  <2>1. /\ TypeOK /\ Placing(op[p], job[p]) /\ op[p].off \in Nat /\ op[p].len \in Nat
        /\ job[p].num \in Nat
    BY SoloParts
  <2>2. op[p].kind \in {"write", "append", "truncate"}
    BY <2>1 DEF Placing
  <2> QED BY <2>1, <2>2 DEF TypeOK
<1>1. Shows(f)'
  BY ShowsSame
<1>2. ASSUME NEW loc \in {"zero", "put", "cut"}, NEW cur \in Nat, Goto(p, loc, cur), UNCHANGED fileVars
      PROVE  /\ op'[p] = op[p] /\ job'[p].loc = loc /\ job'[p].cur = cur /\ file' = f
             /\ \A q \in Proc : q # p => Same(q)
  <2>1. op' = op /\ loc \in Locs /\ file' = f
    BY <1>2 DEF fileVars, Locs
  <2>2. Moves(p, loc, job[p].num, cur)
    BY <1>0, <1>2, <2>1, MoveForms
  <2> QED BY <2>1, <2>2 DEF Moves
<1>3. CASE lb < op[p].off /\ Goto(p, "zero", lb) /\ UNCHANGED fileVars
  <2>1. /\ op'[p] = op[p] /\ job'[p].loc = "zero" /\ job'[p].cur = lb /\ file' = f
        /\ \A q \in Proc : q # p => Same(q)
    BY <1>2, <1>3
  <2>2. Overlay(f, lb, <<>>) = f /\ Len(f) <= lb
    BY <1>3, OverlayNothing
  <2>3. FlatAt(p)'
    BY <1>1, <2>1, <2>2, FlatZero
  <2> QED BY <1>0, <2>1, <2>3, GoesOn
<1>4. CASE lb >= op[p].off /\ op[p].kind # "truncate" /\ Goto(p, "put", op[p].off) /\ UNCHANGED fileVars
  <2>0. PICK o : o = op[p]
    OBVIOUS
  <2>1. /\ op'[p] = op[p] /\ job'[p].loc = "put" /\ job'[p].cur = o.off /\ file' = f
        /\ \A q \in Proc : q # p => Same(q)
    BY <1>0, <1>2, <1>4, <2>0
  <2>2. Overlay(f, o.off, SubSeq(Buffer(p, o.len), 1, o.off - o.off)) = f
    <3>1. o.off \in Nat /\ o.len \in Nat /\ o.off <= Len(f) /\ o.off - o.off = 0
      BY <1>0, <1>4, <2>0
    <3>2. Buffer(p, o.len) \in Seq(Byte)
      BY <3>1, BytesType
    <3>3. SubSeq(Buffer(p, o.len), 0 + 1, 0) = <<>>
      BY <3>2, PartNone
    <3>4. SubSeq(Buffer(p, o.len), 1, o.off - o.off) = <<>>
      BY <3>1, <3>3
    <3>5. Overlay(f, o.off, <<>>) = f
      BY <3>1, OverlayNothing
    <3> QED BY <3>4, <3>5
  <2>3. FlatAt(p)'
    BY <1>1, <2>0, <2>1, <2>2, FlatPut
  <2> QED BY <1>0, <2>1, <2>3, GoesOn
<1>5. CASE lb >= op[p].off /\ op[p].kind = "truncate" /\ Goto(p, "cut", 0) /\ UNCHANGED fileVars
  <2>1. /\ op'[p] = op[p] /\ job'[p].loc = "cut" /\ file' = f
        /\ \A q \in Proc : q # p => Same(q)
    BY <1>2, <1>5
  <2>2. op'[p].off <= Len(f)
    BY <1>0, <1>5, <2>1
  <2>3. FlatAt(p)'
    BY <1>1, <2>1, <2>2, FlatCut
  <2> QED BY <1>0, <2>1, <2>3, GoesOn
<1>6. CASE lb >= op[p].off /\ op[p].kind = "truncate" /\ ~exists /\ Finish(p)
  <2>1. Ends({p})
    BY <1>0, <1>6, FinishForm
  <2>2. op[p].off = Len(f)
    BY <1>0, <1>6
  <2>3. file' = Cutoff(f, op[p].off)
    BY <1>6 DEF Finish, Cutoff
  <2>4. Cutoff(f, Len(f)) = f
    BY CutoffIs, OverlayNothing
  <2> QED BY <1>0, <1>1, <2>1, <2>2, <2>3, <2>4, GoesAway
<1> QED BY <1>3, <1>4, <1>5, <1>6 DEF SizeKnown

(* The search keeps Flat, found or not.                                    *)
LEMMA StatFlat ==
  ASSUME Solo, NEW p \in Proc, Stat(p)
  PROVE  Flat'
<1>0. /\ TypeOK /\ Fits /\ Placing(op[p], job[p]) /\ op[p].off \in Nat /\ op[p].len \in Nat
      /\ job[p].num \in Nat /\ job[p].cur \in Nat /\ file \in Seq(Bytes) /\ FlatAt(p)
      /\ job[p].loc = "stat" /\ job \in [Proc -> JobType]
      /\ UNCHANGED <<obj, got, ops, crashes, reborn, torn, uncut, retaken>>
  BY SoloParts DEF Stat, TypeOK
<1>1. op[p].kind \in {"write", "append", "truncate"} /\ job[p].num <= ObjNum(op[p].off)
      /\ op[p].off <= MaxSize
  <2>1. /\ op[p].kind \in {"write", "append", "truncate"} /\ job[p].num <= ObjNum(op[p].off)
        /\ op[p].off <= MaxSize \/ op[p].off + op[p].len <= MaxSize
    BY <1>0 DEF Placing
  <2> QED BY <1>0, <2>1, SizeAssumption
<1>2. PICK f \in Seq(Bytes), n \in Nat, x \in Nat : f = file /\ n = job[p].num /\ x = op[p].off
  BY <1>0
<1>3. Shows(f) /\ Reached(Len(f)) /\ Under(Len(f)) /\ Len(f) \in Nat /\ Packed(-1, 0)
  <2>1. Shows(f)
    BY <1>0, <1>2 DEF FlatAt
  <2>2. Reached(Len(f)) /\ Under(Len(f)) /\ Len(f) \in Nat
    BY <2>1 DEF Shows
  <2> QED BY <1>0, <2>1, <2>2, ShownPacked
<1>4. n \in Objects /\ n <= ObjNum(x) /\ ObjNum(x) \in Nat
      /\ \A m \in Objects : n < m /\ m <= ObjNum(x) => obj[m] = None
  <2>1. NoneAbove(p)
    BY <1>0 DEF FlatAt
  <2>2. ObjNum(x) \in Nat /\ ObjNum(x) \in Objects /\ n <= ObjNum(x)
    BY <1>1, <1>2, TopParts, Division
  <2>3. n \in Objects
    BY <2>2, TopParts
  <2> QED BY <1>2, <2>1, <2>2, <2>3 DEF NoneAbove
<1>5. CASE obj[n] # None /\ SizeKnown(p, n * ObjSize + Len(obj[n]), TRUE)
  <2>1. /\ EndOf(n) \in Nat /\ EndOf(n) <= Len(f) /\ (EndOf(n) < x => EndOf(n) = Len(f))
    BY <1>0, <1>3, <1>4, <1>5, StatEnd
  <2>2. PICK lb \in Nat : lb = EndOf(n)
    BY <2>1
  <2>3. lb <= Len(f) /\ (lb < op[p].off => lb = Len(f)) /\ SizeKnown(p, lb, TRUE)
    BY <1>2, <1>5, <2>1, <2>2 DEF EndOf
  <2> QED BY <1>0, <1>2, <1>3, <2>3, KnownFlat
<1>6. CASE obj[n] = None /\ n = 0 /\ SizeKnown(p, 0, FALSE)
  <2>1. Len(f) = 0
    BY <1>0, <1>3, <1>4, <1>6, NothingThere
  <2>2. 0 \in Nat /\ 0 <= Len(f) /\ (0 < op[p].off => 0 = Len(f)) /\ (~FALSE => Len(f) = 0)
    BY <2>1
  <2>3. UNCHANGED <<obj, got, ops, crashes, reborn, torn, uncut, retaken>>
    BY <1>0
  <2> QED BY <1>0, <1>2, <1>3, <1>6, <2>2, <2>3, KnownFlat, Zenon
<1>7. CASE obj[n] = None /\ n > 0 /\ job' = [job EXCEPT ![p].num = n - 1] /\ UNCHANGED fileVars
  <2>0. op' = op /\ n - 1 \in Nat /\ "stat" \in Locs /\ file' = f
    BY <1>2, <1>7 DEF fileVars, Locs
  <2>1. Moves(p, job[p].loc, n - 1, job[p].cur)
    BY <1>0, <1>7, <2>0, MoveForms
  <2>2. /\ op'[p] = op[p] /\ job'[p].loc = "stat" /\ job'[p].num = n - 1
        /\ \A q \in Proc : q # p => Same(q)
    BY <1>0, <2>1 DEF Moves
  <2>3. NoneAbove(p)'
    <3> SUFFICES ASSUME NEW m \in Objects, n - 1 < m, m <= ObjNum(x) PROVE obj[m] = None
      BY <1>0, <1>2, <2>2 DEF NoneAbove
    <3>1. m = n \/ n < m
      BY TopParts
    <3> QED BY <1>4, <1>7, <3>1
  <2>4. Shows(f)'
    BY <1>0, <1>3, ShowsSame
  <2>5. FlatAt(p)'
    BY <2>0, <2>2, <2>3, <2>4, FlatStat
  <2> QED BY <1>0, <1>1, <2>2, <2>5, GoesOn
<1>8. \/ obj[n] # None /\ SizeKnown(p, n * ObjSize + Len(obj[n]), TRUE)
      \/ obj[n] = None /\ n = 0 /\ SizeKnown(p, 0, FALSE)
      \/ obj[n] = None /\ n > 0 /\ job' = [job EXCEPT ![p].num = n - 1] /\ UNCHANGED fileVars
  BY <1>2 DEF Stat
<1> QED BY <1>5, <1>6, <1>7, <1>8

(* What a write within one object, from x on, leaves.                      *)
LEMMA WroteFlat ==
  ASSUME Solo, NEW p \in Proc, NEW s \in Seq(Bytes), Shows(s), NEW x \in Nat, x <= Len(s),
         NEW stop \in Nat, x < stop, stop <= MaxSize,
         NEW bytes \in Seq(Byte), Len(bytes) = SubLen(x, stop), Writes(x, bytes)
  PROVE  Shows(Overlay(s, x, bytes))' /\ obj' \in [Objects -> Seq(Byte) \cup {None}]
<1>0. TypeOK /\ Fits /\ ObjNum(x) \in Objects /\ ObjNum(x) <= Top /\ Within(x) \in Nat
      /\ NextBound(x) \in Nat /\ NextBound(x) = x - Within(x) + ObjSize /\ ObjSize \in Nat
  <2>1. TypeOK /\ Fits
    BY SoloParts
  <2>2. x <= MaxSize
    BY SizeAssumption
  <2> QED BY <2>1, <2>2, TopParts, Division, NextObject, SizeAssumption
<1>1. Within(x) + Len(bytes) <= ObjSize
  <2>1. SubLen(x, stop) <= NextBound(x) - x
    BY <1>0 DEF SubLen, Smaller
  <2> QED BY <1>0, <2>1
<1>2. Shows(Overlay(s, x, bytes))'
  BY <1>0, <1>1, WriteShows
<1>3. obj' \in [Objects -> Seq(Byte) \cup {None}]
  <2>1. obj[ObjNum(x)] \in Seq(Byte) \cup {None}
    BY <1>0, ObjParts
  <2>2. PICK r : r = RadosWrite(obj[ObjNum(x)], Within(x), bytes)
    OBVIOUS
  <2>3. r \in Seq(Byte)
    BY <1>0, <2>1, <2>2, WriteType
  <2>4. obj' = [obj EXCEPT ![ObjNum(x)] = r] /\ obj \in [Objects -> Seq(Byte) \cup {None}]
    BY <1>0, <2>2 DEF Writes, TypeOK
  <2> QED BY <2>3, <2>4
<1> QED BY <1>2, <1>3

(* Filling the gap keeps Flat.                                             *)
LEMMA ZeroFillFlat ==
  ASSUME Solo, NEW p \in Proc, ZeroFill(p)
  PROVE  Flat'
<1>0. /\ TypeOK /\ Placing(op[p], job[p]) /\ op[p].off \in Nat /\ op[p].len \in Nat
      /\ job[p].num \in Nat /\ job[p].cur \in Nat /\ file \in Seq(Bytes) /\ FlatAt(p)
      /\ job[p].loc = "zero" /\ job \in [Proc -> JobType]
      /\ UNCHANGED <<got, ops, crashes, reborn, torn, uncut, retaken>>
  BY SoloParts DEF ZeroFill, TypeOK
<1>1. op[p].kind \in {"write", "append", "truncate"} /\ job[p].cur < op[p].off
      /\ op[p].off <= MaxSize
  <2>1. /\ op[p].kind \in {"write", "append", "truncate"} /\ job[p].cur < op[p].off
        /\ op[p].off <= MaxSize \/ op[p].off + op[p].len <= MaxSize
    BY <1>0 DEF Placing
  <2> QED BY <1>0, <2>1, SizeAssumption
<1>2. PICK f \in Seq(Bytes), x \in Nat, stop \in Nat, k \in Nat :
        f = file /\ x = job[p].cur /\ stop = op[p].off /\ k = SubLen(x, stop)
  <2>1. NextBound(job[p].cur) \in Nat /\ job[p].cur < NextBound(job[p].cur)
    BY <1>0, NextObject
  <2>2. SubLen(job[p].cur, op[p].off) \in Nat
    BY <1>0, <1>1, <2>1 DEF SubLen, Smaller
  <2> QED BY <1>0, <2>2
<1>3. x < stop /\ stop <= MaxSize /\ NextBound(x) \in Nat /\ x < NextBound(x)
      /\ x + k = Smaller(NextBound(x), stop)
  <2>1. x < stop /\ stop <= MaxSize /\ NextBound(x) \in Nat /\ x < NextBound(x)
    BY <1>1, <1>2, NextObject
  <2> QED BY <1>2, <2>1 DEF SubLen, Smaller
<1>4. PICK s \in Seq(Bytes) : s = Overlay(f, x, <<>>) /\ Len(s) = x /\ Shows(s) /\ Len(f) <= x
  <2>1. Len(f) <= x /\ Shows(Overlay(f, x, <<>>))
    BY <1>0, <1>2 DEF FlatAt
  <2>2. Overlay(f, x, <<>>) \in Seq(Bytes) /\ Len(Overlay(f, x, <<>>)) = x
    BY <2>1, CutoffIs
  <2> QED BY <2>1, <2>2
<1>5. Writes(x, Zeros(k))
  BY <1>2 DEF ZeroFill, Writes
<1>6. Shows(Overlay(s, x, Zeros(k)))' /\ obj' \in [Objects -> Seq(Byte) \cup {None}]
  <2>1. Zeros(k) \in Seq(Byte) /\ Len(Zeros(k)) = SubLen(x, stop)
    BY <1>2, BytesType
  <2>2. x <= Len(s)
    BY <1>4
  <2> QED BY <1>3, <1>4, <1>5, <2>1, <2>2, WroteFlat
<1>7. Shows(Overlay(f, x + k, <<>>))' /\ x + k \in Nat /\ Len(f) <= x + k
  <2>1. Overlay(s, x, Zeros(k)) = Overlay(f, x + k, <<>>)
    BY <1>4, OverlayZeros
  <2> QED BY <1>4, <1>6, <2>1
<1>8. ASSUME NEW loc \in {"zero", "put"}, NEW cur \in Nat, Goto(p, loc, cur), UNCHANGED fileVars
      PROVE  /\ op'[p] = op[p] /\ job'[p].loc = loc /\ job'[p].cur = cur /\ file' = f
             /\ \A q \in Proc : q # p => Same(q)
  <2>1. op' = op /\ loc \in Locs /\ file' = f
    BY <1>2, <1>8 DEF fileVars, Locs
  <2>2. Moves(p, loc, job[p].num, cur)
    BY <1>0, <1>8, <2>1, MoveForms
  <2> QED BY <2>1, <2>2 DEF Moves
<1>9. CASE NextBound(x) < stop /\ Goto(p, "zero", NextBound(x)) /\ UNCHANGED fileVars
  <2>1. /\ op'[p] = op[p] /\ job'[p].loc = "zero" /\ job'[p].cur = x + k /\ file' = f
        /\ \A q \in Proc : q # p => Same(q)
    <3>1. x + k = NextBound(x)
      BY <1>3, <1>9 DEF Smaller
    <3> QED BY <1>3, <1>8, <1>9, <3>1
  <2>2. FlatAt(p)'
    BY <1>7, <2>1, FlatZero
  <2> QED BY <1>0, <1>1, <2>1, <2>2, GoesOn
<1>10. CASE NextBound(x) >= stop /\ op[p].kind # "truncate" /\ Goto(p, "put", stop) /\ UNCHANGED fileVars
  <2>0. PICK o : o = op[p]
    OBVIOUS
  <2>1. /\ op'[p] = o /\ job'[p].loc = "put" /\ job'[p].cur = stop /\ file' = f
        /\ \A q \in Proc : q # p => Same(q)
    BY <1>8, <1>10, <2>0
  <2>2. x + k = stop
    BY <1>3, <1>10 DEF Smaller
  <2>3. Shows(Overlay(f, o.off, SubSeq(Buffer(p, o.len), 1, stop - o.off)))'
    <3>1. o.off = stop /\ o.len \in Nat /\ stop - o.off = 0
      BY <1>0, <1>2, <2>0
    <3>2. Buffer(p, o.len) \in Seq(Byte)
      BY <3>1, BytesType
    <3>3. SubSeq(Buffer(p, o.len), 0 + 1, 0) = <<>>
      BY <3>2, PartNone
    <3>4. SubSeq(Buffer(p, o.len), 1, stop - o.off) = <<>>
      BY <3>1, <3>3
    <3>5. Overlay(f, o.off, SubSeq(Buffer(p, o.len), 1, stop - o.off)) = Overlay(f, x + k, <<>>)
      BY <2>2, <3>1, <3>4
    <3> QED BY <1>7, <3>5
  <2>4. FlatAt(p)'
    BY <2>1, <2>3, FlatPut
  <2> QED BY <1>0, <1>1, <2>0, <2>1, <2>4, GoesOn
<1>11. CASE NextBound(x) >= stop /\ op[p].kind = "truncate" /\ Finish(p)
  <2>1. Ends({p})
    BY <1>0, <1>6, <1>11, FinishForm
  <2>2. x + k = stop
    BY <1>3, <1>11 DEF Smaller
  <2>3. file' = Cutoff(f, stop)
    BY <1>2, <1>11 DEF Finish, Cutoff
  <2>4. Overlay(f, x + k, <<>>) = Cutoff(f, stop)
    BY <1>7, <2>2, CutoffIs
  <2>5. Shows(Cutoff(f, stop))'
    BY <1>7, <2>4
  <2> QED BY <1>0, <1>1, <2>1, <2>3, <2>5, GoesAway
<1> QED BY <1>2, <1>9, <1>10, <1>11 DEF ZeroFill

(* Writing the bytes keeps Flat.                                           *)
LEMMA PutFlat ==
  ASSUME Solo, NEW p \in Proc, Put(p)
  PROVE  Flat'
<1>0. /\ TypeOK /\ Placing(op[p], job[p]) /\ op[p].off \in Nat /\ op[p].len \in Nat
      /\ job[p].num \in Nat /\ job[p].cur \in Nat /\ file \in Seq(Bytes) /\ FlatAt(p)
      /\ job[p].loc = "put" /\ job \in [Proc -> JobType]
      /\ UNCHANGED <<got, ops, crashes, reborn, torn, uncut, retaken>>
  BY SoloParts DEF Put, TypeOK
<1>1. /\ op[p].kind \in {"write", "append"} /\ op[p].off <= job[p].cur
      /\ job[p].cur < op[p].off + op[p].len /\ op[p].off + op[p].len <= MaxSize
  BY <1>0 DEF Placing
<1>o. PICK o : o = op[p]
  OBVIOUS
<1>2. PICK f \in Seq(Bytes), x \in Nat, off \in Nat, len \in Nat :
        f = file /\ x = job[p].cur /\ o = op[p] /\ off = o.off /\ len = o.len
  BY <1>0, <1>o
<1>3. PICK j \in Nat, stop \in Nat, b \in Seq(Byte) :
        /\ j = x - off /\ stop = off + len /\ b = Buffer(p, len) /\ Len(b) = len
        /\ off + j = x /\ x < stop /\ stop <= MaxSize
  <2>0. off <= x
    BY <1>1, <1>2
  <2>1. x - off \in Nat /\ off + (x - off) = x /\ off + len \in Nat
    BY <2>0
  <2>2. Buffer(p, len) \in Seq(Byte) /\ Len(Buffer(p, len)) = len
    BY BytesType
  <2> QED BY <1>1, <1>2, <2>1, <2>2
<1>4. PICK k \in Nat : k = SubLen(x, stop) /\ x + k = Smaller(NextBound(x), stop)
                       /\ NextBound(x) \in Nat /\ j + k <= len
  <2>1. NextBound(x) \in Nat /\ x < NextBound(x)
    BY NextObject
  <2>2. SubLen(x, stop) \in Nat /\ x + SubLen(x, stop) = Smaller(NextBound(x), stop)
        /\ x + SubLen(x, stop) <= stop
    BY <1>3, <2>1 DEF SubLen, Smaller
  <2>3. j + SubLen(x, stop) <= len
    BY <1>3, <2>2
  <2> QED BY <2>1, <2>2, <2>3
<1>5. PICK c \in Seq(Byte), d \in Seq(Byte), s \in Seq(Bytes) :
        /\ c = SubSeq(b, 1, j) /\ d = SubSeq(b, j + 1, j + k) /\ s = Overlay(f, off, c)
        /\ Len(d) = k /\ x <= Len(s) /\ Shows(s)
  <2>1. SubSeq(b, 1, j) \in Seq(Byte) /\ Len(SubSeq(b, 1, j)) = j
    <3>1. j <= Len(b)
      BY <1>3, <1>4
    <3> QED BY <3>1
  <2>2. SubSeq(b, j + 1, j + k) \in Seq(Byte) /\ Len(SubSeq(b, j + 1, j + k)) = k
    <3>1. j + k \in Nat /\ j + k <= Len(b) /\ j <= j + k /\ (j + k) - j = k
      BY <1>3, <1>4
    <3>2. SubSeq(b, j + 1, j + k) \in Seq(Byte) /\ Len(SubSeq(b, j + 1, j + k)) = (j + k) - j
      BY <3>1, PartType
    <3> QED BY <3>1, <3>2
  <2>3. PICK c : c = SubSeq(b, 1, j)
    OBVIOUS
  <2>4. PICK s : s = Overlay(f, off, c)
    OBVIOUS
  <2>5. s \in Seq(Bytes) /\ x <= Len(s)
    <3>1. Overlaid(s, f, off, c)
      BY <2>1, <2>3, <2>4, OverlayAt
    <3>2. s \in Seq(Bytes) /\ Len(s) = Larger(Len(f), off + j)
      BY <2>1, <2>3, <3>1 DEF Overlaid
    <3> QED BY <1>3, <3>2 DEF Larger
  <2>6. Shows(s)
    BY <1>0, <1>2, <1>3, <2>3, <2>4 DEF FlatAt
  <2> QED BY <2>1, <2>2, <2>3, <2>4, <2>5, <2>6
<1>6. Writes(x, d)
  BY <1>2, <1>3, <1>4, <1>5 DEF Put, Writes
<1>7. Shows(Overlay(s, x, d))' /\ obj' \in [Objects -> Seq(Byte) \cup {None}]
  BY <1>3, <1>4, <1>5, <1>6, WroteFlat
<1>8. PICK t : t = Overlay(s, x, d) /\ t = Overlay(f, off, SubSeq(b, 1, j + k)) /\ Shows(t)'
  <2>1. PICK e : e = SubSeq(b, 1, j + k)
    OBVIOUS
  <2>2. j + k \in Nat /\ j + k <= Len(b) /\ j <= j + k /\ x = off + j /\ j <= Len(b)
    BY <1>3, <1>4
  <2>3. e = c \o d
    <3>1. SubSeq(b, 0 + 1, j) \o SubSeq(b, j + 1, j + k) = SubSeq(b, 0 + 1, j + k)
      BY <2>2, Pieces
    <3>2. 0 + 1 = 1
      OBVIOUS
    <3>3. SubSeq(b, 1, j) \o SubSeq(b, j + 1, j + k) = SubSeq(b, 1, j + k)
      BY <3>1, <3>2
    <3> QED BY <1>5, <2>1, <3>3
  <2>4. e \in Seq(Byte) /\ x = off + Len(c)
    BY <1>5, <2>1, <2>2, <2>3
  <2>5. Overlay(Overlay(f, off, c), x, d) = Overlay(f, off, e)
    <3>1. e = Join(c, d)
      BY <2>3 DEF Join
    <3> QED BY <2>4, <3>1, OverlayParts
  <2> QED BY <1>5, <1>7, <2>1, <2>2, <2>5
<1>9. CASE NextBound(x) < stop /\ Goto(p, "put", NextBound(x)) /\ UNCHANGED fileVars
  <2>1. op' = op /\ "put" \in Locs /\ file' = f
    BY <1>2, <1>9 DEF fileVars, Locs
  <2>2. Moves(p, "put", job[p].num, NextBound(x))
    BY <1>0, <1>4, <1>9, <2>1, MoveForms
  <2>3. x + k = NextBound(x)
    BY <1>4, <1>9 DEF Smaller
  <2>4. PICK y \in Nat : y = x + k
    BY <1>4
  <2>5. op'[p] = o /\ job'[p].loc = "put" /\ job'[p].cur = y /\ \A q \in Proc : q # p => Same(q)
    BY <1>2, <2>2, <2>3, <2>4 DEF Moves
  <2>6. y - o.off = j + k
    <3>1. \A u, v, w, z \in Nat : u + v = w => (w + z) - u = v + z
      OBVIOUS
    <3>2. y - off = j + k
      BY <1>3, <2>4, <3>1
    <3> QED BY <1>2, <3>2
  <2>7. t = Overlay(f, o.off, SubSeq(Buffer(p, o.len), 1, y - o.off))
    BY <1>2, <1>3, <1>8, <2>6
  <2>8. FlatAt(p)'
    BY <1>8, <2>1, <2>5, <2>7, FlatPut
  <2> QED BY <1>0, <1>1, <1>2, <2>5, <2>8, GoesOn
<1>10. CASE NextBound(x) >= stop /\ Finish(p)
  <2>1. Ends({p})
    BY <1>0, <1>7, <1>10, FinishForm
  <2>2. x + k = stop
    BY <1>3, <1>4, <1>10 DEF Smaller
  <2>3. j + k = len
    <3>1. \A u, v, w, z \in Nat : u + v = w /\ w + z = u + len => v + z = len
      OBVIOUS
    <3>2. off + j = x /\ x + k = off + len
      BY <1>3, <2>2
    <3> QED BY <3>1, <3>2
  <2>4. SubSeq(b, 1, len) = b
    BY <1>3
  <2>5. t = Overlay(f, off, b)
    BY <1>8, <2>3, <2>4
  <2>6. file' = t
    BY <1>1, <1>2, <1>3, <1>10, <2>5 DEF Finish
  <2> QED BY <1>0, <1>1, <1>8, <2>1, <2>6, GoesAway
<1>11. (NextBound(x) < stop /\ Goto(p, "put", NextBound(x)) /\ UNCHANGED fileVars)
       \/ (NextBound(x) >= stop /\ Finish(p))
  BY <1>2, <1>3 DEF Put
<1> QED BY <1>9, <1>10, <1>11

----------------------------------------------------------------------------
(* Objects that are cut, and taken away behind the cut.                    *)
LEMMA ObjectFrom ==
  ASSUME NEW x \in Nat, NEW m \in Nat, m < ObjNum(x), NEW l \in Nat, l <= ObjSize
  PROVE  m * ObjSize + l <= x
<1>0. /\ ObjNum(x) \in Nat /\ Within(x) \in Nat /\ x = ObjNum(x) * ObjSize + Within(x)
      /\ ObjSize \in Nat
  BY Division, SizeAssumption
<1>1. m * ObjSize + ObjSize <= ObjNum(x) * ObjSize
  BY <1>0, Apart
<1>2. PICK a \in Nat, b \in Nat : a = m * ObjSize /\ b = ObjNum(x) * ObjSize
  <2>1. \A c, d \in Nat : c * d \in Nat
    OBVIOUS
  <2>2. m * ObjSize \in Nat /\ ObjNum(x) * ObjSize \in Nat
    BY <1>0, <2>1
  <2> QED BY <2>2
<1>3. a + ObjSize <= b /\ x = b + Within(x)
  BY <1>0, <1>1, <1>2
<1>4. a + l <= x
  BY <1>0, <1>3
<1> QED BY <1>2, <1>4

(* What the cut leaves of object n and of those before it.                 *)
CutOff(x, n) ==
  /\ CutAt(x)'
  /\ \A m \in Objects : m < n => obj'[m] = obj[m]
  /\ obj'[n] # None => obj[n] # None /\ Len(obj'[n]) = Within(x) /\ Within(x) <= Len(obj[n])
                       /\ \A i \in 1 .. Len(obj'[n]) : obj'[n][i] = obj[n][i]

(* RadosTrunc cuts it so.                                                  *)
LEMMA CutCuts ==
  ASSUME TypeOK, Fits, NEW x \in Nat, Reached(x), NEW n, n = ObjNum(x), n \in Objects,
         obj' = [obj EXCEPT ![n] = RadosTrunc(@, Within(x))]
  PROVE  CutOff(x, n)
<1>0. /\ n \in Nat /\ Within(x) \in Nat /\ Within(x) < ObjSize /\ x = n * ObjSize + Within(x)
      /\ obj[n] \in Seq(Byte) \cup {None} /\ Objects = 0 .. Top + 1 /\ Top \in Nat
  BY Division, ObjParts, TopParts
<1>w. PICK w \in Nat : w = Within(x)
  BY <1>0
<1>1. PICK r : w = Within(x) /\ r = RadosTrunc(obj[n], w)
  BY <1>w
<1>2. obj'[n] = r /\ \A m \in Objects : m # n => obj'[m] = obj[m]
  BY <1>1 DEF TypeOK
<1>3. (r = None <=> obj[n] = None) /\ (obj[n] # None => Len(r) = w)
  BY <1>0, <1>1, TruncType
<1>4. obj[n] # None => Len(obj[n]) \in Nat /\ w <= Len(obj[n])
  BY <1>0, <1>1 DEF Reached
<1>5. ASSUME obj[n] # None, NEW i \in 1 .. w PROVE r[i] = obj[n][i]
  <2>1. r = [h \in 1 .. w |-> IF h <= Len(obj[n]) THEN obj[n][h] ELSE Zero]
    BY <1>1, <1>5 DEF RadosTrunc
  <2>2. i <= Len(obj[n])
    BY <1>4, <1>5
  <2> QED BY <2>1, <2>2
<1>6. Reached(x)'
  <2>1. \A m \in Objects : m < n => Full(m)'
    BY <1>0, <1>2 DEF Reached, Full
  <2>2. w > 0 => obj'[n] # None /\ w <= Len(obj'[n])
    BY <1>0, <1>1, <1>2, <1>3 DEF Reached
  <2> QED BY <1>1, <2>1, <2>2 DEF Reached
<1>7. ASSUME NEW m \in Objects, m <= n, obj'[m] # None PROVE EndOf(m)' <= x
  <2>1. CASE m = n
    <3>1. EndOf(m)' = n * ObjSize + w
      BY <1>2, <1>3, <1>7, <2>1 DEF EndOf
    <3> QED BY <1>0, <1>1, <3>1
  <2>2. CASE m # n
    <3>1. obj'[m] = obj[m] /\ m < n /\ m \in Nat
      BY <1>0, <1>2, <1>7, <2>2
    <3>2. Len(obj[m]) \in Nat /\ Len(obj[m]) <= ObjSize
      BY <1>7, <3>1, ObjParts DEF Fits
    <3>3. m * ObjSize + Len(obj[m]) <= x
      BY <3>1, <3>2, ObjectFrom
    <3> QED BY <3>1, <3>3 DEF EndOf
  <2> QED BY <2>1, <2>2
<1>8. CutAt(x)'
  BY <1>6, <1>7 DEF CutAt
<1>9. \A m \in Objects : m < n => obj'[m] = obj[m]
  BY <1>0, <1>2
<1>10. obj'[n] # None => obj[n] # None /\ Len(obj'[n]) = Within(x) /\ Within(x) <= Len(obj[n])
                              /\ \A i \in 1 .. Len(obj'[n]) : obj'[n][i] = obj[n][i]
  BY <1>1, <1>2, <1>3, <1>4, <1>5
<1> QED BY <1>8, <1>9, <1>10 DEF CutOff

(* The objects that are left hold what they held.                          *)
LEMMA CutKept ==
  ASSUME NEW x \in Nat, ObjNum(x) \in Objects, CutAt(x),
         \A m \in Objects : m <= ObjNum(x) => obj'[m] = obj[m]
  PROVE  CutAt(x)'
<1>0. Objects = 0 .. Top + 1 /\ Top \in Nat /\ ObjNum(x) \in Nat
  BY TopParts, Division
<1>1. Reached(x)'
  BY <1>0 DEF CutAt, Reached, Full
<1>2. \A n \in Objects : n <= ObjNum(x) /\ obj'[n] # None => EndOf(n)' <= x
  BY DEF CutAt, EndOf
<1> QED BY <1>1, <1>2 DEF CutAt

(* With nothing behind the cut, the objects show the truncated file.       *)
LEMMA CutDone ==
  ASSUME TypeOK, NEW a \in Int, NEW n \in Nat, a < n, Packed(a, n),
         n \in Objects => obj[n] = None
  PROVE  \A m \in Objects : a < m => obj[m] = None
<1>0. Objects = 0 .. Top + 1 /\ Top \in Nat
  BY TopParts
<1> SUFFICES ASSUME NEW m \in Objects, a < m, obj[m] # None PROVE FALSE
  OBVIOUS
<1>1. ~(m < n) /\ m # n
  BY DEF Packed
<1>2. n \in Objects /\ n < m
  BY <1>0, <1>1
<1>3. Full(n)
  BY <1>2 DEF Packed
<1> QED BY <1>2, <1>3 DEF Full

(* While what is behind the cut is removed.                                *)
LEMMA FlatReap ==
  ASSUME NEW p, NEW f, NEW x, CutAt(x)', file' = f, x <= Len(f), op'[p].off = x,
         job'[p].loc \in {"reap", "drop"},
         \A n \in Objects : n <= ObjNum(x) /\ obj'[n] # None => Agrees(n, f)'
  PROVE  FlatAt(p)'
<1>1. CutAt(op[p].off)'
  BY DEF CutAt, Reached
<1>2. \A n \in Objects : n <= ObjNum(op'[p].off) /\ obj'[n] # None => Agrees(n, file)'
  BY DEF Agrees
<1> QED BY <1>1, <1>2 DEF FlatAt

(* The cut keeps Flat.                                                     *)
LEMMA CutFlat ==
  ASSUME Solo, NEW p \in Proc, Cut(p)
  PROVE  Flat'
<1>0. /\ TypeOK /\ Fits /\ Placing(op[p], job[p]) /\ op[p].off \in Nat
      /\ job[p].num \in Nat /\ file \in Seq(Bytes) /\ FlatAt(p)
      /\ job[p].loc = "cut" /\ job \in [Proc -> JobType]
      /\ UNCHANGED fileVars /\ UNCHANGED <<got, ops, crashes, reborn, torn, uncut, retaken>>
  BY SoloParts DEF Cut, TypeOK
<1>1. op[p].kind = "truncate" /\ op[p].off <= MaxSize
  BY <1>0 DEF Placing
<1>x. PICK f \in Seq(Bytes), x \in Nat : f = file /\ x = op[p].off
  BY <1>0
<1>2. PICK n : f = file /\ x = op[p].off /\ n = ObjNum(x)
  BY <1>x
<1>3. n \in Objects /\ n \in Nat
  BY <1>0, <1>1, <1>2, TopParts, Division
<1>4. Shows(f) /\ x <= Len(f) /\ Reached(x)
  <2>1. Shows(f) /\ x <= Len(f)
    BY <1>0, <1>2 DEF FlatAt
  <2>2. Len(f) \in Nat /\ Reached(Len(f))
    BY <2>1 DEF Shows
  <2> QED BY <1>0, <1>2, <1>3, <2>1, <2>2, ReachedBefore
<1>5. obj' = [obj EXCEPT ![n] = RadosTrunc(@, Within(x))]
      /\ job' = [job EXCEPT ![p].loc = "reap", ![p].num = n + 1]
  BY <1>2 DEF Cut
<1>6. /\ CutAt(x)'
      /\ \A m \in Objects : m < n => obj'[m] = obj[m]
      /\ obj'[n] # None => obj[n] # None /\ Len(obj'[n]) = Within(x) /\ Within(x) <= Len(obj[n])
                           /\ \A i \in 1 .. Len(obj'[n]) : obj'[n][i] = obj[n][i]
  <2>1. CutOff(x, n)
    BY <1>0, <1>2, <1>3, <1>4, <1>5, CutCuts
  <2> QED BY <2>1 DEF CutOff
<1>7. ASSUME NEW m \in Objects, m <= n, obj'[m] # None PROVE Agrees(m, f)'
  <2>1. CASE m = n
    <3>1. /\ obj[n] # None /\ Len(obj'[n]) = Within(x) /\ Within(x) <= Len(obj[n])
          /\ \A i \in 1 .. Len(obj'[n]) : obj'[n][i] = obj[n][i]
      BY <1>6, <1>7, <2>1
    <3>2. Agrees(n, f) /\ Len(obj[n]) \in Nat /\ Within(x) \in Nat
      BY <1>0, <1>3, <1>4, <3>1, ObjParts, Division DEF Shows
    <3>3. \A i \in 1 .. Len(obj'[n]) : i \in 1 .. Len(obj[n])
      BY <3>1, <3>2
    <3> QED BY <2>1, <3>1, <3>2, <3>3 DEF Agrees
  <2>2. CASE m # n
    <3>1. obj'[m] = obj[m]
      <4>1. m < n
        BY <1>3, <1>7, <2>2, TopParts
      <4> QED BY <1>6, <4>1
    <3>2. Agrees(m, f)
      BY <1>4, <1>7, <3>1 DEF Shows
    <3> QED BY <3>1, <3>2 DEF Agrees
  <2> QED BY <2>1, <2>2
<1>8. op'[p] = op[p] /\ job'[p].loc = "reap" /\ file' = f /\ \A q \in Proc : q # p => Same(q)
  <2>1. op' = op /\ "reap" \in Locs /\ n + 1 \in Nat /\ file' = f
    BY <1>0, <1>2, <1>3 DEF fileVars, Locs
  <2>2. Moves(p, "reap", n + 1, job[p].cur)
    BY <1>0, <1>5, <2>1, MoveForms
  <2> QED BY <2>1, <2>2 DEF Moves
<1>9. FlatAt(p)'
  <2>1. op'[p].off = x
    BY <1>2, <1>8
  <2> QED BY <1>2, <1>4, <1>6, <1>7, <1>8, <2>1, FlatReap
<1> QED BY <1>0, <1>1, <1>8, <1>9, GoesOn

(* Objects behind the cut, or of a file that is removed, go.               *)
LEMMA DropFlat ==
  ASSUME Solo, NEW p \in Proc, job[p].loc \in {"reap", "drop", "wipe"},
         \A q \in Proc : q # p => Same(q), op'[p] = op[p], torn' = torn, file' = file,
         job[p].loc = "wipe" => job'[p].loc = "wipe",
         job[p].loc # "wipe" =>
           /\ job'[p].loc \in {"reap", "drop"}
           /\ \A m \in Objects : m <= ObjNum(op[p].off) => obj'[m] = obj[m]
  PROVE  Flat'
<1>0. /\ Placing(op[p], job[p]) /\ op[p].off \in Nat /\ file \in Seq(Bytes) /\ FlatAt(p)
  BY SoloParts
<1>1. op[p].kind \in {"truncate", "unlink"}
  BY <1>0 DEF Placing
<1>2. CASE job[p].loc = "wipe"
  <2>1. FlatAt(p)'
    BY <1>2, FlatIdle
  <2> QED BY <1>1, <2>1, GoesOn
<1>3. CASE job[p].loc # "wipe"
  <2>1. PICK f \in Seq(Bytes), x \in Nat : f = file /\ x = op[p].off
    BY <1>0
  <2>2. ObjNum(x) \in Objects
    BY <1>0, <1>3, <2>1, TopParts DEF Placing
  <2>3. CutAt(x) /\ x <= Len(f)
        /\ \A n \in Objects : n <= ObjNum(x) /\ obj[n] # None => Agrees(n, f)
    BY <1>0, <1>3, <2>1 DEF FlatAt
  <2>4. CutAt(x)'
    BY <1>3, <2>1, <2>2, <2>3, CutKept
  <2>5. \A n \in Objects : n <= ObjNum(x) /\ obj'[n] # None => Agrees(n, f)'
    BY <1>3, <2>1, <2>3 DEF Agrees
  <2>6. FlatAt(p)'
    BY <1>3, <2>1, <2>3, <2>4, <2>5, FlatReap
  <2> QED BY <1>1, <2>6, GoesOn
<1> QED BY <1>2, <1>3

(* So does the end of the removal.                                         *)
LEMMA LastFlat ==
  ASSUME Solo, NEW p \in Proc, job[p].loc \in {"reap", "wipe"},
         job[p].num \in Objects => obj[job[p].num] = None,
         Finish(p), UNCHANGED <<obj, got, ops, crashes, reborn, torn, uncut, retaken>>
  PROVE  Flat'
<1>0. /\ TypeOK /\ Placing(op[p], job[p]) /\ op[p].off \in Nat /\ job[p].num \in Nat
      /\ file \in Seq(Bytes) /\ FlatAt(p) /\ Wholly(op[p], job[p])
      /\ obj' \in [Objects -> Seq(Byte) \cup {None}]
  <2>1. ~torn => Wholly(op[p], job[p])
    BY AtPlace DEF Solo
  <2> QED BY <2>1, SoloParts DEF TypeOK
<1>1. Ends({p})
  BY <1>0, FinishForm
<1>2. CASE job[p].loc = "wipe"
  <2>1. op[p].kind = "unlink" /\ Packed(-1, job[p].num)
    BY <1>0, <1>2 DEF Placing, Wholly
  <2>2. \A m \in Objects : -1 < m => obj[m] = None
    <3>1. PICK a \in Int : a = -1
      OBVIOUS
    <3>2. a < job[p].num /\ Packed(a, job[p].num)
      BY <1>0, <2>1, <3>1
    <3>3. \A m \in Objects : a < m => obj[m] = None
      BY <1>0, <3>2, CutDone
    <3> QED BY <3>1, <3>3
  <2>3. \A m \in Objects : obj[m] = None
    BY <2>2, TopParts
  <2>4. PICK t \in Seq(Bytes) : t = <<>> /\ Len(t) = 0
    <3>1. <<>> \in Seq(Bytes) /\ Len(<<>>) = 0
      OBVIOUS
    <3> QED BY <3>1
  <2>5. Shows(t)
    BY <2>3, <2>4, ReachedZero DEF Shows, Under
  <2>6. file' = t
    BY <2>1, <2>4 DEF Finish
  <2>7. Shows(t)'
    BY <2>5, ShowsSame
  <2> QED BY <1>1, <2>1, <2>6, <2>7, GoesAway
<1>3. CASE job[p].loc = "reap"
  <2>1. PICK f \in Seq(Bytes), x \in Nat, n \in Nat : f = file /\ x = op[p].off /\ n = ObjNum(x)
    BY <1>0, Division
  <2>2. op[p].kind = "truncate" /\ n < job[p].num /\ Packed(n, job[p].num)
    BY <1>0, <1>3, <2>1 DEF Placing, Wholly
  <2>3. \A m \in Objects : n < m => obj[m] = None
    BY <1>0, <2>1, <2>2, CutDone
  <2>4. CutAt(x) /\ x <= Len(f)
        /\ \A m \in Objects : m <= n /\ obj[m] # None => Agrees(m, f)
    BY <1>0, <1>3, <2>1 DEF FlatAt
  <2>5. PICK t \in Seq(Bytes) :
          t = Cutoff(f, x) /\ Len(t) = x /\ \A i \in 1 .. x : i <= Len(f) => t[i] = f[i]
    BY CutoffIs
  <2>6. \A m \in Objects : obj[m] # None => m <= n
    BY <2>1, <2>3, TopParts
  <2>7. Reached(x) /\ Under(x)
    BY <2>1, <2>4, <2>6 DEF CutAt, Under
  <2>8. ASSUME NEW m \in Objects, obj[m] # None PROVE Agrees(m, t)
    <3> SUFFICES ASSUME NEW i \in 1 .. Len(obj[m]) PROVE obj[m][i] = t[m * ObjSize + i]
      BY DEF Agrees
    <3>1. obj[m][i] = f[m * ObjSize + i]
      BY <2>4, <2>6, <2>8 DEF Agrees
    <3>2. PICK a \in Nat : a = m * ObjSize
      BY <1>0, <2>8, EndNat
    <3>3. EndOf(m) = a + Len(obj[m]) /\ EndOf(m) <= x /\ Len(obj[m]) \in Nat
      BY <1>0, <2>7, <2>8, <3>2, EndNat DEF EndOf, Under
    <3>4. a + i \in 1 .. x /\ a + i <= Len(f)
      BY <2>4, <3>3
    <3> QED BY <2>5, <3>1, <3>2, <3>4
  <2>9. Shows(t)
    BY <2>5, <2>7, <2>8 DEF Shows
  <2>10. file' = t
    BY <2>1, <2>2, <2>5 DEF Finish, Cutoff
  <2>11. Shows(t)'
    BY <2>9, ShowsSame
  <2> QED BY <1>1, <2>2, <2>10, <2>11, GoesAway
<1> QED BY <1>2, <1>3

(* And the removal of one object.                                          *)
LEMMA ReapFlat ==
  ASSUME Solo, NEW p \in Proc, ReapStat(p) \/ ReapDrop(p) \/ Wipe(p)
  PROVE  Flat'
<1>0. /\ TypeOK /\ Fits /\ Placing(op[p], job[p]) /\ job[p].num \in Nat /\ op[p].off \in Nat
      /\ job \in [Proc -> JobType] /\ obj \in [Objects -> Seq(Byte) \cup {None}]
  BY SoloParts DEF TypeOK
<1>1. CASE ReapStat(p)
  <2>1. job[p].loc = "reap" /\ UNCHANGED <<obj, got, ops, crashes, reborn, torn, uncut, retaken>>
    BY <1>1 DEF ReapStat
  <2>2. CASE Finish(p) /\ (job[p].num \in Objects => obj[job[p].num] = None)
    BY <2>1, <2>2, LastFlat
  <2>3. CASE Goto(p, "drop", 0) /\ UNCHANGED fileVars
    <3>1. op' = op /\ "drop" \in Locs /\ file' = file
      BY <2>3 DEF fileVars, Locs
    <3>2. Moves(p, "drop", job[p].num, 0)
      BY <1>0, <2>1, <2>3, <3>1, MoveForms
    <3>3. /\ op'[p] = op[p] /\ job'[p].loc = "drop" /\ \A q \in Proc : q # p => Same(q)
      BY <3>2 DEF Moves
    <3> QED BY <2>1, <3>1, <3>3, DropFlat
  <2> QED BY <1>1, <2>2, <2>3 DEF ReapStat
<1>2. CASE ReapDrop(p)
  <2>1. PICK n \in Nat : n = job[p].num
    BY <1>0
  <2>2. job[p].loc = "drop" /\ UNCHANGED fileVars /\ torn' = torn /\ obj' = [obj EXCEPT ![n] = None]
        /\ job' = [job EXCEPT ![p].loc = "reap", ![p].num = n + 1]
    BY <1>0, <1>2, <2>1 DEF ReapDrop, JobType
  <2>3. n > ObjNum(op[p].off) /\ ObjNum(op[p].off) \in Nat
    BY <1>0, <2>1, <2>2, Division DEF Placing
  <2>4. op' = op /\ "reap" \in Locs /\ n + 1 \in Nat /\ file' = file
    BY <2>2 DEF fileVars, Locs
  <2>5. Moves(p, "reap", n + 1, job[p].cur)
    BY <1>0, <2>2, <2>4, MoveForms
  <2>6. op'[p] = op[p] /\ job'[p].loc = "reap" /\ \A q \in Proc : q # p => Same(q)
    BY <2>5 DEF Moves
  <2>7. \A m \in Objects : m <= ObjNum(op[p].off) => obj'[m] = obj[m]
    <3>1. \A m \in Objects : m <= ObjNum(op[p].off) => m # n
      BY <2>3, TopParts
    <3> QED BY <1>0, <2>2, <3>1
  <2> QED BY <2>2, <2>4, <2>6, <2>7, DropFlat
<1>3. CASE Wipe(p)
  <2>1. job[p].loc = "wipe" /\ UNCHANGED <<got, ops, crashes, reborn, torn, uncut, retaken>>
    BY <1>3 DEF Wipe
  <2>2. CASE Finish(p) /\ UNCHANGED obj /\ (job[p].num \in Objects => obj[job[p].num] = None)
    BY <2>1, <2>2, LastFlat
  <2>3. CASE job' = [job EXCEPT ![p].num = job[p].num + 1] /\ UNCHANGED fileVars
    <3>1. op' = op /\ job[p].num + 1 \in Nat /\ "wipe" \in Locs /\ file' = file
      BY <1>0, <2>3 DEF fileVars, Locs
    <3>2. Moves(p, job[p].loc, job[p].num + 1, job[p].cur)
      BY <1>0, <2>1, <2>3, <3>1, MoveForms
    <3>3. op'[p] = op[p] /\ job'[p].loc = "wipe" /\ \A q \in Proc : q # p => Same(q)
      BY <2>1, <3>2 DEF Moves
    <3> QED BY <2>1, <3>1, <3>3, DropFlat
  <2> QED BY <1>3, <2>2, <2>3 DEF Wipe
<1> QED BY <1>1, <1>2, <1>3

(* What begins, and with which lock or which size.                         *)
StartsAs(p, o, loc) ==
  \/ /\ loc = "stat" /\ o.kind \in {"write", "append"}
     /\ o.len > 0 /\ o.off + o.len <= MaxSize
     /\ Lock(p) \/ SetSize(p, Larger(size, o.off + o.len))
  \/ /\ loc = "stat" /\ o.kind = "truncate" /\ o.off <= MaxSize
     /\ Lock(p) \/ SetSize(p, o.off)
  \/ /\ loc = "wipe" /\ o.kind = "unlink"
     /\ Lock(p) \/ (p \notin Local /\ UNCHANGED <<size, mutex>>)
  \/ /\ loc = "read" /\ o.kind = "read"
     /\ UNCHANGED <<size, mutex>>

(* An operation begins, at its first place.                                *)
Starts(p, o, loc) ==
  /\ o \in OpType /\ o.off \in Nat /\ o.len \in Nat
  /\ Begin(p, o, loc) /\ Begins(p, o, loc) /\ StartsAs(p, o, loc)

(* Every beginning is one of these.                                        *)
LEMMA StartForm ==
  ASSUME TypeOK, NEW p \in Proc, Start(p)
  PROVE  \E o, loc : Starts(p, o, loc)
<1> USE SizeAssumption
<1>0. size \in Nat /\ mutex \in Proc \cup {None}
  BY DEF TypeOK
<1>A. ASSUME NEW o \in OpType, NEW loc \in {"stat", "wipe", "read"}, Begin(p, o, loc),
             StartsAs(p, o, loc)
      PROVE  \E u, l : Starts(p, u, l)
  <2>1. o.off \in Nat /\ o.len \in Nat /\ loc \in Locs
    BY DEF OpType, Locs
  <2>2. size' \in Nat /\ mutex' \in Proc \cup {None}
    BY <1>0, <1>A, <2>1 DEF StartsAs, Lock, SetSize, Larger
  <2>3. Begins(p, o, loc)
    BY <1>A, <2>1, <2>2, BeginForm
  <2> QED BY <1>A, <2>1, <2>3 DEF Starts
<1>1. ASSUME NEW kind \in {"write", "append"}, NEW off \in 0 .. MaxSize, NEW len \in 1 .. MaxLen,
             local_write(p, kind, off, len) \/ rpc_write(p, kind, off, len)
      PROVE  \E u, l : Starts(p, u, l)
  <2> DEFINE o == WriteOp(kind, off, len)
  <2>1. o \in OpType /\ o.kind = kind /\ o.len = len /\ o.off \in Nat
    BY <1>0 DEF OpType, WriteOp
  <2> HIDE DEF o
  <2>2. /\ o.off + o.len <= MaxSize /\ Begin(p, o, "stat")
        /\ Lock(p) \/ SetSize(p, Larger(size, o.off + o.len))
    BY <1>1, <2>1 DEF local_write, rpc_write, o
  <2>3. StartsAs(p, o, "stat")
    BY <2>1, <2>2 DEF StartsAs
  <2> QED BY <1>A, <2>1, <2>2, <2>3
<1>2. ASSUME NEW off \in 0 .. MaxSize, local_truncate(p, off) \/ rpc_truncate(p, off)
      PROVE  \E u, l : Starts(p, u, l)
  <2> DEFINE o == TruncateOp(off)
  <2>1. o \in OpType /\ o.kind = "truncate" /\ o.off = off
    BY DEF OpType, TruncateOp
  <2> HIDE DEF o
  <2>2. Begin(p, o, "stat") /\ (Lock(p) \/ SetSize(p, off))
    BY <1>2 DEF local_truncate, rpc_truncate, o
  <2>3. StartsAs(p, o, "stat")
    BY <2>1, <2>2 DEF StartsAs
  <2> QED BY <1>A, <2>1, <2>2, <2>3
<1>3. ASSUME local_unlink(p) \/ rpc_unlink(p) PROVE \E u, l : Starts(p, u, l)
  <2>1. UnlinkOp \in OpType /\ UnlinkOp.kind = "unlink"
    BY DEF OpType, UnlinkOp
  <2>2. Begin(p, UnlinkOp, "wipe") /\ (Lock(p) \/ (p \notin Local /\ UNCHANGED <<size, mutex>>))
    BY <1>3 DEF local_unlink, rpc_unlink
  <2>3. StartsAs(p, UnlinkOp, "wipe")
    BY <2>1, <2>2 DEF StartsAs
  <2> QED BY <1>A, <2>1, <2>2, <2>3
<1>4. ASSUME NEW off \in 0 .. MaxSize, NEW len \in 1 .. MaxLen, local_read(p, off, len)
      PROVE  \E u, l : Starts(p, u, l)
  <2> DEFINE o == [kind |-> "read", off |-> off, len |-> len]
  <2>1. o \in OpType /\ o.kind = "read" /\ o.off = off /\ o.len = len
    BY DEF OpType
  <2>2. Begin(p, o, "read") /\ UNCHANGED <<size, mutex>>
    BY <1>4 DEF local_read
  <2> HIDE DEF o
  <2>3. StartsAs(p, o, "read")
    BY <2>1, <2>2 DEF StartsAs
  <2> QED BY <1>A, <2>1, <2>2, <2>3
<1> QED BY <1>1, <1>2, <1>3, <1>4 DEF Start

(* Who only reads changes nothing for the others.                          *)
LEMMA FlatSame ==
  ASSUME NEW q, Same(q), obj' = obj, file' = file, FlatAt(q)
  PROVE  FlatAt(q)'
<1>1. PICK f, o, l, n, c : f = file /\ o = op[q] /\ l = job[q].loc /\ n = job[q].num /\ c = job[q].cur
  OBVIOUS
<1>2. file' = f /\ op'[q] = o /\ job'[q].loc = l /\ job'[q].num = n /\ job'[q].cur = c
  BY <1>1 DEF Same
<1>3. CASE l = "stat"
  <2>1. Shows(f)' /\ NoneAbove(q)'
    BY <1>1, <1>2, <1>3, ShowsSame DEF FlatAt, NoneAbove
  <2> QED BY <1>2, <1>3, <2>1, FlatStat
<1>4. CASE l = "zero"
  <2>1. Len(f) <= c /\ Shows(Overlay(f, c, <<>>))
    BY <1>1, <1>4 DEF FlatAt
  <2> QED BY <1>2, <1>4, <2>1, ShowsSame, FlatZero
<1>5. CASE l = "put"
  <2>1. Shows(Overlay(f, o.off, SubSeq(Buffer(q, o.len), 1, c - o.off)))
    BY <1>1, <1>5 DEF FlatAt
  <2> QED BY <1>2, <1>5, <2>1, ShowsSame, FlatPut
<1>6. CASE l = "cut"
  <2>1. Shows(f) /\ o.off <= Len(f)
    BY <1>1, <1>6 DEF FlatAt
  <2> QED BY <1>2, <1>6, <2>1, ShowsSame, FlatCut
<1>7. CASE l \in {"reap", "drop"}
  <2>1. PICK x : x = o.off
    OBVIOUS
  <2>2. /\ CutAt(x) /\ x <= Len(f)
        /\ \A n1 \in Objects : n1 <= ObjNum(x) /\ obj[n1] # None => Agrees(n1, f)
    BY <1>1, <1>7, <2>1 DEF FlatAt
  <2>3. /\ CutAt(x)'
        /\ \A n1 \in Objects : n1 <= ObjNum(x) /\ obj'[n1] # None => Agrees(n1, f)'
    BY <2>2 DEF CutAt, Reached, Full, EndOf, Agrees
  <2> QED BY <1>2, <1>7, <2>1, <2>2, <2>3, FlatReap
<1> QED BY <1>1, <1>2, <1>3, <1>4, <1>5, <1>6, <1>7 DEF FlatAt

(* They keep Flat.                                                         *)
LEMMA LooksFlat ==
  ASSUME Solo, NEW p \in Proc, op[p].kind \in {"none", "read"}, op'[p].kind \in {"none", "read"},
         job'[p].loc \in {"idle", "read", "return"}, \A q \in Proc : q # p => Same(q),
         obj' = obj, file' = file, torn' => torn
  PROVE  Flat'
<1>1. ~torn' /\ \A q \in Proc : FlatAt(q)
  BY SoloParts
<1>2. \A q \in Proc : FlatAt(q)'
  <2>1. FlatAt(p)'
    BY FlatIdle
  <2>2. ASSUME NEW q \in Proc, q # p PROVE FlatAt(q)'
    BY <1>1, <2>2, FlatSame
  <2> QED BY <2>1, <2>2
<1>3. Writers' = {} => Shows(file)'
  <2> SUFFICES ASSUME Writers' = {} PROVE Shows(file)'
    OBVIOUS
  <2>1. Writers = {}
    BY DEF Writers, Same
  <2>2. PICK f : f = file
    OBVIOUS
  <2>3. Shows(f)
    BY <2>1, <2>2 DEF Solo, Flat
  <2> QED BY <2>2, <2>3, ShowsSame, ShowsNext
<1> QED BY <1>1, <1>2, <1>3 DEF Flat

(* Beginning keeps Flat: the mutex admits one change at a time.            *)
LEMMA StartFlat ==
  ASSUME Solo, NEW p \in Proc, Start(p)
  PROVE  Flat'
<1>1. TypeOK /\ ~torn /\ PlacesInv /\ LocalHolds /\ Proc = Local
  BY SoloParts
<1>2. PICK o, loc : Starts(p, o, loc)
  BY <1>1, StartForm
<1>3. /\ op'[p] = o /\ job'[p].loc = loc /\ job'[p].num = ObjNum(o.off) /\ o.off \in Nat
      /\ \A q \in Proc : q # p => Same(q)
      /\ obj' = obj /\ file' = file /\ op[p].kind = "none"
      /\ torn' => torn \/ Meets(o)
  <2>1. Begins(p, o, loc) /\ Begin(p, o, loc) /\ o.off \in Nat
    BY <1>2 DEF Starts
  <2>2. op[p].kind = "none" /\ file' = file
    <3>1. op[p] = NoOp
      BY <2>1 DEF Begins
    <3>2. file' = file
      BY <2>1, Zenon DEF Begin
    <3> QED BY <3>1, <3>2 DEF NoOp
  <2>3. torn' => torn \/ Meets(o)
    BY <2>1, Zenon DEF Begin, Meets
  <2> QED BY <2>1, <2>2, <2>3 DEF Begins
<1>4. CASE loc = "read"
  <2>1. o.kind = "read" /\ ~Meets(o)
    BY <1>2, <1>4 DEF Starts, StartsAs, Meets
  <2> QED BY <1>1, <1>3, <1>4, <2>1, LooksFlat
<1>5. CASE loc # "read"
  <2>1. Lock(p) /\ loc \in {"stat", "wipe"} /\ o.kind \notin {"none", "read"}
    BY <1>1, <1>2, <1>5 DEF Starts, StartsAs, SetSize
  <2>2. \A q \in Proc : op[q].kind \in {"none", "read"}
    BY <1>1, <2>1, NoneAssumption DEF Lock, LocalHolds
  <2>3. Writers = {} /\ Cutters = {}
    BY <2>2 DEF Writers, Cutters
  <2>4. ~torn'
    BY <1>1, <1>3, <2>3 DEF Meets
  <2>5. PICK f : f = file
    OBVIOUS
  <2>6. Shows(f)'
    BY <2>3, <2>5, <1>3, ShowsSame DEF Solo, Flat
  <2>7. FlatAt(p)'
    <3>1. CASE loc = "wipe"
      BY <1>3, <3>1, FlatIdle
    <3>2. CASE loc = "stat"
      <4>1. NoneAbove(p)'
        <5>1. ObjNum(o.off) \in Nat
          BY <1>3, Division
        <5>2. \A m \in Objects : m \in Nat
          BY TopParts
        <5> QED BY <1>3, <5>1, <5>2 DEF NoneAbove
      <4> QED BY <1>3, <2>5, <2>6, <3>2, <4>1, FlatStat
    <3> QED BY <2>1, <3>1, <3>2
  <2>8. ASSUME NEW q \in Proc, q # p PROVE FlatAt(q)'
    <3>1. job'[q].loc \in {"idle", "read", "return"}
      BY <1>1, <1>3, <2>2, <2>8, Resting DEF Same
    <3> QED BY <3>1, FlatIdle
  <2>9. Writers' # {}
    BY <1>3, <2>1 DEF Writers
  <2> QED BY <2>4, <2>7, <2>8, <2>9 DEF Flat
<1> QED BY <1>4, <1>5

(* Reading keeps Flat.                                                     *)
LEMMA ReadFlat ==
  ASSUME Solo, NEW p \in Proc, ReadObj(p) \/ Return(p)
  PROVE  Flat'
<1>0. /\ TypeOK /\ Placing(op[p], job[p]) /\ op \in [Proc -> OpType] /\ job \in [Proc -> JobType]
  BY SoloParts DEF TypeOK
<1>1. CASE Return(p)
  <2>1. /\ job[p].loc = "return" /\ op' = [op EXCEPT ![p] = NoOp] /\ job' = [job EXCEPT ![p] = NoJob]
        /\ obj' = obj /\ file' = file /\ torn' = torn
    BY <1>1 DEF Return
  <2>2. op[p].kind = "read"
    BY <1>0, <2>1 DEF Placing
  <2>3. op'[p].kind = "none" /\ job'[p].loc = "idle" /\ \A q \in Proc : q # p => Same(q)
    BY <1>0, <2>1 DEF Same, NoOp, NoJob
  <2> QED BY <2>1, <2>2, <2>3, LooksFlat
<1>2. CASE ReadObj(p)
  <2>1. /\ job[p].loc = "read" /\ op' = op /\ obj' = obj /\ file' = file /\ torn' = torn
    BY <1>2 DEF ReadObj, fileVars
  <2>2. op[p].kind = "read" /\ op'[p].kind = "read"
    BY <1>0, <2>1 DEF Placing
  <2>3. PICK loc, y : loc \in {"read", "return"} /\ Goto(p, loc, y)
    <3>1. \/ Goto(p, "return", 0)
          \/ Goto(p, "read", NextBound(job[p].cur))
          \/ Goto(p, "return", NextBound(job[p].cur))
      BY <1>2 DEF ReadObj
    <3> QED BY <3>1
  <2>4. job'[p].loc = loc /\ \A q \in Proc : q # p => Same(q)
    BY <1>0, <2>1, <2>3 DEF Goto, Same, JobType
  <2> QED BY <2>1, <2>2, <2>3, <2>4, LooksFlat
<1> QED BY <1>1, <1>2

----------------------------------------------------------------------------
(* Every step of an operation keeps Flat.                                  *)
LEMMA StepFlat ==
  ASSUME Solo, NEW p \in Proc, Step(p)
  PROVE  Flat'
BY StatFlat, ZeroFillFlat, PutFlat, CutFlat, ReapFlat, ReadFlat DEF Step

(* No crash is forgotten.                                                  *)
LEMMA CrashesStay ==
  ASSUME TypeOK, [Next]_vars
  PROVE  crashes' = 0 => crashes = 0
<1>1. crashes \in Nat
  BY DEF TypeOK
<1>2. CASE LeaderCrash
  BY <1>1, <1>2 DEF LeaderCrash
<1>3. ASSUME NEW p \in Proc, Crash(p) PROVE crashes' = crashes + 1
  BY <1>3 DEF Crash
<1>4. ASSUME NEW p \in Proc, Start(p) PROVE crashes' = crashes
  <2>1. PICK o, loc : Starts(p, o, loc)
    BY <1>4, StartForm
  <2> QED BY <2>1 DEF Starts, Begin
<1>5. ASSUME NEW p \in Proc, Step(p) PROVE crashes' = crashes
  BY <1>5 DEF Step, Stat, ZeroFill, Put, Cut, ReapStat, ReapDrop, Wipe, ReadObj, Return
<1>6. CASE UNCHANGED vars
  BY <1>6 DEF vars
<1>7. ASSUME NEW p \in Proc, Open(p) PROVE crashes' = crashes
  BY <1>7, OpenForm DEF Opens
<1> QED BY <1>1, <1>2, <1>3, <1>4, <1>5, <1>6, <1>7 DEF Next

(* Flat is inductive.                                                      *)
LEMMA NextFlat ==
  ASSUME Proc = Local, Whole, LocalHolds, Flat, [Next]_vars
  PROVE  Flat'
<1>1. CASE crashes' # 0
  BY <1>1 DEF Flat
<1>2. CASE crashes' = 0
  <2>0. TypeOK /\ crashes = 0 /\ Solo
    BY <1>2, CrashesStay DEF Whole, Solo
  <2>1. ~LeaderCrash /\ \A p \in Proc : ~Crash(p)
    BY <1>2, <2>0 DEF LeaderCrash, Crash, TypeOK
  <2>2. CASE UNCHANGED vars \/ \E p \in Proc : Open(p)
    <3>0. UNCHANGED <<obj, file, torn, op, job>>
      <4>1. CASE UNCHANGED vars
        BY <4>1 DEF vars, fileVars
      <4>2. CASE \E p \in Proc : Open(p)
        BY <4>2, OpenForm DEF Opens
      <4> QED BY <2>2, <4>1, <4>2
    <3>1. /\ obj' = obj /\ file' = file /\ torn' = torn /\ op' = op /\ \A q \in Proc : Same(q)
      BY <3>0 DEF Same
    <3>2. \A q \in Proc : FlatAt(q)'
      BY <1>2, <2>0, <3>1, FlatSame DEF Solo, Flat
    <3>3. PICK f : f = file
      OBVIOUS
    <3>4. Writers' = {} => Shows(f)'
      BY <2>0, <3>1, <3>3, ShowsSame DEF Solo, Flat, Writers
    <3>5. Writers' = {} => Shows(file)'
      BY <3>1, <3>3, <3>4, ShowsNext
    <3>6. ~torn'
      BY <2>0, <3>1 DEF Solo, Flat
    <3> QED BY <3>2, <3>5, <3>6 DEF Flat
  <2>3. CASE Next /\ ~ \E p \in Proc : Open(p)
    BY <2>0, <2>1, <2>3, StartFlat, StepFlat DEF Next
  <2> QED BY <2>2, <2>3
<1> QED BY <1>1, <1>2

(* It holds of the empty file.                                             *)
LEMMA InitFlat == Init => Flat
<1> SUFFICES ASSUME Init PROVE Flat
  OBVIOUS
<1>1. ~torn /\ \A p \in Proc : job[p].loc = "idle"
  BY DEF Init, NoJob
<1>2. \A p \in Proc : FlatAt(p)
  BY <1>1 DEF FlatAt
<1>3. Len(file) = 0 /\ \A n \in Objects : obj[n] = None
  BY DEF Init
<1>4. Shows(file)
  BY <1>3, ReachedZero DEF Shows, Under
<1> QED BY <1>1, <1>2, <1>4 DEF Flat

(* Zeros are only written from the end of the data on.                     *)
LEMMA ZeroAtEnd ==
  ASSUME Solo, NEW p \in Proc, job[p].loc = "zero"
  PROVE  job[p].cur >= Len(Contents)
<1>1. PICK f \in Seq(Bytes), x \in Nat : f = file /\ x = job[p].cur
  BY SoloParts
<1>2. TypeOK /\ Fits /\ Len(f) <= x /\ Shows(Overlay(f, x, <<>>))
  BY <1>1, SoloParts DEF FlatAt
<1>3. Len(Overlay(f, x, <<>>)) = x
  BY <1>2, CutoffIs
<1>4. Reached(x) /\ Under(x)
  BY <1>2, <1>3 DEF Shows
<1>5. Len(Contents) = x
  BY <1>2, <1>4, LengthIs
<1> QED BY <1>1, <1>5

(* The invariant of the leader's own operations.                           *)
LocalInv == IInv /\ PlaceKnown /\ Whole /\ Flat

(***************************************************************************)
(* However many threads of the leader read, write, append, truncate and    *)
(* remove, the objects of rados_io.cpp, put together, are the plain file   *)
(* that the finished operations make: the inode's mutex, which             *)
(* local_ops.cpp holds to the end, makes one change of the stripes.        *)
(***************************************************************************)
THEOREM StripesAreFlat == ASSUME Proc = Local PROVE Spec => []StripedIsFlat
<1>1. Init => LocalInv
  BY InitInv, InitWhole, InitFlat DEF LocalInv
<1>2. LocalInv /\ [Next]_vars => LocalInv'
  BY NextInv, NextWhole, NextFlat DEF LocalInv, IInv
<1>3. LocalInv => StripedIsFlat
  <2> SUFFICES ASSUME LocalInv, Writers = {}, crashes = 0 PROVE Contents = file
    BY DEF StripedIsFlat
  <2>1. TypeOK /\ Fits /\ Shows(file)
    BY DEF LocalInv, Whole, PlacesInv, Flat
  <2>2. file \in Seq(Byte \cup {None})
    BY <2>1 DEF TypeOK
  <2> QED BY <2>1, <2>2, ShowsContents
<1> QED
  BY <1>1, <1>2, <1>3, PTL DEF Spec

(***************************************************************************)
(* The zeros rados_io.cpp writes before a write behind the end never cover *)
(* a byte that was there: the size it has searched for is still the size,  *)
(* since the mutex is held.  It takes a leader that does not die, for a    *)
(* removal cut short leaves data behind the place where the next search    *)
(* ends; and no other client, whose write overtakes the search.            *)
(***************************************************************************)
THEOREM HolesAreFilled == ASSUME Proc = Local, MaxCrashes = 0 PROVE Spec => FillsHolesOnly
<1> DEFINE Inv == LocalInv /\ crashes = 0
           Fills == \A p \in Proc : job[p].loc = "zero" /\ obj' # obj /\ job'[p] # job[p] =>
                                      job[p].cur >= Len(Contents)
<1>1. Init => Inv
  BY InitInv, InitWhole, InitFlat DEF LocalInv, Init
<1>2. Inv /\ [Next]_vars => Inv'
  <2> SUFFICES ASSUME Inv, [Next]_vars PROVE Inv'
    OBVIOUS
  <2>1. LocalInv'
    BY NextInv, NextWhole, NextFlat DEF LocalInv, IInv
  <2>2. ~LeaderCrash /\ \A p \in Proc : ~Crash(p)
    BY DEF LeaderCrash, Crash
  <2>3. ASSUME NEW p \in Proc, Start(p) PROVE crashes' = crashes
    <3>1. PICK o, loc : Starts(p, o, loc)
      BY <2>3, StartForm DEF LocalInv, Whole
    <3> QED BY <3>1 DEF Starts, Begin
  <2>4. ASSUME NEW p \in Proc, Step(p) PROVE crashes' = crashes
    BY <2>4 DEF Step, Stat, ZeroFill, Put, Cut, ReapStat, ReapDrop, Wipe, ReadObj, Return
  <2>5. UNCHANGED vars => crashes' = crashes
    BY DEF vars
  <2>7. ASSUME NEW p \in Proc, Open(p) PROVE crashes' = crashes
    BY <2>7, OpenForm DEF Opens
  <2>6. crashes' = crashes
    BY <2>2, <2>3, <2>4, <2>5, <2>7 DEF Next
  <2> QED BY <2>1, <2>6
<1>3. Inv => Fills
  BY ZeroAtEnd DEF LocalInv, Solo, IInv
<1>4. Inv /\ [Next]_vars => [Fills]_vars
  BY <1>3
<1> QED
  BY <1>1, <1>2, <1>4, PTL DEF Spec, FillsHolesOnly

(* The part of a file a read returns.                                      *)
Piece(s, a, b) == SubSeq(s, a + 1, Smaller(b, Len(s)))

(* A piece and the next one are one piece.                                 *)
LEMMA PieceNext ==
  ASSUME NEW f \in Seq(Bytes), NEW o \in Nat, NEW x \in Nat, NEW y \in Nat, o <= x, x <= y
  PROVE  Join(Piece(f, o, x), Piece(f, x, y)) = Piece(f, o, y)
<1>0. PICK L \in Nat : L = Len(f)
  OBVIOUS
<1>1. CASE x <= L
  <2>1. PICK z \in Nat : z = Smaller(y, L)
    BY DEF Smaller
  <2>2. x <= z /\ z <= Len(f) /\ Smaller(x, L) = x
    BY <1>0, <1>1, <2>1 DEF Smaller
  <2>3. SubSeq(f, o + 1, x) \o SubSeq(f, x + 1, z) = SubSeq(f, o + 1, z)
    BY <2>2, Pieces
  <2> QED BY <1>0, <2>1, <2>2, <2>3 DEF Join, Piece
<1>2. CASE L < x
  <2>1. Smaller(x, L) = L /\ Smaller(y, L) = L
    BY <1>2 DEF Smaller
  <2>2. SubSeq(f, x + 1, L) = <<>>
    BY <1>0, <1>2, PartNone
  <2>3. PICK c \in Seq(Bytes) : c = SubSeq(f, o + 1, L)
    <3>1. CASE L <= o
      <4>1. SubSeq(f, o + 1, L) = <<>>
        BY <3>1, PartNone
      <4>2. <<>> \in Seq(Bytes)
        OBVIOUS
      <4> QED BY <4>1, <4>2
    <3>2. CASE o < L
      <4>1. SubSeq(f, o + 1, L) = [i \in 1 .. L - o |-> f[o + i]]
        BY <1>0, <3>2, PartIs
      <4>2. \A i \in 1 .. L - o : f[o + i] \in Bytes
        BY <1>0, <3>2
      <4>3. PICK m \in Nat : m = L - o
        BY <3>2
      <4>4. [i \in 1 .. m |-> f[o + i]] \in Seq(Bytes)
        BY <4>2, <4>3
      <4> QED BY <4>1, <4>3, <4>4
    <3> QED BY <3>1, <3>2
  <2>4. c \o <<>> = c
    OBVIOUS
  <2> QED BY <1>0, <2>1, <2>2, <2>3, <2>4 DEF Join, Piece
<1> QED BY <1>0, <1>1, <1>2

(* A piece of no length is empty.                                          *)
LEMMA PieceNone ==
  ASSUME NEW f \in Seq(Bytes), NEW o \in Nat
  PROVE  Piece(f, o, o) = <<>>
<1>1. PICK b \in Nat : b = Smaller(o, Len(f)) /\ b <= o
  BY DEF Smaller
<1>2. SubSeq(f, o + 1, b) = <<>>
  BY <1>1, PartNone
<1> QED BY <1>1, <1>2 DEF Piece

(* Behind the end there is nothing more.                                   *)
LEMMA PieceEnd ==
  ASSUME NEW f \in Seq(Bytes), NEW o \in Nat, NEW x \in Nat, NEW y \in Nat, Len(f) <= x, x <= y
  PROVE  Piece(f, o, x) = Piece(f, o, y)
<1>1. Smaller(x, Len(f)) = Len(f) /\ Smaller(y, Len(f)) = Len(f)
  BY DEF Smaller
<1> QED BY <1>1 DEF Piece

(* An object is full, or the last one.                                     *)
LEMMA ObjEnds ==
  ASSUME TypeOK, Fits, NEW L \in Nat, Reached(L), Under(L), NEW n \in Objects, obj[n] # None,
         NEW a \in Nat, a = n * ObjSize, NEW l \in Nat, l = Len(obj[n])
  PROVE  a + l <= L /\ l <= ObjSize /\ (a + l = L \/ l = ObjSize)
<1>0. /\ n \in Nat /\ ObjSize \in Nat /\ ObjNum(L) \in Nat /\ Within(L) \in Nat
      /\ L = ObjNum(L) * ObjSize + Within(L) /\ Within(L) < ObjSize
  BY EndNat, Division, SizeAssumption
<1>1. a + l <= L
  BY DEF Under, EndOf
<1>2. l <= ObjSize
  BY DEF Fits
<1>3. CASE n < ObjNum(L)
  BY <1>1, <1>2, <1>3 DEF Reached, Full
<1>4. CASE n = ObjNum(L)
  <2>1. L = a + Within(L)
    BY <1>0, <1>4
  <2>2. Within(L) > 0 => Within(L) <= l
    BY <1>4 DEF Reached
  <2>3. PICK v \in Nat : v = Within(L)
    BY <1>0
  <2>4. L = a + v /\ (v > 0 => v <= l)
    BY <2>1, <2>2, <2>3
  <2> QED BY <1>1, <1>2, <2>4
<1>5. CASE ObjNum(L) < n
  <2>1. ObjNum(L) * ObjSize + ObjSize <= n * ObjSize
    BY <1>0, <1>5, Apart
  <2>2. PICK b \in Nat : b = ObjNum(L) * ObjSize
    <3>1. \A c, d \in Nat : c * d \in Nat
      OBVIOUS
    <3> QED BY <1>0, <3>1
  <2>3. PICK v \in Nat : v = Within(L) /\ v < ObjSize
    BY <1>0
  <2>4. b + ObjSize <= a /\ L = b + v
    BY <1>0, <2>1, <2>2, <2>3
  <2>5. ObjSize \in Nat
    BY <1>0
  <2> QED BY <1>1, <2>3, <2>4, <2>5
<1>6. n < ObjNum(L) \/ n = ObjNum(L) \/ ObjNum(L) < n
  <2>1. \A u, v \in Nat : u < v \/ u = v \/ v < u
    OBVIOUS
  <2> QED BY <1>0, <2>1
<1> QED BY <1>3, <1>4, <1>5, <1>6

(* Bytes read from one object of a flat file are a piece of the file.      *)
LEMMA ReadBytes ==
  ASSUME TypeOK, Fits, NEW f \in Seq(Bytes), Shows(f), NEW x \in Nat, NEW n \in Objects,
         n = ObjNum(x), obj[n] # None, NEW stop \in Nat, x < stop,
         NEW y \in Nat, y = Smaller(NextBound(x), stop)
  PROVE  RadosRead(obj[n], Within(x), SubLen(x, stop)) = Piece(f, x, y)
<1>0. /\ n * ObjSize \in Nat /\ Len(obj[n]) \in Nat /\ Within(x) \in Nat
      /\ x = n * ObjSize + Within(x) /\ ObjSize \in Nat /\ obj[n] \in Seq(Byte)
      /\ NextBound(x) = x - Within(x) + ObjSize /\ NextBound(x) \in Nat
  BY EndNat, ObjParts, Division, NextObject, SizeAssumption
<1>1. PICK a \in Nat, l \in Nat, w \in Nat, L \in Nat :
        a = n * ObjSize /\ l = Len(obj[n]) /\ w = Within(x) /\ L = Len(f)
  BY <1>0
<1>2. a + l <= L /\ l <= ObjSize /\ (a + l = L \/ l = ObjSize)
  BY <1>1, ObjEnds DEF Shows
<1>3. x = a + w /\ NextBound(x) = a + ObjSize
  BY <1>0, <1>1
<1>4. x <= y /\ y <= a + ObjSize
  <2>1. PICK m \in Nat : m = NextBound(x) /\ m = a + ObjSize /\ x < m
    BY <1>0, <1>3, NextObject
  <2>2. y = Smaller(m, stop)
    BY <2>1
  <2> QED BY <2>1, <2>2 DEF Smaller
<1>5. PICK k \in Nat : k = y - x
  BY <1>4
<1>6. SubLen(x, stop) = k
  BY <1>5 DEF SubLen
<1>7. PICK e \in Nat : e = Smaller(w + k, l)
  BY DEF Smaller
<1>8. a + (w + k) = y
  BY <1>3, <1>4, <1>5
<1>9. a + e = Smaller(y, L)
  BY <1>2, <1>4, <1>7, <1>8 DEF Smaller
<1>10. PICK z \in Nat : z = Smaller(y, L) /\ z <= L
  BY DEF Smaller
<1>11. RadosRead(obj[n], Within(x), SubLen(x, stop)) = SubSeq(obj[n], w + 1, e)
  BY <1>1, <1>6, <1>7 DEF RadosRead
<1>12. Piece(f, x, y) = SubSeq(f, x + 1, z)
  BY <1>1, <1>10 DEF Piece
<1>13. CASE e <= w
  <2>1. z <= x
    BY <1>3, <1>9, <1>10, <1>13
  <2>2. SubSeq(obj[n], w + 1, e) = <<>>
    BY <1>0, <1>13, PartNone
  <2>3. SubSeq(f, x + 1, z) = <<>>
    BY <2>1, PartNone
  <2> QED BY <1>11, <1>12, <2>2, <2>3
<1>14. CASE w < e
  <2>1. e <= l
    BY <1>7 DEF Smaller
  <2>2. SubSeq(obj[n], w + 1, e) = [i \in 1 .. e - w |-> obj[n][w + i]]
    <3>1. obj[n] \in Seq(Byte) /\ w <= e /\ e <= Len(obj[n])
      <4>1. obj[n] \in Seq(Byte)
        BY <1>0
      <4>2. w <= e /\ e <= Len(obj[n])
        BY <1>1, <1>14, <2>1
      <4> QED BY <4>1, <4>2
    <3> QED BY <3>1, PartIs
  <2>3. x <= z /\ z - x = e - w
    BY <1>3, <1>9, <1>10, <1>14
  <2>4. SubSeq(f, x + 1, z) = [i \in 1 .. z - x |-> f[x + i]]
    BY <1>1, <1>10, <2>3, PartIs
  <2>5. ASSUME NEW i \in 1 .. e - w PROVE obj[n][w + i] = f[x + i]
    <3>1. PICK h \in 1 .. l : h = w + i
      BY <1>14, <2>1, <2>5
    <3>2. obj[n][h] = f[a + h]
      BY <1>1 DEF Shows, Agrees
    <3>3. a + h = x + i
      BY <1>3, <3>1
    <3> QED BY <3>1, <3>2, <3>3
  <2> QED BY <1>11, <1>12, <2>2, <2>3, <2>4, <2>5
<1> QED BY <1>13, <1>14

(* How far a read is.                                                      *)
ReadAt(p) ==
  /\ op[p].kind # "read" => got[p] = <<>>
  /\ job[p].calm /\ op[p].kind = "read" => Writers = {}
  /\ job[p].loc = "read" => op[p].off <= job[p].cur
  /\ job[p].calm /\ job[p].loc = "read" => got[p] = Piece(file, op[p].off, job[p].cur)
  /\ job[p].calm /\ job[p].loc = "return" =>
       got[p] = Piece(file, op[p].off, op[p].off + op[p].len)

(* The reads, until a client dies.                                         *)
Reads == crashes = 0 => \A p \in Proc : ReadAt(p)

(* One that does not read.                                                 *)
LEMMA ReadRest ==
  ASSUME NEW q, op'[q].kind # "read", job'[q].loc \notin {"read", "return"}, got'[q] = <<>>
  PROVE  ReadAt(q)'
BY DEF ReadAt

(* One that goes on reading.                                               *)
LEMMA ReadGoes ==
  ASSUME NEW q, NEW f, NEW o, NEW x, file' = f, op'[q] = o, o.kind = "read",
         job'[q].loc = "read", job'[q].cur = x, o.off <= x,
         job'[q].calm => Writers' = {} /\ got'[q] = Piece(f, o.off, x)
  PROVE  ReadAt(q)'
BY DEF ReadAt, Piece

(* One that has read.                                                      *)
LEMMA ReadDone ==
  ASSUME NEW q, NEW f, NEW o, file' = f, op'[q] = o, o.kind = "read",
         job'[q].loc = "return",
         job'[q].calm => Writers' = {} /\ got'[q] = Piece(f, o.off, o.off + o.len)
  PROVE  ReadAt(q)'
BY DEF ReadAt, Piece

(* The reads of the others, during a step.                                 *)
LEMMA ReadSame ==
  ASSUME NEW q \in Proc, PlacesInv, Same(q), got'[q] = got[q], ReadAt(q),
         job'[q].calm => job[q].calm,
         job'[q].calm /\ op[q].kind = "read" => file' = file /\ Writers' = {}
  PROVE  ReadAt(q)'
<1>1. PICK f, g, o, l, x : f = file' /\ g = got[q] /\ o = op[q] /\ l = job[q].loc /\ x = job[q].cur
  OBVIOUS
<1>2. file' = f /\ op'[q] = o /\ job'[q].loc = l /\ job'[q].cur = x /\ got'[q] = g
  BY <1>1 DEF Same
<1>3. Placing(o, job[q])
  BY <1>1 DEF PlacesInv
<1>4. CASE o.kind # "read"
  <2>1. l \notin {"read", "return"} /\ g = <<>>
    BY <1>1, <1>3, <1>4 DEF Placing, ReadAt
  <2> QED BY <1>2, <1>4, <2>1, ReadRest
<1>5. CASE o.kind = "read" /\ l = "read"
  <2>1. o.off <= x
    BY <1>1, <1>5 DEF ReadAt
  <2>2. job'[q].calm => Writers' = {} /\ g = Piece(f, o.off, x)
    BY <1>1, <1>5 DEF ReadAt
  <2> QED BY <1>2, <1>5, <2>1, <2>2, ReadGoes
<1>6. CASE o.kind = "read" /\ l = "return"
  <2>1. job'[q].calm => Writers' = {} /\ g = Piece(f, o.off, o.off + o.len)
    BY <1>1, <1>6 DEF ReadAt
  <2> QED BY <1>2, <1>6, <2>1, ReadDone
<1> QED BY <1>1, <1>3, <1>4, <1>5, <1>6 DEF Placing

(* A step of an operation that changes the file.                           *)
Works(p) ==
  \/ Finish(p)
  \/ /\ UNCHANGED fileVars
     /\ \E x, y : \/ job' = [job EXCEPT ![p].loc = x, ![p].cur = y]
                  \/ job' = [job EXCEPT ![p].loc = x, ![p].num = y]
                  \/ job' = [job EXCEPT ![p].num = y]

(* It changes neither what is read nor what is counted.                    *)
WorksOn(p) == job[p].loc \in AtWork /\ UNCHANGED <<got, ops, crashes, reborn, torn, uncut, retaken>> /\ Works(p)

(* Every step but those of a read has this form.                           *)
LEMMA WorkForm ==
  ASSUME NEW p \in Proc, Step(p)
  PROVE  ReadObj(p) \/ Return(p) \/ WorksOn(p)
<1> USE DEF AtWork
<1>1. CASE Stat(p)
  <2>1. ASSUME NEW lb, NEW exists, SizeKnown(p, lb, exists) PROVE Works(p)
    BY <2>1 DEF SizeKnown, Goto, Works
  <2>2. ASSUME NEW y, job' = [job EXCEPT ![p].num = y], UNCHANGED fileVars PROVE Works(p)
    BY <2>2 DEF Works
  <2>3. job[p].loc \in AtWork /\ UNCHANGED <<got, ops, crashes, reborn, torn, uncut, retaken>>
    BY <1>1 DEF Stat
  <2>4. Works(p)
    BY <1>1, <2>1, <2>2 DEF Stat
  <2> QED BY <2>3, <2>4 DEF WorksOn
<1>2. CASE ZeroFill(p)
  BY <1>2 DEF ZeroFill, Goto, Works, WorksOn
<1>3. CASE Put(p)
  BY <1>3 DEF Put, Goto, Works, WorksOn
<1>4. CASE Cut(p)
  BY <1>4 DEF Cut, Works, WorksOn
<1>5. CASE ReapStat(p)
  BY <1>5 DEF ReapStat, Goto, Works, WorksOn
<1>6. CASE ReapDrop(p)
  BY <1>6 DEF ReapDrop, Works, WorksOn
<1>7. CASE Wipe(p)
  BY <1>7 DEF Wipe, Works, WorksOn
<1> QED BY <1>1, <1>2, <1>3, <1>4, <1>5, <1>6, <1>7 DEF Step

(* It leaves the reads of the others where they are.                       *)
LEMMA WorkLeaves ==
  ASSUME TypeOK, PlacesInv, NEW p \in Proc, WorksOn(p)
  PROVE  /\ op[p].kind \notin {"none", "read"}
         /\ \A q \in Proc : q # p => Same(q) /\ job'[q].calm = job[q].calm
         /\ op'[p] = op[p] \/ op'[p] = NoOp
         /\ got' = got /\ crashes' = crashes /\ torn' = torn
<1>0. /\ job[p].loc \in AtWork /\ Works(p) /\ got' = got /\ crashes' = crashes /\ torn' = torn
      /\ op \in [Proc -> OpType] /\ job \in [Proc -> JobType]
  BY DEF WorksOn, TypeOK
<1>1. op[p].kind \notin {"none", "read"}
  BY <1>0 DEF PlacesInv, Placing, AtWork
<1>2. CASE Finish(p)
  <2>1. op' = [op EXCEPT ![p] = NoOp] /\ job' = [job EXCEPT ![p] = NoJob]
    BY <1>2 DEF Finish
  <2> QED BY <1>0, <1>1, <2>1 DEF Same
<1>3. CASE ~Finish(p)
  <2>1. op' = op
    BY <1>0, <1>3 DEF Works, fileVars
  <2>2. \A q \in Proc : q # p => job'[q] = job[q]
    BY <1>0, <1>3 DEF Works
  <2> QED BY <1>0, <1>1, <2>1, <2>2 DEF Same
<1> QED BY <1>2, <1>3

(* Changing the file keeps Reads: no calm read is beside it.               *)
LEMMA WorkReads ==
  ASSUME TypeOK, PlacesInv, PlacesInv', \A q \in Proc : ReadAt(q), NEW p \in Proc, WorksOn(p)
  PROVE  \A q \in Proc : ReadAt(q)'
<1>0. /\ op[p].kind \notin {"none", "read"}
      /\ \A q \in Proc : q # p => Same(q) /\ job'[q].calm = job[q].calm
      /\ op'[p] = op[p] \/ op'[p] = NoOp
      /\ got' = got
  BY WorkLeaves
<1>1. ReadAt(p)'
  <2>1. op'[p].kind # "read"
    BY <1>0 DEF NoOp
  <2>2. Placing(op'[p], job'[p])
    BY DEF PlacesInv
  <2>3. job'[p].loc \notin {"read", "return"}
    BY <2>1, <2>2 DEF Placing
  <2>4. got'[p] = <<>>
    BY <1>0 DEF ReadAt
  <2> QED BY <2>1, <2>3, <2>4, ReadRest
<1>2. ASSUME NEW q \in Proc, q # p PROVE ReadAt(q)'
  <2>1. Same(q) /\ got'[q] = got[q] /\ job'[q].calm = job[q].calm
    BY <1>0, <1>2
  <2>2. ~(job[q].calm /\ op[q].kind = "read")
    BY <1>0 DEF ReadAt, Writers
  <2> QED BY <2>1, <2>2, ReadSame
<1> QED BY <1>1, <1>2

(* Reading an object keeps Reads.                                          *)
LEMMA GetReads ==
  ASSUME Solo, \A q \in Proc : ReadAt(q), NEW p \in Proc, ReadObj(p)
  PROVE  \A q \in Proc : ReadAt(q)'
<1>0. /\ TypeOK /\ PlacesInv /\ Fits /\ Placing(op[p], job[p])
      /\ op[p].off \in Nat /\ op[p].len \in Nat /\ job[p].cur \in Nat /\ file \in Seq(Bytes)
      /\ job[p].loc = "read" /\ op' = op /\ file' = file
      /\ job \in [Proc -> JobType] /\ got \in [Proc -> Seq(Byte)]
  BY SoloParts DEF ReadObj, TypeOK, fileVars
<1>a. PICK f \in Seq(Bytes), x \in Nat : f = file /\ x = job[p].cur
  BY <1>0
<1>b. PICK o, n : o = op[p] /\ n = ObjNum(x)
  OBVIOUS
<1>c. PICK off \in Nat, stop \in Nat : off = o.off /\ stop = o.off + o.len
  <2>1. o.off \in Nat /\ o.len \in Nat
    BY <1>0, <1>b
  <2>2. PICK a \in Nat, b \in Nat : a = o.off /\ b = o.len
    BY <2>1
  <2>3. a + b \in Nat /\ o.off + o.len = a + b
    BY <2>2
  <2> QED BY <2>2, <2>3
<1>1. /\ f = file /\ o = op[p] /\ off = o.off /\ x = job[p].cur /\ stop = o.off + o.len
      /\ n = ObjNum(x)
  BY <1>a, <1>b, <1>c
<1>2. o.kind = "read" /\ x < stop /\ n \in Objects /\ off <= x
  BY <1>0, <1>1 DEF Placing, ReadAt
<1>3. Writers' = Writers
  BY <1>0 DEF Writers
<1>4. PICK next \in Nat : next = NextBound(x) /\ x < next
  BY NextObject
<1>5. PICK y \in Nat : y = Smaller(NextBound(x), stop)
  BY <1>4 DEF Smaller
<1>6. PICK d : d = RadosRead(obj[n], Within(x), SubLen(x, stop))
  OBVIOUS
<1>7. \/ obj[n] = None /\ Goto(p, "return", 0) /\ got' = got
      \/ /\ obj[n] # None /\ got' = [got EXCEPT ![p] = Join(@, d)]
         /\ Goto(p, IF next < stop THEN "read" ELSE "return", next)
  BY <1>1, <1>4, <1>6 DEF ReadObj, Join
<1>8. \A q \in Proc : q # p => job'[q] = job[q] /\ got'[q] = got[q]
  BY <1>0, <1>7 DEF Goto
<1>9. ASSUME NEW q \in Proc, q # p PROVE ReadAt(q)'
  <2>1. Same(q)
    BY <1>0, <1>8, <1>9 DEF Same
  <2>2. job[q].calm /\ op[q].kind = "read" => Writers' = {}
    BY <1>3 DEF ReadAt
  <2>3. job'[q].calm = job[q].calm /\ got'[q] = got[q] /\ file' = file
    BY <1>0, <1>8, <1>9
  <2> QED BY <1>0, <2>1, <2>2, <2>3, ReadSame
<1>10. job[p].calm => /\ Writers' = {} /\ Shows(f) /\ got[p] = Piece(f, off, x)
  <2> SUFFICES ASSUME job[p].calm PROVE Writers' = {} /\ Shows(f) /\ got[p] = Piece(f, off, x)
    OBVIOUS
  <2>1. Writers = {} /\ got[p] = Piece(f, off, x)
    BY <1>0, <1>1, <1>2 DEF ReadAt
  <2> QED BY <1>1, <1>3, <2>1 DEF Solo, Flat
<1>11. op'[p] = o /\ file' = f
  BY <1>0, <1>1
<1>12. CASE obj[n] = None
  <2>1. job'[p].loc = "return" /\ job'[p].calm = job[p].calm /\ got'[p] = got[p]
    BY <1>0, <1>7, <1>12 DEF Goto, JobType
  <2>2. job[p].calm => got[p] = Piece(f, off, stop)
    <3> SUFFICES ASSUME job[p].calm PROVE got[p] = Piece(f, off, stop)
      OBVIOUS
    <3>1. Len(f) <= x
      <4> SUFFICES ASSUME x < Len(f) PROVE FALSE
        OBVIOUS
      <4>1. Len(f) \in Nat /\ Reached(Len(f))
        BY <1>10 DEF Shows
      <4> QED BY <1>0, <1>1, <1>2, <1>12, <4>1, ReachedByte
    <3>2. x <= stop
      BY <1>2
    <3>3. Piece(f, off, x) = Piece(f, off, stop)
      BY <3>1, <3>2, PieceEnd
    <3> QED BY <1>10, <3>3
  <2>3. job'[p].calm => Writers' = {} /\ got'[p] = Piece(f, o.off, o.off + o.len)
    BY <1>1, <1>10, <2>1, <2>2
  <2> QED BY <1>2, <1>9, <1>11, <2>1, <2>3, ReadDone
<1>13. CASE obj[n] # None
  <2>1. got'[p] = Join(got[p], d) /\ Goto(p, IF next < stop THEN "read" ELSE "return", next)
    BY <1>0, <1>7, <1>13
  <2>2. job[p].calm => got'[p] = Piece(f, off, y)
    <3> SUFFICES ASSUME job[p].calm PROVE got'[p] = Piece(f, off, y)
      OBVIOUS
    <3>1. d = Piece(f, x, y)
      BY <1>0, <1>1, <1>2, <1>5, <1>6, <1>10, <1>13, ReadBytes
    <3>2. x <= y
      BY <1>2, <1>4, <1>5 DEF Smaller
    <3>3. Join(Piece(f, off, x), Piece(f, x, y)) = Piece(f, off, y)
      BY <1>2, <3>2, PieceNext
    <3> QED BY <1>10, <2>1, <3>1, <3>3
  <2>3. CASE next < stop
    <3>1. job'[p].loc = "read" /\ job'[p].cur = next /\ job'[p].calm = job[p].calm
      BY <1>0, <2>1, <2>3 DEF Goto, JobType
    <3>2. y = next /\ o.off <= next
      BY <1>1, <1>2, <1>4, <1>5, <2>3 DEF Smaller
    <3>3. job'[p].calm => Writers' = {} /\ got'[p] = Piece(f, o.off, next)
      BY <1>1, <1>10, <2>2, <3>1, <3>2
    <3> QED BY <1>2, <1>9, <1>11, <3>1, <3>2, <3>3, ReadGoes
  <2>4. CASE ~(next < stop)
    <3>1. job'[p].loc = "return" /\ job'[p].calm = job[p].calm
      BY <1>0, <2>1, <2>4 DEF Goto, JobType
    <3>2. y = stop
      BY <1>4, <1>5, <2>4 DEF Smaller
    <3>3. job'[p].calm => Writers' = {} /\ got'[p] = Piece(f, o.off, o.off + o.len)
      BY <1>1, <1>10, <2>2, <3>1, <3>2
    <3> QED BY <1>2, <1>9, <1>11, <3>1, <3>3, ReadDone
  <2> QED BY <2>3, <2>4
<1> QED BY <1>12, <1>13

(* So does returning.                                                      *)
LEMMA ReturnReads ==
  ASSUME TypeOK, PlacesInv, \A q \in Proc : ReadAt(q), NEW p \in Proc, Return(p)
  PROVE  \A q \in Proc : ReadAt(q)'
<1>0. /\ op \in [Proc -> OpType] /\ job \in [Proc -> JobType] /\ got \in [Proc -> Seq(Byte)]
      /\ job[p].loc = "return"
      /\ op' = [op EXCEPT ![p] = NoOp] /\ job' = [job EXCEPT ![p] = NoJob]
      /\ got' = [got EXCEPT ![p] = <<>>] /\ file' = file
  BY DEF TypeOK, Return
<1>1. op[p].kind = "read"
  BY <1>0 DEF PlacesInv, Placing
<1>2. op'[p] = NoOp /\ job'[p] = NoJob /\ got'[p] = <<>>
      /\ \A q \in Proc : q # p => op'[q] = op[q] /\ job'[q] = job[q] /\ got'[q] = got[q]
  BY <1>0
<1>3. Writers = {} => Writers' = {}
  BY <1>2 DEF Writers, NoOp
<1>4. ReadAt(p)'
  BY <1>2, ReadRest DEF NoOp, NoJob
<1>5. ASSUME NEW q \in Proc, q # p PROVE ReadAt(q)'
  <2>1. Same(q) /\ got'[q] = got[q] /\ job'[q].calm = job[q].calm
    BY <1>2, <1>5 DEF Same
  <2>2. job[q].calm /\ op[q].kind = "read" => Writers' = {}
    BY <1>3 DEF ReadAt
  <2> QED BY <1>0, <2>1, <2>2, ReadSame
<1> QED BY <1>4, <1>5

(* And beginning.                                                          *)
LEMMA StartReads ==
  ASSUME TypeOK, PlacesInv, \A q \in Proc : ReadAt(q), NEW p \in Proc, Start(p)
  PROVE  \A q \in Proc : ReadAt(q)'
<1>1. PICK o, loc : Starts(p, o, loc)
  BY StartForm
<1>2. /\ op[p] = NoOp /\ op'[p] = o /\ job'[p].loc = loc /\ job'[p].cur = o.off
      /\ \A q \in Proc : q # p => Same(q)
      /\ o.off \in Nat /\ StartsAs(p, o, loc) /\ Begin(p, o, loc)
  BY <1>1 DEF Starts, Begins
<1>3. got' = got /\ file' = file
  BY <1>2, Zenon DEF Begin
<1>4. job' = [q \in Proc |->
               IF q = p THEN [NoJob EXCEPT !.loc = loc, !.num = ObjNum(o.off),
                                           !.cur = o.off,
                                           !.calm = o.kind = "read" /\ Writers = {}]
               ELSE [job[q] EXCEPT !.calm = @ /\ o.kind = "read"]]
  BY <1>2, Zenon DEF Begin
<1>5. job'[p].calm <=> o.kind = "read" /\ Writers = {}
  BY <1>4 DEF NoJob
<1>6. ASSUME NEW q \in Proc, q # p PROVE job'[q].calm <=> job[q].calm /\ o.kind = "read"
  <2>1. job[q] \in JobType
    BY DEF TypeOK
  <2>2. job'[q] = [job[q] EXCEPT !.calm = @ /\ o.kind = "read"]
    BY <1>4, <1>6
  <2> QED BY <2>1, <2>2 DEF JobType
<1>7. o.kind = "read" /\ Writers = {} => Writers' = {}
  BY <1>2 DEF Writers, Same
<1>8. ReadAt(p)'
  <2>1. got'[p] = <<>>
    BY <1>2, <1>3 DEF ReadAt, NoOp
  <2>2. CASE o.kind # "read"
    <3>1. loc \notin {"read", "return"}
      BY <1>2, <2>2 DEF StartsAs
    <3> QED BY <1>2, <2>1, <2>2, <3>1, ReadRest
  <2>3. CASE o.kind = "read"
    <3>1. loc = "read"
      BY <1>2, <2>3 DEF StartsAs
    <3>2. PICK f \in Seq(Bytes) : f = file
      BY DEF TypeOK, Bytes
    <3>3. PICK x \in Nat : x = o.off /\ x <= x
      BY <1>2
    <3>4. Piece(f, x, x) = <<>>
      BY PieceNone
    <3>5. job'[p].calm => Writers' = {} /\ got'[p] = Piece(f, o.off, x)
      BY <1>5, <1>7, <2>1, <3>3, <3>4
    <3> QED BY <1>2, <1>3, <2>3, <3>1, <3>2, <3>3, <3>5, ReadGoes
  <2> QED BY <2>2, <2>3
<1>9. ASSUME NEW q \in Proc, q # p PROVE ReadAt(q)'
  <2>1. Same(q) /\ got'[q] = got[q] /\ file' = file
    BY <1>2, <1>3, <1>9
  <2>2. job'[q].calm => job[q].calm /\ o.kind = "read"
    BY <1>6, <1>9
  <2>3. job'[q].calm /\ op[q].kind = "read" => Writers' = {}
    BY <1>7, <2>2 DEF ReadAt
  <2> QED BY <2>1, <2>2, <2>3, ReadSame
<1> QED BY <1>8, <1>9

(* Reads is inductive, beside Flat.                                        *)
LEMMA NextReads ==
  ASSUME Proc = Local, Whole, CutsAlone, LocalHolds, Flat, Reads, [Next]_vars
  PROVE  Reads'
<1>1. CASE crashes' # 0
  BY <1>1 DEF Reads
<1>2. CASE crashes' = 0
  <2>0. TypeOK /\ PlacesInv /\ crashes = 0 /\ Solo /\ \A q \in Proc : ReadAt(q)
    BY <1>2, CrashesStay DEF Whole, Solo, Reads
  <2>1. ~LeaderCrash /\ \A p \in Proc : ~Crash(p)
    BY <1>2, <2>0 DEF LeaderCrash, Crash, TypeOK
  <2>2. PlacesInv'
    BY NextWhole DEF Whole
  <2>3. ASSUME NEW p \in Proc, Step(p) PROVE \A q \in Proc : ReadAt(q)'
    BY <2>0, <2>2, <2>3, WorkForm, WorkReads, GetReads, ReturnReads
  <2>4. CASE UNCHANGED vars \/ \E p \in Proc : Open(p)
    <3>0. UNCHANGED <<file, got, job, op>>
      <4>1. CASE UNCHANGED vars
        BY <4>1 DEF vars, fileVars
      <4>2. CASE \E p \in Proc : Open(p)
        BY <4>2, OpenForm DEF Opens
      <4> QED BY <2>4, <4>1, <4>2
    <3>1. /\ file' = file /\ got' = got /\ job' = job /\ Writers' = Writers /\ \A q \in Proc : Same(q)
      BY <3>0 DEF Same, Writers
    <3>2. ASSUME NEW q \in Proc PROVE ReadAt(q)'
      <4>1. job'[q].calm /\ op[q].kind = "read" => Writers' = {}
        BY <2>0, <3>1 DEF ReadAt
      <4> QED BY <2>0, <3>1, <4>1, ReadSame
    <3> QED BY <3>2 DEF Reads
  <2>5. CASE Next /\ ~ \E p \in Proc : Open(p)
    <3>1. \A q \in Proc : ReadAt(q)'
      BY <2>0, <2>1, <2>3, <2>5, StartReads DEF Next
    <3> QED BY <3>1 DEF Reads
  <2> QED BY <2>4, <2>5
<1> QED BY <1>1, <1>2

(* Nobody reads at the beginning.                                          *)
LEMMA InitReads == Init => Reads
BY DEF Init, Reads, ReadAt, NoJob, NoOp

(***************************************************************************)
(* A read of the leader that nobody has changed the file beside returns    *)
(* the bytes of the plain file, object by object, and stops at its end:    *)
(* none of another offset, none from behind the end, none missing.         *)
(***************************************************************************)
THEOREM ReadsAreFlat == ASSUME Proc = Local PROVE Spec => []ReadsFile
<1>1. Init => LocalInv /\ Reads
  BY InitInv, InitWhole, InitFlat, InitReads DEF LocalInv
<1>2. LocalInv /\ Reads /\ [Next]_vars => (LocalInv /\ Reads)'
  BY NextInv, NextWhole, NextFlat, NextReads DEF LocalInv, IInv
<1>3. LocalInv /\ Reads => ReadsFile
  BY DEF Reads, ReadAt, Piece, ReadsFile
<1> QED
  BY <1>1, <1>2, <1>3, PTL DEF Spec

(* The size the leader knows, and how far the data reaches.                *)
Writing(p) == op[p].kind \in {"write", "append"}
Claim(p) == op[p].off + op[p].len

(* No object ends behind the size, but for what a thread of the leader     *)
(* still writes; and the data reaches the size, but for what a client      *)
(* still writes.                                                           *)
Covered ==
  \A n \in Objects : obj[n] # None =>
    EndOf(n) <= size \/ \E p \in Local : Writing(p) /\ EndOf(n) <= Claim(p)
Filled == Reached(size) \/ \E p \in Proc \ Local : Writing(p) /\ size <= Claim(p)
Known == \A p \in Proc \ Local : Writing(p) => Claim(p) <= size

(* A truncation, which is alone.                                           *)
Shrinks(p) ==
  /\ p \notin Local => size = op[p].off
  /\ job[p].loc = "stat" => NoneAbove(p)
  /\ job[p].loc = "zero" => Under(op[p].off)
  /\ job[p].loc \in {"reap", "drop"} => CutAt(op[p].off)

(* The size and the data fit.                                              *)
Measured == Covered /\ Filled /\ Known

(* They do until a client dies, whenever nobody takes the size back; and   *)
(* who does is alone and has done what its place says.                     *)
Sized ==
  crashes = 0 /\ ~torn /\ ~uncut /\ linked =>
    /\ size <= MaxSize
    /\ Cutters = {} => Measured
    /\ \A p \in Proc : op[p].kind = "truncate" => Shrinks(p)

(* What a step may use.                                                    *)
Sizing == /\ Whole /\ CutsAlone /\ LocalHolds /\ Sized
          /\ crashes = 0 /\ ~torn /\ ~uncut /\ linked

(* What is known of one process.                                           *)
LEMMA SizingParts ==
  ASSUME Sizing, NEW p \in Proc
  PROVE  /\ TypeOK /\ PlacesInv /\ Fits /\ HoleInv
         /\ Placing(op[p], job[p]) /\ Wholly(op[p], job[p])
         /\ op[p].off \in Nat /\ op[p].len \in Nat /\ job[p].num \in Nat /\ job[p].cur \in Nat
         /\ size \in Nat /\ size <= MaxSize /\ MaxSize \in Nat
         /\ Cutters = {} => Measured
         /\ op[p].kind = "truncate" => Shrinks(p)
BY AtPlace, SizeAssumption DEF Sizing, Sized, TypeOK

(* An end, and the reach, when no object changes.                          *)
LEMMA SameEnds ==
  ASSUME obj' = obj
  PROVE  /\ \A n \in Objects : EndOf(n)' = EndOf(n)
         /\ \A x \in Nat : (Reached(x) => Reached(x)') /\ (Under(x) => Under(x)')
                           /\ (CutAt(x) => CutAt(x)')
<1>1. \A n \in Objects : EndOf(n)' = EndOf(n)
  BY DEF EndOf
<1>2. \A x \in Nat : Reached(x) => Reached(x)'
  BY DEF Reached, Full
<1>3. \A x \in Nat : Under(x) => Under(x)'
  BY <1>1 DEF Under
<1>4. \A x \in Nat : CutAt(x) => CutAt(x)'
  BY <1>1, <1>2 DEF CutAt
<1> QED BY <1>1, <1>2, <1>3, <1>4

(* Nothing that counts has changed.                                        *)
LEMMA SizedSame ==
  ASSUME Sizing, obj' = obj, size' = size,
         \A q \in Proc : op'[q] = op[q] \/ (op[q].kind \in {"none", "read"} /\ op'[q].kind \in {"none", "read"}),
         \A q \in Proc : op'[q].kind = "truncate" => Shrinks(q)'
  PROVE  Sized'
<1>0. size \in Nat /\ size <= MaxSize /\ (Cutters = {} => Measured)
  BY SizeAssumption DEF Sizing, Sized, Whole, TypeOK
<1>1. \A q \in Proc : /\ (Writing(q)' <=> Writing(q)) /\ (Writing(q) => Claim(q)' = Claim(q))
                      /\ (q \in Cutters' <=> q \in Cutters)
  BY DEF Writing, Claim, Cutters
<1>2. ASSUME Cutters' = {} PROVE Measured'
  <2>1. Measured
    BY <1>0, <1>1, <1>2 DEF Cutters
  <2>2. Covered'
    <3> SUFFICES ASSUME NEW n \in Objects, obj'[n] # None
                 PROVE  EndOf(n)' <= size' \/ \E q \in Local : Writing(q)' /\ EndOf(n)' <= Claim(q)'
      BY DEF Covered
    <3>1. EndOf(n)' = EndOf(n)
      BY SameEnds
    <3>2. EndOf(n) <= size \/ \E q \in Local : Writing(q) /\ EndOf(n) <= Claim(q)
      BY <2>1 DEF Measured, Covered
    <3> QED BY <1>1, <3>1, <3>2, LocalAssumption
  <2>3. Filled'
    <3>1. CASE Reached(size)
      <4>1. PICK s \in Nat : s = size
        BY <1>0
      <4>2. Reached(s)'
        BY <3>1, <4>1, SameEnds
      <4> QED BY <4>1, <4>2 DEF Filled
    <3>2. CASE \E q \in Proc \ Local : Writing(q) /\ size <= Claim(q)
      BY <1>1, <3>2 DEF Filled
    <3> QED BY <2>1, <3>1, <3>2 DEF Measured, Filled
  <2>4. Known'
    BY <1>1, <2>1 DEF Known, Measured
  <2> QED BY <2>2, <2>3, <2>4 DEF Measured
<1> QED BY <1>0, <1>2 DEF Sized

(* A truncation or removal goes on, alone.                                 *)
LEMMA SizedCutting ==
  ASSUME Sizing, NEW p \in Proc, op[p].kind \in {"truncate", "unlink"}, op'[p] = op[p],
         \A q \in Proc : q # p => Same(q), size' = size,
         op[p].kind = "truncate" => Shrinks(p)'
  PROVE  Sized'
<1>1. \A q \in Proc : q # p => op'[q].kind \in {"none", "read"}
  BY DEF Sizing, CutsAlone, Same
<1>2. Cutters' # {}
  BY DEF Cutters
<1>3. \A q \in Proc : op'[q].kind = "truncate" => Shrinks(q)'
  BY <1>1
<1>4. size <= MaxSize
  BY SizingParts
<1> QED BY <1>2, <1>3, <1>4 DEF Sized

(* It is done.                                                             *)
LEMMA SizedCut ==
  ASSUME Sizing, NEW p \in Proc, op[p].kind = "truncate", Finish(p), Ends({p}),
         NEW x \in Nat, x = op[p].off, x <= MaxSize, Reached(x)', Under(x)'
  PROVE  Sized'
<1>1. \A q \in Proc : op'[q].kind \in {"none", "read"}
  BY DEF Sizing, CutsAlone, Same, Ends, NoOp
<1>2. size' = x
  <2>1. p \notin Local => size = x
    BY SizingParts DEF Shrinks
  <2> QED BY <2>1 DEF Finish
<1>3. Covered'
  BY <1>2 DEF Covered, Under
<1>4. Filled'
  BY <1>2 DEF Filled
<1>5. Known'
  BY <1>1 DEF Known, Writing
<1>6. \A q \in Proc : op'[q].kind = "truncate" => Shrinks(q)'
  BY <1>1
<1> QED BY <1>2, <1>3, <1>4, <1>5, <1>6 DEF Sized, Measured

(* A truncation stays right while what it depends on stays.                *)
LEMMA ShrinksNext ==
  ASSUME NEW p, NEW x, op'[p].off = x, p \notin Local => size' = x,
         job'[p].loc = "stat" => NoneAbove(p)',
         job'[p].loc = "zero" => Under(x)',
         job'[p].loc \in {"reap", "drop"} => CutAt(x)'
  PROVE  Shrinks(p)'
<1>1. job'[p].loc = "zero" => Under(op[p].off)'
  BY DEF Under
<1>2. job'[p].loc \in {"reap", "drop"} => CutAt(op[p].off)'
  BY DEF CutAt, Reached
<1> QED BY <1>1, <1>2 DEF Shrinks

(* A file whose last object up to the offset ends before it ends there.    *)
LEMMA StatUnder ==
  ASSUME TypeOK, Fits, Packed(-1, 0), NEW x \in Nat, ObjNum(x) \in Objects,
         NEW n \in Objects, obj[n] # None, n <= ObjNum(x),
         \A m \in Objects : n < m /\ m <= ObjNum(x) => obj[m] = None,
         EndOf(n) < x
  PROVE  Under(x)
<1>0. /\ Objects = 0 .. Top + 1 /\ Top \in Nat /\ ObjSize \in Nat
      /\ n \in Nat /\ ObjNum(x) \in Nat /\ Within(x) \in Nat /\ Within(x) < ObjSize
      /\ x = ObjNum(x) * ObjSize + Within(x)
      /\ n * ObjSize \in Nat /\ Len(obj[n]) \in Nat
  BY TopParts, EndNat, Division, SizeAssumption
<1>1. PICK a \in Nat, l \in Nat : a = n * ObjSize /\ l = Len(obj[n]) /\ a + l < x
  BY <1>0 DEF EndOf
<1> SUFFICES ASSUME NEW m \in Objects, obj[m] # None PROVE EndOf(m) <= x
  BY DEF Under
<1>2. m \in Nat /\ Len(obj[m]) \in Nat /\ Len(obj[m]) <= ObjSize /\ m * ObjSize \in Nat
  BY EndNat DEF Fits
<1>3. CASE m < n
  <2>1. m * ObjSize + ObjSize <= n * ObjSize
    BY <1>0, <1>2, <1>3, Apart
  <2>2. PICK b \in Nat, k \in Nat : b = m * ObjSize /\ k = Len(obj[m]) /\ k <= ObjSize
    BY <1>2
  <2>3. b + ObjSize <= a
    BY <1>1, <2>1, <2>2
  <2>4. b + k <= x
    <3>1. ObjSize \in Nat
      BY <1>0
    <3> QED BY <1>1, <2>2, <2>3, <3>1
  <2> QED BY <2>2, <2>4 DEF EndOf
<1>4. CASE m = n
  <2>1. EndOf(m) = a + l
    BY <1>1, <1>4 DEF EndOf
  <2> QED BY <1>1, <2>1
<1>5. CASE n < m
  <2>1. Full(n)
    <3>1. 0 <= n
      BY <1>0
    <3> QED BY <1>5, <3>1 DEF Packed
  <2>2. CASE n = ObjNum(x)
    <3>1. x = a + Within(x) /\ l = ObjSize
      BY <1>0, <1>1, <2>1, <2>2 DEF Full
    <3>2. PICK w \in Nat : w = Within(x) /\ w < ObjSize
      BY <1>0
    <3> QED BY <1>1, <3>1, <3>2
  <2>3. CASE n < ObjNum(x)
    <3>1. ObjNum(x) < m /\ n + 1 <= ObjNum(x) /\ n < n + 1 /\ n + 1 < m
      BY <1>0, <1>2, <1>5, <2>3
    <3>2. PICK k \in Objects : k = n + 1
      BY <1>0, <3>1
    <3>3. obj[k] = None
      BY <3>1, <3>2
    <3>4. Full(k)
      <4>1. 0 <= k /\ k < m
        BY <1>0, <3>1, <3>2
      <4> QED BY <4>1 DEF Packed
    <3> QED BY <3>3, <3>4 DEF Full
  <2> QED BY <1>0, <2>2, <2>3
<1> QED BY <1>0, <1>2, <1>3, <1>4, <1>5

(* The size is known: from the search to what comes next.                  *)
LEMMA KnownSized ==
  ASSUME Sizing, NEW p \in Proc, job[p].loc = "stat", NEW x \in Nat, x = op[p].off,
         NEW lb \in Nat, lb < x => Under(x),
         NEW exists, ~exists => lb = 0 /\ \A m \in Objects : obj[m] = None,
         SizeKnown(p, lb, exists),
         UNCHANGED <<obj, got, ops, crashes, reborn, torn, uncut, retaken>>
  PROVE  Sized'
<1>0. /\ TypeOK /\ Placing(op[p], job[p]) /\ op[p].off \in Nat /\ op[p].len \in Nat
      /\ job[p].num \in Nat /\ job \in [Proc -> JobType]
      /\ op[p].kind \in {"write", "append", "truncate"}
      /\ obj' \in [Objects -> Seq(Byte) \cup {None}]
  <2>1. /\ TypeOK /\ Placing(op[p], job[p]) /\ op[p].off \in Nat /\ op[p].len \in Nat
        /\ job[p].num \in Nat
    BY SizingParts
  <2>2. op[p].kind \in {"write", "append", "truncate"}
    BY <2>1 DEF Placing
  <2> QED BY <2>1, <2>2 DEF TypeOK
<1>1. ASSUME NEW loc \in {"zero", "put", "cut"}, NEW cur \in Nat, Goto(p, loc, cur), UNCHANGED fileVars
      PROVE  /\ op' = op /\ job'[p].loc = loc /\ size' = size
             /\ \A q \in Proc : q # p => Same(q)
  <2>1. op' = op /\ loc \in Locs /\ size' = size
    BY <1>1 DEF fileVars, Locs
  <2>2. Moves(p, loc, job[p].num, cur)
    BY <1>0, <1>1, <2>1, MoveForms
  <2> QED BY <2>1, <2>2 DEF Moves
<1>2. ASSUME NEW loc \in {"zero", "put", "cut"}, NEW cur \in Nat, Goto(p, loc, cur), UNCHANGED fileVars,
             loc = "zero" => Under(x), op[p].kind = "truncate" => loc # "put"
      PROVE  Sized'
  <2>1. /\ op' = op /\ job'[p].loc = loc /\ size' = size
        /\ \A q \in Proc : q # p => Same(q)
    BY <1>1, <1>2
  <2>2. CASE op[p].kind = "truncate"
    <3>1. p \notin Local => size' = x
      BY <2>1, <2>2, SizingParts DEF Shrinks
    <3>2. loc = "zero" => Under(x)'
      BY <1>2, SameEnds
    <3>3. Shrinks(p)'
      BY <2>1, <3>1, <3>2, ShrinksNext
    <3> QED BY <2>1, <2>2, <3>3, SizedCutting
  <2>3. CASE op[p].kind # "truncate"
    <3>1. \A q \in Proc : op'[q].kind # "truncate"
      BY <1>0, <2>1, <2>3 DEF Sizing, CutsAlone
    <3> QED BY <2>1, <3>1, SizedSame
  <2> QED BY <2>2, <2>3
<1>3. CASE lb < x /\ Goto(p, "zero", lb) /\ UNCHANGED fileVars
  BY <1>2, <1>3
<1>4. CASE op[p].kind # "truncate" /\ Goto(p, "put", x) /\ UNCHANGED fileVars
  BY <1>2, <1>4
<1>5. CASE op[p].kind = "truncate" /\ Goto(p, "cut", 0) /\ UNCHANGED fileVars
  BY <1>2, <1>5
<1>6. CASE lb >= x /\ op[p].kind = "truncate" /\ ~exists /\ Finish(p)
  <2>1. Ends({p})
    BY <1>0, <1>6, FinishForm
  <2>2. x = 0 /\ Reached(0) /\ Under(0)
    BY <1>6, ReachedZero DEF Under
  <2>3. Reached(x)' /\ Under(x)'
    BY <2>2, SameEnds
  <2>4. x <= MaxSize
    BY <2>2, SizeAssumption
  <2> QED BY <1>6, <2>1, <2>3, <2>4, SizedCut
<1> QED BY <1>3, <1>4, <1>5, <1>6 DEF SizeKnown

(* The search keeps Sized.                                                 *)
LEMMA StatSized ==
  ASSUME Sizing, NEW p \in Proc, Stat(p)
  PROVE  Sized'
<1>0. /\ TypeOK /\ Fits /\ Placing(op[p], job[p]) /\ op[p].off \in Nat /\ op[p].len \in Nat
      /\ job[p].num \in Nat /\ job[p].cur \in Nat
      /\ job[p].loc = "stat" /\ job \in [Proc -> JobType]
      /\ UNCHANGED <<obj, got, ops, crashes, reborn, torn, uncut, retaken>>
  BY SizingParts DEF Stat, TypeOK
<1>1. op[p].kind \in {"write", "append", "truncate"} /\ job[p].num <= ObjNum(op[p].off)
      /\ op[p].off <= MaxSize
  <2>1. /\ op[p].kind \in {"write", "append", "truncate"} /\ job[p].num <= ObjNum(op[p].off)
        /\ op[p].off <= MaxSize \/ op[p].off + op[p].len <= MaxSize
    BY <1>0 DEF Placing
  <2> QED BY <1>0, <2>1, SizeAssumption
<1>2. PICK n \in Nat, x \in Nat : n = job[p].num /\ x = op[p].off
  BY <1>0
<1>3. Packed(-1, 0)
  BY <1>0, SizingParts, NobodyCuts DEF Sizing
<1>4. n \in Objects /\ n <= ObjNum(x) /\ ObjNum(x) \in Objects
  <2>1. ObjNum(x) \in Nat /\ ObjNum(x) \in Objects /\ n <= ObjNum(x)
    BY <1>1, <1>2, TopParts, Division
  <2> QED BY <2>1, TopParts
<1>5. CASE obj[n] # None /\ SizeKnown(p, n * ObjSize + Len(obj[n]), TRUE)
  <2>1. PICK lb \in Nat : lb = EndOf(n)
    BY <1>0, <1>4, <1>5, EndNat
  <2>2. SizeKnown(p, lb, TRUE)
    BY <1>5, <2>1 DEF EndOf
  <2>3. CASE op[p].kind = "truncate"
    <3>1. \A m \in Objects : n < m /\ m <= ObjNum(x) => obj[m] = None
      BY <1>0, <1>2, <2>3, SizingParts DEF Shrinks, NoneAbove
    <3>2. lb < x => Under(x)
      BY <1>0, <1>3, <1>4, <1>5, <2>1, <3>1, StatUnder
    <3> QED BY <1>0, <1>2, <2>2, <3>2, KnownSized
  <2>4. CASE op[p].kind # "truncate"
    <3>1. op' = op /\ size' = size
      BY <1>2, <2>2, <2>4 DEF SizeKnown, fileVars
    <3>2. \A q \in Proc : op'[q].kind # "truncate"
      BY <1>1, <2>4, <3>1 DEF Sizing, CutsAlone
    <3> QED BY <1>0, <3>1, <3>2, SizedSame
  <2> QED BY <2>3, <2>4
<1>6. CASE obj[n] = None /\ n = 0 /\ SizeKnown(p, 0, FALSE)
  <2>1. \A m \in Objects : obj[m] = None
    BY <1>0, <1>3, <1>4, <1>6, NothingThere
  <2>2. Under(x)
    BY <2>1 DEF Under
  <2>3. PICK lb, exists : lb \in Nat /\ lb = 0 /\ exists = FALSE
    OBVIOUS
  <2>4. SizeKnown(p, lb, exists)
    BY <1>6, <2>3
  <2> QED BY <1>0, <1>2, <2>1, <2>2, <2>3, <2>4, KnownSized
<1>7. CASE obj[n] = None /\ n > 0 /\ job' = [job EXCEPT ![p].num = n - 1] /\ UNCHANGED fileVars
  <2>0. op' = op /\ n - 1 \in Nat /\ "stat" \in Locs /\ size' = size
    BY <1>2, <1>7 DEF fileVars, Locs
  <2>1. Moves(p, job[p].loc, n - 1, job[p].cur)
    BY <1>0, <1>7, <2>0, MoveForms
  <2>2. /\ op'[p] = op[p] /\ job'[p].loc = "stat" /\ job'[p].num = n - 1
        /\ \A q \in Proc : q # p => Same(q)
    BY <1>0, <2>1 DEF Moves
  <2>3. CASE op[p].kind = "truncate"
    <3>1. NoneAbove(p) /\ (p \notin Local => size' = x)
      BY <1>0, <1>2, <2>0, <2>3, SizingParts DEF Shrinks
    <3>2. NoneAbove(p)'
      <4> SUFFICES ASSUME NEW m \in Objects, n - 1 < m, m <= ObjNum(x) PROVE obj[m] = None
        BY <1>0, <1>2, <2>2 DEF NoneAbove
      <4>1. m = n \/ n < m
        BY TopParts
      <4> QED BY <1>2, <1>7, <3>1, <4>1 DEF NoneAbove
    <3>3. Shrinks(p)'
      BY <1>2, <2>2, <3>1, <3>2, ShrinksNext
    <3> QED BY <2>0, <2>2, <2>3, <3>3, SizedCutting
  <2>4. CASE op[p].kind # "truncate"
    <3>1. \A q \in Proc : op'[q].kind # "truncate"
      BY <1>1, <2>0, <2>4 DEF Sizing, CutsAlone
    <3> QED BY <1>0, <2>0, <3>1, SizedSame
  <2> QED BY <2>3, <2>4
<1>8. \/ obj[n] # None /\ SizeKnown(p, n * ObjSize + Len(obj[n]), TRUE)
      \/ obj[n] = None /\ n = 0 /\ SizeKnown(p, 0, FALSE)
      \/ obj[n] = None /\ n > 0 /\ job' = [job EXCEPT ![p].num = n - 1] /\ UNCHANGED fileVars
  BY <1>2 DEF Stat
<1> QED BY <1>5, <1>6, <1>7, <1>8

(* So does the cut.                                                        *)
LEMMA CutSized ==
  ASSUME Sizing, NEW p \in Proc, Cut(p)
  PROVE  Sized'
<1>0. /\ TypeOK /\ Fits /\ Placing(op[p], job[p]) /\ Wholly(op[p], job[p]) /\ op[p].off \in Nat
      /\ job[p].num \in Nat /\ job[p].loc = "cut" /\ job \in [Proc -> JobType]
      /\ UNCHANGED fileVars /\ torn' = torn
  BY SizingParts DEF Cut, TypeOK
<1>1. op[p].kind = "truncate" /\ op[p].off <= MaxSize
  BY <1>0 DEF Placing
<1>x. PICK x \in Nat : x = op[p].off
  BY <1>0
<1>2. PICK n : x = op[p].off /\ n = ObjNum(x)
  BY <1>x
<1>3. n \in Objects /\ n + 1 \in Nat /\ Reached(x)
  <2>1. n \in Objects
    BY <1>0, <1>1, <1>2, TopParts
  <2>2. n + 1 \in Nat
    BY <1>2, Division
  <2>3. Reached(x)
    BY <1>0, <1>2 DEF Wholly
  <2> QED BY <2>1, <2>2, <2>3
<1>4. obj' = [obj EXCEPT ![n] = RadosTrunc(@, Within(x))]
      /\ job' = [job EXCEPT ![p].loc = "reap", ![p].num = n + 1]
  BY <1>2 DEF Cut
<1>5. CutAt(x)'
  <2>1. CutOff(x, n)
    BY <1>0, <1>2, <1>3, <1>4, CutCuts
  <2> QED BY <2>1 DEF CutOff
<1>6. op' = op /\ "reap" \in Locs /\ size' = size
  BY <1>0 DEF fileVars, Locs
<1>7. job'[p].loc = "reap" /\ \A q \in Proc : q # p => Same(q)
  <2>1. Moves(p, "reap", n + 1, job[p].cur)
    BY <1>0, <1>3, <1>4, <1>6, MoveForms
  <2> QED BY <2>1 DEF Moves
<1>8. p \notin Local => size' = x
  BY <1>1, <1>2, <1>6, SizingParts DEF Shrinks
<1>9. Shrinks(p)'
  BY <1>2, <1>5, <1>6, <1>7, <1>8, ShrinksNext
<1> QED BY <1>1, <1>6, <1>7, <1>9, SizedCutting

(* So does the removal of an object behind it.                             *)
LEMMA DropSized ==
  ASSUME Sizing, NEW p \in Proc, job[p].loc \in {"reap", "drop", "wipe"},
         \A q \in Proc : q # p => Same(q), op'[p] = op[p], size' = size,
         job[p].loc # "wipe" =>
           /\ job'[p].loc \in {"reap", "drop"}
           /\ \A m \in Objects : m <= ObjNum(op[p].off) => obj'[m] = obj[m]
  PROVE  Sized'
<1>0. Placing(op[p], job[p]) /\ op[p].off \in Nat
  BY SizingParts
<1>1. CASE job[p].loc = "wipe"
  <2>1. op[p].kind = "unlink"
    BY <1>0, <1>1 DEF Placing
  <2> QED BY <2>1, SizedCutting
<1>2. CASE job[p].loc # "wipe"
  <2>1. op[p].kind = "truncate" /\ op[p].off <= MaxSize
    BY <1>0, <1>2 DEF Placing
  <2>2. PICK x \in Nat : x = op[p].off
    BY <1>0
  <2>3. ObjNum(x) \in Objects
    BY <2>1, <2>2, TopParts
  <2>4. CutAt(x) /\ (p \notin Local => size' = x)
    BY <1>2, <2>1, <2>2, SizingParts DEF Shrinks
  <2>5. CutAt(x)'
    BY <1>2, <2>2, <2>3, <2>4, CutKept
  <2>6. Shrinks(p)'
    BY <1>2, <2>2, <2>4, <2>5, ShrinksNext
  <2> QED BY <2>1, <2>6, SizedCutting
<1> QED BY <1>1, <1>2

(* And the end of a truncation or removal.                                 *)
LEMMA LastSized ==
  ASSUME Sizing, NEW p \in Proc, job[p].loc \in {"reap", "wipe"},
         job[p].num \in Objects => obj[job[p].num] = None,
         Finish(p), UNCHANGED <<obj, got, ops, crashes, reborn, torn, uncut, retaken>>
  PROVE  Sized'
<1>0. /\ TypeOK /\ Placing(op[p], job[p]) /\ op[p].off \in Nat /\ job[p].num \in Nat
      /\ Wholly(op[p], job[p]) /\ obj' \in [Objects -> Seq(Byte) \cup {None}]
  BY SizingParts DEF TypeOK
<1>1. Ends({p})
  BY <1>0, FinishForm
<1>2. CASE job[p].loc = "wipe"
  <2>1. op[p].kind = "unlink"
    BY <1>0, <1>2 DEF Placing
  <2>2. ~linked'
    BY <2>1 DEF Finish
  <2> QED BY <2>2 DEF Sized
<1>3. CASE job[p].loc = "reap"
  <2>1. PICK x \in Nat, n \in Nat : x = op[p].off /\ n = ObjNum(x)
    BY <1>0, Division
  <2>2. op[p].kind = "truncate" /\ x <= MaxSize /\ n < job[p].num /\ Packed(n, job[p].num)
    BY <1>0, <1>3, <2>1 DEF Placing, Wholly
  <2>3. \A m \in Objects : n < m => obj[m] = None
    BY <1>0, <2>1, <2>2, CutDone
  <2>4. CutAt(x)
    BY <1>3, <2>1, <2>2, SizingParts DEF Shrinks
  <2>5. \A m \in Objects : obj[m] # None => m <= n
    BY <2>1, <2>3, TopParts
  <2>6. Reached(x) /\ Under(x)
    BY <2>1, <2>4, <2>5 DEF CutAt, Under
  <2>7. Reached(x)' /\ Under(x)'
    BY <2>6, SameEnds
  <2> QED BY <1>1, <2>1, <2>2, <2>7, SizedCut
<1> QED BY <1>2, <1>3

(* All steps of a removal keep Sized.                                      *)
LEMMA ReapSized ==
  ASSUME Sizing, NEW p \in Proc, ReapStat(p) \/ ReapDrop(p) \/ Wipe(p)
  PROVE  Sized'
<1>0. /\ TypeOK /\ Fits /\ Placing(op[p], job[p]) /\ job[p].num \in Nat /\ op[p].off \in Nat
      /\ job \in [Proc -> JobType] /\ obj \in [Objects -> Seq(Byte) \cup {None}]
  BY SizingParts DEF TypeOK
<1>1. CASE ReapStat(p)
  <2>1. job[p].loc = "reap" /\ UNCHANGED <<obj, got, ops, crashes, reborn, torn, uncut, retaken>>
    BY <1>1 DEF ReapStat
  <2>2. CASE Finish(p) /\ (job[p].num \in Objects => obj[job[p].num] = None)
    BY <2>1, <2>2, LastSized
  <2>3. CASE Goto(p, "drop", 0) /\ UNCHANGED fileVars
    <3>1. op' = op /\ "drop" \in Locs /\ size' = size
      BY <2>3 DEF fileVars, Locs
    <3>2. Moves(p, "drop", job[p].num, 0)
      BY <1>0, <2>1, <2>3, <3>1, MoveForms
    <3>3. /\ op'[p] = op[p] /\ job'[p].loc = "drop" /\ \A q \in Proc : q # p => Same(q)
      BY <3>2 DEF Moves
    <3> QED BY <2>1, <3>1, <3>3, DropSized
  <2> QED BY <1>1, <2>2, <2>3 DEF ReapStat
<1>2. CASE ReapDrop(p)
  <2>1. PICK n \in Nat : n = job[p].num
    BY <1>0
  <2>2. job[p].loc = "drop" /\ UNCHANGED fileVars /\ torn' = torn /\ obj' = [obj EXCEPT ![n] = None]
        /\ job' = [job EXCEPT ![p].loc = "reap", ![p].num = n + 1]
    BY <1>0, <1>2, <2>1 DEF ReapDrop, JobType
  <2>3. n > ObjNum(op[p].off) /\ ObjNum(op[p].off) \in Nat
    BY <1>0, <2>1, <2>2, Division DEF Placing
  <2>4. op' = op /\ "reap" \in Locs /\ n + 1 \in Nat /\ size' = size
    BY <2>2 DEF fileVars, Locs
  <2>5. Moves(p, "reap", n + 1, job[p].cur)
    BY <1>0, <2>2, <2>4, MoveForms
  <2>6. op'[p] = op[p] /\ job'[p].loc = "reap" /\ \A q \in Proc : q # p => Same(q)
    BY <2>5 DEF Moves
  <2>7. \A m \in Objects : m <= ObjNum(op[p].off) => obj'[m] = obj[m]
    <3>1. \A m \in Objects : m <= ObjNum(op[p].off) => m # n
      BY <2>3, TopParts
    <3> QED BY <1>0, <2>2, <3>1
  <2> QED BY <2>2, <2>4, <2>6, <2>7, DropSized
<1>3. CASE Wipe(p)
  <2>1. job[p].loc = "wipe" /\ UNCHANGED <<got, ops, crashes, reborn, torn, uncut, retaken>>
    BY <1>3 DEF Wipe
  <2>2. CASE Finish(p) /\ UNCHANGED obj /\ (job[p].num \in Objects => obj[job[p].num] = None)
    BY <2>1, <2>2, LastSized
  <2>3. CASE job' = [job EXCEPT ![p].num = job[p].num + 1] /\ UNCHANGED fileVars
    <3>1. op' = op /\ job[p].num + 1 \in Nat /\ "wipe" \in Locs /\ size' = size
      BY <1>0, <2>3 DEF fileVars, Locs
    <3>2. Moves(p, job[p].loc, job[p].num + 1, job[p].cur)
      BY <1>0, <2>1, <2>3, <3>1, MoveForms
    <3>3. op'[p] = op[p] /\ job'[p].loc = "wipe" /\ \A q \in Proc : q # p => Same(q)
      BY <2>1, <3>2 DEF Moves
    <3> QED BY <2>1, <3>1, <3>3, DropSized
  <2> QED BY <1>3, <2>2, <2>3 DEF Wipe
<1> QED BY <1>1, <1>2, <1>3

(* Reading changes nothing of it.                                          *)
LEMMA ReadSized ==
  ASSUME Sizing, NEW p \in Proc, ReadObj(p) \/ Return(p)
  PROVE  Sized'
<1>0. /\ TypeOK /\ Placing(op[p], job[p]) /\ op \in [Proc -> OpType] /\ job \in [Proc -> JobType]
  BY SizingParts DEF TypeOK
<1>1. obj' = obj /\ size' = size
  BY DEF ReadObj, Return, fileVars
<1>2. op[p].kind = "read" /\ op'[p].kind \in {"none", "read"} /\ \A q \in Proc : q # p => Same(q)
  <2>1. job[p].loc \in {"read", "return"}
    BY DEF ReadObj, Return
  <2>2. op[p].kind = "read"
    BY <1>0, <2>1 DEF Placing
  <2>3. CASE Return(p)
    <3>1. op' = [op EXCEPT ![p] = NoOp] /\ job' = [job EXCEPT ![p] = NoJob]
      BY <2>3 DEF Return
    <3> QED BY <1>0, <2>2, <3>1 DEF Same, NoOp
  <2>4. CASE ReadObj(p)
    <3>1. op' = op
      BY <2>4 DEF ReadObj, fileVars
    <3>2. PICK loc, y : Goto(p, loc, y)
      BY <2>4 DEF ReadObj
    <3>3. \A q \in Proc : q # p => job'[q] = job[q]
      BY <1>0, <3>2 DEF Goto
    <3> QED BY <2>2, <3>1, <3>3 DEF Same
  <2> QED BY <2>3, <2>4
<1>3. ASSUME NEW q \in Proc, op'[q].kind = "truncate" PROVE Shrinks(q)'
  <2>1. q # p /\ Same(q)
    BY <1>2, <1>3
  <2>2. PICK x \in Nat : x = op[q].off
    BY SizingParts
  <2>3. Shrinks(q)
    BY <1>3, <2>1, SizingParts DEF Same
  <2>4. /\ op'[q].off = x /\ (q \notin Local => size' = x)
        /\ job'[q].loc = job[q].loc /\ job'[q].num = job[q].num
    BY <1>1, <2>1, <2>2, <2>3 DEF Same, Shrinks
  <2>5. job[q].loc = "stat" => NoneAbove(q)'
    BY <1>1, <2>1, <2>3 DEF Shrinks, NoneAbove, Same
  <2>6. (job[q].loc = "zero" => Under(x)') /\ (job[q].loc \in {"reap", "drop"} => CutAt(x)')
    BY <1>1, <2>2, <2>3, SameEnds DEF Shrinks
  <2> QED BY <2>4, <2>5, <2>6, ShrinksNext
<1>4. \A q \in Proc : op'[q] = op[q] \/ (op[q].kind \in {"none", "read"} /\ op'[q].kind \in {"none", "read"})
  BY <1>2 DEF Same
<1> QED BY <1>1, <1>3, <1>4, SizedSame

(* The data reaches further, up to one byte.                               *)
Extended(to) ==
  /\ obj' \in [Objects -> Seq(Byte) \cup {None}]
  /\ \A n \in Objects : obj'[n] # None =>
       (obj[n] # None /\ EndOf(n)' = EndOf(n)) \/ EndOf(n)' = to
  /\ \A y \in Nat : ObjNum(y) \in Objects /\ Reached(y) => Reached(y)'
  /\ Reached(to)'

(* A write where there is no hole is such a step.                          *)
LEMMA WriteExtends ==
  ASSUME Sizing, NEW p \in Proc, job[p].loc \in {"zero", "put"}, NEW x \in Nat, x = job[p].cur,
         NEW stop \in Nat, x < stop, stop <= MaxSize,
         NEW bytes \in Seq(Byte), Len(bytes) = SubLen(x, stop), Writes(x, bytes),
         NEW to \in Nat, to = Smaller(NextBound(x), stop)
  PROVE  Extended(to)
<1>0. /\ TypeOK /\ Fits /\ ObjNum(x) \in Objects /\ ObjNum(x) <= Top /\ Within(x) \in Nat
      /\ NextBound(x) \in Nat /\ NextBound(x) = x - Within(x) + ObjSize /\ ObjSize \in Nat
      /\ Reached(x) /\ Packed(-1, 0)
  <2>1. TypeOK /\ Fits /\ Reached(x)
    BY SizingParts DEF Wholly
  <2>2. x <= MaxSize
    BY SizeAssumption
  <2>3. Packed(-1, 0)
    BY SizingParts, NobodyCuts DEF Sizing
  <2> QED BY <2>1, <2>2, <2>3, TopParts, Division, NextObject, SizeAssumption
<1>1. Within(x) + Len(bytes) <= ObjSize
  <2>1. SubLen(x, stop) <= NextBound(x) - x
    BY <1>0 DEF SubLen, Smaller
  <2> QED BY <1>0, <2>1
<1>2. x + Len(bytes) = to
  BY <1>0 DEF SubLen
<1>3. obj' \in [Objects -> Seq(Byte) \cup {None}]
  <2>1. obj[ObjNum(x)] \in Seq(Byte) \cup {None}
    BY <1>0, ObjParts
  <2>2. PICK r : r = RadosWrite(obj[ObjNum(x)], Within(x), bytes)
    OBVIOUS
  <2>3. r \in Seq(Byte)
    BY <1>0, <2>1, <2>2, WriteType
  <2>4. obj' = [obj EXCEPT ![ObjNum(x)] = r] /\ obj \in [Objects -> Seq(Byte) \cup {None}]
    BY <1>0, <2>2 DEF Writes, TypeOK
  <2> QED BY <2>3, <2>4
<1>4. /\ Reached(x + Len(bytes))'
      /\ \A y \in Nat : ObjNum(y) \in Objects /\ Reached(y) => Reached(y)'
  BY <1>0, <1>1, WriteGrows
<1>5. /\ \A m \in Objects : m # ObjNum(x) /\ obj'[m] # None => obj[m] # None /\ EndOf(m)' = EndOf(m)
      /\ \/ obj[ObjNum(x)] # None /\ EndOf(ObjNum(x))' = EndOf(ObjNum(x))
         \/ EndOf(ObjNum(x))' = x + Len(bytes)
  BY <1>0, <1>1, WriteUnder
<1>6. \A n \in Objects : obj'[n] # None =>
       (obj[n] # None /\ EndOf(n)' = EndOf(n)) \/ EndOf(n)' = to
  <2> SUFFICES ASSUME NEW n \in Objects, obj'[n] # None
               PROVE  (obj[n] # None /\ EndOf(n)' = EndOf(n)) \/ EndOf(n)' = to
    OBVIOUS
  <2>1. CASE n = ObjNum(x)
    <3>1. \/ obj[n] # None /\ EndOf(n)' = EndOf(n)
          \/ EndOf(n)' = x + Len(bytes)
      BY <1>5, <2>1
    <3> QED BY <1>2, <3>1
  <2>2. CASE n # ObjNum(x)
    BY <1>5, <2>2
  <2> QED BY <2>1, <2>2
<1>7. Reached(to)'
  BY <1>2, <1>4
<1> QED BY <1>3, <1>4, <1>6, <1>7 DEF Extended

(* It stays below what the write may reach.                                *)
LEMMA UnderExtended ==
  ASSUME NEW to \in Nat, Extended(to), NEW y \in Nat, to <= y, Under(y)
  PROVE  Under(y)'
<1> SUFFICES ASSUME NEW n \in Objects, obj'[n] # None PROVE EndOf(n)' <= y
  BY DEF Under
<1>1. (obj[n] # None /\ EndOf(n)' = EndOf(n)) \/ EndOf(n)' = to
  BY DEF Extended
<1>2. obj[n] # None => EndOf(n) <= y
  BY DEF Under
<1> QED BY <1>1, <1>2

(* The data is measured by what this write claims.                         *)
LEMMA MeasuredHere ==
  ASSUME Sizing, NEW p \in Proc, Writing(p)
  PROVE  /\ Measured /\ Cutters = {} /\ \A q \in Proc : op[q].kind # "truncate" /\ op[q].kind # "unlink"
         /\ size \in Nat /\ size <= MaxSize /\ ObjNum(size) \in Objects
<1>1. \A q \in Proc : op[q].kind # "truncate" /\ op[q].kind # "unlink"
  BY DEF Sizing, CutsAlone, Writing
<1>2. Cutters = {}
  BY <1>1 DEF Cutters
<1>3. size \in Nat /\ size <= MaxSize /\ Measured
  BY <1>2, SizingParts
<1> QED BY <1>1, <1>2, <1>3, TopParts

(* A write goes on, within what it has claimed.                            *)
LEMMA SizedWrote ==
  ASSUME Sizing, NEW p \in Proc, Writing(p), \A q \in Proc : q # p => Same(q),
         op'[p] = op[p], size' = size,
         NEW to \in Nat, Extended(to), to <= Claim(p)
  PROVE  Sized'
<1>0. /\ Measured /\ Cutters = {} /\ \A q \in Proc : op[q].kind # "truncate" /\ op[q].kind # "unlink"
      /\ size \in Nat /\ size <= MaxSize /\ ObjNum(size) \in Objects
  BY MeasuredHere
<1>1. \A q \in Proc : op'[q] = op[q]
  BY DEF Same
<1>2. \A q \in Proc : (Writing(q)' <=> Writing(q)) /\ Claim(q)' = Claim(q)
  BY <1>1 DEF Writing, Claim
<1>3. Covered'
  <2> SUFFICES ASSUME NEW n \in Objects, obj'[n] # None
               PROVE  EndOf(n)' <= size' \/ \E q \in Local : Writing(q)' /\ EndOf(n)' <= Claim(q)'
    BY DEF Covered
  <2>1. CASE obj[n] # None /\ EndOf(n)' = EndOf(n)
    <3>1. EndOf(n) <= size \/ \E q \in Local : Writing(q) /\ EndOf(n) <= Claim(q)
      BY <1>0, <2>1 DEF Measured, Covered
    <3> QED BY <1>2, <2>1, <3>1, LocalAssumption
  <2>2. CASE EndOf(n)' = to
    <3>1. CASE p \in Local
      BY <1>2, <2>2, <3>1
    <3>2. CASE p \notin Local
      <4>1. Claim(p) <= size
        BY <1>0, <3>2 DEF Measured, Known
      <4>2. Claim(p) \in Nat
        BY SizingParts DEF Claim
      <4> QED BY <1>0, <2>2, <4>1, <4>2
    <3> QED BY <3>1, <3>2
  <2> QED BY <2>1, <2>2 DEF Extended
<1>4. Filled'
  <2>1. CASE Reached(size)
    <3>1. PICK s \in Nat : s = size
      BY <1>0
    <3>2. Reached(s)'
      BY <1>0, <2>1, <3>1 DEF Extended
    <3> QED BY <3>1, <3>2 DEF Filled
  <2>2. CASE \E q \in Proc \ Local : Writing(q) /\ size <= Claim(q)
    BY <1>2, <2>2 DEF Filled
  <2> QED BY <1>0, <2>1, <2>2 DEF Measured, Filled
<1>5. Known'
  BY <1>0, <1>2 DEF Measured, Known
<1>6. \A q \in Proc : op'[q].kind = "truncate" => Shrinks(q)'
  BY <1>0, <1>1
<1> QED BY <1>0, <1>3, <1>4, <1>5, <1>6 DEF Sized, Measured

(* It is done.                                                             *)
LEMMA SizedWritten ==
  ASSUME Sizing, NEW p \in Proc, Writing(p), Finish(p), Ends({p}),
         NEW to \in Nat, Extended(to), to = Claim(p), to <= MaxSize
  PROVE  Sized'
<1>0. /\ Measured /\ Cutters = {} /\ \A q \in Proc : op[q].kind # "truncate" /\ op[q].kind # "unlink"
      /\ size \in Nat /\ size <= MaxSize /\ ObjNum(size) \in Objects
  BY MeasuredHere
<1>1. op'[p] = NoOp /\ \A q \in Proc : q # p => op'[q] = op[q]
  BY DEF Ends, Same
<1>2. /\ \A q \in Proc : q # p => (Writing(q)' <=> Writing(q)) /\ Claim(q)' = Claim(q)
      /\ ~Writing(p)'
  BY <1>1 DEF Writing, Claim, NoOp
<1>3. PICK s \in Nat, t \in Nat :
        /\ s = size /\ t = size' /\ s <= t /\ to <= t /\ t <= MaxSize
        /\ t = s \/ (t = to /\ p \in Local)
  <2>1. CASE p \in Local
    <3>1. size' = Larger(size, to)
      BY <2>1 DEF Finish, Claim, Writing
    <3> QED BY <1>0, <2>1, <3>1 DEF Larger
  <2>2. CASE p \notin Local
    <3>1. size' = size
      BY <2>2 DEF Finish
    <3>2. to <= size
      BY <1>0, <2>2 DEF Measured, Known
    <3> QED BY <1>0, <3>1, <3>2
  <2> QED BY <2>1, <2>2
<1>4. Covered'
  <2> SUFFICES ASSUME NEW n \in Objects, obj'[n] # None
               PROVE  EndOf(n)' <= size' \/ \E q \in Local : Writing(q)' /\ EndOf(n)' <= Claim(q)'
    BY DEF Covered
  <2>1. CASE obj[n] # None /\ EndOf(n)' = EndOf(n)
    <3>0. EndOf(n) \in Nat
      BY <2>1, SizingParts, EndNat
    <3>1. CASE EndOf(n) <= size
      BY <1>3, <2>1, <3>0, <3>1
    <3>2. ASSUME NEW q \in Local, Writing(q), EndOf(n) <= Claim(q)
          PROVE  EndOf(n)' <= size' \/ \E r \in Local : Writing(r)' /\ EndOf(n)' <= Claim(r)'
      <4>1. CASE q = p
        BY <1>3, <2>1, <3>0, <3>2, <4>1
      <4>2. CASE q # p
        BY <1>2, <2>1, <3>2, <4>2, LocalAssumption
      <4> QED BY <4>1, <4>2
    <3> QED BY <1>0, <2>1, <3>1, <3>2 DEF Measured, Covered
  <2>2. CASE EndOf(n)' = to
    BY <1>3, <2>2
  <2> QED BY <2>1, <2>2 DEF Extended
<1>5. Filled'
  <2>1. CASE Reached(s)
    <3>1. Reached(s)'
      BY <1>0, <1>3, <2>1 DEF Extended
    <3>2. Reached(to)'
      BY DEF Extended
    <3>3. Reached(t)'
      BY <1>3, <3>1, <3>2
    <3> QED BY <1>3, <3>3 DEF Filled
  <2>2. ASSUME NEW q \in Proc \ Local, Writing(q), s <= Claim(q) PROVE Filled'
    <3>1. CASE t = to
      <4>1. Reached(t)'
        BY <3>1 DEF Extended
      <4> QED BY <1>3, <4>1 DEF Filled
    <3>2. CASE t = s /\ q # p
      BY <1>2, <1>3, <2>2, <3>2 DEF Filled
    <3>3. CASE t = s /\ q = p
      BY <1>3, <2>2, <3>1, <3>3
    <3> QED BY <1>3, <3>1, <3>2, <3>3
  <2>3. Reached(s) \/ \E q \in Proc \ Local : Writing(q) /\ s <= Claim(q)
    BY <1>0, <1>3 DEF Measured, Filled
  <2> QED BY <2>1, <2>2, <2>3
<1>6. Known'
  <2> SUFFICES ASSUME NEW q \in Proc \ Local, Writing(q)' PROVE Claim(q)' <= size'
    BY DEF Known
  <2>1. q # p /\ Writing(q) /\ Claim(q)' = Claim(q)
    BY <1>2
  <2>2. Claim(q) <= s /\ Claim(q) \in Nat
    BY <1>0, <1>3, <2>1, SizingParts DEF Measured, Known, Claim
  <2> QED BY <1>3, <2>1, <2>2
<1>7. \A q \in Proc : op'[q].kind = "truncate" => Shrinks(q)'
  BY <1>0, <1>1 DEF NoOp
<1> QED BY <1>3, <1>4, <1>5, <1>6, <1>7 DEF Sized, Measured

(* Filling the gap keeps Sized, of a write or of a truncation.             *)
LEMMA ZeroFillSized ==
  ASSUME Sizing, NEW p \in Proc, ZeroFill(p)
  PROVE  Sized'
<1>0. /\ TypeOK /\ Placing(op[p], job[p]) /\ op[p].off \in Nat /\ op[p].len \in Nat
      /\ job[p].num \in Nat /\ job[p].cur \in Nat
      /\ job[p].loc = "zero" /\ job \in [Proc -> JobType]
      /\ UNCHANGED <<got, ops, crashes, reborn, torn, uncut, retaken>>
  BY SizingParts DEF ZeroFill, TypeOK
<1>1. op[p].kind \in {"write", "append", "truncate"} /\ job[p].cur < op[p].off
      /\ op[p].off <= MaxSize
  <2>1. /\ op[p].kind \in {"write", "append", "truncate"} /\ job[p].cur < op[p].off
        /\ op[p].off <= MaxSize \/ op[p].off + op[p].len <= MaxSize
    BY <1>0 DEF Placing
  <2> QED BY <1>0, <2>1, SizeAssumption
<1>2. PICK x \in Nat, stop \in Nat : x = job[p].cur /\ stop = op[p].off
  BY <1>0
<1>3. PICK k \in Nat, to \in Nat : k = SubLen(x, stop) /\ to = Smaller(NextBound(x), stop)
  <2>1. NextBound(x) \in Nat /\ x < NextBound(x)
    BY NextObject
  <2>2. SubLen(x, stop) \in Nat /\ Smaller(NextBound(x), stop) \in Nat
    BY <1>1, <1>2, <2>1 DEF SubLen, Smaller
  <2> QED BY <2>2
<1>4. x < stop /\ stop <= MaxSize /\ NextBound(x) \in Nat /\ to <= stop
  <2>1. x < stop /\ stop <= MaxSize /\ NextBound(x) \in Nat
    BY <1>1, <1>2, NextObject
  <2> QED BY <1>3, <2>1 DEF Smaller
<1>5. Writes(x, Zeros(k))
  BY <1>2, <1>3 DEF ZeroFill, Writes
<1>6. Extended(to)
  <2>1. Zeros(k) \in Seq(Byte) /\ Len(Zeros(k)) = SubLen(x, stop)
    BY <1>3, BytesType
  <2> QED BY <1>0, <1>2, <1>3, <1>4, <1>5, <2>1, WriteExtends
<1>7. ASSUME NEW loc \in {"zero", "put"}, NEW cur \in Nat, Goto(p, loc, cur), UNCHANGED fileVars
      PROVE  /\ op'[p] = op[p] /\ job'[p].loc = loc /\ size' = size
             /\ \A q \in Proc : q # p => Same(q)
  <2>1. op' = op /\ loc \in Locs /\ size' = size
    BY <1>7 DEF fileVars, Locs
  <2>2. Moves(p, loc, job[p].num, cur)
    BY <1>0, <1>7, <2>1, MoveForms
  <2> QED BY <2>1, <2>2 DEF Moves
<1>8. ASSUME op[p].kind # "truncate", NEW loc \in {"zero", "put"}, NEW cur \in Nat,
             Goto(p, loc, cur), UNCHANGED fileVars
      PROVE  Sized'
  <2>1. /\ op'[p] = op[p] /\ size' = size
        /\ \A q \in Proc : q # p => Same(q)
    BY <1>7, <1>8
  <2>2. Writing(p) /\ to <= Claim(p)
    BY <1>0, <1>1, <1>2, <1>4, <1>8 DEF Writing, Claim
  <2> QED BY <1>6, <2>1, <2>2, SizedWrote
<1>9. CASE op[p].kind = "truncate" /\ Goto(p, "zero", NextBound(x)) /\ UNCHANGED fileVars
  <2>1. /\ op'[p] = op[p] /\ job'[p].loc = "zero" /\ size' = size
        /\ \A q \in Proc : q # p => Same(q)
    BY <1>4, <1>7, <1>9
  <2>2. Under(stop) /\ (p \notin Local => size' = stop)
    BY <1>0, <1>2, <1>9, <2>1, SizingParts DEF Shrinks
  <2>3. Under(stop)'
    BY <1>4, <1>6, <2>2, UnderExtended
  <2>4. Shrinks(p)'
    BY <1>2, <2>1, <2>2, <2>3, ShrinksNext
  <2> QED BY <1>9, <2>1, <2>4, SizedCutting
<1>10. CASE NextBound(x) >= stop /\ op[p].kind = "truncate" /\ Finish(p)
  <2>1. to = stop
    BY <1>3, <1>4, <1>10 DEF Smaller
  <2>2. obj' \in [Objects -> Seq(Byte) \cup {None}] /\ Reached(to)'
    BY <1>6 DEF Extended
  <2>3. Ends({p})
    BY <1>0, <1>10, <2>2, FinishForm
  <2>4. Under(stop)
    BY <1>0, <1>2, <1>10, SizingParts DEF Shrinks
  <2>5. Under(stop)'
    BY <1>4, <1>6, <2>4, UnderExtended
  <2>6. Reached(stop)'
    BY <2>1, <2>2
  <2> QED BY <1>2, <1>4, <1>10, <2>3, <2>5, <2>6, SizedCut
<1>11. \/ Goto(p, "zero", NextBound(x)) /\ UNCHANGED fileVars
       \/ op[p].kind # "truncate" /\ Goto(p, "put", stop) /\ UNCHANGED fileVars
       \/ NextBound(x) >= stop /\ op[p].kind = "truncate" /\ Finish(p)
  BY <1>2 DEF ZeroFill
<1> QED BY <1>4, <1>8, <1>9, <1>10, <1>11

(* Writing the bytes keeps Sized.                                          *)
LEMMA PutSized ==
  ASSUME Sizing, NEW p \in Proc, Put(p)
  PROVE  Sized'
<1>0. /\ TypeOK /\ Placing(op[p], job[p]) /\ op[p].off \in Nat /\ op[p].len \in Nat
      /\ job[p].num \in Nat /\ job[p].cur \in Nat
      /\ job[p].loc = "put" /\ job \in [Proc -> JobType]
      /\ UNCHANGED <<got, ops, crashes, reborn, torn, uncut, retaken>>
  BY SizingParts DEF Put, TypeOK
<1>1. /\ op[p].kind \in {"write", "append"} /\ op[p].off + op[p].len <= MaxSize
      /\ op[p].off <= job[p].cur /\ job[p].cur < op[p].off + op[p].len
  BY <1>0 DEF Placing
<1>2. PICK off \in Nat, len \in Nat, x \in Nat : off = op[p].off /\ len = op[p].len /\ x = job[p].cur
  BY <1>0
<1>3. PICK b \in Seq(Byte), j \in Nat, stop \in Nat :
        /\ b = Buffer(p, len) /\ Len(b) = len /\ j = x - off /\ stop = off + len
        /\ off + j = x /\ x < stop /\ stop <= MaxSize
  <2>0. off <= x
    BY <1>1, <1>2
  <2>1. x - off \in Nat /\ off + (x - off) = x /\ off + len \in Nat
    BY <2>0
  <2>2. Buffer(p, len) \in Seq(Byte) /\ Len(Buffer(p, len)) = len
    BY BytesType
  <2> QED BY <1>1, <1>2, <2>1, <2>2
<1>4. PICK k \in Nat, to \in Nat :
        /\ k = SubLen(x, stop) /\ to = Smaller(NextBound(x), stop)
        /\ NextBound(x) \in Nat /\ j + k <= len /\ to <= stop
  <2>1. NextBound(x) \in Nat /\ x < NextBound(x)
    BY NextObject
  <2>2. SubLen(x, stop) \in Nat /\ x + SubLen(x, stop) = Smaller(NextBound(x), stop)
        /\ x + SubLen(x, stop) <= stop
    BY <1>3, <2>1 DEF SubLen, Smaller
  <2>3. j + SubLen(x, stop) <= len
    BY <1>3, <2>2
  <2>4. Smaller(NextBound(x), stop) \in Nat /\ Smaller(NextBound(x), stop) <= stop
    BY <2>1 DEF Smaller
  <2> QED BY <2>1, <2>2, <2>3, <2>4
<1>5. PICK d \in Seq(Byte) : d = SubSeq(b, j + 1, j + k) /\ Len(d) = k
  <2>1. j + k \in Nat /\ j + k <= Len(b) /\ j <= j + k /\ (j + k) - j = k
    BY <1>3, <1>4
  <2>2. SubSeq(b, j + 1, j + k) \in Seq(Byte) /\ Len(SubSeq(b, j + 1, j + k)) = (j + k) - j
    BY <2>1, PartType
  <2> QED BY <2>1, <2>2
<1>6. Writes(x, d)
  BY <1>2, <1>3, <1>4, <1>5 DEF Put, Writes
<1>7. Extended(to)
  BY <1>0, <1>2, <1>3, <1>4, <1>5, <1>6, WriteExtends
<1>8. Writing(p) /\ Claim(p) = stop
  BY <1>1, <1>2, <1>3 DEF Writing, Claim
<1>9. CASE Goto(p, "put", NextBound(x)) /\ UNCHANGED fileVars
  <2>1. op' = op /\ "put" \in Locs /\ size' = size
    BY <1>9 DEF fileVars, Locs
  <2>2. Moves(p, "put", job[p].num, NextBound(x))
    BY <1>0, <1>4, <1>9, <2>1, MoveForms
  <2>3. op'[p] = op[p] /\ \A q \in Proc : q # p => Same(q)
    BY <2>2 DEF Moves
  <2> QED BY <1>4, <1>7, <1>8, <2>1, <2>3, SizedWrote
<1>10. CASE NextBound(x) >= stop /\ Finish(p)
  <2>1. to = stop
    BY <1>4, <1>10 DEF Smaller
  <2>2. obj' \in [Objects -> Seq(Byte) \cup {None}]
    BY <1>7 DEF Extended
  <2>3. Ends({p})
    BY <1>0, <1>10, <2>2, FinishForm
  <2> QED BY <1>3, <1>7, <1>8, <1>10, <2>1, <2>3, SizedWritten
<1>11. \/ Goto(p, "put", NextBound(x)) /\ UNCHANGED fileVars
       \/ NextBound(x) >= stop /\ Finish(p)
  BY <1>2, <1>3 DEF Put
<1> QED BY <1>9, <1>10, <1>11

(* A beginning beside a truncation that is none of its own.                *)
LEMMA ShrinksSame ==
  ASSUME Sizing, NEW q \in Proc, Same(q), obj' = obj, size' = size, op'[q].kind = "truncate"
  PROVE  Shrinks(q)'
<1>1. PICK x \in Nat : x = op[q].off
  BY SizingParts
<1>2. Shrinks(q)
  BY SizingParts DEF Same
<1>3. /\ op'[q].off = x /\ (q \notin Local => size' = x)
      /\ job'[q].loc = job[q].loc /\ job'[q].num = job[q].num
  BY <1>1, <1>2 DEF Same, Shrinks
<1>4. job[q].loc = "stat" => NoneAbove(q)'
  BY <1>2 DEF Shrinks, NoneAbove, Same
<1>5. (job[q].loc = "zero" => Under(x)') /\ (job[q].loc \in {"reap", "drop"} => CutAt(x)')
  BY <1>1, <1>2, SameEnds DEF Shrinks
<1> QED BY <1>3, <1>4, <1>5, ShrinksNext

(* A write begins: the leader sets the size ahead for a client.            *)
LEMMA WriteSized ==
  ASSUME Sizing, NEW p \in Proc, NEW o, op[p] = NoOp, op'[p] = o, o.kind \in {"write", "append"},
         o.off \in Nat, o.len \in Nat, o.off + o.len <= MaxSize, ~Meets(o),
         Lock(p) \/ SetSize(p, Larger(size, o.off + o.len)),
         \A q \in Proc : q # p => Same(q), obj' = obj
  PROVE  Sized'
<1>0. Cutters = {} /\ \A q \in Proc : op[q].kind \notin {"truncate", "unlink"}
  BY DEF Meets, Cutters
<1>1. size \in Nat /\ size <= MaxSize /\ Measured
  BY <1>0, SizingParts
<1>2. PICK c \in Nat : c = o.off + o.len /\ c <= MaxSize
  OBVIOUS
<1>3. \A q \in Proc : q # p => (Writing(q)' <=> Writing(q)) /\ Claim(q)' = Claim(q)
  BY DEF Writing, Claim, Same
<1>4. ~Writing(p) /\ Writing(p)' /\ Claim(p)' = c
  BY <1>2 DEF Writing, Claim, NoOp
<1>5. PICK s \in Nat, t \in Nat :
        /\ s = size /\ t = size' /\ s <= t /\ t <= MaxSize
        /\ p \notin Local => c <= t /\ (t = s \/ t = c)
        /\ p \in Local => t = s
  <2>1. CASE Lock(p)
    BY <1>1, <2>1 DEF Lock
  <2>2. CASE SetSize(p, Larger(size, o.off + o.len))
    <3>1. size' = Larger(size, c) /\ p \notin Local
      BY <1>2, <2>2 DEF SetSize
    <3> QED BY <1>1, <1>2, <3>1 DEF Larger
  <2> QED BY <2>1, <2>2
<1>6. Covered'
  <2> SUFFICES ASSUME NEW n \in Objects, obj'[n] # None
               PROVE  EndOf(n)' <= size' \/ \E q \in Local : Writing(q)' /\ EndOf(n)' <= Claim(q)'
    BY DEF Covered
  <2>1. EndOf(n)' = EndOf(n) /\ obj[n] # None
    BY SameEnds
  <2>2. EndOf(n) \in Nat
    BY <2>1, SizingParts, EndNat
  <2>3. EndOf(n) <= size \/ \E q \in Local : Writing(q) /\ EndOf(n) <= Claim(q)
    BY <1>1, <2>1 DEF Measured, Covered
  <2>4. CASE EndOf(n) <= size
    BY <1>5, <2>1, <2>2, <2>4
  <2>5. ASSUME NEW q \in Local, Writing(q), EndOf(n) <= Claim(q)
        PROVE  \E r \in Local : Writing(r)' /\ EndOf(n)' <= Claim(r)'
    BY <1>3, <1>4, <2>1, <2>5, LocalAssumption
  <2> QED BY <2>3, <2>4, <2>5
<1>7. Filled'
  <2>1. CASE t = c /\ p \notin Local
    BY <1>4, <1>5, <2>1 DEF Filled
  <2>2. CASE t = s /\ Reached(s)
    <3>1. Reached(t)'
      BY <2>2, SameEnds
    <3> QED BY <1>5, <3>1 DEF Filled
  <2>3. ASSUME t = s, NEW q \in Proc \ Local, Writing(q), s <= Claim(q) PROVE Filled'
    BY <1>3, <1>4, <1>5, <2>3 DEF Filled
  <2>4. Reached(s) \/ \E q \in Proc \ Local : Writing(q) /\ s <= Claim(q)
    BY <1>1, <1>5 DEF Measured, Filled
  <2> QED BY <1>5, <2>1, <2>2, <2>3, <2>4
<1>8. Known'
  <2> SUFFICES ASSUME NEW q \in Proc \ Local, Writing(q)' PROVE Claim(q)' <= size'
    BY DEF Known
  <2>1. CASE q = p
    BY <1>4, <1>5, <2>1
  <2>2. CASE q # p
    <3>1. Claim(q) <= s /\ Claim(q) \in Nat
      BY <1>1, <1>3, <1>5, <2>2, SizingParts DEF Measured, Known, Claim
    <3> QED BY <1>3, <1>5, <2>2, <3>1
  <2> QED BY <2>1, <2>2
<1>9. \A q \in Proc : op'[q].kind = "truncate" => Shrinks(q)'
  BY <1>0 DEF Same
<1> QED BY <1>5, <1>6, <1>7, <1>8, <1>9 DEF Sized, Measured

(* A truncation or a removal begins, alone.                                *)
LEMMA CutterSized ==
  ASSUME TypeOK, size \in Nat, size <= MaxSize, NEW p \in Proc, NEW o, NEW loc, StartsAs(p, o, loc),
         o.off \in Nat, o.kind \in {"truncate", "unlink"}, ~Meets(o),
         op'[p] = o, job'[p].loc = loc, job'[p].num = ObjNum(o.off),
         \A q \in Proc : q # p => Same(q)
  PROVE  Sized'
<1>1. Writers = {}
  BY DEF Meets
<1>2. \A q \in Proc : q # p => op'[q].kind \in {"none", "read"}
  BY <1>1 DEF Writers, Same
<1>3. Cutters' # {}
  BY DEF Cutters
<1>4. size' <= MaxSize
  BY DEF StartsAs, Lock, SetSize
<1>5. o.kind = "truncate" => Shrinks(p)'
  <2> SUFFICES ASSUME o.kind = "truncate" PROVE Shrinks(p)'
    OBVIOUS
  <2>1. PICK x \in Nat : x = o.off
    OBVIOUS
  <2>2. loc = "stat" /\ (p \notin Local => size' = x)
    BY <2>1 DEF StartsAs, Lock, SetSize
  <2>3. NoneAbove(p)'
    <3>1. ObjNum(x) \in Nat
      BY Division
    <3>2. \A m \in Objects : m \in Nat
      BY TopParts
    <3> QED BY <2>1, <3>1, <3>2 DEF NoneAbove
  <2> QED BY <2>1, <2>2, <2>3, ShrinksNext
<1>6. \A q \in Proc : op'[q].kind = "truncate" => Shrinks(q)'
  BY <1>2, <1>5
<1> QED BY <1>3, <1>4, <1>6 DEF Sized

(* Beginning keeps Sized, whoever sets the size and when.                  *)
LEMMA StartSized ==
  ASSUME Sizing, NEW p \in Proc, Start(p)
  PROVE  Sized'
<1>1. TypeOK /\ size \in Nat /\ size <= MaxSize
  BY SizingParts
<1>2. PICK o, loc : Starts(p, o, loc)
  BY <1>1, StartForm
<1>3. /\ op[p] = NoOp /\ op'[p] = o /\ job'[p].loc = loc /\ job'[p].num = ObjNum(o.off)
      /\ \A q \in Proc : q # p => Same(q)
      /\ o.off \in Nat /\ o.len \in Nat /\ StartsAs(p, o, loc)
      /\ obj' = obj /\ (~torn' => ~Meets(o))
  BY <1>2 DEF Starts, Begins
<1> SUFFICES ASSUME ~torn' PROVE Sized'
  BY DEF Sized
<1>4. CASE o.kind = "read"
  <2>1. size' = size
    BY <1>3, <1>4 DEF StartsAs
  <2>2. \A q \in Proc : op'[q].kind = "truncate" => Shrinks(q)'
    BY <1>3, <1>4, <2>1, ShrinksSame
  <2>3. \A q \in Proc : op'[q] = op[q] \/ (op[q].kind \in {"none", "read"} /\ op'[q].kind \in {"none", "read"})
    BY <1>3, <1>4 DEF Same, NoOp
  <2> QED BY <1>3, <2>1, <2>2, <2>3, SizedSame
<1>5. CASE o.kind \in {"write", "append"}
  <2>1. o.off + o.len <= MaxSize /\ (Lock(p) \/ SetSize(p, Larger(size, o.off + o.len)))
    BY <1>3, <1>5 DEF StartsAs
  <2> QED BY <1>3, <1>5, <2>1, WriteSized
<1>6. CASE o.kind \in {"truncate", "unlink"}
  BY <1>1, <1>3, <1>6, CutterSized
<1>7. o.kind \in {"read", "write", "append", "truncate", "unlink"}
  BY <1>3 DEF StartsAs
<1> QED BY <1>4, <1>5, <1>6, <1>7

(* Every step of an operation keeps Sized.                                 *)
LEMMA StepSized ==
  ASSUME Sizing, NEW p \in Proc, Step(p)
  PROVE  Sized'
BY StatSized, ZeroFillSized, PutSized, CutSized, ReapSized, ReadSized DEF Step

(* Neither the objects nor the size nor the operations change.             *)
LEMMA KeptSized ==
  ASSUME Whole, CutsAlone, LocalHolds, Sized, crashes = 0, ~torn', ~uncut, linked',
         UNCHANGED <<obj, size, op, torn, linked>>, \A q \in Proc : Same(q)
  PROVE  Sized'
<1>1. Sizing
  BY DEF Sizing
<1>2. \A q \in Proc : op'[q].kind = "truncate" => Shrinks(q)'
  BY <1>1, ShrinksSame
<1> QED BY <1>1, <1>2, SizedSame

(* The size never passes its bound.                                        *)
LEMMA NextBounded ==
  ASSUME Whole, size <= MaxSize, [Next]_vars
  PROVE  size' <= MaxSize
<1>0. TypeOK /\ PlacesInv /\ size \in Nat /\ MaxSize \in Nat
  BY SizeAssumption DEF Whole, TypeOK
<1>1. ASSUME NEW p \in Proc, Finish(p), job[p].loc \in AtWork PROVE size' <= MaxSize
  <2>1. Placing(op[p], job[p]) /\ op[p].off \in Nat /\ op[p].len \in Nat
    BY <1>0, JobParts DEF PlacesInv
  <2>2. CASE op[p].kind = "truncate"
    BY <1>0, <1>1, <2>1, <2>2 DEF Finish, Placing
  <2>3. CASE op[p].kind \in {"write", "append"}
    <3>1. op[p].off + op[p].len <= MaxSize
      BY <2>1, <2>3 DEF Placing
    <3> QED BY <1>0, <1>1, <2>1, <2>3, <3>1 DEF Finish, Larger
  <2>4. CASE op[p].kind = "unlink"
    BY <1>0, <1>1, <2>4 DEF Finish
  <2>5. op[p].kind \in {"truncate", "write", "append", "unlink"}
    BY <1>1, <2>1 DEF Placing, AtWork
  <2> QED BY <2>2, <2>3, <2>4, <2>5
<1>2. ASSUME NEW p \in Proc, Start(p) PROVE size' <= MaxSize
  <2>1. PICK o, loc : Starts(p, o, loc)
    BY <1>0, <1>2, StartForm
  <2>2. StartsAs(p, o, loc) /\ o.off \in Nat /\ o.len \in Nat
    BY <2>1 DEF Starts
  <2> QED BY <1>0, <2>2 DEF StartsAs, Lock, SetSize, Larger
<1>3. ASSUME NEW p \in Proc, Step(p) PROVE size' <= MaxSize
  <2>1. CASE ReadObj(p) \/ Return(p)
    BY <2>1 DEF ReadObj, Return, fileVars
  <2>2. CASE WorksOn(p)
    BY <1>1, <2>2 DEF WorksOn, Works, fileVars
  <2> QED BY <1>3, <2>1, <2>2, WorkForm
<1>4. ASSUME NEW p \in Proc, Crash(p) PROVE size' = size
  BY <1>4 DEF Crash
<1>5. CASE LeaderCrash
  <2>1. size' \in 0 .. MaxSize
    BY <1>5, Zenon DEF LeaderCrash
  <2> QED BY <1>0, <2>1
<1>6. ASSUME NEW p \in Proc, Open(p) PROVE size' <= MaxSize
  BY <1>0, <1>6, OpenForm DEF Opens
<1>7. UNCHANGED vars => size' = size
  BY DEF vars, fileVars
<1> QED BY <1>2, <1>3, <1>4, <1>5, <1>6, <1>7 DEF Next

(* Sized is inductive, for all clients.                                    *)
LEMMA NextSized ==
  ASSUME Whole, CutsAlone, LocalHolds, Sized, size <= MaxSize, [Next]_vars
  PROVE  Sized'
<1> SUFFICES ASSUME crashes' = 0, ~torn', ~uncut', linked' PROVE Sized'
  BY DEF Sized
<1>0. TypeOK /\ crashes = 0
  BY CrashesStay DEF Whole
<1>1. ~LeaderCrash /\ \A p \in Proc : ~Crash(p)
  BY <1>0 DEF LeaderCrash, Crash, TypeOK
<1>2. ASSUME NEW p \in Proc, Start(p) PROVE Sized'
  <2>1. PICK o, loc : Starts(p, o, loc)
    BY <1>0, <1>2, StartForm
  <2>2. ~torn /\ Begin(p, o, loc)
    BY <2>1 DEF Starts, Begins
  <2>3. linked /\ (uncut => o.kind = "truncate")
    BY <2>2, Zenon DEF Begin
  <2>4. CASE ~uncut
    BY <1>0, <1>2, <2>2, <2>3, <2>4, StartSized DEF Sizing
  <2>5. CASE o.kind = "truncate"
    <3>1. /\ op'[p] = o /\ job'[p].loc = loc /\ job'[p].num = ObjNum(o.off)
          /\ \A q \in Proc : q # p => Same(q)
          /\ o.off \in Nat /\ StartsAs(p, o, loc) /\ ~Meets(o)
      BY <2>1 DEF Starts, Begins
    <3>2. size \in Nat
      BY <1>0 DEF TypeOK
    <3> QED BY <1>0, <2>5, <3>1, <3>2, CutterSized
  <2> QED BY <2>3, <2>4, <2>5
<1>3. ASSUME NEW p \in Proc, Step(p) PROVE Sized'
  <2>1. ~torn /\ ~uncut /\ linked
    <3>1. CASE ReadObj(p) \/ Return(p)
      <4>1. torn' = torn /\ uncut' = uncut /\ linked' = linked
        BY <3>1 DEF ReadObj, Return, fileVars
      <4> QED BY <4>1
    <3>2. CASE WorksOn(p)
      <4>1. torn' = torn /\ uncut' = uncut /\ (Finish(p) \/ UNCHANGED fileVars)
        BY <3>2 DEF WorksOn, Works
      <4>2. Finish(p) => linked
        BY Zenon DEF Finish
      <4> QED BY <4>1, <4>2 DEF fileVars
    <3> QED BY <1>3, <3>1, <3>2, WorkForm
  <2> QED BY <1>0, <1>3, <2>1, StepSized DEF Sizing
<1>4. CASE UNCHANGED vars
  <2>1. /\ UNCHANGED <<obj, size, op, torn, uncut, linked>>
        /\ \A q \in Proc : Same(q)
    BY <1>4 DEF vars, fileVars, Same
  <2> QED BY <1>0, <2>1, KeptSized
<1>5. ASSUME NEW p \in Proc, Open(p) PROVE Sized'
  <2>1. Opens /\ ~uncut /\ size = 0
    BY <1>5, OpenForm
  <2>2. /\ UNCHANGED <<obj, size, op, torn, linked>> /\ ~uncut
        /\ \A q \in Proc : Same(q)
    BY <2>1 DEF Opens, Same
  <2> QED BY <1>0, <2>2, KeptSized
<1> QED BY <1>1, <1>2, <1>3, <1>4, <1>5 DEF Next

(* It holds of the empty file.                                             *)
LEMMA InitSized == Init => Sized
<1> SUFFICES ASSUME Init PROVE Sized
  OBVIOUS
<1>1. size = 0 /\ (\A n \in Objects : obj[n] = None) /\ \A p \in Proc : op[p].kind = "none"
  BY DEF Init, NoOp
<1>2. Covered /\ Filled /\ Known
  BY <1>1, ReachedZero DEF Covered, Filled, Known, Writing
<1>3. size <= MaxSize
  BY <1>1, SizeAssumption
<1> QED BY <1>1, <1>2, <1>3 DEF Sized, Measured

(***************************************************************************)
(* The size in the inode is the length of the data once nobody changes it, *)
(* for clients and threads of the leader alike: rpc_write and rpc_truncate *)
(* set it before the client works on the objects, the leader's own         *)
(* operations after, and neither is left wrong by the other unless a client*)
(* dies or a truncation or removal overlaps another change; or an open     *)
(* with O_TRUNC, which cuts no data, has set it to 0, until a truncation   *)
(* has cut the data too.                                                   *)
(***************************************************************************)
THEOREM SizeIsKept == Spec => []SizeIsLength
<1> DEFINE Inv == IInv /\ PlaceKnown /\ Whole /\ Sized /\ size <= MaxSize
<1>1. Init => Inv
  <2>1. Init => size <= MaxSize
    BY SizeAssumption DEF Init
  <2> QED BY <2>1, InitInv, InitWhole, InitSized
<1>2. Inv /\ [Next]_vars => Inv'
  BY NextInv, NextWhole, NextSized, NextBounded DEF IInv
<1>3. Inv => SizeIsLength
  <2> SUFFICES ASSUME Inv, Writers = {}, linked, crashes = 0, ~torn, ~uncut PROVE size = Len(Contents)
    BY DEF SizeIsLength
  <2>1. TypeOK /\ Fits /\ size \in Nat
    BY DEF Whole, PlacesInv, TypeOK
  <2>2. \A p \in Proc : op[p].kind \in {"none", "read"}
    BY DEF Writers
  <2>3. Cutters = {} /\ \A p \in Proc : ~Writing(p)
    BY <2>2 DEF Cutters, Writing
  <2>4. Covered /\ Filled
    BY <2>3 DEF Sized, Measured
  <2>5. Reached(size) /\ Under(size)
    BY <2>3, <2>4, LocalAssumption DEF Covered, Filled, Under
  <2> QED BY <2>1, <2>5, LengthIs
<1> QED
  BY <1>1, <1>2, <1>3, PTL DEF Spec

============================================================================
